---------------------------- MODULE SubagentRuns ----------------------------
(***************************************************************************)
(* The subagent extension: calls of the subagent tool in the foreground or *)
(* as a background job (subagent/index.ts), the scheduler that keeps tasks *)
(* with overlapping mutation scopes apart (scheduler.ts), the registry of  *)
(* background jobs (jobs.ts) and the deliver tool of the child processes   *)
(* (subagent-deliver/index.ts).                                            *)
(*                                                                         *)
(* A call runs its tasks in a pool ("parallel") or one after the other     *)
(* ("chain"; a single task is a chain of one).  A path is the sequence of  *)
(* its segments; a task is the set of paths it may write below.  What a    *)
(* child prints is abstracted to how it ends.                              *)
(***************************************************************************)
EXTENDS Integers, Sequences, SequencesExt, FiniteSetsExt

CONSTANTS
  Calls,        \* calls of the subagent tool, each of them made at most once
  Plans,        \* what a call may ask for: [mode, tasks]
  Concurrency,  \* MAX_CONCURRENCY
  MaxJobs,      \* maxJobs of the BackgroundJobRegistry
  Stubborn,     \* whether a child may ignore SIGTERM
  Delivers,     \* bound: whether a child of a call delivers something
  None          \* a call that was not made, a child without a result

ASSUME SubagentAssumption ==
  /\ Concurrency \in Nat \ {0} /\ MaxJobs \in Nat \ {0} /\ {Stubborn, Delivers} \subseteq BOOLEAN
  /\ \A p \in Plans :
       p.mode \in {"parallel", "chain"} /\ p.tasks \in Seq(ToSet(p.tasks)) \ {<<>>}

\* The execution of a call.
Execution == [plan : Plans, background : BOOLEAN, active : SUBSET Nat, pending : Seq(Nat),
              state : {"running", "throwing", "ended"}, aborted : BOOLEAN]

ASSUME NoneAssumption == None \notin Execution

VARIABLES
  calls,     \* the execution of each call
  children,  \* the child process of each task: state and result
  running,   \* jobs of the registry that run
  finished,  \* jobs of the registry that ended, in that order: id and status
  told,      \* messages of jobs that came to the main session
  enabled,   \* deliveryEnabled
  sent       \* deliver calls of children

vars == <<calls, children, running, finished, told, enabled, sent>>

Made      == {c \in Calls : calls[c] # None}
Tasks(c)  == DOMAIN calls[c].plan.tasks
Scope(c, i) == calls[c].plan.tasks[i]
Procs     == {"running", "termed"}   \* states of a child whose process lives

\* scopesOverlap: equal, or one below the other.  "/" ends in a slash already
\* and is below or above nothing.
Below(p, q) == q # <<>> /\ IsPrefix(q, p)
ScopesOverlap(left, right) == \E p \in left, q \in right : p = q \/ Below(p, q) \/ Below(q, p)

\* Mutation of Limit: all tasks at once.
LimitAll(plan) == IF plan.mode = "chain" THEN 1 ELSE Len(plan.tasks)

Limit(plan) == IF plan.mode = "chain" THEN 1 ELSE Min({Concurrency, Len(plan.tasks)})

\* What stands in the way of starting task i beside the active ones.
Blocked(plan, active, i) == \E j \in active : ScopesOverlap(plan.tasks[i], plan.tasks[j])

\* Mutation of Filling: a task is compared with those of earlier rounds only.
FillingStale(call) ==
  LET after[n \in 0..Len(call.pending)] ==
        IF n = 0 THEN [call EXCEPT !.pending = <<>>]
        ELSE LET before == after[n - 1]
                 i      == call.pending[n]
             IN  IF Cardinality(before.active) < Limit(call.plan) /\ ~Blocked(call.plan, call.active, i)
                   THEN [before EXCEPT !.active = @ \cup {i}]
                   ELSE [before EXCEPT !.pending = Append(@, i)]
  IN  after[Len(call.pending)]

\* The inner loop of mapWithScopedConcurrency: pending tasks that overlap with
\* no active one are started, in their order, up to the limit; the others stay.
Filling(call) ==
  LET after[n \in 0..Len(call.pending)] ==
        IF n = 0 THEN [call EXCEPT !.pending = <<>>]
        ELSE LET before == after[n - 1]
                 i      == call.pending[n]
             IN  IF Cardinality(before.active) < Limit(call.plan) /\ ~Blocked(call.plan, before.active, i)
                   THEN [before EXCEPT !.active = @ \cup {i}]
                   ELSE [before EXCEPT !.pending = Append(@, i)]
  IN  after[Len(call.pending)]

\* Mutation of Pruned: the oldest job goes, running or not.
PrunedAny(run, fin) ==
  IF Cardinality(run) + Len(fin) <= MaxJobs THEN [run |-> run, fin |-> fin]
  ELSE [run |-> run \ {CHOOSE c \in run : TRUE}, fin |-> fin]

\* prune: the jobs that finished first go, running ones stay.
Pruned(run, fin) ==
  LET over == Max({0, Cardinality(run) + Len(fin) - MaxJobs})
  IN [run |-> run, fin |-> SubSeq(fin, Min({over, Len(fin)}) + 1, Len(fin))]

Registry(reg) == running' = reg.run /\ finished' = reg.fin

StatusOf(c, fin) == {f.status : f \in {g \in ToSet(fin) : g.id = c}}

\* The tool is called; a background job is registered and returns at once.
Call(c) ==
  /\ enabled /\ calls[c] = None
  /\ \E plan \in Plans, background \in BOOLEAN :
       /\ calls' = [calls EXCEPT ![c] =
            Filling([plan |-> plan, background |-> background, active |-> {},
                     pending |-> [i \in DOMAIN plan.tasks |-> i],
                     state |-> "running", aborted |-> FALSE])]
       /\ children' = [children EXCEPT ![c] =
            [i \in DOMAIN plan.tasks |-> [state |-> "new", result |-> None]]]
       /\ IF background THEN Registry(Pruned(running \cup {c}, finished))
          ELSE UNCHANGED <<running, finished>>
  /\ UNCHANGED <<told, enabled, sent>>

\* runSingleAgent spawns pi, after the files it reads and writes first; when
\* the call was aborted meanwhile the child is told to end at once.
Spawn(c, i) ==
  /\ i \in calls[c].active /\ children[c][i].state = "new"
  /\ children' = [children EXCEPT ![c][i].state = IF calls[c].aborted THEN "termed" ELSE "running"]
  /\ UNCHANGED <<calls, running, finished, told, enabled, sent>>

\* The job of a call gets its status, and the main session is told of it when
\* the registry still knows the job.
JobEnds(c, status) ==
  LET fin == IF c \in running THEN Append(finished, [id |-> c, status |-> status]) ELSE finished
  IN /\ running' = running \ {c}
     /\ finished' = fin
     /\ told' = told \cup
          IF enabled THEN {[id |-> c, status |-> s] : s \in StatusOf(c, fin)} ELSE {}

\* A call that threw failed or was cancelled, a chain that stopped failed; a
\* pool completes however its tasks ended.
Status(call, result) ==
  IF call.state = "throwing" THEN IF call.aborted THEN "cancelled" ELSE "failed"
  ELSE IF call.plan.mode = "chain" /\ result = "failed" THEN "failed" ELSE "completed"

\* The call goes on, or ends when nothing of it is active any more.
Continues(c, call, status) ==
  IF call.active # {}
    THEN calls' = [calls EXCEPT ![c] = call] /\ UNCHANGED <<running, finished, told>>
    ELSE /\ calls' = [calls EXCEPT ![c] = [call EXCEPT !.state = "ended"]]
         /\ IF call.background THEN JobEnds(c, status) ELSE UNCHANGED <<running, finished, told>>

\* Mutation of Settled: a failed task keeps its place in the pool.
SettledKeeping(call, i, result) ==
  IF result = "aborted" THEN [call EXCEPT !.state = "throwing", !.active = @ \ {i}]
  ELSE IF call.state = "throwing" THEN [call EXCEPT !.active = @ \ {i}]
  ELSE IF call.plan.mode = "chain" /\ result = "failed"
       THEN [call EXCEPT !.active = {}, !.pending = <<>>]
  ELSE Filling([call EXCEPT !.active = IF result = "failed" THEN @ ELSE @ \ {i}])

\* The promise of a task settles and leaves the pool.  A rejection, of a task
\* that was aborted, lets the active ones settle and starts no more; a chain
\* stops at a step that failed; a pool goes on.
Settled(call, i, result) ==
  IF result = "aborted" THEN [call EXCEPT !.state = "throwing", !.active = @ \ {i}]
  ELSE IF call.state = "throwing" THEN [call EXCEPT !.active = @ \ {i}]
  ELSE IF call.plan.mode = "chain" /\ result = "failed"
       THEN [call EXCEPT !.active = {}, !.pending = <<>>]
  ELSE Filling([call EXCEPT !.active = @ \ {i}])

Settles(c, i, result) ==
  /\ children' = [children EXCEPT ![c][i] = [state |-> "gone", result |-> result]]
  /\ LET call == Settled(calls[c], i, result) IN Continues(c, call, Status(call, result))
  /\ UNCHANGED <<enabled, sent>>

\* The agent is unknown, or spawning fails, which an aborted call takes for
\* the end of an aborted child.
SpawnFails(c, i) ==
  /\ i \in calls[c].active /\ children[c][i].state = "new"
  /\ \E result \in {"failed"} \cup IF calls[c].aborted THEN {"aborted"} ELSE {} : Settles(c, i, result)

\* The child ends by itself, or because it was told to.
Exit(c, i) ==
  \/ /\ children[c][i].state = "running"
     /\ \E result \in {"ok", "failed"} : Settles(c, i, result)
  \/ children[c][i].state = "termed" /\ Settles(c, i, "aborted")

\* killProc: SIGTERM to the child of every task of an aborted call.  The later
\* SIGKILL never comes: proc.killed says that a signal was sent.
Termed(aborted) ==
  [c \in Calls |-> IF c \notin aborted THEN children[c]
                   ELSE [i \in DOMAIN children[c] |->
                          IF children[c][i].state = "running"
                          THEN [children[c][i] EXCEPT !.state = "termed"] ELSE children[c][i]]]
Aborted(aborted) ==
  [c \in Calls |-> IF c \in aborted THEN [calls[c] EXCEPT !.aborted = TRUE] ELSE calls[c]]

\* The user aborts a call that runs in the foreground.
Abort(c) ==
  /\ c \in Made /\ ~calls[c].background /\ calls[c].state # "ended" /\ ~calls[c].aborted
  /\ calls' = Aborted({c}) /\ children' = Termed({c})
  /\ UNCHANGED <<running, finished, told, enabled, sent>>

\* cancel: the job is cancelled from now on, while its children end.
Cancelled(jobs) ==
  LET ended == [k \in 1..Cardinality(jobs) |-> [id |-> SetToSeq(jobs)[k], status |-> "cancelled"]]
  IN  Pruned(running \ jobs, finished \o ended)

\* subagent_cancel.
Cancel(c) ==
  /\ c \in running
  /\ Registry(Cancelled({c}))
  /\ calls' = Aborted({c}) /\ children' = Termed({c})
  /\ UNCHANGED <<told, enabled, sent>>

\* session_shutdown: no more messages, and all jobs are cancelled.
Shutdown ==
  /\ enabled /\ enabled' = FALSE
  /\ Registry(Cancelled(running))
  /\ calls' = Aborted(running) /\ children' = Termed(running)
  /\ UNCHANGED <<told, sent>>

\* PI_SUBAGENT_SPOOL of a child: spawn gets no env, so that its environment is
\* that of the main process, where nobody sets it.
Spool(c, i) == None

\* A child calls deliver, which writes into the spool of its environment.
Deliver(c, i) ==
  /\ Delivers /\ children[c][i].state = "running" /\ \A d \in sent : d.call # c
  /\ sent' = sent \cup {[call |-> c, task |-> i, spool |-> Spool(c, i)]}
  /\ UNCHANGED <<calls, children, running, finished, told, enabled>>

Init ==
  /\ calls = [c \in Calls |-> None] /\ children = [c \in Calls |-> <<>>]
  /\ running = {} /\ finished = <<>> /\ told = {} /\ enabled = TRUE /\ sent = {}

Next ==
  \/ \E c \in Calls : Call(c) \/ Abort(c) \/ Cancel(c)
  \/ \E c \in Made : \E i \in Tasks(c) :
       Spawn(c, i) \/ SpawnFails(c, i) \/ Exit(c, i) \/ Deliver(c, i)
  \/ Shutdown

Spec == Init /\ [][Next]_vars

\* Children start and end; one that was told to end does, unless it
\* is stubborn.
Fairness ==
  \A c \in Calls : \A i \in 1..Max({Len(p.tasks) : p \in Plans}) :
    /\ WF_vars(c \in Made /\ i \in Tasks(c) /\ (Spawn(c, i) \/ SpawnFails(c, i)))
    /\ WF_vars(/\ c \in Made /\ i \in Tasks(c)
               /\ (Stubborn => children[c][i].state # "termed") /\ Exit(c, i))

FairSpec == Spec /\ Fairness

=============================================================================
