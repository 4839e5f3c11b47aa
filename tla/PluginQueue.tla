---------------------------- MODULE PluginQueue ----------------------------
(***************************************************************************)
(* The AstrBot plugin: the queues of one FIFO per alias                    *)
(* (astrbot_plugin_kipsel/queueing.py), the worker task of each alias, the *)
(* sweeper and the commands that change them (main.py), and the calls of   *)
(* its client (client.py) to a controller of which the status of each job  *)
(* and whether the session of an alias runs is kept (JobLifecycle).        *)
(*                                                                         *)
(* A coroutine is one step from one await to the next.  Jobs are numbered  *)
(* in the order they are queued.  Of time there is only whether a job is   *)
(* older than the ttl.  A message to the user counts as told when          *)
(* send_message is called.                                                 *)
(***************************************************************************)
EXTENDS Integers, Sequences, SequencesExt, FiniteSetsExt

CONSTANTS
  Aliases,      \* session aliases
  None,         \* no worker, no job, no command under way
  MaxPerAlias,  \* max_per_alias
  MaxRetries,   \* MAX_RETRIES
  MaxJobs,      \* bound: jobs ever queued
  MaxCommands,  \* bound: cancel, stop, start and terminate commands
  MaxFaults     \* bound: calls that fail

ASSUME BoundsAssumption ==
  /\ {MaxPerAlias, MaxRetries} \subseteq Nat \ {0}
  /\ {MaxJobs, MaxCommands, MaxFaults} \subseteq Nat

Settled  == {"completed", "failed", "cancelled"}
Statuses == {"queued", "running"} \cup Settled
Worker   == [pc : {"start", "expired", "submit", "submitted", "wait"} \cup Settled,
             job : 1..MaxJobs \cup {None}, tell : SUBSET (1..MaxJobs),
             attempts : 0..(MaxRetries - 1)]

ASSUME NoneAssumption == None \notin 1..MaxJobs /\ None \notin Statuses /\ None \notin Worker

VARIABLES
  jobs,      \* the QueuedJob objects
  queues,    \* _queues
  active,    \* _active
  known,     \* _known_ids
  workers,   \* _workers and where each task is
  sweep,     \* jobs the sweeper is telling of
  cancel,    \* _cmd_cancel under way
  stop,      \* forced _cmd_stop of each alias
  plugin,    \* "up", "ending" from terminate() on, "ended" after clear()
  posts,     \* submissions on their way to the controller
  ctl,       \* status of each job at the controller
  session,   \* status of each alias at the controller
  commands,  \* commands so far
  faults     \* faults so far

queueVars == <<jobs, queues, active, known>>
remote    == <<posts, ctl, session>>
vars      == <<queueVars, workers, sweep, cancel, stop, plugin, remote, commands, faults>>

All        == 0   \* the selector "all"
Ids        == DOMAIN jobs
OfAlias(a) == {j \in Ids : jobs[j].alias = a}
Waiting    == UNION {ToSet(queues[a]) : a \in Aliases}

NoFault   == UNCHANGED faults
Fault     == faults < MaxFaults /\ faults' = faults + 1
NoCommand == UNCHANGED commands
Command   == commands < MaxCommands /\ commands' = commands + 1

Released(job)    == [job EXCEPT !.input = FALSE]
ReleasedAll(job) == [job EXCEPT !.input = FALSE, !.origin = FALSE]

\* _notify: a job without an origin is not told of.
Told(job, outcome) == IF job.origin THEN [job EXCEPT !.told = Append(@, outcome)] ELSE job
TellAll(set, outcome) ==
  jobs' = [j \in Ids |-> IF j \in set THEN Told(jobs[j], outcome) ELSE jobs[j]]

-----------------------------------------------------------------------------
(* MemoryJobQueues.                                                        *)

\* _cmd_ask behind its checks of the session, which may be out of date.
Enqueue(a) ==
  LET j == Len(jobs) + 1
  IN  /\ j <= MaxJobs /\ Len(queues[a]) < MaxPerAlias
      /\ jobs' = Append(jobs, [alias |-> a, input |-> TRUE, origin |-> TRUE, cancel |-> FALSE,
                               aged |-> FALSE, told |-> <<>>])
      /\ queues' = [queues EXCEPT ![a] = Append(@, j)]
      /\ known' = known \cup {j}
      /\ ctl' = Append(ctl, None)
      /\ workers' = IF plugin = "up" /\ workers[a] = None
                      THEN [workers EXCEPT ![a] =
                              [pc |-> "start", job |-> None, tell |-> {}, attempts |-> 0]]
                      ELSE workers
      /\ NoFault /\ NoCommand
      /\ UNCHANGED <<active, sweep, cancel, stop, plugin, posts, session>>

\* Jobs grow older in the order they came.
Ages(j) ==
  /\ j \in Waiting \cup {active[a] : a \in Aliases} /\ ~jobs[j].aged
  /\ \A k \in 1..(j - 1) : k \in Waiting => jobs[k].aged
  /\ jobs' = [jobs EXCEPT ![j].aged = TRUE]
  /\ NoFault /\ NoCommand
  /\ UNCHANGED <<queues, active, known, workers, sweep, cancel, stop, plugin, remote>>

\* The leading jobs of a queue that take_next drops.
Expired(q) == LET fresh == {i \in DOMAIN q : ~jobs[q[i]].aged}
              IN  IF fresh = {} THEN q ELSE SubSeq(q, 1, Min(fresh) - 1)

\* q without the jobs in set.
Without(q, set) ==
  LET kept[i \in 0..Len(q)] ==
        IF i = 0 THEN <<>> ELSE IF q[i] \in set THEN kept[i - 1] ELSE Append(kept[i - 1], q[i])
  IN  kept[Len(q)]

\* How expire_waiting and cancel_queued take jobs out of the queues.
Removed(set) ==
  /\ queues' = [a \in Aliases |-> Without(queues[a], set)]
  /\ known' = known \ set

-----------------------------------------------------------------------------
(* The worker of an alias.                                                 *)

AtPc(a, pc)   == plugin = "up" /\ workers[a] # None /\ workers[a].pc = pc
Goes(a, pc)   == workers' = [workers EXCEPT ![a].pc = pc]
Working(j)    == [pc |-> "submit", job |-> j, tell |-> {}, attempts |-> 0]

\* One turn of the loop in _worker, with take_next up to the first await;
\* js and ids are the jobs and the known ids it finds.
Turn(a, js, ids) ==
  LET q       == queues[a]
      expired == ToSet(Expired(q))
      k       == Len(Expired(q)) + 1
      job     == IF k <= Len(q) THEN q[k] ELSE None
  IN  /\ queues' = [queues EXCEPT ![a] = SubSeq(q, k + 1, Len(q))]
      /\ active' = [active EXCEPT ![a] = job]
      /\ jobs' = [j \in Ids |-> IF j \in expired THEN Released(js[j]) ELSE js[j]]
      /\ known' = ids \ expired
      /\ workers' = [workers EXCEPT ![a] =
           IF expired # {} THEN [pc |-> "expired", job |-> job, tell |-> expired, attempts |-> 0]
           ELSE IF job # None THEN Working(job) ELSE None]

Starts(a) ==
  /\ AtPc(a, "start")
  /\ Turn(a, jobs, known)
  /\ NoFault /\ NoCommand
  /\ UNCHANGED <<sweep, cancel, stop, plugin, remote>>

\* The expired jobs are told of, and the job that was taken with them, if
\* there is one, is run; otherwise the worker ends.
TellsExpired(a) ==
  /\ AtPc(a, "expired")
  /\ TellAll(workers[a].tell, "expired")
  /\ workers' = [workers EXCEPT ![a] = IF @.job = None THEN None ELSE Working(@.job)]
  /\ NoFault /\ NoCommand
  /\ UNCHANGED <<queues, active, known, sweep, cancel, stop, plugin, remote>>

\* Mutation of Submits: the input is released with the first attempt.
SubmitsReleasing(a) ==
  /\ AtPc(a, "submit")
  /\ posts' = posts \cup {[job |-> workers[a].job, input |-> jobs[workers[a].job].input]}
  /\ Goes(a, "submitted")
  /\ jobs' = [jobs EXCEPT ![workers[a].job] = Released(@)]
  /\ NoFault /\ NoCommand
  /\ UNCHANGED <<queues, active, known, sweep, cancel, stop, plugin, ctl, session>>

Submits(a) ==
  /\ AtPc(a, "submit")
  /\ posts' = posts \cup {[job |-> workers[a].job, input |-> jobs[workers[a].job].input]}
  /\ Goes(a, "submitted")
  /\ NoFault /\ NoCommand
  /\ UNCHANGED <<queueVars, sweep, cancel, stop, plugin, ctl, session>>

PostOf(a) == {p \in posts : p.job = workers[a].job}

\* POST /v1/jobs and its answer; a session that is stopping still takes jobs.
SubmitAnswered(a) ==
  /\ AtPc(a, "submitted") /\ PostOf(a) # {}
  /\ posts' = posts \ PostOf(a)
  /\ \/ /\ session[a] # "down"
        /\ ctl' = [ctl EXCEPT ![workers[a].job] = IF @ = None THEN "queued" ELSE @]
        /\ jobs' = [jobs EXCEPT ![workers[a].job] = Released(@)]
        /\ workers' = [workers EXCEPT ![a].pc = "wait", ![a].attempts = 0]
     \/ /\ session[a] = "down"
        /\ Goes(a, "failed")
        /\ UNCHANGED <<ctl, jobs>>
  /\ NoFault /\ NoCommand
  /\ UNCHANGED <<queues, active, known, sweep, cancel, stop, plugin, session>>

\* The submission that a worker has given up reaches the controller.
LatePost(p) ==
  /\ p \in posts
  /\ \A a \in Aliases : workers[a] # None /\ workers[a].job = p.job => workers[a].pc # "submitted"
  /\ posts' = posts \ {p}
  /\ ctl' = IF session[jobs[p.job].alias] # "down" /\ ctl[p.job] = None
              THEN [ctl EXCEPT ![p.job] = "queued"] ELSE ctl
  /\ NoFault /\ NoCommand
  /\ UNCHANGED <<queueVars, workers, sweep, cancel, stop, plugin, session>>

\* An error, before or after the controller took the job; only some, like
\* controller-unavailable, are retried.
SubmitFails(a) ==
  LET w == workers[a]
  IN  /\ AtPc(a, "submitted") /\ Fault
      /\ \/ /\ w.attempts + 1 < MaxRetries /\ ~jobs[w.job].cancel /\ ~jobs[w.job].aged
            /\ workers' = [workers EXCEPT ![a].attempts = @ + 1, ![a].pc = "submit"]
         \/ Goes(a, "failed")
      /\ \/ UNCHANGED posts \/ posts' = posts \ PostOf(a)
      /\ NoCommand
      /\ UNCHANGED <<queueVars, sweep, cancel, stop, plugin, ctl, session>>

\* wait_for_job returns a settled job.
WaitAnswered(a) ==
  /\ AtPc(a, "wait") /\ ctl[workers[a].job] \in Settled
  /\ Goes(a, ctl[workers[a].job])
  /\ NoFault /\ NoCommand
  /\ UNCHANGED <<queueVars, sweep, cancel, stop, plugin, remote>>

\* Its deadline of max_job_wait_minutes is over.
WaitTimesOut(a) ==
  /\ AtPc(a, "wait") /\ Goes(a, "failed")
  /\ NoFault /\ NoCommand
  /\ UNCHANGED <<queueVars, sweep, cancel, stop, plugin, remote>>

WaitFails(a) ==
  /\ AtPc(a, "wait") /\ Fault
  /\ \/ /\ workers[a].attempts + 1 < MaxRetries
        /\ workers' = [workers EXCEPT ![a].attempts = @ + 1]
     \/ Goes(a, "failed")
  /\ NoCommand
  /\ UNCHANGED <<queueVars, sweep, cancel, stop, plugin, remote>>

\* The user is told of the outcome, the job is finished, and the loop turns.
Ends(a, outcome) ==
  LET j == workers[a].job
  IN  /\ AtPc(a, outcome)
      /\ Turn(a, [jobs EXCEPT ![j] = ReleasedAll(Told(@, outcome))], known \ {j})
      /\ NoFault /\ NoCommand
      /\ UNCHANGED <<sweep, cancel, stop, plugin, remote>>

Works(a) ==
  \/ Starts(a) \/ TellsExpired(a)
  \/ Submits(a) \/ SubmitAnswered(a)
  \/ WaitAnswered(a) \/ WaitTimesOut(a)
  \/ \E outcome \in Settled : Ends(a, outcome)

-----------------------------------------------------------------------------
(* The sweeper and the commands.                                           *)

\* Mutation of Sweeps: nobody is told of the jobs.
SweepsSilent ==
  LET old == {j \in Waiting : jobs[j].aged}
  IN  /\ plugin = "up" /\ sweep = {} /\ old # {}
      /\ Removed(old)
      /\ jobs' = [j \in Ids |-> IF j \in old THEN Released(jobs[j]) ELSE jobs[j]]
      /\ NoFault /\ NoCommand
      /\ UNCHANGED <<active, workers, sweep, cancel, stop, plugin, remote>>

\* Mutation of Sweeps: the jobs stay where they are.
SweepsKeeping ==
  LET old == {j \in Waiting : jobs[j].aged}
  IN  /\ plugin = "up" /\ sweep = {} /\ old # {}
      /\ sweep' = old
      /\ NoFault /\ NoCommand
      /\ UNCHANGED <<queueVars, workers, cancel, stop, plugin, remote>>

\* A minute is over: expire_waiting.
Sweeps ==
  LET old == {j \in Waiting : jobs[j].aged}
  IN  /\ plugin = "up" /\ sweep = {} /\ old # {}
      /\ Removed(old)
      /\ jobs' = [j \in Ids |-> IF j \in old THEN Released(jobs[j]) ELSE jobs[j]]
      /\ sweep' = old
      /\ NoFault /\ NoCommand
      /\ UNCHANGED <<active, workers, cancel, stop, plugin, remote>>

SweepTells ==
  /\ plugin = "up" /\ sweep # {}
  /\ TellAll(sweep, "expired")
  /\ sweep' = {}
  /\ NoFault /\ NoCommand
  /\ UNCHANGED <<queues, active, known, workers, cancel, stop, plugin, remote>>

CancelQueued(set) ==
  /\ Removed(set)
  /\ jobs' = [j \in Ids |->
       IF j \in set THEN [Released(jobs[j]) EXCEPT !.cancel = TRUE] ELSE jobs[j]]

\* _cmd_cancel of the jobs in selected: one job, or all of the alias.
CancelCommand(a, selected) ==
  LET set == IF selected = All THEN ToSet(queues[a]) ELSE ToSet(queues[a]) \cap {selected}
  IN  /\ cancel = None /\ Command
      /\ CancelQueued(set)
      /\ cancel' = [alias |-> a, selected |-> selected, tell |-> set, target |-> None]
      /\ NoFault
      /\ UNCHANGED <<active, workers, sweep, stop, plugin, remote>>

\* The cancelled jobs are told of; then the active job is looked at.
CancelTells ==
  LET j == active[cancel.alias]
  IN  /\ cancel # None /\ cancel.target = None
      /\ TellAll(cancel.tell, "cancelled")
      /\ cancel' = IF j # None /\ cancel.selected \in {All, j}
                     THEN [cancel EXCEPT !.target = j] ELSE None
      /\ NoFault /\ NoCommand
      /\ UNCHANGED <<queues, active, known, workers, sweep, stop, plugin, remote>>

\* POST /v1/jobs/cancel: a job the controller does not have, and a call that
\* fails, leave everything as it is.
CancelReaches ==
  /\ cancel # None /\ cancel.target # None
  /\ \/ /\ ctl[cancel.target] \in {"queued", "running"}
        /\ ctl' = [ctl EXCEPT ![cancel.target] = "cancelled"] /\ NoFault
     \/ ctl[cancel.target] \notin {"queued", "running"} /\ UNCHANGED ctl /\ NoFault
     \/ Fault /\ UNCHANGED ctl
  /\ cancel' = None
  /\ NoCommand
  /\ UNCHANGED <<queueVars, workers, sweep, stop, plugin, posts, session>>

\* _cmd_stop with force: the controller cancels what it has of the alias.
StopCommand(a) ==
  /\ session[a] = "live" /\ stop[a] = None /\ Command
  /\ session' = [session EXCEPT ![a] = "stopping"]
  /\ ctl' = [j \in Ids |->
       IF j \in OfAlias(a) /\ ctl[j] \in {"queued", "running"} THEN "cancelled" ELSE ctl[j]]
  /\ stop' = [stop EXCEPT ![a] = {}]
  /\ NoFault
  /\ UNCHANGED <<queueVars, workers, sweep, cancel, plugin, posts>>

\* The session has stopped; the jobs in the queue are cancelled.
StopReturns(a) ==
  /\ stop[a] # None /\ session[a] = "stopping"
  /\ session' = [session EXCEPT ![a] = "down"]
  /\ CancelQueued(ToSet(queues[a]))
  /\ stop' = [stop EXCEPT ![a] = ToSet(queues[a])]
  /\ NoFault /\ NoCommand
  /\ UNCHANGED <<active, workers, sweep, cancel, plugin, posts, ctl>>

\* The jobs that were cancelled with it are told of.
StopTells(a) ==
  /\ stop[a] # None /\ session[a] # "stopping"
  /\ TellAll(stop[a], "cancelled")
  /\ stop' = [stop EXCEPT ![a] = None]
  /\ NoFault /\ NoCommand
  /\ UNCHANGED <<queues, active, known, workers, sweep, cancel, plugin, remote>>

\* terminate cancels the tasks.
Terminate ==
  /\ plugin = "up" /\ Command
  /\ plugin' = "ending" /\ sweep' = {}
  /\ NoFault
  /\ UNCHANGED <<queueVars, workers, cancel, stop, remote>>

\* CancelledError in a worker; one that runs a job finishes it.
Cancelled(a) ==
  LET w == workers[a]
  IN  /\ plugin = "ending" /\ w # None
      /\ IF w.pc \in {"start", "expired"}
           THEN UNCHANGED queueVars
           ELSE /\ active' = [active EXCEPT ![a] = None]
                /\ known' = known \ {w.job}
                /\ jobs' = [jobs EXCEPT ![w.job] = ReleasedAll(@)]
                /\ UNCHANGED queues
      /\ workers' = [workers EXCEPT ![a] = None]
      /\ NoFault /\ NoCommand
      /\ UNCHANGED <<sweep, cancel, stop, plugin, remote>>

\* clear, when every task is done.
Clears ==
  LET held == Waiting \cup ({active[a] : a \in Aliases} \ {None})
  IN  /\ plugin = "ending" /\ \A a \in Aliases : workers[a] = None
      /\ jobs' = [j \in Ids |->
           IF j \in held THEN [ReleasedAll(jobs[j]) EXCEPT !.cancel = TRUE] ELSE jobs[j]]
      /\ queues' = [a \in Aliases |-> <<>>] /\ active' = [a \in Aliases |-> None] /\ known' = {}
      /\ plugin' = "ended"
      /\ NoFault /\ NoCommand
      /\ UNCHANGED <<workers, sweep, cancel, stop, remote>>

-----------------------------------------------------------------------------
(* The controller and its sessions, as the plugin sees them.               *)

JobStarts(j) ==
  /\ j \in Ids /\ ctl[j] = "queued" /\ session[jobs[j].alias] # "down"
  /\ \A k \in OfAlias(jobs[j].alias) : ctl[k] # "running"
  /\ ctl' = [ctl EXCEPT ![j] = "running"]
  /\ NoFault /\ NoCommand
  /\ UNCHANGED <<queueVars, workers, sweep, cancel, stop, plugin, posts, session>>

JobSettles(j) ==
  /\ j \in Ids /\ ctl[j] = "running"
  /\ \E status \in {"completed", "failed"} : ctl' = [ctl EXCEPT ![j] = status]
  /\ NoFault /\ NoCommand
  /\ UNCHANGED <<queueVars, workers, sweep, cancel, stop, plugin, posts, session>>

\* _cmd_start, when the session is down.
StartCommand(a) ==
  /\ session[a] = "down" /\ Command
  /\ session' = [session EXCEPT ![a] = "live"]
  /\ NoFault
  /\ UNCHANGED <<queueVars, workers, sweep, cancel, stop, plugin, posts, ctl>>

-----------------------------------------------------------------------------
Init ==
  /\ jobs = <<>> /\ ctl = <<>>
  /\ queues = [a \in Aliases |-> <<>>] /\ active = [a \in Aliases |-> None] /\ known = {}
  /\ workers = [a \in Aliases |-> None]
  /\ sweep = {} /\ cancel = None /\ stop = [a \in Aliases |-> None] /\ plugin = "up"
  /\ posts = {} /\ session = [a \in Aliases |-> "live"]
  /\ commands = 0 /\ faults = 0

Commands ==
  \/ \E a \in Aliases : Enqueue(a) \/ StopCommand(a) \/ StartCommand(a)
  \/ \E a \in Aliases, selected \in {All} \cup Ids : CancelCommand(a, selected)
  \/ Terminate

Faults == \E a \in Aliases : SubmitFails(a) \/ WaitFails(a)

Next ==
  \/ Commands \/ Faults
  \/ \E a \in Aliases : Works(a) \/ Cancelled(a) \/ StopReturns(a) \/ StopTells(a)
  \/ \E j \in Ids : Ages(j) \/ JobStarts(j) \/ JobSettles(j)
  \/ \E p \in posts : LatePost(p)
  \/ Sweeps \/ SweepTells \/ CancelTells \/ CancelReaches \/ Clears

Spec == Init /\ [][Next]_vars

\* Tasks of a running event loop go on, the sweeper wakes up, time passes
\* for waiting jobs, and calls are answered or time out.
FairSpec ==
  /\ Spec
  /\ \A a \in Aliases : WF_vars(Works(a)) /\ WF_vars(StopReturns(a)) /\ WF_vars(StopTells(a))
  /\ WF_vars(Sweeps) /\ WF_vars(SweepTells)
  /\ WF_vars(CancelTells) /\ WF_vars(CancelReaches)
  /\ \A j \in 1..MaxJobs : WF_vars(j \in Waiting /\ Ages(j))

=============================================================================
