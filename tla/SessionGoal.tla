---------------------------- MODULE SessionGoal ----------------------------
(***************************************************************************)
(* The goal of a session (pi-fork/agent/extensions/productivity): the      *)
(* commands of the user, the update_goal tool of the model, runs of the    *)
(* agent whose tokens it counts, automatic continuation, and the snapshots *)
(* in the session file.                                                    *)
(*                                                                         *)
(* A command that waits, for an answer of the user or for the agent to be  *)
(* idle, goes on in a later step, on the goal it then finds.  A reply uses *)
(* one token.  Texts, times and the metrics are left out, and so are the   *)
(* other branches of the session (session_tree).                           *)
(***************************************************************************)
EXTENDS Integers, Sequences, SequencesExt

CONSTANTS
  MaxAuto,     \* MAX_AUTO_CONTINUATIONS (6 in the code)
  Budgets,     \* token budgets a user may set; 0 is "off"
  MaxTokens,   \* bound: tokens are not counted beyond it
  MaxGoals,    \* bound: goals set
  MaxUser,     \* bound: prompts and commands of the user
  MaxUpdates,  \* bound: calls of update_goal and llm_query
  MaxStarts,   \* bound: processes on the session
  None

GoalConstants ==
  /\ {MaxAuto, MaxTokens, MaxGoals, MaxUser, MaxUpdates, MaxStarts} \subseteq Nat
  /\ Budgets \subseteq 0..MaxTokens

VARIABLES
  goal,          \* None or the goal
  savedGoal,     \* the last snapshot in the session file
  run,           \* the agent: idle, running, tool, failed, done
  runGoalId,     \* the goal the run is counted for, None
  stopReason,    \* of the last reply of the run
  timer,         \* continuationTimer: None or the goal it is for
  queue,         \* goal turns that were sent and not started, "auto" or "asked"
  waiting,       \* commands that wait
  made,          \* goals made so far
  spent,         \* bounds: prompts and commands, updates, goals, processes
  inRow,         \* history: automatic turns since user or model last acted
  paused         \* history: has the user paused the goal and not asked for more

goalVars == <<goal, savedGoal>>
runVars  == <<run, runGoalId, stopReason>>
history  == <<inRow, paused>>
vars     == <<goal, savedGoal, run, runGoalId, stopReason, timer, queue, waiting, made, spent,
              inRow, paused>>

Statuses == {"active", "paused", "blocked", "usage_limited", "budget_limited", "complete"}
Idle     == run = "idle"
Active   == goal # None /\ goal.status = "active"
Open     == goal # None /\ goal.status # "complete"
Limit(n) == IF n > MaxTokens THEN MaxTokens ELSE n
Over(g)  == g.budget > 0 /\ g.tokens >= g.budget
With(status) == [goal EXCEPT !.status = status]

\* Commands that waited for the agent go on before any timer or input.
NoneFree == \A i \in DOMAIN waiting : waiting[i].at # "free"

\* The user acts; a command may set one more goal.
UserActs(goals) ==
  /\ NoneFree /\ spent.user < MaxUser /\ spent.goals + goals <= MaxGoals /\ inRow' = 0
  /\ spent' = [spent EXCEPT !.user = @ + 1, !.goals = @ + goals]

\* persistGoal, with what the step makes of the goal.
Becomes(g) == goal' = g /\ savedGoal' = g
Counted(g) == goal' = g /\ UNCHANGED savedGoal

NewGoal ==
  [id |-> made + 1, status |-> "active", tokens |-> 0, budget |-> 0,
   auto |-> TRUE, continuations |-> 0]

\* The history counts one turn more than is allowed, and no further.
Counting == IF inRow > MaxAuto THEN inRow ELSE inRow + 1

\* queueGoalTurn
Queued(kind) == queue' = Append(queue, kind)

\* addTokensToCurrentGoal
AddTokens(g, n) ==
  LET used == [g EXCEPT !.tokens = Limit(@ + n)]
  IN  IF n > 0 /\ used.status = "active" /\ Over(used)
      THEN [used EXCEPT !.status = "budget_limited"] ELSE used

-----------------------------------------------------------------------------
(* Runs of the agent.                                                      *)

\* agent_start, for a prompt of the user or a goal turn that was sent.
AgentStart ==
  /\ Idle /\ run' = "running" /\ stopReason' = None
  /\ runGoalId' = IF Active THEN goal.id ELSE None

Prompt ==
  /\ UserActs(0) /\ AgentStart
  /\ UNCHANGED <<goalVars, timer, queue, waiting, paused, made>>

GoalTurn ==
  /\ queue # <<>> /\ AgentStart /\ queue' = Tail(queue)
  /\ UNCHANGED <<goalVars, timer, waiting, spent, history, made>>

\* message_end of a reply; it takes longer than the timer, which is set to 0,
\* and than commands that go on at the end of the run before.
MessageEnd(stop) ==
  /\ run = "running" /\ timer = None /\ NoneFree
  /\ run' = CASE stop = "toolUse" -> "tool"
              [] stop \in {"error", "limit"} -> "failed"
              [] OTHER -> "done"
  /\ stopReason' = stop
  /\ IF goal # None /\ goal.id = runGoalId /\ stop \notin {"error", "limit"}
     THEN Counted(AddTokens(goal, 1)) ELSE UNCHANGED goalVars
  /\ UNCHANGED <<runGoalId, timer, queue, waiting, spent, history, made>>

\* The tools of a reply have run, or pi tries a failed request again.
NextReply ==
  /\ run \in {"tool", "failed"} /\ run' = "running"
  /\ UNCHANGED <<goalVars, runGoalId, stopReason, timer, queue, waiting, spent, history, made>>

\* update_goal with an objective, which is a new goal when there is none.
UpdateObjective ==
  /\ run = "tool" /\ spent.updates < MaxUpdates
  /\ IF goal = None
     THEN /\ spent.goals < MaxGoals /\ Becomes(NewGoal) /\ made' = made + 1
          /\ spent' = [spent EXCEPT !.updates = @ + 1, !.goals = @ + 1]
     ELSE /\ Becomes([goal EXCEPT !.status = "active", !.tokens = 0, !.continuations = 0])
          /\ spent' = [spent EXCEPT !.updates = @ + 1] /\ UNCHANGED made
  /\ inRow' = 0
  /\ UNCHANGED <<runVars, timer, queue, waiting, paused>>

\* update_goal with a status.
UpdateStatus(status) ==
  /\ run = "tool" /\ goal # None /\ spent.updates < MaxUpdates
  /\ Becomes([With(status) EXCEPT !.continuations = IF status = "active" THEN 0 ELSE @])
  /\ spent' = [spent EXCEPT !.updates = @ + 1] /\ inRow' = 0
  /\ UNCHANGED <<runVars, timer, queue, waiting, paused, made>>

\* llm_query, whose answer uses tokens of the run; one that fails, or that is
\* not for the goal of the run, leaves everything as it is.
LlmQuery ==
  /\ run = "tool" /\ goal # None /\ goal.id = runGoalId /\ spent.updates < MaxUpdates
  /\ Becomes(AddTokens(goal, 1))
  /\ spent' = [spent EXCEPT !.updates = @ + 1]
  /\ UNCHANGED <<runVars, timer, queue, waiting, history, made>>

Continues ==
  run = "done" /\ stopReason = "stop" /\ goal.auto /\ goal.continuations < MaxAuto

\* What agent_settled makes of the goal the run was for, when it is active.
Settled ==
  CASE run = "failed" -> With(IF stopReason = "limit" THEN "usage_limited" ELSE "paused")
    [] stopReason = "length" -> With("paused")
    [] Continues -> [goal EXCEPT !.continuations = @ + 1]
    [] stopReason = "stop" /\ goal.auto /\ ~Continues -> With("paused")
    [] OTHER -> goal

\* agent_settled; commands that waited for the agent may go on.
AgentSettled ==
  LET mine == Active /\ goal.id = runGoalId
      next == IF mine THEN Settled ELSE goal
  IN  /\ run \in {"failed", "done"} /\ run' = "idle" /\ runGoalId' = None
      /\ IF goal = None THEN UNCHANGED goalVars ELSE Becomes(next)
      /\ timer' = IF mine /\ Continues THEN goal.id ELSE timer
      /\ waiting' = [i \in DOMAIN waiting |->
                       IF waiting[i].at = "run" THEN [waiting[i] EXCEPT !.at = "free"]
                       ELSE waiting[i]]
      /\ UNCHANGED <<stopReason, queue, spent, history, made>>

\* Mutation of Timer: the goal is not looked at again.
TimerUnseen ==
  /\ timer # None /\ NoneFree /\ timer' = None
  /\ Queued("auto") /\ inRow' = Counting
  /\ UNCHANGED <<goalVars, runVars, waiting, spent, paused, made>>

\* The continuation timer, which runs out at once.
Timer ==
  /\ timer # None /\ NoneFree /\ timer' = None
  /\ IF Active /\ goal.id = timer /\ goal.auto
     THEN Queued("auto") /\ inRow' = Counting
     ELSE UNCHANGED <<queue, inRow>>
  /\ UNCHANGED <<goalVars, runVars, waiting, spent, paused, made>>

\* session_compact: by the user, or within a run.
Compact ==
  /\ goal # None /\ timer = None
  /\ \/ /\ run \in {"running", "tool"} /\ goal.id = runGoalId
        /\ UNCHANGED <<spent, inRow>>
     \/ UserActs(0) /\ (goal.id = runGoalId \/ goal.status = "active")
  /\ Becomes(AddTokens(goal, 1))
  /\ UNCHANGED <<runVars, timer, queue, waiting, paused, made>>

-----------------------------------------------------------------------------
(* Commands of the user.                                                   *)

\* /goal pause, complete
SetStatus(status) ==
  /\ UserActs(0) /\ goal # None
  /\ Becomes(With(status)) /\ timer' = None /\ paused' = (status = "paused")
  /\ UNCHANGED <<runVars, queue, waiting, made>>

\* /goal budget
SetBudget(n) ==
  /\ UserActs(0) /\ goal # None
  /\ LET g == [goal EXCEPT !.budget = n]
     IN  Becomes(IF Over(g) THEN [g EXCEPT !.status = "budget_limited"] ELSE g)
  /\ UNCHANGED <<runVars, timer, queue, waiting, paused, made>>

\* /goal auto
SetAuto(on) ==
  /\ UserActs(0) /\ goal # None
  /\ Becomes([goal EXCEPT !.auto = on]) /\ timer' = IF on THEN timer ELSE None
  /\ UNCHANGED <<runVars, queue, waiting, paused, made>>

\* What a command does when it need not wait, or has waited, without looking
\* again: it ends with an exception where the goal is gone by then, and the
\* agent may work again.
Done(c, left) ==
  /\ timer' = IF c.verb = "resume" /\ goal # None THEN None ELSE left
  /\ made' = IF c.verb = "set" THEN made + 1 ELSE made
  /\ CASE c.verb = "clear" -> Becomes(None) /\ UNCHANGED queue
       [] c.verb \in {"resume", "edit"} /\ goal = None -> UNCHANGED <<goalVars, queue>>
       [] c.verb = "resume" /\ goal # None ->
            Becomes([With("active") EXCEPT !.continuations = 0]) /\ Queued("asked")
       [] c.verb = "edit" /\ goal # None ->
            /\ Becomes(IF c.active THEN With("active") ELSE goal)
            /\ IF c.active THEN Queued("asked") ELSE UNCHANGED queue
       [] c.verb = "set" -> Becomes(NewGoal) /\ Queued("asked")

\* Under a run a command waits for its end; clear, edit and set pause the goal.
Does(verb, left, others) ==
  LET c == [verb |-> verb, active |-> Active, at |-> "run"]
  IN  IF Idle
      THEN Done(c, left) /\ paused' = FALSE /\ waiting' = others
      ELSE /\ IF Active /\ verb # "resume" THEN Becomes(With("paused")) ELSE UNCHANGED goalVars
           /\ waiting' = Append(others, c) /\ timer' = left
           /\ UNCHANGED <<queue, made, paused>>

\* /goal clear, resume, edit with a text, and a new goal when none is left.
Command(verb) ==
  /\ UserActs(IF verb = "set" THEN 1 ELSE 0)
  /\ verb \in {"resume", "edit"} => goal # None
  /\ verb = "set" => ~Open
  /\ Does(verb, IF verb = "resume" THEN timer ELSE None, waiting)
  /\ UNCHANGED runVars

\* /goal edit without a text and a new goal over another one ask first.
Ask(verb) ==
  /\ UserActs(IF verb = "set" THEN 1 ELSE 0)
  /\ goal # None /\ (verb = "set" => Open)
  /\ waiting' = Append(waiting, [verb |-> verb, active |-> FALSE, at |-> "user"])
  /\ timer' = IF verb = "set" THEN None ELSE timer
  /\ UNCHANGED <<goalVars, runVars, queue, paused, made>>

\* The user answers, or closes the dialog.
Answer(i) ==
  /\ waiting[i].at = "user" /\ NoneFree
  /\ LET verb == waiting[i].verb
         rest == RemoveAt(waiting, i)
     IN  \/ waiting' = rest /\ UNCHANGED <<goalVars, queue, made, timer, paused>>
         \/ /\ verb = "edit" => goal # None   \* an exception otherwise
            /\ Does(verb, IF verb = "edit" THEN None ELSE timer, rest)
  /\ inRow' = 0
  /\ UNCHANGED <<runVars, spent>>

GoesOn(i) ==
  /\ waiting[i].at = "free" /\ waiting' = RemoveAt(waiting, i)
  /\ Done(waiting[i], timer) /\ paused' = FALSE /\ inRow' = 0
  /\ UNCHANGED <<runVars, spent>>

\* The process dies, or shuts down under a run, whose tokens it saves; the next
\* one restores the goal (session_shutdown, session_start).
Restart ==
  /\ spent.starts < MaxStarts /\ spent' = [spent EXCEPT !.starts = @ + 1]
  /\ \/ UNCHANGED savedGoal
     \/ goal # None /\ goal.id = runGoalId /\ savedGoal' = goal
  /\ goal' = savedGoal'
  /\ run' = "idle" /\ runGoalId' = None /\ stopReason' = None
  /\ timer' = None /\ queue' = <<>> /\ waiting' = <<>>
  /\ UNCHANGED <<history, made>>

Init ==
  /\ goal = None /\ savedGoal = None
  /\ run = "idle" /\ runGoalId = None /\ stopReason = None
  /\ timer = None /\ queue = <<>> /\ waiting = <<>>
  /\ spent = [user |-> 0, updates |-> 0, goals |-> 0, starts |-> 1] /\ made = 0
  /\ inRow = 0 /\ paused = FALSE

Commands ==
  \/ \E status \in {"paused", "complete"} : SetStatus(status)
  \/ \E n \in Budgets : SetBudget(n)
  \/ \E on \in BOOLEAN : SetAuto(on)
  \/ \E verb \in {"clear", "resume", "edit", "set"} : Command(verb)
  \/ \E verb \in {"edit", "set"} : Ask(verb)

\* What goes on by itself.
Works ==
  \/ GoalTurn \/ NextReply \/ AgentSettled \/ Timer
  \/ \E i \in DOMAIN waiting : GoesOn(i) \/ Answer(i)

Next ==
  \/ Works \/ Commands \/ Prompt \/ Compact \/ Restart \/ UpdateObjective \/ LlmQuery
  \/ \E status \in {"active", "blocked", "complete"} : UpdateStatus(status)
  \/ \E stop \in {"stop", "toolUse", "length", "error", "limit"} : MessageEnd(stop)

Spec == Init /\ [][Next]_vars

\* The model replies, and does not call tools, or fail and be asked again, for
\* ever; timers run out, messages are delivered, users answer dialogs.
Fairness ==
  /\ WF_vars(Works)
  /\ WF_vars(\E stop \in {"stop", "toolUse", "length", "error", "limit"} : MessageEnd(stop))
  /\ SF_vars(MessageEnd("stop"))

FairSpec == Spec /\ Fairness

-----------------------------------------------------------------------------
(* Type invariant.                                                         *)
TypeOK ==
  /\ goal # None =>
       /\ goal.status \in Statuses /\ goal.id \in 1..made
       /\ goal.tokens \in 0..MaxTokens /\ goal.continuations \in 0..MaxAuto
  /\ runGoalId # None => ~Idle
  /\ timer # None => timer \in 1..made
  /\ \A i \in DOMAIN waiting : waiting[i].at \in {"user", "run", "free"}

(* An automatic continuation is sent for the goal that is set, active and  *)
(* not out of budget, while continuing is on, and only MaxAuto times in a  *)
(* row without the user or the model doing something about it: whatever    *)
(* commands come between the end of a run and the timer (index.ts:928).    *)
ContinuesWithinLimits ==
  [][Len(queue') > Len(queue) /\ Last(queue') = "auto" =>
       /\ Active /\ goal.auto /\ ~Over(goal)
       /\ inRow' <= MaxAuto]_vars

(* While no run is going on the session file holds the goal as it is, so   *)
(* that the next process goes on from there.                               *)
SavedWhenIdle == Idle => savedGoal = goal

(* With finitely many interventions the agent comes to rest: automatic     *)
(* continuation never keeps a session going by itself.                     *)
ComesToRest == <>[](Idle /\ timer = None /\ queue = <<>>)

(* A goal that the user has paused is not continued until the user asks    *)
(* for it (index.ts:411).                                                  *)
PauseHolds ==
  [][Len(queue') > Len(queue) /\ Last(queue') = "auto" => ~paused]_vars

=============================================================================
