------------------------------ MODULE PlanMode ------------------------------
(***************************************************************************)
(* The plan mode of the agent (pi-fork/agent/extensions/plan-mode): its    *)
(* two modes, the tools it takes and gives back, the steps of a plan, and  *)
(* what a later process makes of the session file.                         *)
(*                                                                         *)
(* Of the session file the model keeps what session_start reads: the last  *)
(* "plan-mode" entry, and the steps that replies after the last            *)
(* "plan-mode-execute" message tag as done.  The text of steps is left     *)
(* out.  The process has a user interface (ctx.hasUI).                     *)
(***************************************************************************)
EXTENDS Integers, Sequences, SequencesExt

CONSTANTS
  ToolSets,    \* sets of tools that a process may start with, or a user select
  MaxSteps,    \* bound: steps of a plan
  MaxStarts,   \* bound: processes on the session
  Flags,       \* whether a process may be started with --plan
  Interrupts,  \* whether a queued message may be lost with its process
  None

PlanConstants ==
  /\ MaxSteps \in Nat /\ MaxStarts \in Nat
  /\ Flags \subseteq BOOLEAN /\ Interrupts \in BOOLEAN

VARIABLES
  planModeEnabled, executionMode,
  todoItems,            \* for each step whether it is completed
  toolsBeforePlanMode,  \* set of tools or None
  activeTools,          \* pi.getActiveTools()
  saved,                \* the last "plan-mode" entry, None when there is none
  tagged,               \* steps tagged done after the last "plan-mode-execute"
  queued,               \* is a "plan-mode-execute" message waiting
  agent,                \* down, idle, turn, replied, ended, asking
  reply,                \* the last reply of the run: its plan and its tags
  starts,
  before,               \* history: the tools when plan mode was entered
  reported              \* history: steps reported since the plan is executed

vars == <<planModeEnabled, executionMode, todoItems, toolsBeforePlanMode, activeTools,
          saved, tagged, queued, agent, reply, starts, before, reported>>
modes  == <<planModeEnabled, executionMode>>
tools  == <<toolsBeforePlanMode, activeTools, before>>
file   == <<saved, tagged>>

PlanTools   == {"read", "bash", "grep", "find", "ls", "questionnaire"}
NormalTools == {"read", "bash", "edit", "write"}
WriteTools  == {"edit", "write"}

GetPlanModeTools(names)   == (names \ WriteTools) \cup PlanTools
GetNormalModeTools(names) == NormalTools \cup (names \ (PlanTools \cup NormalTools))

NoReply == [plan |-> 0, done |-> {}]
Marked(todos, steps) == [i \in DOMAIN todos |-> todos[i] \/ i \in steps]
Fresh(n) == [i \in 1..n |-> FALSE]
AllDone(todos) == \A i \in DOMAIN todos : todos[i]

EnablePlanModeTools ==
  LET names == IF toolsBeforePlanMode = None THEN activeTools ELSE toolsBeforePlanMode
  IN  toolsBeforePlanMode' = names /\ activeTools' = GetPlanModeTools(names)

\* Mutation of RestoreNormalModeTools: the saved tools are not forgotten.
RestoreKeeping ==
  /\ activeTools' = IF toolsBeforePlanMode = None THEN GetNormalModeTools(activeTools)
                    ELSE toolsBeforePlanMode
  /\ UNCHANGED toolsBeforePlanMode

RestoreNormalModeTools ==
  /\ activeTools' = IF toolsBeforePlanMode = None THEN GetNormalModeTools(activeTools)
                    ELSE toolsBeforePlanMode
  /\ toolsBeforePlanMode' = None

PersistState ==
  saved' = [enabled |-> planModeEnabled', todos |-> todoItems', executing |-> executionMode',
            tools |-> toolsBeforePlanMode']

\* /plan and Ctrl+Alt+P, at any time, under a run or a dialog as well.
TogglePlanMode ==
  /\ agent # "down"
  /\ planModeEnabled' = ~planModeEnabled /\ executionMode' = FALSE /\ todoItems' = <<>>
  /\ IF planModeEnabled'
     THEN EnablePlanModeTools /\ before' = activeTools
     ELSE RestoreNormalModeTools /\ UNCHANGED before
  /\ PersistState
  /\ UNCHANGED <<tagged, queued, agent, reply, starts, reported>>

\* Outside of plan mode the user, or another extension, selects tools.
SelectTools(names) ==
  /\ agent # "down" /\ ~planModeEnabled /\ names # activeTools
  /\ activeTools' = names
  /\ UNCHANGED <<modes, todoItems, toolsBeforePlanMode, file, queued, agent, reply, starts,
                 before, reported>>

\* A run starts (before_agent_start tells the model the mode and the steps left).
Prompt ==
  /\ agent = "idle"
  /\ agent' = "turn" /\ reply' = NoReply
  /\ UNCHANGED <<modes, todoItems, tools, file, queued, starts, reported>>

\* The queued message is put into the session and starts a run.
Execute ==
  /\ agent = "idle" /\ queued
  /\ queued' = FALSE /\ tagged' = {} /\ agent' = "turn" /\ reply' = NoReply
  /\ UNCHANGED <<modes, todoItems, tools, saved, starts, reported>>

\* The model replies; it tags steps when it was told to execute some.
Reply(plan, done) ==
  /\ agent = "turn" /\ (executionMode \/ done = {})
  /\ reply' = [plan |-> plan, done |-> done] /\ agent' = "replied"
  /\ tagged' = tagged \cup done /\ reported' = reported \cup done
  /\ UNCHANGED <<modes, todoItems, tools, saved, queued, starts>>

\* turn_end; the run goes on or is over.
TurnEnd ==
  /\ agent = "replied"
  /\ IF executionMode /\ todoItems # <<>>
     THEN /\ todoItems' = Marked(todoItems, reply.done)
          /\ UNCHANGED <<modes, tools>> /\ PersistState
     ELSE UNCHANGED <<modes, todoItems, tools, saved>>
  /\ agent' \in {"turn", "ended"}
  /\ UNCHANGED <<tagged, queued, reply, starts, reported>>

\* The user stops the run.
Abort ==
  /\ agent = "turn"
  /\ agent' = "ended" /\ reply' = NoReply
  /\ UNCHANGED <<modes, todoItems, tools, file, queued, starts, reported>>

\* agent_end of an execution: it is over when every step is completed.
PlanEnds ==
  /\ agent = "ended" /\ executionMode /\ todoItems # <<>>
  /\ IF AllDone(todoItems)
     THEN /\ executionMode' = FALSE /\ todoItems' = <<>>
          /\ UNCHANGED <<planModeEnabled, tools>> /\ PersistState
     ELSE UNCHANGED <<modes, todoItems, tools, saved>>
  /\ agent' = "idle"
  /\ UNCHANGED <<tagged, queued, reply, starts, reported>>

\* agent_end otherwise: in plan mode the plan is taken from the reply, if it
\* has one, and the user is asked.
RunEnds ==
  /\ agent = "ended" /\ ~(executionMode /\ todoItems # <<>>)
  /\ todoItems' = IF planModeEnabled /\ reply.plan > 0 THEN Fresh(reply.plan) ELSE todoItems
  /\ IF planModeEnabled /\ todoItems' # <<>>
     THEN agent' = "asking" /\ UNCHANGED <<modes, tools>> /\ PersistState
     ELSE agent' = "idle" /\ UNCHANGED <<modes, tools, saved>>
  /\ UNCHANGED <<tagged, queued, reply, starts, reported>>

\* The user chooses "Execute the plan"; the plan may be gone by then.
ChooseExecute ==
  /\ agent = "asking" /\ agent' = "idle"
  /\ IF todoItems = <<>>
     THEN UNCHANGED <<modes, todoItems, tools, saved, queued, reported>>
     ELSE /\ planModeEnabled' = FALSE /\ executionMode' = TRUE /\ todoItems' = todoItems
          /\ RestoreNormalModeTools /\ PersistState
          /\ queued' = TRUE /\ reported' = {} /\ UNCHANGED before
  /\ UNCHANGED <<tagged, reply, starts>>

\* The user stays in plan mode, or refines the plan, which is a prompt.
ChooseOther ==
  /\ agent = "asking" /\ agent' \in {"idle", "turn"} /\ reply' = NoReply
  /\ UNCHANGED <<modes, todoItems, tools, file, queued, starts, reported>>

\* The process ends, or dies; the session file stays.
Stop ==
  /\ agent # "down" /\ (Interrupts \/ ~queued)
  /\ agent' = "down" /\ queued' = FALSE /\ reply' = NoReply
  /\ UNCHANGED <<modes, todoItems, tools, file, starts, reported>>

\* A process is started on the session with these tools: session_start.
Start(flag, names) ==
  /\ agent = "down" /\ starts < MaxStarts
  /\ starts' = starts + 1 /\ agent' = "idle"
  /\ planModeEnabled' = IF saved = None THEN flag ELSE saved.enabled
  /\ executionMode' = (saved # None /\ saved.executing)
  /\ LET todos == IF saved = None THEN <<>> ELSE saved.todos
         kept  == IF saved = None THEN None ELSE saved.tools
         given == IF kept = None THEN names ELSE kept
     IN  /\ todoItems' = IF executionMode' THEN Marked(todos, tagged) ELSE todos
         /\ toolsBeforePlanMode' = IF planModeEnabled' THEN given ELSE kept
         /\ activeTools' = IF planModeEnabled' THEN GetPlanModeTools(given) ELSE names
         /\ before' = given
  /\ UNCHANGED <<file, queued, reply, reported>>

Init ==
  /\ planModeEnabled = FALSE /\ executionMode = FALSE /\ todoItems = <<>>
  /\ toolsBeforePlanMode = None /\ activeTools \in ToolSets /\ before = activeTools
  /\ saved = None /\ tagged = {} /\ queued = FALSE
  /\ agent = "down" /\ reply = NoReply /\ starts = 0 /\ reported = {}

Next ==
  \/ TogglePlanMode \/ Prompt \/ Execute \/ TurnEnd \/ Abort \/ PlanEnds \/ RunEnds
  \/ ChooseExecute \/ ChooseOther \/ Stop
  \/ \E names \in ToolSets : SelectTools(names)
  \/ \E plan \in 0..MaxSteps, done \in SUBSET (1..MaxSteps) : Reply(plan, done)
  \/ \E flag \in Flags, names \in ToolSets : Start(flag, names)

Spec == Init /\ [][Next]_vars

-----------------------------------------------------------------------------
(* Type invariant: the process is in one mode at most, with the tools that *)
(* go with it: in plan mode none that writes is active.                    *)
TypeOK ==
  /\ planModeEnabled \in BOOLEAN /\ executionMode \in BOOLEAN /\ ~(planModeEnabled /\ executionMode)
  /\ todoItems \in BoundedSeq(BOOLEAN, MaxSteps)
  /\ saved # None => ~(saved.enabled /\ saved.executing)
  /\ agent # "down" /\ planModeEnabled =>
       activeTools \cap WriteTools = {} /\ toolsBeforePlanMode # None

(* While a plan is executed its completed steps are those that replies     *)
(* have reported since it was chosen, over the end of any process: none of *)
(* an earlier plan (index.ts:376), and none is lost.                       *)
StepsAreReported ==
  agent \notin {"down", "replied"} /\ executionMode =>
    {i \in DOMAIN todoItems : todoItems[i]} = reported \cap DOMAIN todoItems

(* Whoever leaves plan mode, by toggling it or by executing a plan, gets   *)
(* back the tools that were active when it was entered.                    *)
ToolsGivenBack ==
  [][agent # "down" /\ planModeEnabled /\ ~planModeEnabled' => activeTools' = before]_vars

(* A plan is executed when the user has chosen so of a plan that is still  *)
(* there, in plan mode: a choice made after plan mode was left, or left    *)
(* and entered again, starts nothing.                                      *)
ExecutesChosenPlan ==
  [][agent # "down" /\ ~executionMode /\ executionMode' =>
       planModeEnabled /\ todoItems' # <<>>]_vars

=============================================================================
