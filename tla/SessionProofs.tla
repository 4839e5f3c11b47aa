---------------------------- MODULE SessionProofs ----------------------------
(***************************************************************************)
(* What the extensions of SessionExtensions promise, each as it is there,  *)
(* for any bounds, budgets, tool sets and settings.                        *)
(***************************************************************************)
EXTENDS SessionExtensions, SequenceTheorems, FiniteSetTheorems, TLAPS

-----------------------------------------------------------------------------
\* Plan mode.

Up == agent # "down"

PlanTyped ==
  /\ planModeEnabled \in BOOLEAN /\ executionMode \in BOOLEAN /\ queued \in BOOLEAN
  /\ todoItems \in Seq(BOOLEAN) /\ saved \in SavedPlan \cup {None}
  /\ reply.plan \in Nat

\* The tools of before are kept in plan mode only, in the process and in the file.
ToolsKept ==
  /\ Up /\ planModeEnabled => toolsBeforePlanMode \in UserTools /\ before = toolsBeforePlanMode
  /\ Up /\ ~planModeEnabled => toolsBeforePlanMode = None /\ activeTools \in UserTools
  /\ saved # None => (saved.enabled <=> saved.tools # None)

\* The file tells whether a plan is executed.  Who is asked about a plan
\* that is there is in plan mode.
Executes ==
  /\ Up => (executionMode <=> saved # None /\ saved.executing)
  /\ Up => ~(planModeEnabled /\ executionMode)
  /\ saved # None => ~(saved.enabled /\ saved.executing)
  /\ agent = "asking" /\ todoItems # <<>> => planModeEnabled

\* The steps the file has as completed, with those that are tagged since, are
\* the reported ones; those of a plan whose message waits are not tagged yet.
Tagged(i) == ~queued /\ i \in tagged
InReply(i) == agent = "replied" /\ i \in reply.done
Reports ==
  saved # None /\ saved.executing =>
    /\ Up => DOMAIN todoItems = DOMAIN saved.todos
    /\ \A i \in DOMAIN saved.todos :
         /\ i \in reported <=> saved.todos[i] \/ Tagged(i) \/ (Up /\ InReply(i))
         /\ Up => (i \in reported <=> todoItems[i] \/ InReply(i))
    /\ ~Up => ~queued

\* No step of a plan that is made is completed.
Made ==
  /\ Up /\ planModeEnabled => \A i \in DOMAIN todoItems : ~todoItems[i]
  /\ saved # None /\ saved.enabled => \A i \in DOMAIN saved.todos : ~saved.todos[i]
  /\ agent = "replied" => reply.done \subseteq tagged

PlanInv == PlanTyped /\ ToolsKept /\ Executes /\ Reports /\ Made

-----------------------------------------------------------------------------
(* Marking steps of a plan keeps its length.                               *)
LEMMA MarkedSteps ==
  ASSUME NEW todos \in Seq(BOOLEAN), NEW steps
  PROVE  /\ Plan!Marked(todos, steps) \in Seq(BOOLEAN)
         /\ DOMAIN Plan!Marked(todos, steps) = DOMAIN todos
         /\ \A i \in DOMAIN todos : Plan!Marked(todos, steps)[i] <=> todos[i] \/ i \in steps
<1>1. todos \in [1..Len(todos) -> BOOLEAN] /\ Len(todos) \in Nat /\ DOMAIN todos = 1..Len(todos)
  OBVIOUS
<1>2. \A i \in DOMAIN todos : (todos[i] \/ i \in steps) \in BOOLEAN
  OBVIOUS
<1>3. Plan!Marked(todos, steps) \in [1..Len(todos) -> BOOLEAN]
  BY <1>1, <1>2 DEF Plan!Marked
<1>4. Plan!Marked(todos, steps) \in Seq(BOOLEAN) /\ DOMAIN Plan!Marked(todos, steps) = DOMAIN todos
  BY <1>1, <1>3
<1>5. \A i \in DOMAIN todos : Plan!Marked(todos, steps)[i] = (todos[i] \/ i \in steps)
  BY Zenon DEF Plan!Marked
<1>6. QED BY <1>4, <1>5

(* A new plan.                                                             *)
LEMMA FreshSteps ==
  ASSUME NEW n \in Nat
  PROVE  Plan!Fresh(n) \in Seq(BOOLEAN)
<1>1. Plan!Fresh(n) \in [1..n -> BOOLEAN]
  BY DEF Plan!Fresh
<1>2. QED BY <1>1

(* What persistState leaves in the session file.                           *)
LEMMA Persisted ==
  ASSUME Plan!PersistState, planModeEnabled' \in BOOLEAN, executionMode' \in BOOLEAN,
         todoItems' \in Seq(BOOLEAN), toolsBeforePlanMode' \in UserTools \cup {None}, PlanTyped
  PROVE  /\ saved' \in SavedPlan /\ saved' # None
         /\ saved'.enabled = planModeEnabled' /\ saved'.executing = executionMode'
         /\ saved'.todos = todoItems' /\ saved'.tools = toolsBeforePlanMode'
BY SessionAssumption, NoneAssumption DEF Plan!PersistState, SavedPlan, PlanTyped

(* /plan, whichever way.                                                   *)
LEMMA ToggleKeeps ==
  ASSUME PlanInv, Plan!TogglePlanMode
  PROVE  PlanInv'
<1> USE DEF PlanInv
<1>1. /\ Up /\ Up' /\ planModeEnabled \in BOOLEAN /\ planModeEnabled' = ~planModeEnabled
      /\ executionMode' = FALSE /\ todoItems' = <<>> /\ todoItems' \in Seq(BOOLEAN)
      /\ UNCHANGED <<queued, reply>>
  BY DEF Plan!TogglePlanMode, Up, PlanTyped
<1>2. CASE planModeEnabled'
  <2>1. toolsBeforePlanMode' = activeTools /\ before' = activeTools /\ activeTools \in UserTools
    BY <1>1, <1>2 DEF Plan!TogglePlanMode, Plan!EnablePlanModeTools, ToolsKept
  <2>2. /\ saved' \in SavedPlan /\ saved' # None /\ saved'.enabled = planModeEnabled'
        /\ saved'.executing = executionMode' /\ saved'.tools = toolsBeforePlanMode'
        /\ saved'.todos = <<>> /\ UNCHANGED <<tagged, agent>>
    BY <1>1, <2>1, Persisted DEF Plan!TogglePlanMode
  <2>3. Made'
    BY <1>1, <2>2 DEF Made
  <2>4. QED BY <1>1, <1>2, <2>1, <2>2, <2>3, SessionAssumption, NoneAssumption DEF PlanTyped,
                   ToolsKept, Executes, Reports
<1>3. CASE ~planModeEnabled'
  <2>1. /\ toolsBeforePlanMode' = None /\ activeTools' = before /\ before' = before
        /\ activeTools' \in UserTools
    BY <1>1, <1>3, SessionAssumption, NoneAssumption DEF Plan!TogglePlanMode,
           Plan!RestoreNormalModeTools, ToolsKept
  <2>2. /\ saved' \in SavedPlan /\ saved' # None /\ saved'.enabled = planModeEnabled'
        /\ saved'.executing = executionMode' /\ saved'.tools = toolsBeforePlanMode'
        /\ saved'.todos = <<>> /\ UNCHANGED <<tagged, agent>>
    BY <1>1, <2>1, Persisted DEF Plan!TogglePlanMode
  <2>3. Made'
    BY <1>1, <2>2 DEF Made
  <2>4. QED BY <1>1, <1>3, <2>1, <2>2, <2>3 DEF PlanTyped, ToolsKept, Executes, Reports
<1>4. QED BY <1>2, <1>3

(* Steps that leave the modes, the plan and the file alone.                *)
LEMMA QuietSteps ==
  ASSUME PlanInv,
         \/ Plan!Prompt \/ Plan!Execute \/ Plan!Abort \/ Plan!ChooseOther
         \/ \E names \in UserTools : Plan!SelectTools(names)
  PROVE  PlanInv'
<1> USE DEF PlanInv
<1>1. CASE \E names \in UserTools : Plan!SelectTools(names)
  BY <1>1 DEF Plan!SelectTools, Plan!modes, Plan!file, PlanTyped, ToolsKept, Executes, Reports,
         Made, Up, Tagged, InReply
<1>2. CASE Plan!Execute
  <2>1. /\ agent = "idle" /\ queued /\ queued' = FALSE /\ tagged' = {} /\ agent' = "turn"
        /\ UNCHANGED <<planModeEnabled, executionMode, todoItems, toolsBeforePlanMode, activeTools,
                       before, saved, reported>>
        /\ reply' = Plan!NoReply
    BY <1>2 DEF Plan!Execute, Plan!modes, Plan!tools
  <2>2. PlanTyped' /\ ToolsKept' /\ Executes'
    BY <2>1 DEF PlanTyped, ToolsKept, Executes, Up, Plan!NoReply
  <2>3. Reports' /\ Made'
    BY <2>1 DEF Reports, Made, Up, Tagged, InReply
  <2>4. QED BY <2>2, <2>3
<1>3. CASE Plan!Prompt \/ Plan!Abort \/ Plan!ChooseOther
  <2>1. /\ agent \in {"idle", "turn", "asking"} /\ agent' \in {"idle", "turn", "ended"}
        /\ UNCHANGED <<planModeEnabled, executionMode, todoItems, toolsBeforePlanMode, activeTools,
                       before, saved, tagged, queued, reported>>
        /\ reply' \in {reply, Plan!NoReply}
    BY <1>3 DEF Plan!Prompt, Plan!Abort, Plan!ChooseOther, Plan!modes, Plan!tools, Plan!file
  <2>2. PlanTyped'
    BY <2>1 DEF PlanTyped, Plan!NoReply
  <2>3. ToolsKept' /\ Executes'
    BY <2>1 DEF ToolsKept, Executes, Up
  <2>4. Reports' /\ Made'
    BY <2>1 DEF Reports, Made, Up, Tagged, InReply
  <2>5. QED BY <2>2, <2>3, <2>4
<1>4. QED BY <1>1, <1>2, <1>3

(* A reply makes a plan or tags steps of one.                              *)
LEMMA ReplyKeeps ==
  ASSUME PlanInv, NEW plan \in 0..MaxSteps, NEW done \in SUBSET (1..MaxSteps), Plan!Reply(plan, done)
  PROVE  PlanInv'
<1> USE DEF PlanInv
<1>1. /\ agent = "turn" /\ agent' = "replied" /\ (executionMode \/ done = {})
      /\ reply' = [plan |-> plan, done |-> done] /\ reply'.done = done /\ reply'.plan \in Nat
      /\ tagged' = tagged \cup done /\ reported' = reported \cup done
      /\ UNCHANGED <<planModeEnabled, executionMode, todoItems, toolsBeforePlanMode, activeTools,
                     before, saved, queued>>
  BY SessionAssumption, NoneAssumption DEF Plan!Reply, Plan!modes, Plan!tools, Plan!PlanConstants
<1>2. PlanTyped' /\ ToolsKept' /\ Executes'
  BY <1>1 DEF PlanTyped, ToolsKept, Executes, Up
<1>3. Reports' /\ Made'
  BY <1>1 DEF Reports, Made, Executes, Up, Tagged, InReply
<1>4. QED BY <1>2, <1>3

(* The end of a turn marks the tagged steps and saves the plan.            *)
LEMMA TurnEndKeeps ==
  ASSUME PlanInv, Plan!TurnEnd
  PROVE  PlanInv'
<1> USE DEF PlanInv
<1>1. /\ agent = "replied" /\ agent' \in {"turn", "ended"} /\ Up /\ Up'
      /\ UNCHANGED <<planModeEnabled, executionMode, toolsBeforePlanMode, activeTools, before,
                     tagged, queued, reply, reported>>
  BY DEF Plan!TurnEnd, Plan!modes, Plan!tools, Up
<1>2. CASE executionMode /\ todoItems # <<>>
  <2>1. /\ todoItems' = Plan!Marked(todoItems, reply.done) /\ Plan!PersistState
        /\ todoItems \in Seq(BOOLEAN)
        /\ ~planModeEnabled /\ toolsBeforePlanMode = None
    BY <1>1, <1>2 DEF Plan!TurnEnd, PlanTyped, Executes, ToolsKept
  <2>2. /\ todoItems' \in Seq(BOOLEAN) /\ DOMAIN todoItems' = DOMAIN todoItems
        /\ \A i \in DOMAIN todoItems : todoItems'[i] <=> todoItems[i] \/ i \in reply.done
    BY <2>1, MarkedSteps
  <2>3. /\ saved' \in SavedPlan /\ saved' # None /\ saved'.enabled = planModeEnabled'
        /\ saved'.executing = executionMode' /\ saved'.tools = toolsBeforePlanMode'
        /\ saved'.todos = todoItems'
    BY <1>1, <2>1, <2>2, Persisted DEF PlanTyped
  <2>4. PlanTyped' /\ ToolsKept' /\ Executes' /\ Made'
    BY <1>1, <1>2, <2>1, <2>2, <2>3 DEF PlanTyped, ToolsKept, Executes, Made
  <2>5. Reports'
    <3>1. saved # None /\ saved.executing
      BY <1>1, <1>2 DEF Executes
    <3>2. ASSUME NEW i \in DOMAIN todoItems
          PROVE  /\ i \in reported <=> todoItems'[i]
                 /\ Tagged(i)' => i \in reported
      BY <3>1, <1>1, <2>2 DEF Reports, InReply, Tagged
    <3>3. QED BY <3>2, <1>1, <2>2, <2>3 DEF Reports, InReply
  <2>6. QED BY <2>4, <2>5
<1>3. CASE ~(executionMode /\ todoItems # <<>>)
  <2>1. UNCHANGED <<todoItems, saved>>
    BY <1>3 DEF Plan!TurnEnd
  <2>2. PlanTyped' /\ ToolsKept' /\ Executes' /\ Made'
    BY <1>1, <2>1 DEF PlanTyped, ToolsKept, Executes, Made, Up
  <2>3. Reports'
    <3>1. saved # None /\ saved.executing => DOMAIN todoItems = {} /\ DOMAIN saved.todos = {}
      BY <1>1, <1>3 DEF Executes, Reports
    <3>2. QED BY <3>1, <1>1, <2>1 DEF Reports
  <2>4. QED BY <2>2, <2>3
<1>4. QED BY <1>2, <1>3

(* A run ends, with its plan done, or a plan to ask about.                 *)
LEMMA EndKeeps ==
  ASSUME PlanInv, Plan!PlanEnds \/ Plan!RunEnds
  PROVE  PlanInv'
<1> USE DEF PlanInv
<1>1. /\ agent = "ended" /\ agent' \in {"idle", "asking"} /\ Up /\ Up'
      /\ UNCHANGED <<planModeEnabled, toolsBeforePlanMode, activeTools, before,
                     tagged, queued, reply, reported>>
  BY DEF Plan!PlanEnds, Plan!RunEnds, Plan!modes, Plan!tools, Up
<1>2. CASE Plan!PlanEnds /\ Plan!AllDone(todoItems)
  <2>1. /\ executionMode' = FALSE /\ todoItems' = <<>> /\ todoItems' \in Seq(BOOLEAN)
        /\ Plan!PersistState
        /\ agent' = "idle" /\ ~planModeEnabled /\ toolsBeforePlanMode = None
    BY <1>1, <1>2 DEF Plan!PlanEnds, Executes, ToolsKept
  <2>2. /\ saved' \in SavedPlan /\ saved' # None /\ saved'.enabled = planModeEnabled'
        /\ saved'.executing = executionMode' /\ saved'.tools = toolsBeforePlanMode'
    BY <1>1, <2>1, Persisted DEF PlanTyped
  <2>3. PlanTyped'
    BY <1>1, <2>1, <2>2 DEF PlanTyped
  <2>4. ToolsKept'
    BY <1>1, <2>1, <2>2 DEF PlanTyped, ToolsKept
  <2>5. Executes' /\ Reports' /\ Made'
    BY <1>1, <2>1, <2>2 DEF Executes, Reports, Made
  <2>6. QED BY <2>3, <2>4, <2>5
<1>3. CASE UNCHANGED <<executionMode, todoItems, saved>> /\ (agent' = "asking" => todoItems = <<>>)
  <2>1. PlanTyped' /\ ToolsKept' /\ Executes'
    BY <1>1, <1>3 DEF PlanTyped, ToolsKept, Executes
  <2>2. Reports' /\ Made'
    BY <1>1, <1>3 DEF Reports, Tagged, InReply, Made
  <2>3. QED BY <2>1, <2>2
<1>4. CASE Plan!RunEnds /\ planModeEnabled
  <2>1. /\ ~executionMode /\ executionMode' = executionMode
        /\ toolsBeforePlanMode \in UserTools
    BY <1>1, <1>4 DEF Plan!RunEnds, Plan!modes, Executes, ToolsKept
  <2>2. todoItems' \in Seq(BOOLEAN)
    <3>1. reply.plan \in Nat /\ todoItems \in Seq(BOOLEAN) /\ Plan!Fresh(reply.plan) \in Seq(BOOLEAN)
      BY FreshSteps DEF PlanTyped
    <3>2. todoItems' \in {todoItems, Plan!Fresh(reply.plan)}
      BY <1>4 DEF Plan!RunEnds
    <3>3. QED BY <3>1, <3>2
  <2>3. \A i \in DOMAIN todoItems' : ~todoItems'[i]
    BY <1>1, <1>4 DEF Plan!RunEnds, Made, Plan!Fresh
  <2>4. UNCHANGED saved \/ Plan!PersistState
    BY <1>4 DEF Plan!RunEnds
  <2>5. CASE Plan!PersistState
    <3>1. /\ saved' \in SavedPlan /\ saved' # None /\ saved'.enabled = planModeEnabled'
          /\ saved'.executing = executionMode' /\ saved'.tools = toolsBeforePlanMode'
          /\ saved'.todos = todoItems'
      BY <1>1, <2>1, <2>2, <2>5, Persisted DEF PlanTyped
    <3>2. Made'
      BY <1>1, <2>3, <3>1 DEF Made
    <3>3. QED
      BY <1>1, <1>4, <2>1, <2>2, <3>1, <3>2, SessionAssumption, NoneAssumption DEF PlanTyped,
             ToolsKept, Executes, Reports
  <2>6. CASE UNCHANGED saved
    <3>1. Made'
      BY <1>1, <2>3, <2>6 DEF Made
    <3>2. QED BY <1>1, <1>4, <2>1, <2>2, <2>6, <3>1 DEF PlanTyped, ToolsKept, Executes, Reports
  <2>7. QED BY <2>4, <2>5, <2>6
<1>5. Plan!PlanEnds /\ ~Plan!AllDone(todoItems) =>
        UNCHANGED <<executionMode, todoItems, saved>> /\ agent' = "idle"
  BY DEF Plan!PlanEnds, Plan!modes
<1>6. Plan!RunEnds /\ ~planModeEnabled =>
        UNCHANGED <<executionMode, todoItems, saved>> /\ agent' = "idle"
  BY DEF Plan!RunEnds, Plan!modes
<1>7. QED BY <1>2, <1>3, <1>4, <1>5, <1>6

(* The user has the plan executed.                                         *)
LEMMA ChooseKeeps ==
  ASSUME PlanInv, Plan!ChooseExecute
  PROVE  PlanInv'
<1> USE DEF PlanInv
<1>1. /\ agent = "asking" /\ agent' = "idle" /\ Up /\ Up'
      /\ UNCHANGED <<tagged, reply>>
  BY DEF Plan!ChooseExecute, Up
<1>2. CASE todoItems = <<>>
  <2>1. /\ UNCHANGED <<planModeEnabled, executionMode, todoItems, toolsBeforePlanMode, activeTools,
                       before, saved, queued, reported>>
    BY <1>2 DEF Plan!ChooseExecute, Plan!modes, Plan!tools
  <2>2. PlanTyped' /\ ToolsKept' /\ Executes' /\ Made'
    BY <1>1, <2>1 DEF PlanTyped, ToolsKept, Executes, Made
  <2>3. Reports'
    BY <1>1, <2>1 DEF Reports, Tagged, InReply
  <2>4. QED BY <2>2, <2>3
<1>3. CASE todoItems # <<>>
  <2>1. /\ planModeEnabled' = FALSE /\ executionMode' = TRUE /\ todoItems' = todoItems
        /\ Plan!PersistState
        /\ queued' = TRUE /\ reported' = {} /\ before' = before /\ Plan!RestoreNormalModeTools
        /\ planModeEnabled /\ toolsBeforePlanMode \in UserTools
    BY <1>1, <1>3 DEF Plan!ChooseExecute, Executes, ToolsKept
  <2>2. /\ toolsBeforePlanMode' = None /\ activeTools' \in UserTools
    BY <2>1, SessionAssumption, NoneAssumption DEF Plan!RestoreNormalModeTools
  <2>3. /\ saved' \in SavedPlan /\ saved' # None /\ saved'.enabled = planModeEnabled'
        /\ saved'.executing = executionMode' /\ saved'.tools = toolsBeforePlanMode'
        /\ saved'.todos = todoItems'
    BY <2>1, <2>2, Persisted DEF PlanTyped
  <2>4. PlanTyped' /\ ToolsKept'
    BY <1>1, <2>1, <2>2, <2>3 DEF PlanTyped, ToolsKept
  <2>5. Executes'
    BY <1>1, <2>1, <2>3 DEF Executes
  <2>6. Reports' /\ Made'
    BY <1>1, <2>1, <2>3 DEF Reports, Made, Tagged, InReply
  <2>7. QED BY <2>4, <2>5, <2>6
<1>4. QED BY <1>2, <1>3

(* A process that ends leaves the file, and no message waits.              *)
LEMMA StopKeeps ==
  ASSUME PlanInv, ~Interrupts, Plan!Stop
  PROVE  PlanInv'
<1> USE DEF PlanInv
<1>1. /\ Up /\ ~Up' /\ ~queued /\ agent' # "asking" /\ queued' = FALSE /\ reply' = Plan!NoReply
      /\ UNCHANGED <<planModeEnabled, executionMode, todoItems, toolsBeforePlanMode, activeTools,
                     before, saved, tagged, reported>>
      /\ agent' = "down"
  BY DEF Plan!Stop, Plan!modes, Plan!tools, Plan!file, Up
<1>2. PlanTyped'
  BY <1>1 DEF PlanTyped, Plan!NoReply
<1>3. ToolsKept' /\ Executes' /\ Made'
  BY <1>1 DEF ToolsKept, Executes, Made, Up
<1>4. Reports'
  BY <1>1 DEF Reports, Tagged, InReply, Made
<1>5. QED BY <1>2, <1>3, <1>4

(* session_start makes of the file what the process before had.            *)
LEMMA StartKeeps ==
  ASSUME PlanInv, NEW flag \in Flags, NEW names \in UserTools, Plan!Start(flag, names)
  PROVE  PlanInv'
<1> USE DEF PlanInv
<1> DEFINE todos == IF saved = None THEN <<>> ELSE saved.todos
           kept  == IF saved = None THEN None ELSE saved.tools
           given == IF kept = None THEN names ELSE kept
<1>1. /\ ~Up /\ Up' /\ agent' = "idle" /\ UNCHANGED <<saved, tagged, queued, reply, reported>>
      /\ planModeEnabled' = (IF saved = None THEN flag ELSE saved.enabled)
      /\ executionMode' = (saved # None /\ saved.executing)
      /\ todoItems' = (IF executionMode' THEN Plan!Marked(todos, tagged) ELSE todos)
      /\ toolsBeforePlanMode' = (IF planModeEnabled' THEN given ELSE kept)
      /\ activeTools' = (IF planModeEnabled' THEN Plan!GetPlanModeTools(given) ELSE names)
      /\ before' = given
  BY DEF Plan!Start, Plan!file, Up
<1>2. /\ planModeEnabled' \in BOOLEAN /\ todos \in Seq(BOOLEAN)
      /\ kept \in UserTools \cup {None} /\ given \in UserTools
      /\ ~(planModeEnabled' /\ executionMode') /\ (~planModeEnabled' => kept = None)
  <2>1. CASE saved = None
    <3>1. todos = <<>> /\ kept = None /\ given = names /\ planModeEnabled' = flag /\ flag \in BOOLEAN
      BY <2>1, <1>1, SessionAssumption, NoneAssumption DEF Plan!PlanConstants
    <3>2. QED BY <3>1, <2>1, <1>1, EmptySeq
  <2>2. CASE saved # None
    <3>1. saved \in SavedPlan /\ todos = saved.todos /\ kept = saved.tools
          /\ planModeEnabled' = saved.enabled /\ executionMode' = saved.executing
      BY <2>2, <1>1 DEF PlanTyped, SavedPlan
    <3>2. saved.todos \in Seq(BOOLEAN) /\ saved.tools \in UserTools \cup {None}
          /\ saved.enabled \in BOOLEAN
      BY <3>1 DEF SavedPlan
    <3>3. QED BY <2>2, <3>1, <3>2 DEF Executes, ToolsKept
  <2>3. QED BY <2>1, <2>2
<1>3. /\ Plan!Marked(todos, tagged) \in Seq(BOOLEAN) /\ DOMAIN Plan!Marked(todos, tagged) = DOMAIN todos
      /\ \A i \in DOMAIN todos : Plan!Marked(todos, tagged)[i] <=> todos[i] \/ i \in tagged
  BY <1>2, MarkedSteps
<1>4. PlanTyped'
  BY <1>1, <1>2, <1>3 DEF PlanTyped
<1>5. ToolsKept'
  BY <1>1, <1>2 DEF ToolsKept
<1>6. Executes'
  BY <1>1, <1>2 DEF Executes
<1>7. Reports'
  BY <1>1, <1>3 DEF Reports, Tagged, InReply
<1>8. Made'
  BY <1>1, <1>2 DEF Made
<1>9. QED BY <1>4, <1>5, <1>6, <1>7, <1>8

(* Every step of plan mode keeps its invariant.                            *)
LEMMA PlanNextKeeps == ~Interrupts /\ PlanInv /\ [Plan!Next]_Plan!vars => PlanInv'
<1>1. CASE UNCHANGED Plan!vars
  BY <1>1 DEF Plan!vars, PlanInv, PlanTyped, ToolsKept, Executes, Reports, Made, Up, Tagged,
         InReply
<1>2. QED BY <1>1, ToggleKeeps, QuietSteps, ReplyKeeps, TurnEndKeeps, EndKeeps, ChooseKeeps,
             StopKeeps,
             StartKeeps DEF Plan!Next

(* It holds of a session that begins.                                      *)
LEMMA PlanInit == Plan!Init => PlanInv
<1>1. ASSUME Plan!Init PROVE PlanTyped
  BY <1>1, EmptySeq DEF Plan!Init, PlanTyped, Plan!NoReply
<1>2. ASSUME Plan!Init PROVE ToolsKept /\ Executes /\ Reports /\ Made
  BY <1>2 DEF Plan!Init, ToolsKept, Executes, Reports, Made, Up
<1>3. QED BY <1>1, <1>2 DEF PlanInv

(* Plan mode keeps what it promises as long as no message that waits is    *)
(* lost with its process (plan-mode/index.ts:278, :376).                   *)
THEOREM PlanKeptHolds == ~Interrupts => (Plan!Spec => PlanKept)
<1>1. PlanInv => Plan!StepsAreReported
  BY DEF PlanInv, Reports, Executes, Plan!StepsAreReported, Up, InReply, PlanTyped
<1>2. ASSUME PlanInv, Plan!Next, Up, planModeEnabled, planModeEnabled' # planModeEnabled
      PROVE  activeTools' = before
  <2>1. toolsBeforePlanMode = before /\ before # None /\ planModeEnabled = TRUE
    BY <1>2, SessionAssumption, NoneAssumption DEF PlanInv, ToolsKept, PlanTyped
  <2>2. Plan!TogglePlanMode \/ (Plan!ChooseExecute /\ Plan!RestoreNormalModeTools)
    BY <1>2 DEF Plan!Next, Plan!Prompt, Plan!Execute, Plan!TurnEnd, Plan!Abort, Plan!PlanEnds,
           Plan!RunEnds, Plan!ChooseExecute, Plan!ChooseOther,
                Plan!Stop, Plan!SelectTools, Plan!Reply, Plan!Start, Plan!modes, Up
  <2>3. Plan!RestoreNormalModeTools
    BY <1>2, <2>1, <2>2 DEF Plan!TogglePlanMode
  <2>4. QED BY <2>1, <2>3 DEF Plan!RestoreNormalModeTools
<1>3. ASSUME PlanInv, Plan!Next, Up, ~executionMode, executionMode' # executionMode, executionMode'
      PROVE  planModeEnabled /\ todoItems' # <<>>
  <2>1. Plan!ChooseExecute
    BY <1>3 DEF Plan!Next, Plan!TogglePlanMode, Plan!Prompt, Plan!Execute, Plan!TurnEnd,
           Plan!Abort, Plan!PlanEnds, Plan!RunEnds, Plan!ChooseOther,
                Plan!Stop, Plan!SelectTools, Plan!Reply, Plan!Start, Plan!modes, Up
  <2>2. todoItems # <<>>
    BY <1>3, <2>1 DEF Plan!ChooseExecute, Plan!modes
  <2>3. QED BY <1>3, <2>1, <2>2 DEF Plan!ChooseExecute, PlanInv, Executes
<1>4. PlanInv /\ [Plan!Next]_Plan!vars =>
        /\ [agent # "down" /\ planModeEnabled /\ ~planModeEnabled' => activeTools' = before]_Plan!vars
        /\ [agent # "down" /\ ~executionMode /\ executionMode' =>
              planModeEnabled /\ todoItems' # <<>>]_Plan!vars
  BY <1>2, <1>3 DEF Up
<1>5. SUFFICES ASSUME ~Interrupts PROVE Plan!Spec => PlanKept
  OBVIOUS
<1>6. PlanInv /\ [Plan!Next]_Plan!vars => PlanInv'
  BY <1>5, PlanNextKeeps
<1>7. QED BY <1>1, <1>4, <1>6, PlanInit, PTL DEF Plan!Spec, PlanKept, Plan!ToolsGivenBack,
                 Plan!ExecutesChosenPlan

-----------------------------------------------------------------------------
\* The goal of a session.

Waits == [verb : {"clear", "resume", "edit", "set"}, active : BOOLEAN,
          at : {"user", "run", "free"}]

GoalTyped ==
  /\ goal \in GoalRecord \cup {None} /\ savedGoal \in GoalRecord \cup {None}
  /\ made \in Nat /\ inRow \in Nat /\ timer \in Nat \cup {None}
  /\ queue \in Seq({"auto", "asked"}) /\ waiting \in Seq(Waits)
  /\ timer # None => timer <= made
  /\ goal # None => goal.id <= made /\ goal.continuations <= MaxAuto
  /\ savedGoal # None => savedGoal.id <= made /\ savedGoal.continuations <= MaxAuto

\* What the session file has lags behind by tokens and their consequences only.
Agrees ==
  /\ goal = None <=> savedGoal = None
  /\ goal # None => savedGoal.continuations = goal.continuations
  /\ Goal!Idle => savedGoal = goal

\* A reply ends after the timer and the commands that can go on.
Punctual == timer # None \/ ~Goal!NoneFree => run \in {"idle", "running"}

\* Every automatic turn in a row was counted for the goal, and one that is due
\* as well.
Due == timer # None /\ goal # None /\ goal.id = timer
InRow ==
  goal # None => inRow <= goal.continuations /\ (Due => inRow < goal.continuations)

\* A run that is done, and a goal with a turn due, are within the budget.
Within ==
  /\ run = "done" /\ Goal!Active /\ goal.id = runGoalId => ~Goal!Over(goal)
  /\ Due /\ (Goal!Active \/ ~Goal!NoneFree) => ~Goal!Over(goal)

GoalInv == GoalTyped /\ Agrees /\ Punctual /\ InRow /\ Within

-----------------------------------------------------------------------------
(* A command that is removed leaves a sequence of the others.              *)
LEMMA Removed ==
  ASSUME NEW S, NEW s \in Seq(S), NEW k \in DOMAIN s
  PROVE  /\ Goal!RemoveAt(s, k) \in Seq(S)
         /\ \A j \in DOMAIN Goal!RemoveAt(s, k) : \E m \in DOMAIN s : Goal!RemoveAt(s, k)[j] = s[m]
<1> DEFINE head == SubSeq(s, 1, k - 1)
           tail == SubSeq(s, k + 1, Len(s))
<1>1. k \in 1..Len(s) /\ Len(s) \in Nat
  OBVIOUS
<1>2. Goal!RemoveAt(s, k) = head \o tail
  BY DEF Goal!RemoveAt
<1>3. /\ head \in Seq(S) /\ Len(head) = k - 1 /\ \A j \in 1..(k - 1) : head[j] = s[j]
  BY <1>1
<1>4. /\ tail \in Seq(S) /\ Len(tail) = Len(s) - k /\ \A j \in 1..(Len(s) - k) : tail[j] = s[k + j]
  BY <1>1
<1> HIDE DEF head, tail
<1>5. /\ head \o tail \in Seq(S) /\ Len(head \o tail) = Len(s) - 1
      /\ \A j \in 1..(Len(s) - 1) : (head \o tail)[j] = IF j <= k - 1 THEN s[j] ELSE s[j + 1]
  <2>1. /\ head \o tail \in Seq(S) /\ Len(head \o tail) = Len(head) + Len(tail)
        /\ \A j \in 1..(Len(head) + Len(tail)) :
             (head \o tail)[j] = IF j <= Len(head) THEN head[j] ELSE tail[j - Len(head)]
    BY <1>3, <1>4, ConcatProperties, Zenon
  <2>2. Len(head) + Len(tail) = Len(s) - 1
    BY <1>1, <1>3, <1>4
  <2>3. ASSUME NEW j \in 1..(Len(s) - 1)
        PROVE  (head \o tail)[j] = IF j <= k - 1 THEN s[j] ELSE s[j + 1]
    <3>1. CASE j <= k - 1
      <4>1. j \in 1..(k - 1) /\ j \in 1..(Len(head) + Len(tail)) /\ j <= Len(head)
        BY <1>1, <1>3, <2>2, <3>1
      <4>2. QED BY <1>3, <2>1, <3>1, <4>1
    <3>2. CASE ~(j <= k - 1)
      <4>1. /\ j - (k - 1) \in 1..(Len(s) - k) /\ k + (j - (k - 1)) = j + 1
            /\ j \in 1..(Len(head) + Len(tail)) /\ ~(j <= Len(head))
        BY <1>1, <1>3, <2>2, <3>2
      <4>2. QED BY <1>3, <1>4, <2>1, <3>2, <4>1
    <3>3. QED BY <3>1, <3>2
  <2>4. QED BY <2>1, <2>2, <2>3
<1>6. ASSUME NEW j \in DOMAIN (head \o tail)
      PROVE  \E m \in DOMAIN s : (head \o tail)[j] = s[m]
  <2>1. j \in 1..(Len(s) - 1)
    BY <1>5
  <2>2. j \in 1..Len(s) /\ j + 1 \in 1..Len(s)
    BY <1>1, <2>1
  <2>3. (head \o tail)[j] = IF j <= k - 1 THEN s[j] ELSE s[j + 1]
    BY <2>1, <1>5
  <2>4. QED BY <1>1, <2>2, <2>3
<1>7. QED BY <1>2, <1>5, <1>6

(* Tokens are added: a goal that they leave active is not over its budget. *)
LEMMA TokensAdded ==
  ASSUME NEW g \in GoalRecord
  PROVE  LET h == Goal!AddTokens(g, 1)
         IN  /\ h \in GoalRecord /\ h.id = g.id /\ h.continuations = g.continuations
             /\ h.status = "active" => ~Goal!Over(h) /\ g.status = "active"
<1> DEFINE used == [g EXCEPT !.tokens = Goal!Limit(@ + 1)]
<1>1. Goal!Limit(g.tokens + 1) \in Nat
  BY SessionAssumption, NoneAssumption DEF GoalRecord, Goal!Limit, Goal!GoalConstants
<1>2. /\ used \in GoalRecord /\ used.id = g.id /\ used.continuations = g.continuations
      /\ used.status = g.status
  BY <1>1 DEF GoalRecord
<1>3. LET h == [used EXCEPT !.status = "budget_limited"]
      IN  /\ h \in GoalRecord /\ h.id = g.id /\ h.continuations = g.continuations
          /\ h.status # "active"
  BY <1>2 DEF GoalRecord, Goal!Statuses
<1>4. QED BY <1>2, <1>3 DEF Goal!AddTokens

(* Another status leaves the rest of a goal.                               *)
LEMMA StatusSet ==
  ASSUME goal \in GoalRecord, NEW status \in Goal!Statuses
  PROVE  /\ Goal!With(status) \in GoalRecord
         /\ Goal!With(status).id = goal.id /\ Goal!With(status).continuations = goal.continuations
         /\ Goal!With(status).auto = goal.auto /\ Goal!With(status).status = status
         /\ Goal!Over(Goal!With(status)) <=> Goal!Over(goal)
BY DEF Goal!With, GoalRecord, Goal!Over

(* The bounds are numbers.                                                 *)
LEMMA LimitIsNat == MaxAuto \in Nat /\ MaxTokens \in Nat /\ Budgets \subseteq Nat
BY SessionAssumption, NoneAssumption DEF Goal!GoalConstants

(* A goal as it is made.                                                   *)
LEMMA GoalIsNew ==
  ASSUME made \in Nat
  PROVE  /\ Goal!NewGoal \in GoalRecord /\ Goal!NewGoal.id = made + 1 /\ Goal!NewGoal.continuations = 0
         /\ Goal!NewGoal.status = "active" /\ ~Goal!Over(Goal!NewGoal)
BY DEF Goal!NewGoal, GoalRecord, Goal!Over, Goal!Statuses

(* Steps of the agent that leave goal, timer and commands alone.           *)
LEMMA RunKeeps ==
  ASSUME GoalInv, UNCHANGED <<Goal!goalVars, timer, waiting, made>>,
         inRow' \in {0, inRow}, queue' \in Seq({"auto", "asked"}),
         Goal!Idle' => savedGoal = goal,
         Punctual', run' # "done"
  PROVE  GoalInv'
<1> USE DEF GoalInv
<1>1. GoalTyped'
  BY DEF GoalTyped, Goal!goalVars
<1>2. Agrees'
  BY DEF Agrees, Goal!goalVars, Goal!Idle
<1>3. InRow'
  BY DEF InRow, Due, Goal!goalVars, GoalTyped, GoalRecord
<1>4. Within'
  BY DEF Within, Due, Goal!goalVars, Goal!Active, Goal!Over, Goal!NoneFree
<1>5. QED BY <1>1, <1>2, <1>3, <1>4

(* The agent starts a run or goes on with its next reply.                  *)
LEMMA RunSteps ==
  ASSUME GoalInv, Goal!Prompt \/ Goal!GoalTurn \/ Goal!NextReply
  PROVE  GoalInv'
<1> USE DEF GoalInv
<1>1. CASE Goal!Prompt
  <2>1. Punctual'
    BY <1>1 DEF Goal!Prompt, Goal!AgentStart, Punctual
  <2>2. QED BY <1>1, <2>1, RunKeeps DEF Goal!Prompt, Goal!AgentStart, Goal!UserActs, Goal!Idle,
                   GoalTyped, Goal!history
<1>2. CASE Goal!GoalTurn
  <2>1. Punctual'
    BY <1>2 DEF Goal!GoalTurn, Goal!AgentStart, Punctual
  <2>2. queue' \in Seq({"auto", "asked"})
    BY <1>2 DEF Goal!GoalTurn, GoalTyped
  <2>3. QED BY <1>2, <2>1, <2>2, RunKeeps DEF Goal!GoalTurn, Goal!AgentStart, Goal!Idle,
                   GoalTyped, Goal!history
<1>3. CASE Goal!NextReply
  <2>1. Punctual'
    BY <1>3 DEF Goal!NextReply, Punctual
  <2>2. QED BY <1>3, <2>1, RunKeeps DEF Goal!NextReply, Goal!Idle, GoalTyped, Goal!history
<1>4. QED BY <1>1, <1>2, <1>3

(* message_end counts the tokens of the reply.                             *)
LEMMA MessageSteps ==
  ASSUME GoalInv, NEW stop \in {"stop", "toolUse", "length", "error", "limit"}, Goal!MessageEnd(stop)
  PROVE  GoalInv'
<1> USE DEF GoalInv
<1>1. /\ timer = None /\ Goal!NoneFree /\ run = "running" /\ run' \in {"tool", "failed", "done"}
      /\ UNCHANGED <<timer, queue, waiting, inRow, made, runGoalId, savedGoal>>
      /\ run' = "done" => stop \in {"stop", "length"}
  BY DEF Goal!MessageEnd, Goal!Counted, Goal!goalVars, Goal!history
<1>2. \/ UNCHANGED goal /\ (run' = "done" => ~(goal # None /\ goal.id = runGoalId))
      \/ goal # None /\ goal' = Goal!AddTokens(goal, 1)
  BY <1>1 DEF Goal!MessageEnd, Goal!Counted, Goal!goalVars
<1>3. goal # None => LET h == Goal!AddTokens(goal, 1)
                     IN  /\ h \in GoalRecord /\ h.id = goal.id /\ h.continuations = goal.continuations
                         /\ h.status = "active" => ~Goal!Over(h)
  BY TokensAdded DEF GoalTyped
<1>4. Goal!NoneFree' /\ timer' = None /\ ~Goal!Idle'
  BY <1>1 DEF Goal!NoneFree, Goal!Idle
<1>5. GoalTyped'
  BY <1>1, <1>2, <1>3 DEF GoalTyped
<1>6. Agrees'
  BY <1>1, <1>2, <1>3, <1>4, SessionAssumption, NoneAssumption DEF Agrees
<1>7. Punctual' /\ InRow'
  BY <1>1, <1>2, <1>3, <1>4 DEF Punctual, InRow, Due
<1>8. Within'
  BY <1>1, <1>2, <1>3, <1>4 DEF Within, Due, Goal!Active, Goal!Over
<1>9. QED BY <1>5, <1>6, <1>7, <1>8

(* The tools update_goal and llm_query.                                    *)
LEMMA UpdateSteps ==
  ASSUME GoalInv,
         \/ Goal!UpdateObjective \/ Goal!LlmQuery
         \/ \E status \in {"active", "blocked", "complete"} : Goal!UpdateStatus(status)
  PROVE  GoalInv'
<1> USE DEF GoalInv
<1>1. /\ run = "tool" /\ run' = "tool" /\ timer = None /\ timer' = None /\ Goal!NoneFree
      /\ Goal!NoneFree'
      /\ UNCHANGED <<queue, waiting>> /\ made' \in {made, made + 1} /\ inRow' \in {0, inRow}
      /\ savedGoal' = goal'
  BY DEF Goal!UpdateObjective, Goal!LlmQuery, Goal!UpdateStatus, Goal!Becomes, Goal!runVars,
         Goal!history, Punctual, Goal!NoneFree
<1>2. /\ goal' \in GoalRecord /\ goal'.continuations <= MaxAuto /\ goal'.id <= made'
      /\ \/ goal'.continuations = 0 /\ inRow' = 0
         \/ goal # None /\ goal'.continuations = goal.continuations
  <2>1. CASE Goal!UpdateObjective
    <3>1. CASE goal = None
      BY <2>1, <3>1, GoalIsNew, LimitIsNat DEF Goal!UpdateObjective, Goal!Becomes, GoalTyped
    <3>2. CASE goal # None
      <4>1. /\ goal \in GoalRecord /\ goal.id <= made /\ made' = made /\ inRow' = 0
            /\ goal' = [goal EXCEPT !.status = "active", !.tokens = 0, !.continuations = 0]
        BY <2>1, <3>2 DEF Goal!UpdateObjective, Goal!Becomes, GoalTyped
      <4>2. goal' \in GoalRecord /\ goal'.id = goal.id /\ goal'.continuations = 0
        BY <4>1 DEF GoalRecord, Goal!Statuses
      <4>3. QED BY <4>1, <4>2, LimitIsNat
    <3>3. QED BY <3>1, <3>2
  <2>2. CASE Goal!LlmQuery
    BY <2>2, TokensAdded DEF Goal!LlmQuery, Goal!Becomes, GoalTyped
  <2>3. ASSUME NEW status \in {"active", "blocked", "complete"}, Goal!UpdateStatus(status)
        PROVE  /\ goal' \in GoalRecord /\ goal'.continuations <= MaxAuto /\ goal'.id <= made'
               /\ \/ goal'.continuations = 0 /\ inRow' = 0
                  \/ goal # None /\ goal'.continuations = goal.continuations
    <3>1. /\ Goal!With(status) \in GoalRecord /\ Goal!With(status).id = goal.id
          /\ Goal!With(status).continuations = goal.continuations
      BY <2>3, StatusSet DEF Goal!UpdateStatus, GoalTyped, Goal!Statuses
    <3>2. /\ goal \in GoalRecord /\ goal # None /\ goal.id <= made /\ goal.continuations <= MaxAuto
          /\ made' = made /\ inRow' = 0
          /\ goal' = [Goal!With(status) EXCEPT !.continuations = IF status = "active" THEN 0 ELSE @]
      BY <2>3 DEF Goal!UpdateStatus, Goal!Becomes, GoalTyped
    <3>3. /\ goal' \in GoalRecord /\ goal'.id = goal.id
          /\ goal'.continuations \in {0, goal.continuations}
      BY <3>1, <3>2 DEF GoalRecord
    <3>4. QED BY <3>2, <3>3, LimitIsNat
  <2>4. QED BY <2>1, <2>2, <2>3
<1>3. GoalTyped'
  BY <1>1, <1>2 DEF GoalTyped
<1>4. Agrees'
  BY <1>1, <1>2, SessionAssumption, NoneAssumption DEF Agrees
<1>5. Punctual' /\ InRow' /\ Within'
  BY <1>1, <1>2 DEF Punctual, InRow, Due, Within, GoalTyped, GoalRecord
<1>6. QED BY <1>3, <1>4, <1>5

(* agent_settled saves the goal and may set the timer for a turn.          *)
LEMMA Settling ==
  ASSUME GoalInv, Goal!AgentSettled
  PROVE  GoalInv'
<1> USE DEF GoalInv
<1> DEFINE mine == Goal!Active /\ goal.id = runGoalId
<1>1. /\ run \in {"failed", "done"} /\ Goal!Idle' /\ UNCHANGED <<queue, inRow, made>>
      /\ timer = None /\ Goal!NoneFree
      /\ savedGoal' = goal'
      /\ timer' = IF mine /\ Goal!Continues THEN goal.id ELSE None
      /\ goal = None => goal' = None
      /\ goal # None => goal' = IF mine THEN Goal!Settled ELSE goal
  BY DEF Goal!AgentSettled, Goal!Idle, Punctual, Goal!goalVars, Goal!Becomes, Goal!history,
         Agrees
<1>2. waiting' \in Seq(Waits)
  <2>1. waiting \in Seq(Waits)
    BY DEF GoalTyped
  <2>2. ASSUME NEW i \in DOMAIN waiting
        PROVE  waiting[i] \in Waits /\ [waiting[i] EXCEPT !.at = "free"] \in Waits
    <3>1. waiting[i] \in Waits
      BY <2>1
    <3>2. QED BY <3>1 DEF Waits
  <2>3. QED BY <2>1, <2>2 DEF Goal!AgentSettled
<1>3. ASSUME goal # None, mine
      PROVE  /\ goal' \in GoalRecord /\ goal'.id = goal.id /\ (Goal!Over(goal') <=> Goal!Over(goal))
             /\ goal'.continuations \in goal.continuations..MaxAuto
             /\ Goal!Continues => goal'.continuations = goal.continuations + 1 /\ run = "done"
             /\ goal'.status = "active" => goal.status = "active"
  <2>1. goal' = Goal!Settled /\ goal \in GoalRecord /\ goal.continuations <= MaxAuto /\ MaxAuto \in Nat
    BY <1>1, <1>3, LimitIsNat DEF GoalTyped
  <2>2. Goal!Continues => /\ Goal!Settled = [goal EXCEPT !.continuations = @ + 1]
                     /\ run = "done" /\ goal.continuations < MaxAuto
    BY DEF Goal!Settled, Goal!Continues
  <2>3. ~Goal!Continues => Goal!Settled \in {goal, Goal!With("usage_limited"), Goal!With("paused")}
    BY DEF Goal!Settled
  <2>4. CASE Goal!Continues
    BY <1>3, <2>1, <2>2, <2>4 DEF GoalRecord, Goal!Over, Goal!Active
  <2>5. CASE ~Goal!Continues
    BY <1>3, <2>1, <2>3, <2>5, StatusSet DEF Goal!Statuses, GoalRecord, Goal!Active
  <2>6. QED BY <2>4, <2>5
<1>4. goal # None => goal' \in GoalRecord /\ goal'.id = goal.id /\ goal'.continuations <= MaxAuto
                     /\ goal.continuations <= goal'.continuations /\ goal \in GoalRecord
  <2>1. goal # None =>
          goal \in GoalRecord /\ goal.continuations \in Nat /\ goal.continuations <= MaxAuto
    BY DEF GoalTyped, GoalRecord
  <2>2. CASE goal # None /\ mine
    BY <2>1, <2>2, <1>3, LimitIsNat
  <2>3. CASE goal # None /\ ~mine
    BY <2>1, <2>3, <1>1
  <2>4. QED BY <2>2, <2>3
<1>5. GoalTyped'
  BY <1>1, <1>2, <1>4 DEF GoalTyped, GoalRecord, Goal!Active
<1>6. Agrees'
  BY <1>1, <1>4, SessionAssumption, NoneAssumption DEF Agrees
<1>7. Punctual'
  BY <1>1 DEF Punctual, Goal!Idle
<1>8. InRow'
  BY <1>1, <1>3, <1>4 DEF InRow, Due, GoalTyped, GoalRecord
<1>9. Within'
  <2>1. ASSUME Due' PROVE ~Goal!Over(goal')
    <3>1. goal # None /\ mine /\ Goal!Continues
      BY <2>1, <1>1, SessionAssumption, NoneAssumption DEF Due
    <3>2. ~Goal!Over(goal)
      BY <3>1, <1>3 DEF Within
    <3>3. QED BY <3>1, <3>2, <1>3, Zenon
  <2>2. Due' => ~Goal!Over(goal)'
    BY <2>1 DEF Goal!Over
  <2>3. QED BY <2>2, <1>1 DEF Within, Goal!Idle
<1>10. QED BY <1>5, <1>6, <1>7, <1>8, <1>9

(* The timer sends the turn, or does not if the goal has changed.          *)
LEMMA TimerSteps ==
  ASSUME GoalInv, Goal!Timer
  PROVE  GoalInv'
<1> USE DEF GoalInv
<1>1. /\ timer # None /\ timer' = None /\ Goal!NoneFree /\ Goal!NoneFree'
      /\ UNCHANGED <<goal, savedGoal, run, runGoalId, waiting, made>>
      /\ queue' \in {queue, Append(queue, "auto")} /\ inRow' \in {inRow, Goal!Counting}
      /\ inRow' # inRow => Due
  BY DEF Goal!Timer, Goal!goalVars, Goal!runVars, Goal!Queued, Goal!NoneFree, Due, Goal!Active
<1>2. inRow' \in Nat /\ (goal # None => inRow' <= goal.continuations)
  <2>1. CASE inRow' = inRow
    BY <2>1 DEF GoalTyped, InRow
  <2>2. CASE inRow' # inRow
    <3>1. goal \in GoalRecord /\ goal.continuations \in Nat /\ inRow < goal.continuations
          /\ inRow \in Nat /\ goal.continuations <= MaxAuto
      BY <2>2, <1>1 DEF GoalTyped, InRow, Due, GoalRecord
    <3>2. inRow' = inRow + 1
      BY <2>2, <3>1, <1>1, LimitIsNat DEF Goal!Counting
    <3>3. QED BY <3>1, <3>2
  <2>3. QED BY <2>1, <2>2
<1>3. GoalTyped'
  <2>1. inRow' \in Nat
    BY <1>1, LimitIsNat DEF GoalTyped, Goal!Counting
  <2>2. queue' \in Seq({"auto", "asked"})
    BY <1>1 DEF GoalTyped
  <2>3. QED BY <1>1, <2>1, <2>2 DEF GoalTyped
<1>4. Agrees' /\ Punctual'
  BY <1>1 DEF Agrees, Goal!Idle, Punctual
<1>9. InRow'
  BY <1>1, <1>2, SessionAssumption, NoneAssumption DEF InRow, Due
<1>5. Within'
  BY <1>1 DEF Within, Due, Goal!Active, Goal!Over
<1>6. QED BY <1>3, <1>4, <1>9, <1>5

(* A process resumes the session from its last snapshot.                   *)
LEMMA RestartSteps ==
  ASSUME GoalInv, Goal!Restart
  PROVE  GoalInv'
<1> USE DEF GoalInv
<1>1. /\ savedGoal' \in {savedGoal, goal} /\ goal' = savedGoal' /\ run' = "idle" /\ timer' = None
      /\ queue' = <<>> /\ waiting' = <<>> /\ UNCHANGED <<inRow, made>>
  BY DEF Goal!Restart, Goal!history
<1>2. GoalTyped' /\ Goal!NoneFree'
  BY <1>1 DEF GoalTyped, Goal!NoneFree
<1>3. QED BY <1>1, <1>2 DEF Agrees, Goal!Idle, Punctual, InRow, Due, Within, GoalTyped

(* Commands that change the status or the settings of the goal at most.    *)
LEMMA UserKeeps ==
  ASSUME GoalInv, Goal!NoneFree, Goal!NoneFree', inRow' = 0, UNCHANGED <<run, runGoalId, queue, made>>,
         waiting' \in Seq(Waits), timer' \in {timer, None},
         \/ UNCHANGED Goal!goalVars
         \/ /\ goal # None /\ goal' \in GoalRecord /\ savedGoal' = goal'
            /\ goal'.id = goal.id /\ goal'.continuations = goal.continuations,
         Goal!Active' => ~Goal!Over(goal)' \/ (Goal!Active /\ UNCHANGED goal)
  PROVE  GoalInv'
<1> USE DEF GoalInv
<1>1. GoalTyped'
  BY DEF GoalTyped, Goal!goalVars
<1>2. Agrees'
  BY SessionAssumption, NoneAssumption DEF Agrees, Goal!goalVars, Goal!Idle
<1>3. Punctual'
  BY DEF Punctual
<1>4. InRow'
  BY DEF InRow, Due, Goal!goalVars, GoalTyped, GoalRecord
<1>5. Within'
  BY DEF Within, Due, Goal!Over, Goal!Active, Goal!goalVars
<1>6. QED BY <1>1, <1>2, <1>3, <1>4, <1>5

(* Commands that are done at once.                                         *)
LEMMA SetSteps ==
  ASSUME GoalInv,
         \/ Goal!Compact
         \/ \E status \in {"paused", "complete"} : Goal!SetStatus(status)
         \/ \E n \in Budgets : Goal!SetBudget(n)
         \/ \E on \in BOOLEAN : Goal!SetAuto(on)
         \/ \E verb \in {"edit", "set"} : Goal!Ask(verb)
  PROVE  GoalInv'
<1> USE DEF GoalInv
<1>1. CASE Goal!Compact /\ inRow' = inRow
  <2>1. /\ goal # None /\ timer = None /\ timer' = None /\ UNCHANGED <<run, queue, waiting, made>>
        /\ goal' = Goal!AddTokens(goal, 1) /\ savedGoal' = goal'
        /\ goal' \in GoalRecord /\ goal'.id = goal.id /\ goal'.continuations = goal.continuations
        /\ goal'.status = "active" => ~Goal!Over(goal')
    BY <1>1, TokensAdded DEF Goal!Compact, Goal!runVars, Goal!Becomes, GoalTyped
  <2>2. goal'.status = "active" => ~Goal!Over(goal)'
    BY <2>1 DEF Goal!Over
  <2>3. GoalTyped'
    BY <1>1, <2>1 DEF GoalTyped
  <2>4. Agrees'
    BY <2>1, SessionAssumption, NoneAssumption DEF Agrees
  <2>5. Punctual' /\ InRow'
    BY <1>1, <2>1 DEF Punctual, InRow, Due, Goal!NoneFree
  <2>6. Within'
    BY <2>1, <2>2 DEF Within, Due, Goal!Active
  <2>7. QED BY <2>3, <2>4, <2>5, <2>6
<1>2. CASE Goal!Compact /\ Goal!UserActs(0)
  <2>1. /\ goal # None /\ timer = None /\ timer' = None
        /\ UNCHANGED <<run, runGoalId, queue, waiting, made>> /\ Goal!NoneFree /\ inRow' = 0
        /\ goal' = Goal!AddTokens(goal, 1) /\ savedGoal' = goal'
        /\ goal' \in GoalRecord /\ goal'.id = goal.id /\ goal'.continuations = goal.continuations
        /\ goal'.status = "active" => ~Goal!Over(goal')
    BY <1>2, TokensAdded DEF Goal!Compact, Goal!runVars, Goal!Becomes, GoalTyped, Goal!UserActs
  <2>2. Goal!Active' => ~Goal!Over(goal)'
    BY <2>1 DEF Goal!Over, Goal!Active
  <2>3. Goal!NoneFree' /\ waiting' \in Seq(Waits)
    BY <2>1 DEF Goal!NoneFree, GoalTyped
  <2>4. QED BY <2>1, <2>2, <2>3, UserKeeps
<1>3. ASSUME NEW status \in {"paused", "complete"}, Goal!SetStatus(status)
      PROVE  GoalInv'
  <2>1. /\ Goal!NoneFree /\ inRow' = 0 /\ UNCHANGED <<run, runGoalId, queue, waiting, made>>
        /\ timer' = None
        /\ goal # None /\ goal' = Goal!With(status) /\ savedGoal' = goal'
    BY <1>3 DEF Goal!SetStatus, Goal!UserActs, Goal!Becomes, Goal!runVars
  <2>2. /\ goal' \in GoalRecord /\ goal'.id = goal.id /\ goal'.continuations = goal.continuations
        /\ goal'.status = status
    BY <2>1, StatusSet DEF GoalTyped, Goal!Statuses
  <2>3. Goal!NoneFree' /\ waiting' \in Seq(Waits) /\ ~Goal!Active'
    BY <2>1, <2>2 DEF Goal!NoneFree, GoalTyped, Goal!Active
  <2>4. QED BY <2>1, <2>2, <2>3, UserKeeps
<1>4. ASSUME NEW n \in Budgets, Goal!SetBudget(n)
      PROVE  GoalInv'
  <2> DEFINE g == [goal EXCEPT !.budget = n]
  <2>1. /\ Goal!NoneFree /\ inRow' = 0 /\ UNCHANGED <<run, runGoalId, queue, waiting, made, timer>>
        /\ goal # None /\ goal' = (IF Goal!Over(g) THEN [g EXCEPT !.status = "budget_limited"] ELSE g)
        /\ savedGoal' = goal'
    BY <1>4 DEF Goal!SetBudget, Goal!UserActs, Goal!Becomes, Goal!runVars
  <2>2. g \in GoalRecord /\ g.id = goal.id /\ g.continuations = goal.continuations
    BY <2>1, LimitIsNat DEF GoalTyped, GoalRecord
  <2>3. LET h == [g EXCEPT !.status = "budget_limited"]
        IN  /\ h \in GoalRecord /\ h.id = g.id /\ h.continuations = g.continuations
            /\ h.status # "active"
    BY <2>2 DEF GoalRecord, Goal!Statuses
  <2> HIDE DEF g
  <2>4. /\ goal' \in GoalRecord /\ goal'.id = goal.id /\ goal'.continuations = goal.continuations
        /\ goal'.status = "active" => ~Goal!Over(goal)'
    BY <2>1, <2>2, <2>3 DEF Goal!Over
  <2>5. Goal!NoneFree' /\ waiting' \in Seq(Waits) /\ (Goal!Active' => ~Goal!Over(goal)')
    BY <2>1, <2>4 DEF Goal!NoneFree, GoalTyped, Goal!Active
  <2>6. QED BY <2>1, <2>4, <2>5, UserKeeps
<1>5. ASSUME NEW on \in BOOLEAN, Goal!SetAuto(on)
      PROVE  GoalInv'
  <2>1. /\ Goal!NoneFree /\ inRow' = 0 /\ UNCHANGED <<run, runGoalId, queue, waiting, made>>
        /\ timer' \in {timer, None} /\ goal # None /\ goal' = [goal EXCEPT !.auto = on]
        /\ savedGoal' = goal'
    BY <1>5 DEF Goal!SetAuto, Goal!UserActs, Goal!Becomes, Goal!runVars
  <2>2. /\ goal' \in GoalRecord /\ goal'.id = goal.id /\ goal'.continuations = goal.continuations
        /\ (Goal!Over(goal)' <=> Goal!Over(goal)) /\ goal'.status = goal.status
    BY <2>1 DEF GoalTyped, GoalRecord, Goal!Over
  <2>3. GoalTyped'
    BY <2>1, <2>2 DEF GoalTyped
  <2>4. Agrees' /\ Punctual'
    BY <2>1, <2>2, SessionAssumption, NoneAssumption DEF Agrees, Punctual, Goal!NoneFree
  <2>5. InRow'
    BY <2>1, <2>2 DEF InRow, Due, GoalTyped, GoalRecord
  <2>6. Within'
    BY <2>1, <2>2, Zenon DEF Within, Due, Goal!Active, Goal!NoneFree
  <2>7. QED BY <2>3, <2>4, <2>5, <2>6
<1>6. ASSUME NEW verb \in {"edit", "set"}, Goal!Ask(verb)
      PROVE  GoalInv'
  <2> DEFINE c == [verb |-> verb, active |-> FALSE, at |-> "user"]
  <2>1. /\ Goal!NoneFree /\ inRow' = 0 /\ UNCHANGED <<run, runGoalId, queue, made, goal, savedGoal>>
        /\ timer' \in {timer, None} /\ waiting' = Append(waiting, c)
    BY <1>6 DEF Goal!Ask, Goal!UserActs, Goal!runVars, Goal!goalVars
  <2>2. c \in Waits /\ c.at # "free"
    BY DEF Waits
  <2>3. waiting \in Seq(Waits)
    BY DEF GoalTyped
  <2> HIDE DEF c
  <2>4. waiting' \in Seq(Waits) /\ Goal!NoneFree'
    BY <2>1, <2>2, <2>3 DEF Goal!NoneFree
  <2>5. QED BY <2>1, <2>4, UserKeeps DEF Goal!goalVars, Goal!Active
<1>7. QED BY <1>1, <1>2, <1>3, <1>4, <1>5, <1>6 DEF Goal!Compact

-----------------------------------------------------------------------------
(* What a command does at its end.                                         *)
LEMMA DoneKeeps ==
  ASSUME GoalInv, NEW c \in Waits, NEW left \in {timer, None}, Goal!Done(c, left), inRow' = 0,
         UNCHANGED <<run, runGoalId>>, run # "done", waiting' \in Seq(Waits),
         ~Goal!NoneFree' => ~Goal!NoneFree, c.verb = "edit" => left = None \/ ~Goal!NoneFree
  PROVE  GoalInv'
<1> USE DEF GoalInv
<1>1. /\ c.verb \in {"clear", "resume", "edit", "set"}
      /\ timer' \in {timer, None} /\ queue' \in {queue, Append(queue, "asked")}
  BY DEF Goal!Done, Waits, Goal!Queued
<1>2. queue' \in Seq({"auto", "asked"})
  <2>1. queue \in Seq({"auto", "asked"}) /\ Append(queue, "asked") \in Seq({"auto", "asked"})
    BY DEF GoalTyped
  <2>2. QED BY <2>1, <1>1
<1>3. Punctual'
  BY <1>1 DEF Punctual
<1>4. CASE c.verb = "clear" \/ (c.verb # "set" /\ goal = None)
  <2>1. goal' = None /\ savedGoal' = None /\ made' = made
    BY <1>1, <1>4 DEF Goal!Done, Goal!Becomes, Goal!goalVars, Agrees
  <2>2. GoalTyped'
    BY <2>1, <1>1, <1>2 DEF GoalTyped
  <2>3. QED BY <2>1, <2>2, <1>3 DEF Agrees, InRow, Due, Within, Goal!Active
<1>5. CASE c.verb = "set"
  <2>1. goal' = Goal!NewGoal /\ savedGoal' = Goal!NewGoal /\ made' = made + 1
    BY <1>5 DEF Goal!Done, Goal!Becomes
  <2>2. /\ Goal!NewGoal \in GoalRecord /\ Goal!NewGoal.id = made + 1 /\ Goal!NewGoal.continuations = 0
        /\ made \in Nat
    BY GoalIsNew DEF GoalTyped
  <2>3. ~Due'
    BY <2>1, <2>2, <1>1 DEF Due, GoalTyped
  <2>4. GoalTyped'
    BY <2>1, <2>2, <1>1, <1>2, LimitIsNat DEF GoalTyped
  <2>5. Agrees'
    BY <2>1, <2>2, SessionAssumption, NoneAssumption DEF Agrees
  <2>6. InRow' /\ Within'
    BY <2>1, <2>2, <2>3 DEF InRow, Within
  <2>7. QED BY <2>4, <2>5, <2>6, <1>3
<1>6. CASE c.verb = "resume" /\ goal # None
  <2>1. /\ goal' = [Goal!With("active") EXCEPT !.continuations = 0] /\ savedGoal' = goal'
        /\ timer' = None /\ made' = made
    BY <1>6 DEF Goal!Done, Goal!Becomes
  <2>2. goal' \in GoalRecord /\ goal'.id = goal.id /\ goal'.continuations = 0
    BY <2>1, <1>6 DEF GoalTyped, Goal!With, GoalRecord, Goal!Statuses
  <2>3. GoalTyped'
    BY <2>1, <2>2, <1>2, <1>6, LimitIsNat DEF GoalTyped
  <2>4. QED BY <2>1, <2>2, <2>3, <1>3, SessionAssumption, NoneAssumption DEF Agrees, InRow, Due,
                   Within
<1>7. CASE c.verb = "edit" /\ goal # None
  <2>1. goal' \in {goal, Goal!With("active")} /\ savedGoal' = goal' /\ timer' = left /\ made' = made
    BY <1>7 DEF Goal!Done, Goal!Becomes
  <2>2. /\ goal' \in GoalRecord /\ goal'.id = goal.id /\ goal'.continuations = goal.continuations
        /\ (Goal!Over(goal)' <=> Goal!Over(goal))
    BY <2>1, <1>7, StatusSet DEF GoalTyped, Goal!Statuses, Goal!With, GoalRecord, Goal!Over
  <2>3. GoalTyped'
    BY <2>1, <2>2, <1>1, <1>2, <1>7 DEF GoalTyped
  <2>4. Agrees'
    BY <2>1, <2>2, SessionAssumption, NoneAssumption DEF Agrees
  <2>5. InRow'
    BY <2>1, <2>2, <1>7 DEF InRow, Due, GoalTyped, GoalRecord
  <2>6. Within'
    BY <2>1, <2>2, <1>7, Zenon DEF Within, Due
  <2>7. QED BY <2>3, <2>4, <2>5, <2>6, <1>3
<1>8. QED BY <1>1, <1>4, <1>5, <1>6, <1>7

(* What a command does that need not wait, or has waited.                  *)
LEMMA DoesKeeps ==
  ASSUME GoalInv, Goal!NoneFree, NEW verb \in {"clear", "resume", "edit", "set"},
         NEW left \in {timer, None}, verb = "edit" => left = None,
         NEW others \in Seq(Waits), \A i \in DOMAIN others : others[i].at # "free",
         Goal!Does(verb, left, others), inRow' = 0, UNCHANGED Goal!runVars
  PROVE  GoalInv'
<1> USE DEF GoalInv
<1> DEFINE c == [verb |-> verb, active |-> Goal!Active, at |-> "run"]
<1>1. Goal!Active \in BOOLEAN
  BY DEF Goal!Active
<1>2. c \in Waits /\ c.verb = verb /\ c.at # "free"
  BY <1>1 DEF Waits
<1>3. CASE Goal!Idle
  <2>1. Goal!Done(c, left) /\ waiting' = others
    BY <1>3 DEF Goal!Does
  <2> HIDE DEF c
  <2>2. waiting' \in Seq(Waits) /\ Goal!NoneFree'
    BY <2>1 DEF Goal!NoneFree
  <2>3. QED BY <2>1, <2>2, <1>2, <1>3, DoneKeeps DEF Goal!Idle, Goal!runVars
<1>4. CASE ~Goal!Idle
  <2>1. /\ waiting' = Append(others, c) /\ timer' = left /\ UNCHANGED <<queue, made>>
        /\ \/ UNCHANGED Goal!goalVars
           \/ Goal!Active /\ goal' = Goal!With("paused") /\ savedGoal' = goal'
    BY <1>4 DEF Goal!Does, Goal!Becomes
  <2> HIDE DEF c
  <2>2. waiting' \in Seq(Waits) /\ Goal!NoneFree'
    BY <2>1, <1>2 DEF Goal!NoneFree
  <2>3. CASE UNCHANGED Goal!goalVars
    BY <2>1, <2>2, <2>3, UserKeeps DEF Goal!runVars, Goal!Active, Goal!goalVars
  <2>4. CASE Goal!Active /\ goal' = Goal!With("paused") /\ savedGoal' = goal'
    <3>1. /\ goal # None /\ goal' \in GoalRecord /\ goal'.id = goal.id
          /\ goal'.continuations = goal.continuations /\ goal'.status = "paused"
      BY <2>4, StatusSet DEF Goal!Active, GoalTyped, Goal!Statuses
    <3>2. ~Goal!Active'
      BY <3>1 DEF Goal!Active
    <3>3. QED BY <2>1, <2>2, <2>4, <3>1, <3>2, UserKeeps DEF Goal!runVars
  <2>5. QED BY <2>1, <2>3, <2>4
<1>5. QED BY <1>3, <1>4

(* Commands that may wait, and go on.                                      *)
LEMMA CommandSteps ==
  ASSUME GoalInv,
         \/ \E verb \in {"clear", "resume", "edit", "set"} : Goal!Command(verb)
         \/ \E i \in DOMAIN waiting : Goal!GoesOn(i) \/ Goal!Answer(i)
  PROVE  GoalInv'
<1> USE DEF GoalInv
<1>1. ASSUME NEW verb \in {"clear", "resume", "edit", "set"}, Goal!Command(verb)
      PROVE  GoalInv'
  <2>1. /\ Goal!NoneFree /\ inRow' = 0 /\ UNCHANGED Goal!runVars
        /\ Goal!Does(verb, IF verb = "resume" THEN timer ELSE None, waiting)
    BY <1>1 DEF Goal!Command, Goal!UserActs
  <2>2. waiting \in Seq(Waits) /\ \A i \in DOMAIN waiting : waiting[i].at # "free"
    BY <2>1 DEF GoalTyped, Goal!NoneFree
  <2>3. CASE verb = "resume"
    BY <2>1, <2>2, <2>3, DoesKeeps
  <2>4. CASE verb # "resume"
    BY <2>1, <2>2, <2>4, DoesKeeps
  <2>5. QED BY <2>3, <2>4
<1>2. ASSUME NEW i \in DOMAIN waiting
      PROVE  /\ waiting[i] \in Waits /\ Goal!RemoveAt(waiting, i) \in Seq(Waits)
             /\ Goal!NoneFree => \A k \in DOMAIN Goal!RemoveAt(waiting, i) :
                                Goal!RemoveAt(waiting, i)[k].at # "free"
  <2>1. waiting \in Seq(Waits)
    BY DEF GoalTyped
  <2>2. QED BY <2>1, Removed DEF Goal!NoneFree
<1>3. ASSUME NEW i \in DOMAIN waiting, Goal!Answer(i)
      PROVE  GoalInv'
  <2> DEFINE verb == waiting[i].verb
             rest == Goal!RemoveAt(waiting, i)
  <2>1. /\ Goal!NoneFree /\ inRow' = 0 /\ UNCHANGED Goal!runVars
        /\ verb \in {"clear", "resume", "edit", "set"}
        /\ \/ waiting' = rest /\ UNCHANGED <<Goal!goalVars, queue, made, timer>>
           \/ Goal!Does(verb, IF verb = "edit" THEN None ELSE timer, rest)
    BY <1>2, <1>3 DEF Goal!Answer, Waits
  <2>2. rest \in Seq(Waits) /\ \A k \in DOMAIN rest : rest[k].at # "free"
    BY <1>2, <2>1
  <2> HIDE DEF verb, rest
  <2>3. CASE waiting' = rest /\ UNCHANGED <<Goal!goalVars, queue, made, timer>>
    <3>1. Goal!NoneFree' /\ waiting' \in Seq(Waits)
      BY <2>2, <2>3 DEF Goal!NoneFree
    <3>2. QED BY <2>1, <2>3, <3>1, UserKeeps DEF Goal!runVars, Goal!Active, Goal!goalVars
  <2>4. CASE Goal!Does(verb, IF verb = "edit" THEN None ELSE timer, rest)
    <3>1. CASE verb = "edit"
      BY <2>1, <2>2, <2>4, <3>1, DoesKeeps
    <3>2. CASE verb # "edit"
      BY <2>1, <2>2, <2>4, <3>2, DoesKeeps
    <3>3. QED BY <3>1, <3>2
  <2>5. QED BY <2>1, <2>3, <2>4
<1>4. ASSUME NEW i \in DOMAIN waiting, Goal!GoesOn(i)
      PROVE  GoalInv'
  <2>1. /\ waiting[i].at = "free" /\ waiting' = Goal!RemoveAt(waiting, i)
        /\ Goal!Done(waiting[i], timer)
        /\ inRow' = 0 /\ UNCHANGED <<run, runGoalId>>
    BY <1>4 DEF Goal!GoesOn, Goal!runVars
  <2>2. ~Goal!NoneFree /\ run # "done"
    BY <2>1 DEF Goal!NoneFree, Punctual
  <2>3. QED BY <2>1, <2>2, <1>2, DoneKeeps
<1>5. QED BY <1>1, <1>3, <1>4

(* Every step of the goal keeps its invariant.                             *)
LEMMA GoalNextKeeps == GoalInv /\ [Goal!Next]_Goal!vars => GoalInv'
<1>1. CASE UNCHANGED Goal!vars
  BY <1>1 DEF Goal!vars, GoalInv, GoalTyped, Agrees, Goal!Idle, Punctual, Goal!NoneFree, InRow,
         Due, Within, Goal!Active, Goal!Over
<1>2. QED
  BY <1>1, RunSteps, MessageSteps, UpdateSteps, Settling, TimerSteps, RestartSteps, SetSteps,
     CommandSteps DEF Goal!Next, Goal!Works, Goal!Commands

(* It holds of a session that begins.                                      *)
LEMMA GoalInit == Goal!Init => GoalInv
BY DEF Goal!Init, GoalInv, GoalTyped, Agrees, Goal!Idle, Punctual, Goal!NoneFree, InRow, Due,
       Within, Goal!Active

(* So it always holds.                                                     *)
LEMMA GoalInvariant == Goal!Spec => []GoalInv
<1>1. QED BY GoalInit, GoalNextKeeps, PTL DEF Goal!Spec

(* While no run is going on the session file holds the goal as it is.      *)
LEMMA SavedWhenIdleHolds == Goal!Spec => []Goal!SavedWhenIdle
<1>1. GoalInv => Goal!SavedWhenIdle
  BY DEF GoalInv, Agrees, Goal!SavedWhenIdle
<1>2. QED BY <1>1, GoalInvariant, PTL

(* Only the timer sends an automatic turn.                                 *)
LEMMA AskedTurns ==
  ASSUME GoalTyped, Goal!Next, ~Goal!Timer
  PROVE  \/ UNCHANGED queue
         \/ queue # <<>> /\ queue' = Tail(queue)
         \/ queue' = <<>>
         \/ queue' = Append(queue, "asked")
<1> DEFINE Asked == \/ UNCHANGED queue
                    \/ queue # <<>> /\ queue' = Tail(queue)
                    \/ queue' = <<>>
                    \/ queue' = Append(queue, "asked")
<1> DEFINE Verbs == {"clear", "resume", "edit", "set"}
<1>1. ASSUME NEW c, c.verb \in Verbs, NEW left, Goal!Done(c, left) PROVE Asked
  BY <1>1 DEF Goal!Done, Goal!Queued
<1>2. ASSUME NEW verb \in Verbs, NEW left, NEW others, Goal!Does(verb, left, others) PROVE Asked
  BY <1>1, <1>2 DEF Goal!Does
<1>3. ASSUME Goal!Works PROVE Asked
  <2>1. ASSUME NEW i \in DOMAIN waiting PROVE waiting[i].verb \in Verbs
    <3>1. waiting \in Seq(Waits)
      BY DEF GoalTyped
    <3>2. waiting[i] \in Waits
      BY <3>1
    <3>3. QED BY <3>2 DEF Waits
  <2>2. ASSUME NEW i \in DOMAIN waiting, Goal!GoesOn(i) PROVE Asked
    BY <2>1, <2>2, <1>1 DEF Goal!GoesOn
  <2>3. ASSUME NEW i \in DOMAIN waiting, Goal!Answer(i) PROVE Asked
    BY <2>1, <2>3, <1>2 DEF Goal!Answer
  <2>4. QED BY <1>3, <2>2, <2>3 DEF Goal!Works, Goal!GoalTurn, Goal!NextReply, Goal!AgentSettled
<1>4. ASSUME Goal!Commands PROVE Asked
  <2>1. ASSUME NEW verb \in Verbs, Goal!Command(verb) PROVE Asked
    BY <2>1, <1>2 DEF Goal!Command
  <2>2. QED BY <1>4, <2>1 DEF Goal!Commands, Goal!SetStatus, Goal!SetBudget, Goal!SetAuto,
                   Goal!Ask
<1>5. ASSUME Goal!Prompt \/ Goal!Compact \/ Goal!Restart \/ Goal!UpdateObjective \/ Goal!LlmQuery
      PROVE  Asked
  BY <1>5 DEF Goal!Prompt, Goal!Compact, Goal!Restart, Goal!UpdateObjective, Goal!LlmQuery
<1>6. ASSUME NEW status, Goal!UpdateStatus(status) PROVE Asked
  BY <1>6 DEF Goal!UpdateStatus
<1>7. ASSUME NEW stop, Goal!MessageEnd(stop) PROVE Asked
  BY <1>7 DEF Goal!MessageEnd
<1>8. QED BY <1>3, <1>4, <1>5, <1>6, <1>7 DEF Goal!Next

(* A goal is continued only while it is active, within its budget and at   *)
(* most MaxAuto times in a row (productivity/index.ts:928).                *)
THEOREM ContinuesWithinLimitsHolds == Goal!Spec => ContinuesWithinLimits
<1>1. ASSUME GoalInv, Goal!Next, Len(queue') > Len(queue), Goal!Last(queue') = "auto"
      PROVE  Goal!Active /\ goal.auto /\ ~Goal!Over(goal) /\ inRow' <= MaxAuto
  <2>1. queue \in Seq({"auto", "asked"}) /\ GoalInv'
    BY <1>1, GoalNextKeeps DEF GoalInv, GoalTyped
  <2>2. Goal!Timer
    <3>1. SUFFICES ASSUME ~Goal!Timer PROVE FALSE
      OBVIOUS
    <3>2. queue' # Append(queue, "asked")
      BY <1>1, <2>1 DEF Goal!Last
    <3>3. \/ UNCHANGED queue
          \/ queue # <<>> /\ queue' = Tail(queue)
          \/ queue' = <<>>
      BY <1>1, <3>1, <3>2, AskedTurns DEF GoalInv
    <3>4. QED BY <1>1, <2>1, <3>3
  <2>3. queue' # queue
    BY <1>1, <2>1
  <2>4. Due /\ Goal!Active /\ goal.auto /\ UNCHANGED goal /\ inRow' = Goal!Counting
    BY <2>2, <2>3 DEF Goal!Timer, Due, Goal!Active, Goal!goalVars
  <2>5. ~Goal!Over(goal)
    BY <1>1, <2>4 DEF GoalInv, Within
  <2>6. inRow' <= MaxAuto
    <3>1. goal \in GoalRecord /\ goal.continuations <= MaxAuto /\ inRow' <= goal.continuations
      BY <2>1, <2>4 DEF GoalInv, GoalTyped, InRow, Due, Goal!Active
    <3>2. QED BY <3>1, <2>1, LimitIsNat DEF GoalInv, GoalTyped, GoalRecord
  <2>7. QED BY <2>4, <2>5, <2>6
<1>2. GoalInv /\ [Goal!Next]_Goal!vars =>
        [Len(queue') > Len(queue) /\ Goal!Last(queue') = "auto" =>
           /\ Goal!Active /\ goal.auto /\ ~Goal!Over(goal)
           /\ inRow' <= MaxAuto]_Goal!vars
  BY <1>1
<1>3. QED BY <1>2, GoalInvariant, PTL DEF Goal!Spec, ContinuesWithinLimits,
                 Goal!ContinuesWithinLimits

-----------------------------------------------------------------------------
\* The phases of anchored-standard.

SessionEvent  == [kind : {"turn", "call"}, after : Nat \cup {None}]
Anchor == [bootstrapped : BOOLEAN, turnCount : Nat]

PhaseTyped ==
  /\ promoteAfterTurns \in Nat \cup {None} /\ bootstrapped \in BOOLEAN /\ turnCount \in Nat
  /\ events \in Seq(SessionEvent) /\ anchors \in Seq(Anchor)

\* The entries hold no more turns than the session had, one of them all.
Holds(entries, count, promoted) ==
  /\ \A k \in DOMAIN entries : entries[k].turnCount <= count
  /\ count > 0 => \E k \in DOMAIN entries : entries[k].turnCount = count
  /\ promoted <=> \E k \in DOMAIN entries : entries[k].bootstrapped

\* PromotedOnce of a sequence of events.
TurnsIn(es, k) == Cardinality({n \in 1..k : es[n].kind = "turn"})
Promotes(e, turn) ==
  IF e.kind = "call" THEN e.after = None ELSE e.after # None /\ turn >= e.after
Led(es, count, promoted) ==
  /\ count = TurnsIn(es, Len(es))
  /\ promoted <=> \E k \in DOMAIN es : Promotes(es[k], TurnsIn(es, k))

PhaseInv ==
  PhaseTyped /\ Holds(anchors, turnCount, bootstrapped) /\ Led(events, turnCount, bootstrapped)

-----------------------------------------------------------------------------
(* The number of elements is the same wherever it is counted.              *)
LEMMA SameCardinality == \A S : Anchored!Cardinality(S) = Cardinality(S)
BY Zenon DEF Anchored!Cardinality, Cardinality

(* Which turn the last event is of.                                        *)
LEMMA TurnsAppended ==
  ASSUME NEW es \in Seq(SessionEvent), NEW e \in SessionEvent
  PROVE  /\ \A k \in 0..Len(es) : TurnsIn(Append(es, e), k) = TurnsIn(es, k)
         /\ TurnsIn(Append(es, e), Len(es) + 1)
              = TurnsIn(es, Len(es)) + (IF e.kind = "turn" THEN 1 ELSE 0)
<1> DEFINE more == Append(es, e)
           turns(s, k) == {n \in 1..k : s[n].kind = "turn"}
<1>1. /\ Len(es) \in Nat /\ \A n \in 1..Len(es) : more[n] = es[n]
      /\ more[Len(es) + 1] = e
  OBVIOUS
<1>2. ASSUME NEW k \in 0..Len(es) PROVE turns(more, k) = turns(es, k)
  BY <1>1
<1>3. turns(more, Len(es) + 1)
        = IF e.kind = "turn" THEN turns(es, Len(es)) \cup {Len(es) + 1} ELSE turns(es, Len(es))
  BY <1>1
<1>4. IsFiniteSet(turns(es, Len(es))) /\ Len(es) + 1 \notin turns(es, Len(es))
  <2>1. IsFiniteSet(1..Len(es)) /\ turns(es, Len(es)) \subseteq 1..Len(es)
    BY <1>1, FS_Interval
  <2>2. QED BY <2>1, <1>1, FS_Subset
<1> HIDE DEF turns
<1>5. Cardinality(turns(es, Len(es)) \cup {Len(es) + 1}) = Cardinality(turns(es, Len(es))) + 1
  BY <1>4, FS_AddElement
<1>6. Cardinality(turns(es, Len(es))) \in Nat
  BY <1>4, FS_CardinalityType
<1>7. /\ \A k \in 0..Len(es) : Cardinality(turns(more, k)) = Cardinality(turns(es, k))
      /\ Cardinality(turns(more, Len(es) + 1))
           = Cardinality(turns(es, Len(es))) + (IF e.kind = "turn" THEN 1 ELSE 0)
  BY <1>2, <1>3, <1>5, <1>6
<1>8. QED BY <1>7 DEF TurnsIn, turns

(* What a process finds is what the session's entries were made of.        *)
LEMMA RestoredAnchors ==
  ASSUME PhaseTyped, Holds(anchors, turnCount, bootstrapped)
  PROVE  /\ Anchored!Restored(anchors).turnCount = turnCount
         /\ Anchored!Restored(anchors).bootstrapped = bootstrapped
<1> DEFINE counts == {0} \cup {e.turnCount : e \in Anchored!ToSet(anchors)}
<1>1. /\ \A e \in Anchored!ToSet(anchors) : \E k \in DOMAIN anchors : e = anchors[k]
      /\ \A k \in DOMAIN anchors : anchors[k] \in Anchored!ToSet(anchors) /\ anchors[k] \in Anchor
  BY DEF Anchored!ToSet, PhaseTyped
<1>2. counts \subseteq Nat /\ turnCount \in counts /\ \A n \in counts : n <= turnCount
  BY <1>1 DEF PhaseTyped, Holds, Anchor
<1> HIDE DEF counts
<1>3. Anchored!Max(counts) = turnCount
  <2>1. /\ turnCount \in counts /\ \A y \in counts : turnCount >= y
        /\ \A x \in counts : (\A y \in counts : x >= y) => x = turnCount
    BY <1>2 DEF PhaseTyped
  <2>2. QED BY <2>1, Zenon DEF Anchored!Max
<1>4. (\E e \in Anchored!ToSet(anchors) : e.bootstrapped) <=> bootstrapped
  BY <1>1 DEF Holds
<1>5. (\E e \in Anchored!ToSet(anchors) : e.bootstrapped) = bootstrapped
  BY <1>4 DEF PhaseTyped
<1>6. QED BY <1>3, <1>5 DEF Anchored!Restored, counts

(* A turn, or a tool call, is one more event.                              *)
LEMMA EventAdded ==
  ASSUME NEW es \in Seq(SessionEvent), NEW count \in Nat, NEW promoted \in BOOLEAN,
         Led(es, count, promoted), NEW e \in SessionEvent, NEW now \in Nat, NEW promotedNow \in BOOLEAN,
         now = count + (IF e.kind = "turn" THEN 1 ELSE 0),
         promotedNow <=> promoted \/ Promotes(e, now)
  PROVE  Append(es, e) \in Seq(SessionEvent) /\ Led(Append(es, e), now, promotedNow)
<1> DEFINE more == Append(es, e)
<1>1. /\ Len(es) \in Nat /\ Len(more) = Len(es) + 1 /\ \A n \in 1..Len(es) : more[n] = es[n]
      /\ more[Len(es) + 1] = e /\ more \in Seq(SessionEvent)
      /\ DOMAIN es = 1..Len(es) /\ DOMAIN more = 1..(Len(es) + 1)
  OBVIOUS
<1>2. /\ \A k \in 1..Len(es) : TurnsIn(more, k) = TurnsIn(es, k)
      /\ TurnsIn(more, Len(es) + 1) = now
  BY <1>1, TurnsAppended DEF Led
<1> HIDE DEF more
<1>3. \A k \in 1..Len(es) : Promotes(more[k], TurnsIn(more, k)) <=> Promotes(es[k], TurnsIn(es, k))
  BY <1>1, <1>2
<1>4. Promotes(more[Len(es) + 1], TurnsIn(more, Len(es) + 1)) <=> Promotes(e, now)
  BY <1>1, <1>2
<1>5. promoted <=> \E k \in 1..Len(es) : Promotes(es[k], TurnsIn(es, k))
  BY <1>1 DEF Led
<1>6. 1..(Len(es) + 1) = 1..Len(es) \cup {Len(es) + 1}
  BY <1>1
<1>7. promotedNow <=> \E k \in 1..(Len(es) + 1) : Promotes(more[k], TurnsIn(more, k))
  BY <1>3, <1>4, <1>5, <1>6, Zenon
<1>8. Led(more, now, promotedNow)
  BY <1>1, <1>2, <1>7 DEF Led
<1>9. QED BY <1>1, <1>8 DEF more

(* An entry holds what the session has come to.                            *)
LEMMA AnchorAdded ==
  ASSUME NEW entries \in Seq(Anchor), NEW count \in Nat, NEW promoted \in BOOLEAN,
         Holds(entries, count, promoted), NEW now \in Nat, now >= count,
         NEW promotedNow \in BOOLEAN, promoted => promotedNow
  PROVE  LET more == Append(entries, [bootstrapped |-> promotedNow, turnCount |-> now])
         IN  more \in Seq(Anchor) /\ Holds(more, now, promotedNow)
<1> DEFINE e    == [bootstrapped |-> promotedNow, turnCount |-> now]
           more == Append(entries, e)
<1>1. e \in Anchor /\ e.turnCount = now /\ e.bootstrapped = promotedNow
  BY DEF Anchor
<1> HIDE DEF e
<1>2. /\ Len(entries) \in Nat /\ \A n \in 1..Len(entries) : more[n] = entries[n]
      /\ more[Len(entries) + 1] = e /\ more \in Seq(Anchor)
      /\ DOMAIN entries = 1..Len(entries) /\ DOMAIN more = 1..(Len(entries) + 1)
  BY <1>1
<1>3. \A n \in 1..Len(entries) : entries[n] \in Anchor
  OBVIOUS
<1>4. \A n \in 1..Len(entries) : entries[n].turnCount \in Nat
  BY <1>3 DEF Anchor
<1> HIDE DEF more
<1>5. 1..(Len(entries) + 1) = 1..Len(entries) \cup {Len(entries) + 1}
  BY <1>2
<1>6. \A k \in DOMAIN more : more[k].turnCount <= now
  BY <1>1, <1>2, <1>4, <1>5 DEF Holds
<1>7. \E k \in DOMAIN more : more[k].turnCount = now
  BY <1>1, <1>2, <1>5
<1>8. promotedNow <=> \E k \in DOMAIN more : more[k].bootstrapped
  BY <1>1, <1>2, <1>5, Zenon DEF Holds
<1>9. Holds(more, now, promotedNow)
  BY <1>6, <1>7, <1>8 DEF Holds
<1>10. QED BY <1>2, <1>9 DEF more, e

(* before_agent_start counts a turn and adds an entry.                     *)
LEMMA TurnKeeps ==
  ASSUME PhaseInv, Anchored!BeforeAgentStart
  PROVE  PhaseInv'
<1> DEFINE e == [kind |-> "turn", after |-> promoteAfterTurns]
<1>1. /\ events' = Append(events, e) /\ turnCount' = turnCount + 1
      /\ anchors' = Append(anchors, [bootstrapped |-> bootstrapped', turnCount |-> turnCount'])
      /\ promoteAfterTurns' = promoteAfterTurns
  BY DEF Anchored!BeforeAgentStart, Anchored!Persists
<1>2. /\ turnCount \in Nat /\ turnCount' \in Nat /\ turnCount' >= turnCount
      /\ bootstrapped \in BOOLEAN /\ bootstrapped' \in BOOLEAN
      /\ events \in Seq(SessionEvent) /\ anchors \in Seq(Anchor)
      /\ promoteAfterTurns \in Nat \cup {None}
  BY DEF Anchored!BeforeAgentStart, PhaseInv, PhaseTyped
<1>3. e \in SessionEvent /\ e.kind = "turn" /\ e.after = promoteAfterTurns
  BY <1>2 DEF SessionEvent
<1> HIDE DEF e
<1>4. bootstrapped' <=> bootstrapped \/ Promotes(e, turnCount')
  BY <1>3 DEF Anchored!BeforeAgentStart, Promotes
<1>5. events' \in Seq(SessionEvent) /\ Led(events', turnCount', bootstrapped')
  BY <1>1, <1>2, <1>3, <1>4, EventAdded DEF PhaseInv
<1>6. anchors' \in Seq(Anchor) /\ Holds(anchors', turnCount', bootstrapped')
  BY <1>1, <1>2, <1>4, AnchorAdded DEF PhaseInv
<1>7. QED BY <1>1, <1>2, <1>5, <1>6 DEF PhaseInv, PhaseTyped

(* tool_call may promote the session, with an entry.                       *)
LEMMA CallKeeps ==
  ASSUME PhaseInv, Anchored!ToolCall
  PROVE  PhaseInv'
<1> DEFINE e == [kind |-> "call", after |-> promoteAfterTurns]
<1>1. events' = Append(events, e) /\ UNCHANGED <<turnCount, promoteAfterTurns>>
  BY DEF Anchored!ToolCall
<1>2. /\ turnCount \in Nat /\ bootstrapped \in BOOLEAN /\ promoteAfterTurns \in Nat \cup {None}
      /\ events \in Seq(SessionEvent) /\ anchors \in Seq(Anchor)
  BY DEF PhaseInv, PhaseTyped
<1>3. e \in SessionEvent /\ e.kind = "call" /\ e.after = promoteAfterTurns
  BY <1>2 DEF SessionEvent
<1> HIDE DEF e
<1>4. /\ bootstrapped' \in BOOLEAN /\ (bootstrapped => bootstrapped')
      /\ (bootstrapped' <=> bootstrapped \/ Promotes(e, turnCount))
  BY <1>2, <1>3 DEF Anchored!ToolCall, Promotes
<1>5. events' \in Seq(SessionEvent) /\ Led(events', turnCount, bootstrapped')
  BY <1>1, <1>2, <1>3, <1>4, EventAdded DEF PhaseInv
<1>6. anchors' \in Seq(Anchor) /\ Holds(anchors', turnCount, bootstrapped')
  <2>1. CASE UNCHANGED <<bootstrapped, anchors>>
    BY <1>2, <2>1 DEF PhaseInv
  <2>2. CASE /\ bootstrapped' = TRUE
             /\ anchors' = Append(anchors, [bootstrapped |-> TRUE, turnCount |-> turnCount])
    <3>1. /\ Holds(anchors, turnCount, bootstrapped) /\ turnCount >= turnCount
          /\ TRUE \in BOOLEAN /\ (bootstrapped => TRUE)
      BY <1>2 DEF PhaseInv
    <3>2. anchors' \in Seq(Anchor) /\ Holds(anchors', turnCount, TRUE)
      BY <1>2, <2>2, <3>1, AnchorAdded
    <3>3. QED BY <2>2, <3>2
  <2>3. QED BY <2>1, <2>2 DEF Anchored!ToolCall, Anchored!Persists
<1>7. QED BY <1>1, <1>2, <1>4, <1>5, <1>6 DEF PhaseInv, PhaseTyped

(* A session without entries.                                              *)
LEMMA NothingYet == Holds(<<>>, 0, FALSE) /\ Led(<<>>, 0, FALSE)
<1>1. Len(<<>>) = 0 /\ 1..0 = {} /\ DOMAIN <<>> = {}
  OBVIOUS
<1>2. TurnsIn(<<>>, 0) = 0
  BY <1>1, FS_EmptySet DEF TurnsIn
<1>3. QED BY <1>1, <1>2 DEF Holds, Led

(* session_start restores the phase from the entries, or begins another    *)
(* session.                                                                *)
LEMMA PhaseStartKeeps ==
  ASSUME PhaseInv, Anchored!SessionStart
  PROVE  PhaseInv'
<1>1. /\ promoteAfterTurns' \in Nat \cup {None}
      /\ bootstrapped' = Anchored!Restored(anchors').bootstrapped
      /\ turnCount' = Anchored!Restored(anchors').turnCount
  BY SessionAssumption, NoneAssumption DEF Anchored!SessionStart, Anchored!AnchoredConstants
<1>2. CASE UNCHANGED <<anchors, events>>
  <2>1. turnCount' = turnCount /\ bootstrapped' = bootstrapped
    BY <1>1, <1>2, RestoredAnchors DEF PhaseInv
  <2>2. QED BY <1>1, <1>2, <2>1 DEF PhaseInv, PhaseTyped
<1>3. CASE anchors' = <<>> /\ events' = <<>>
  <2>1. Anchored!ToSet(<<>>) = {}
    BY DEF Anchored!ToSet
  <2>2. Anchored!Max({0}) = 0
    BY DEF Anchored!Max
  <2>3. Anchored!Restored(<<>>).turnCount = 0 /\ Anchored!Restored(<<>>).bootstrapped = FALSE
    BY <2>1, <2>2 DEF Anchored!Restored
  <2>4. turnCount' = 0 /\ bootstrapped' = FALSE
    BY <1>1, <1>3, <2>3
  <2>5. events' \in Seq(SessionEvent) /\ anchors' \in Seq(Anchor)
    BY <1>3, EmptySeq
  <2>6. Holds(anchors', turnCount', bootstrapped') /\ Led(events', turnCount', bootstrapped')
    BY <1>3, <2>4, NothingYet
  <2>7. PhaseTyped'
    <3>1. promoteAfterTurns' \in Nat \cup {None}
      BY <1>1
    <3>2. turnCount' \in Nat /\ bootstrapped' \in BOOLEAN
      BY <2>4
    <3>3. QED BY <2>5, <3>1, <3>2 DEF PhaseTyped
  <2>8. QED BY <2>6, <2>7 DEF PhaseInv
<1>4. QED BY <1>2, <1>3 DEF Anchored!SessionStart

(* However often a session goes from one process to another, it is         *)
(* promoted exactly if it has had its turn or its tool call, and resuming  *)
(* it keeps the full catalog (anchored-standard.ts:18).                    *)
LEMMA PromotedOnceHolds == Anchored!Spec => []Anchored!PromotedOnce
<1>1. Anchored!Init => PhaseInv
  <2> SUFFICES ASSUME Anchored!Init PROVE PhaseInv
    OBVIOUS
  <2>1. promoteAfterTurns \in Nat \cup {None}
    BY SessionAssumption, NoneAssumption DEF Anchored!Init, Anchored!AnchoredConstants
  <2>2. events \in Seq(SessionEvent) /\ anchors \in Seq(Anchor)
    BY EmptySeq DEF Anchored!Init
  <2>3. QED BY <2>1, <2>2, NothingYet DEF Anchored!Init, PhaseInv, PhaseTyped
<1>2. PhaseInv /\ [Anchored!Next]_Anchored!anchoredVars => PhaseInv'
  <2>1. ASSUME PhaseInv, UNCHANGED <<promoteAfterTurns, bootstrapped, turnCount, anchors, events>>
        PROVE  PhaseInv'
    BY <2>1 DEF PhaseInv, PhaseTyped
  <2>2. QED BY <2>1, TurnKeeps, CallKeeps, PhaseStartKeeps
            DEF Anchored!Next, Anchored!BeforeProviderRequest, Anchored!Switches,
                Anchored!anchoredVars
<1>3. PhaseInv => Anchored!PromotedOnce
  <2> SUFFICES ASSUME PhaseInv PROVE Anchored!PromotedOnce
    OBVIOUS
  <2>1. \A k : Anchored!TurnOf(k) = TurnsIn(events, k)
    BY SameCardinality DEF Anchored!TurnOf, TurnsIn
  <2>2. QED BY <2>1 DEF PhaseInv, Led, Promotes, Anchored!PromotedOnce
<1>4. QED BY <1>1, <1>2, <1>3, PTL DEF Anchored!Spec

(* Whatever process resumes a session finds what the one before knew of    *)
(* its goal and its phase.                                                 *)
THEOREM SessionsResumeHolds == Goal!Spec /\ Anchored!Spec => []SessionsResume
<1>1. QED BY SavedWhenIdleHolds, PromotedOnceHolds, PTL DEF SessionsResume

=============================================================================
