------------------------- MODULE SessionExtensions -------------------------
(***************************************************************************)
(* The extensions that keep their state in the session file: plan mode,    *)
(* the goal of a session, and the phases of anchored-standard.  They share *)
(* nothing; what each promises is stated in its own module and gathered    *)
(* here.                                                                   *)
(***************************************************************************)
EXTENDS Integers, Sequences

CONSTANTS
  None,
  UserTools, MaxSteps, MaxPlanStarts, Flags, Interrupts,               \* PlanMode
  MaxAuto, Budgets, MaxTokens, MaxGoals, MaxUser, MaxUpdates, MaxStarts,  \* SessionGoal
  Turns, MaxTurns, MaxCalls, MaxProcesses                              \* AnchoredStandard

VARIABLES
  planModeEnabled, executionMode, todoItems, toolsBeforePlanMode, activeTools,
  saved, tagged, queued, agent, reply, starts, before, reported,
  goal, savedGoal, run, runGoalId, stopReason, timer, queue, waiting, made, spent,
  inRow, paused,
  promoteAfterTurns, bootstrapped, turnCount, anchors, tools, request, events, processes

Plan     == INSTANCE PlanMode WITH ToolSets <- UserTools, MaxStarts <- MaxPlanStarts
Goal     == INSTANCE SessionGoal
Anchored == INSTANCE AnchoredStandard

\* Every entry that the session file may have.
SavedPlan ==
  [enabled : BOOLEAN, todos : Seq(BOOLEAN), executing : BOOLEAN, tools : UserTools \cup {None}]
GoalRecord ==
  [id : Nat, status : Goal!Statuses, tokens : Nat, budget : Nat, auto : BOOLEAN,
   continuations : Nat]

ASSUME SessionAssumption ==
  Plan!PlanConstants /\ Goal!GoalConstants /\ Anchored!AnchoredConstants

ASSUME NoneAssumption == None \notin Nat \cup UserTools \cup SavedPlan \cup GoalRecord

-----------------------------------------------------------------------------
(* Plan mode: the completed steps of a plan that is executed are those     *)
(* that replies have reported since it was chosen (plan-mode/index.ts:376),*)
(* whoever leaves it gets back the tools of before, and a plan is executed *)
(* only when it was chosen in plan mode and is still there (:278).         *)
PlanKept == []Plan!StepsAreReported /\ Plan!ToolsGivenBack /\ Plan!ExecutesChosenPlan

(* A process that resumes a session finds what the one before knew: while  *)
(* no run is going on the session file holds the goal as it is             *)
(* (productivity/index.ts:210), and its entries tell whether it is         *)
(* promoted and by which turn (anchored-standard.ts:18).                   *)
SessionsResume == Goal!SavedWhenIdle /\ Anchored!PromotedOnce

(* A goal is continued only while it is active, within its budget and so   *)
(* often in a row (productivity/index.ts:928).                             *)
ContinuesWithinLimits == Goal!ContinuesWithinLimits

=============================================================================
