---------------------------- MODULE MCExtensions ----------------------------
(***************************************************************************)
(* Systems that share nothing: a behaviour is one of plan mode, of the     *)
(* goal of a session, of its phases, of subagent calls, of the search      *)
(* client, of the catalog or the tokens of the Grok provider, or of the    *)
(* manager of models.json, while the others are never used.                *)
(***************************************************************************)
EXTENDS SessionExtensions, ServiceExtensions

CONSTANTS c1

VARIABLES
  system,  \* the one that is used
  calls, children, running, finished, told, enabled, sent

\* One call or job whose tasks overlap in every way, are read-only, or more
\* than may run at once.
Repo == <<"repo">>
Src  == <<"repo", "src">>
Docs == <<"repo", "docs">>
Pool(tasks)  == [mode |-> "parallel", tasks |-> tasks]
Chain(tasks) == [mode |-> "chain", tasks |-> tasks]
Runs == INSTANCE SubagentRuns WITH
  Calls <- {c1}, Concurrency <- 2, MaxJobs <- 2, Stubborn <- FALSE, Delivers <- TRUE,
  Plans <- {Pool(<<{Src}, {Repo}, {Docs}, {}>>), Pool(<<{Src, Docs}, {Docs}>>),
            Chain(<<{Repo}, {Repo}>>), Chain(<<{Src}>>)}

planVars == <<planModeEnabled, executionMode, todoItems, toolsBeforePlanMode, activeTools,
              saved, tagged, queued, agent, reply, starts, before, reported>>
goalVars == <<goal, savedGoal, run, runGoalId, stopReason, timer, queue, waiting, made, spent,
              inRow, paused>>
runsVars == <<calls, children, running, finished, told, enabled, sent>>
searchVars == <<searches, rateQueue, nextAllowed, cooldowns, endpointIndex, sinceFetch>>
catalogVars ==
  <<credential, discoveryLastToken, discoveryInFlight, discoveryLastError, discoveredBody,
    discoveryFetchedAt, fresh, workers, disk, file, writes, clock>>
authVars ==
  <<method, login, left, interval, aborted, listening, outcome, resolved, result, first, stored,
    valid, callers, requests, refreshLocks, lost, published, jwksCache, checks>>
phaseVars ==
  <<promoteAfterTurns, bootstrapped, turnCount, anchors, tools, request, events, processes>>
manageVars == <<modelsFile, procs, flows>>
vars == <<system, planVars, goalVars, runsVars, searchVars, catalogVars, authVars, phaseVars,
          manageVars>>

Init ==
  /\ system \in {"plan", "goal", "runs", "search", "catalog", "auth", "phase", "manage"}
  /\ Plan!Init /\ Goal!Init /\ Runs!Init /\ Search!Init /\ Catalog!Init /\ Auth!Init
  /\ Anchored!Init /\ Manage!Init
  /\ system # "plan" => "write" \in activeTools
  /\ system # "catalog" => file = Absent
  /\ system # "phase" => promoteAfterTurns = None
  /\ system # "manage" => modelsFile = Absent

PlanStep ==
  /\ system = "plan" /\ Plan!Next
  /\ UNCHANGED <<system, goalVars, runsVars, searchVars, catalogVars, authVars, phaseVars,
                 manageVars>>
GoalStep ==
  /\ system = "goal" /\ Goal!Next
  /\ UNCHANGED <<system, planVars, runsVars, searchVars, catalogVars, authVars, phaseVars,
                 manageVars>>
RunsStep ==
  /\ system = "runs" /\ Runs!Next
  /\ UNCHANGED <<system, planVars, goalVars, searchVars, catalogVars, authVars, phaseVars,
                 manageVars>>
SearchStep ==
  /\ system = "search" /\ Search!Next
  /\ UNCHANGED <<system, planVars, goalVars, runsVars, catalogVars, authVars, phaseVars,
                 manageVars>>
CatalogStep ==
  /\ system = "catalog" /\ Catalog!Next
  /\ UNCHANGED <<system, planVars, goalVars, runsVars, searchVars, authVars, phaseVars,
                 manageVars>>
AuthStep ==
  /\ system = "auth" /\ Auth!Next
  /\ UNCHANGED <<system, planVars, goalVars, runsVars, searchVars, catalogVars, phaseVars,
                 manageVars>>

PhaseStep ==
  /\ system = "phase" /\ Anchored!Next
  /\ UNCHANGED <<system, planVars, goalVars, runsVars, searchVars, catalogVars, authVars,
                 manageVars>>
ManageStep ==
  /\ system = "manage" /\ Manage!Next
  /\ UNCHANGED <<system, planVars, goalVars, runsVars, searchVars, catalogVars, authVars,
                 phaseVars>>

Next == PlanStep \/ GoalStep \/ RunsStep \/ SearchStep \/ CatalogStep \/ AuthStep \/ PhaseStep
        \/ ManageStep

FairSpec ==
  /\ Init /\ [][Next]_vars
  /\ Goal!Fairness /\ Runs!Fairness /\ Search!Fairness /\ Catalog!Fairness /\ Auth!Fairness

(* Type invariant of the systems that have one.                            *)
TypeOK ==
  /\ Plan!TypeOK /\ Goal!TypeOK /\ Search!TypeOK /\ Catalog!TypeOK /\ Auth!TypeOK
  /\ Anchored!TypeOK /\ Manage!TypeOK

\* No run, call, search, discovery, login or refresh is under way.
Quiet ==
  /\ Goal!Idle /\ timer = None /\ queue = <<>>
  /\ calls[c1] # None => calls[c1].state = "ended"
  /\ \A s \in Searches : searches[s].pc \in {"new", "done"}
  /\ \A w \in DOMAIN workers : ~Catalog!Running(w)
  /\ login \in {"idle", "done"} /\ \A c \in Callers : callers[c] = Absent

(* Finitely many requests of users come to an end: automatic continuation  *)
(* never keeps a session going by itself; every call of the subagent tool  *)
(* ends, whatever its tasks overlap with; and so does every search,        *)
(* discovery, login and refresh, whatever the answers are.                 *)
EverythingEnds == <>[]Quiet

=============================================================================
