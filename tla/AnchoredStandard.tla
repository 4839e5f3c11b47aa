-------------------------- MODULE AnchoredStandard --------------------------
(***************************************************************************)
(* The phases of a session under anchored-standard.ts: until the session   *)
(* is promoted, by its promoteAfterTurns-th turn or by its first tool      *)
(* call, a request to the model names only one shell, the common tools and *)
(* some that pass through.  Entries of the session tell the next process.  *)
(***************************************************************************)
EXTENDS Integers, Sequences, FiniteSets, FiniteSetsExt, SequencesExt

CONSTANTS
  Turns,         \* what promoteAfterTurns may be; None stands for "tool"
  MaxTurns,      \* bound: turns of a session
  MaxCalls,      \* bound: tool calls of a session
  MaxProcesses,  \* bound: processes
  None

AnchoredConstants ==
  Turns \subseteq (Nat \ {0}) \cup {None} /\ {MaxTurns, MaxCalls, MaxProcesses} \subseteq Nat

Shells      == {"bash"}
Common      == {"read"}
FullTools   == {"bash", "read", "edit", "write", "todo_write"}
PassThrough == {"deliver", "todo_write"}

\* The catalog, plan mode's tools, and some tools of which the filter misses
\* a common one.
Catalog  == FullTools \cup PassThrough
ToolSets == {Catalog, {"bash", "read", "mcp"}, {"bash", "mcp"}}

VARIABLES
  promoteAfterTurns,  \* of this process: the flag, else the environment, else 5
  bootstrapped, turnCount,
  anchors,    \* the entries of the session that hold these two
  tools,      \* the active tools
  request,    \* the tools that the last request of this turn named, or None
  events,     \* the turns and tool calls of the session, each with what
              \* promoteAfterTurns was then
  processes

anchoredVars ==
  <<promoteAfterTurns, bootstrapped, turnCount, anchors, tools, request, events, processes>>

\* Mutation of Restored: the first entry is taken.
RestoredFirst(entries) ==
  IF entries = <<>> THEN [bootstrapped |-> FALSE, turnCount |-> 0] ELSE Head(entries)

\* restoreFromSession
Restored(entries) ==
  [bootstrapped |-> \E e \in ToSet(entries) : e.bootstrapped,
   turnCount    |-> Max({0} \cup {e.turnCount : e \in ToSet(entries)})]

\* persistState
Persists(promoted, count) ==
  anchors' = Append(anchors, [bootstrapped |-> promoted, turnCount |-> count])

\* session_start: of a process that resumes the session, or begins another.
SessionStart ==
  /\ processes < MaxProcesses /\ processes' = processes + 1
  /\ promoteAfterTurns' \in Turns
  /\ \/ UNCHANGED <<anchors, events>>
     \/ anchors' = <<>> /\ events' = <<>>
  /\ bootstrapped' = Restored(anchors').bootstrapped
  /\ turnCount' = Restored(anchors').turnCount
  /\ tools' = Catalog
  /\ request' = None

\* before_agent_start
BeforeAgentStart ==
  /\ turnCount < MaxTurns /\ turnCount' = turnCount + 1
  /\ bootstrapped' = (bootstrapped \/
                        (promoteAfterTurns # None /\ turnCount' >= promoteAfterTurns))
  /\ Persists(bootstrapped', turnCount')
  /\ events' = Append(events, [kind |-> "turn", after |-> promoteAfterTurns])
  /\ request' = None
  /\ UNCHANGED <<promoteAfterTurns, tools, processes>>

\* before_provider_request: filterPayloadTools, which throws ({}) unless it
\* finds one shell and all common tools.
BeforeProviderRequest ==
  /\ events # <<>>
  /\ request' = IF bootstrapped THEN tools
                ELSE IF Cardinality(Shells \cap tools) = 1 /\ Common \subseteq tools
                THEN tools \cap (Shells \cup Common \cup PassThrough)
                ELSE {}
  /\ UNCHANGED <<promoteAfterTurns, bootstrapped, turnCount, anchors, tools, events, processes>>

\* tool_call
ToolCall ==
  /\ request \notin {None, {}} /\ Len(events) < turnCount + MaxCalls
  /\ events' = Append(events, [kind |-> "call", after |-> promoteAfterTurns])
  /\ IF promoteAfterTurns # None \/ bootstrapped THEN UNCHANGED <<bootstrapped, anchors>>
     ELSE bootstrapped' = TRUE /\ Persists(TRUE, turnCount)
  /\ UNCHANGED <<promoteAfterTurns, turnCount, tools, request, processes>>

\* Another extension switches the tools.
Switches ==
  /\ \E t \in ToolSets : tools' = t
  /\ UNCHANGED <<promoteAfterTurns, bootstrapped, turnCount, anchors, request, events, processes>>

Init ==
  /\ promoteAfterTurns \in Turns /\ bootstrapped = FALSE /\ turnCount = 0
  /\ anchors = <<>> /\ tools = Catalog /\ request = None /\ events = <<>> /\ processes = 1

Next == SessionStart \/ BeforeAgentStart \/ BeforeProviderRequest \/ ToolCall \/ Switches

Spec == Init /\ [][Next]_anchoredVars

-----------------------------------------------------------------------------
(* Type invariant.                                                         *)
TypeOK ==
  /\ promoteAfterTurns \in Turns /\ bootstrapped \in BOOLEAN /\ turnCount \in 0..MaxTurns
  /\ tools \in ToolSets /\ request # None => request \subseteq UNION ToolSets

\* Which turn the k-th event belongs to.
TurnOf(k) == Cardinality({n \in 1..k : events[n].kind = "turn"})

(* However often a session goes from one process to another, it is         *)
(* promoted exactly if it has had its turn or its tool call, and resuming  *)
(* it keeps the full catalog (anchored-standard.ts:18).                    *)
PromotedOnce ==
  /\ turnCount = TurnOf(Len(events))
  /\ bootstrapped <=>
       \E k \in DOMAIN events :
         IF events[k].kind = "call" THEN events[k].after = None
         ELSE events[k].after # None /\ TurnOf(k) >= events[k].after

=============================================================================
