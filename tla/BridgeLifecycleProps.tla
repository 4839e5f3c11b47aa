------------------------ MODULE BridgeLifecycleProps ------------------------
(***************************************************************************)
(* The properties of the bridge launcher.                                  *)
(***************************************************************************)
EXTENDS BridgeLifecycle

Steps == {"none", "lock", "health", "spawn", "wait", "record", "giveup", "register", "write",
          "prune", "close", "term", "closing", "kill", "forget", "unlock"}

Inside == {c \in Callers : calls[c].pc \notin {"none", "lock"}}

\* Bridges that some call or file still answers for.
Awaiting == {c \in Callers : calls[c].pc \in {"wait", "record", "giveup"}}
Tracked  == {calls[c].pid : c \in Awaiting} \cup (IF record = None THEN {} ELSE {record.pid})

Without(some) == features \cap some = {}

(* Type invariant, with the one that the mutex is for: at most one call is *)
(* past it.                                                                *)
TypeOK ==
  /\ features \in Worlds
  /\ wrapper \in [Wrappers -> {"new", "ensuring", "running", "leaving", "gone", "dead"}]
  /\ \A c \in Callers : calls[c].pc \in Steps /\ calls[c].pid \in Pids \cup {None}
  /\ holders \in [Wrappers -> {None, "empty", "written"}]
  /\ record \in Owners \cup {None}
  /\ \A b \in Pids : proc[b].start \in 0..MaxStart
  /\ look.left \subseteq Wrappers /\ look.doomed \in Wrappers \cup {None}
  /\ Cardinality(Inside) <= 1

(* Only a process that the launcher spawned is signalled (rule 2 of        *)
(* kipsel-bridge:6), or one that got the pid of a bridge while a call was  *)
(* waiting for that bridge or about to signal it: the start time that is   *)
(* recorded or compared is the pid's at that time (kipsel-bridge:128, 139, *)
(* 150).  No bridge that is started by hand, and no process that got a pid *)
(* at any other time, is ever signalled, by whichever call and however     *)
(* long after.                                                             *)
OnlyOwnSignalled ==
  [][\A b \in Pids : Alive(b) /\ ~proc[b].ours /\ ~proc[b].blind
       => proc'[b].state \notin {"dying", "dead"}]_proc

(* A release closes the bridge only when no other kipsel that has ensured  *)
(* it still runs (rule 3 of kipsel-bridge:7); a status command may have    *)
(* deleted the file of one that has just been ensured.                     *)
LastCloses ==
  [][Without({"status"}) => \A c \in Wrappers :
       calls[c].pc = "term" /\ calls'[c].pc = "closing"
         => \A w \in Wrappers \ {c} : wrapper[w] # "running"]_calls

(* No bridge of ours is lost sight of: one that is running and was not     *)
(* told to end is recorded or is waited for.  Otherwise nobody would ever  *)
(* stop it (spawn_bridge, kipsel-bridge:146).  An interrupted call and a   *)
(* bridge that hangs and recovers leave one behind.                        *)
OursTracked ==
  Without({"interrupt", "hang"}) =>
  \A b \in Pids : Ours(b) /\ proc[b].state # "dying" => b \in Tracked

(* One call at a time looks after the bridge, and none is lost sight of.   *)
BridgeSound == TypeOK /\ OursTracked

(* When the last kipsel leaves, no bridge of ours stays: those that were   *)
(* killed before do not keep it, and neither does one that came up late    *)
(* and was given up for the next way of starting it.  Status may delete a  *)
(* live holder, stop and reused pids end the bridge in their own way.      *)
ClosedInTheEnd ==
  Without({"interrupt", "hang", "status", "stop", "reuse"}) =>
  \A w \in Wrappers :
    (/\ calls[w].verb = "release" /\ calls[w].pc = "lock"
     /\ \A v \in Wrappers \ {w} : wrapper[v] \in {"new", "gone", "dead"})
      ~> \/ \A b \in Pids : ~Ours(b)
         \/ \E v \in Wrappers : wrapper[v] = "ensuring"

(* Every kipsel that starts comes to run its pager, whatever happens to    *)
(* the bridge (rule 4 of kipsel-bridge:8), unless an interrupted call has  *)
(* left the lock to its bridge.                                            *)
StartsAnyway ==
  Without({"interrupt"}) =>
  \A w \in Wrappers : wrapper[w] = "ensuring" ~> wrapper[w] \in {"running", "dead"}

(* Whoever starts a kipsel is served, and nothing stays of it in the end.  *)
BridgeServes == ClosedInTheEnd /\ StartsAnyway

(* There is one bridge: none is spawned while another one is running       *)
(* (README.md:105).                                                        *)
Singleton ==
  Cardinality({b \in Pids : proc[b].state \in {"starting", "up", "hung"}}) <= 1

=============================================================================
