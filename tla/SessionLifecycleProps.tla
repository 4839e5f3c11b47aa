----------------------- MODULE SessionLifecycleProps -----------------------
(***************************************************************************)
(* The properties of sessions and their terminals.                         *)
(***************************************************************************)
EXTENDS SessionLifecycle

Records == [Aliases -> {None} \cup
              [status : LiveStatuses, terminal : Numbers] \cup
              [status : {"stopped"}, terminal : {None}]]

(* Type invariant: a record has a terminal exactly while it is live, in    *)
(* the registry, in the file and in every snapshot under way               *)
(* (validSessionRecord).                                                   *)
TypeOK ==
  /\ up \in BOOLEAN /\ faults \in 0..MaxFaults
  /\ {records, file} \cup marks \subseteq Records
  /\ Numbers \in {1..n : n \in 0..MaxTerminals}
  /\ \A n \in Numbers :
       /\ terminals[n].alias \in Aliases
       /\ terminals[n].state \in {"alive", "ending", "dead"}
       /\ terminals[n].reused => terminals[n].state = "dead"
       /\ starts[n] # None =>
            \/ starts[n].phase \in {"spawned", "unread", "undoing"}
            \/ starts[n].phase = "persisting" /\ starts[n].snapshot \in Records
  /\ \A s \in Requests : stops[s] # None =>
       /\ stops[s].pid \in Numbers
       /\ \/ stops[s].current \in Numbers
          \/ stops[s].current = None /\ stops[s].phase \in {"persisting", "grace", "term", "done"}

(* The registry never holds more live sessions than the limit, whatever    *)
(* starts are asked for at once and whatever a restart loads               *)
(* (startSessionSerialized, reconcile).                                    *)
LimitHeld == Cardinality(Live(records)) <= MaxSessions

(* The registry is well formed and within its limit.                       *)
RegistrySound == TypeOK /\ LimitHeld

Rank(status) == CASE status = "starting" -> 1 [] status = "running" -> 2 [] status = "stopping" -> 3

(* The session of a terminal only goes from starting over running to       *)
(* stopping, however heartbeats, stops and ends are interleaved.           *)
StatusAdvances ==
  [][\A a \in Live(records) :
       up' /\ a \in Live(records') /\ records'[a].terminal = records[a].terminal
         => Rank(records[a].status) <= Rank(records'[a].status)]_records

(* A process that has got the pid of a terminal is struck by no request    *)
(* and no start but those that were about to signal the terminal at the    *)
(* moment it got the pid: a stop between the ownership it has verified and *)
(* its kill, and the terminal's own start, which kills unverified when the *)
(* start time cannot be read.  No wait for an exit, replaced session or    *)
(* restart lets a signal go astray (verifyProcessOwnership in signalOwned  *)
(* and startSession).                                                      *)
SignalsOwned == \A n \in Numbers : terminals[n].struck \subseteq terminals[n].late

Going(s) == stops[s] # None /\ stops[s].phase # "done"

(* Every request comes to an end: no start waits for ever behind another   *)
(* one in startQueue, and a stop gives up on a terminal that does not go,  *)
(* whatever is started or ends by itself in between.                       *)
RequestsEnd ==
  /\ (\E n \in Numbers : starts[n] # None) ~> (\A n \in Numbers : starts[n] = None)
  /\ \A s \in Requests : Going(s) ~> ~Going(s)

-----------------------------------------------------------------------------
(* What the repository says and the code does not keep.                    *)

(* The controller manages at most MaxSessions visible terminals            *)
(* (docs/qq-bridge.md:28), those that have begun to end not counted.       *)
TerminalLimit == Cardinality({n \in Numbers : terminals[n].state = "alive"}) <= MaxSessions

=============================================================================
