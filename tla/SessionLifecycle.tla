-------------------------- MODULE SessionLifecycle --------------------------
(***************************************************************************)
(* The terminals of the controller and their records: starting, stopping   *)
(* and marking sessions as stopped (controller/server.mjs), the state file *)
(* (SessionRegistry in controller/registry.mjs), the controller's own      *)
(* restart with reconcile, and terminals that end by themselves.           *)
(*                                                                         *)
(* A handler is one step from one await to the next.  A terminal is named  *)
(* by the number of its spawn, which stands for its pid with its start     *)
(* time, owner marker and token: no two spawns share them.  Jobs are left  *)
(* to JobDelivery; here a stop that is refused because of them, like every *)
(* other refusal, changes nothing.                                         *)
(*                                                                         *)
(* A look at /proc and the kill that follows it are two steps: the         *)
(* terminal may end between them, and its pid be given away.               *)
(***************************************************************************)
EXTENDS Integers, FiniteSetsExt

CONSTANTS
  Aliases,       \* session aliases
  Requests,      \* stop requests; each is made at most once
  None,          \* no record, no terminal, no snapshot
  MaxSessions,   \* limits.maxSessions
  MaxTerminals,  \* bound: terminals ever spawned
  MaxFaults      \* bound: crashes of the controller and failed writes

ASSUME BoundsAssumption == {MaxSessions, MaxTerminals, MaxFaults} \subseteq Nat

VARIABLES
  up,        \* the controller runs
  records,   \* SessionRegistry.sessions
  file,      \* what the state file says
  marks,     \* snapshots that markStopped is still writing
  terminals, \* the processes spawned so far
  starts,    \* startSession: where the start of each terminal is
  stops,     \* stopSession: where each request is
  faults     \* faults so far

vars == <<up, records, file, marks, terminals, starts, stops, faults>>

Numbers == DOMAIN terminals

\* LIVE_STATUSES but for "stale", which nothing ever sets.
LiveStatuses == {"starting", "running", "stopping"}
Live(recs)   == {a \in Aliases : recs[a] # None /\ recs[a].status \in LiveStatuses}

\* process.kill(pid, 0) succeeds: a foreign process may have the pid by now.
ProcessAlive(n) == terminals[n].state # "dead" \/ terminals[n].reused

\* Mutation of Owned: any process that has the pid will do.
OwnedByPid(n) == n # None /\ ProcessAlive(n)

\* verifyProcessOwnership of a record's terminal.
Owned(n) == n # None /\ terminals[n].state # "dead"

\* kill(-pid) by a request or a start: SIGTERM and SIGKILL alike make a
\* terminal end.  When the terminal is dead, nobody has its pid, or a foreign
\* process that is struck, or that leads no process group and is not.
Signal(sender, n) ==
  /\ ProcessAlive(n)
  /\ terminals' =
       IF terminals[n].state = "dead" THEN [terminals EXCEPT ![n].struck = @ \cup {sender}]
       ELSE [terminals EXCEPT ![n].state = "ending"]
SignalFails(n) == terminals[n].state = "dead" /\ UNCHANGED terminals

NoFault == UNCHANGED faults
Fault   == faults < MaxFaults /\ faults' = faults + 1

-----------------------------------------------------------------------------
(* markStopped: the record loses its terminal, and the state is persisted. *)

Stopped(recs, a) ==
  IF a \in Live(recs) THEN [recs EXCEPT ![a] = [status |-> "stopped", terminal |-> None]] ELSE recs

MarkStopped(a) ==
  /\ records' = Stopped(records, a)
  /\ marks' = IF a \in Live(records) THEN marks \cup {records'} ELSE marks

\* The rename at the end of persist.  A failed write leaves the file as it
\* is; when nobody awaits it, as in an exit callback, it also takes the
\* controller down (Crash).
MarkPersisted(snapshot) ==
  /\ up
  /\ marks' = marks \ {snapshot}
  /\ \/ file' = snapshot /\ NoFault
     \/ Fault /\ UNCHANGED file
  /\ UNCHANGED <<up, records, terminals, starts, stops>>

-----------------------------------------------------------------------------
(* startSession.  startSessionSerialized lets one start run at a time.     *)

\* Mutation of MayStart: starts are not serialised.
MayStartBeside(a) == Cardinality(Live(records)) < MaxSessions

MayStart(a) ==
  /\ \A n \in Numbers : starts[n] = None
  /\ Cardinality(Live(records)) < MaxSessions

StartSession(a) ==
  LET n == Cardinality(Numbers) + 1
  IN  /\ up /\ a \notin Live(records)
      /\ MayStart(a)
      /\ n <= MaxTerminals
      /\ terminals' = [m \in 1..n |->
           IF m = n THEN [alias |-> a, state |-> "alive", watched |-> FALSE,
                          reused |-> FALSE, late |-> {}, struck |-> {}]
           ELSE terminals[m]]
      /\ starts' = [m \in 1..n |->
           IF m = n THEN [phase |-> "spawned", snapshot |-> None] ELSE starts[m]]
      /\ NoFault
      /\ UNCHANGED <<up, records, file, marks, stops>>

StartAt(n, phase) == up /\ starts[n] # None /\ starts[n].phase = phase

\* readStartTime has found a process with the pid, or has not: it is gone, or
\* its stat cannot be read.
StartRegisters(n) ==
  LET a == terminals[n].alias
  IN  /\ StartAt(n, "spawned")
      /\ \/ /\ ProcessAlive(n)
            /\ records' = [records EXCEPT ![a] = [status |-> "starting", terminal |-> n]]
            /\ starts' = [starts EXCEPT ![n] = [phase |-> "persisting", snapshot |-> records']]
            /\ NoFault
         \/ /\ starts' = [starts EXCEPT ![n].phase = "unread"]
            /\ IF ProcessAlive(n) THEN Fault ELSE NoFault
            /\ UNCHANGED records
      /\ UNCHANGED <<up, file, marks, terminals, stops>>

\* Whoever has the pid of a terminal without a start time is killed.
StartKills(n) ==
  /\ StartAt(n, "unread")
  /\ Signal("start", n) \/ SignalFails(n)
  /\ starts' = [starts EXCEPT ![n] = None]
  /\ NoFault
  /\ UNCHANGED <<up, records, file, marks, stops>>

\* persist is done, and the exit of the terminal is listened to from now on,
\* or it has failed, and the ownership of the terminal has been verified.
StartPersisted(n) ==
  /\ StartAt(n, "persisting")
  /\ \/ /\ file' = starts[n].snapshot
        /\ terminals' = [terminals EXCEPT ![n].watched = terminals[n].state # "dead"]
        /\ starts' = [starts EXCEPT ![n] = None]
        /\ NoFault /\ UNCHANGED records
     \/ /\ IF Owned(n)
             THEN /\ starts' = [starts EXCEPT ![n] = [phase |-> "undoing", snapshot |-> None]]
                  /\ UNCHANGED records
             ELSE /\ starts' = [starts EXCEPT ![n] = None]
                  /\ records' = [records EXCEPT ![terminals[n].alias] = None]
        /\ Fault /\ UNCHANGED <<file, terminals>>
  /\ UNCHANGED <<up, marks, stops>>

\* The terminal that was owned is told to end, and forgotten.
StartUndone(n) ==
  /\ StartAt(n, "undoing")
  /\ Signal("start", n) \/ SignalFails(n)
  /\ starts' = [starts EXCEPT ![n] = None]
  /\ records' = [records EXCEPT ![terminals[n].alias] = None]
  /\ NoFault
  /\ UNCHANGED <<up, file, marks, stops>>

-----------------------------------------------------------------------------
(* stopSession.                                                            *)

AtPhase(s, phase) == up /\ stops[s] # None /\ stops[s].phase = phase
Goes(s, phase)    == stops' = [stops EXCEPT ![s].phase = phase, ![s].snapshot = None]
Ended(stop)       == [stop EXCEPT !.phase = "done", !.snapshot = None, !.current = None, !.latest = None]
Ends(s)           == stops' = [stops EXCEPT ![s] = Ended(stops[s])]

\* How a request ends: the session is marked as stopped, or an error is
\* reported.
EndsStopped(s) == MarkStopped(stops[s].alias) /\ Ends(s)
EndsFailed(s)  == Ends(s) /\ UNCHANGED <<records, marks>>

\* registry.get(alias) now: whose terminal a signal will go to.
CurrentTerminal(a) == IF records[a] = None THEN None ELSE records[a].terminal

StopSession(s, a) ==
  /\ up /\ stops[s] = None
  /\ a \in Live(records)
  /\ records' = [records EXCEPT ![a].status = "stopping"]
  /\ stops' = [stops EXCEPT ![s] =
       [alias |-> a, pid |-> records[a].terminal, current |-> None,
        latest |-> None, phase |-> "persisting", snapshot |-> records']]
  /\ NoFault
  /\ UNCHANGED <<up, file, marks, terminals, starts>>

StopPersisted(s) ==
  /\ AtPhase(s, "persisting")
  /\ \/ file' = stops[s].snapshot /\ Goes(s, "grace") /\ NoFault
     \/ Ends(s) /\ Fault /\ UNCHANGED file
  /\ UNCHANGED <<up, records, marks, terminals, starts>>

\* waitForExit for stopGraceMs, and the look at the registry after it.
StopWaits(s) ==
  /\ AtPhase(s, "grace")
  /\ IF ProcessAlive(stops[s].pid)
       THEN /\ stops' = [stops EXCEPT ![s].phase = "term",
                                      ![s].current = CurrentTerminal(stops[s].alias)]
            /\ UNCHANGED <<records, marks>>
       ELSE EndsStopped(s)
  /\ NoFault
  /\ UNCHANGED <<up, file, terminals, starts>>

\* waitForExit for signalGraceMs, and the next look at the registry.
StopWaitsAgain(s) ==
  /\ AtPhase(s, "signalled")
  /\ IF ProcessAlive(stops[s].current)
       THEN /\ stops' = [stops EXCEPT ![s].phase = "kill",
                                      ![s].latest = CurrentTerminal(stops[s].alias)]
            /\ UNCHANGED <<records, marks>>
       ELSE EndsStopped(s)
  /\ NoFault
  /\ UNCHANGED <<up, file, terminals, starts>>

\* signalOwned(current, "SIGTERM") and signalOwned(latest, "SIGKILL"): the
\* terminal they are about, and what is done when they return false.
Target(s) == IF stops[s].phase \in {"term", "sigterm"} THEN stops[s].current ELSE stops[s].latest

NotSignalled(s) ==
  IF stops[s].phase \in {"kill", "sigkill"} THEN Goes(s, "killed") /\ UNCHANGED <<records, marks>>
  ELSE IF ProcessAlive(stops[s].pid) THEN EndsFailed(s)
  ELSE EndsStopped(s)

StopVerifies(s) ==
  /\ AtPhase(s, "term") \/ AtPhase(s, "kill")
  /\ IF Owned(Target(s))
       THEN /\ Goes(s, IF stops[s].phase = "term" THEN "sigterm" ELSE "sigkill")
            /\ UNCHANGED <<records, marks>>
       ELSE NotSignalled(s)
  /\ NoFault
  /\ UNCHANGED <<up, file, terminals, starts>>

StopSignals(s) ==
  /\ AtPhase(s, "sigterm") \/ AtPhase(s, "sigkill")
  /\ \/ /\ Signal(s, Target(s))
        /\ Goes(s, IF stops[s].phase = "sigterm" THEN "signalled" ELSE "killed")
        /\ UNCHANGED <<records, marks>>
     \/ SignalFails(Target(s)) /\ NotSignalled(s)
  /\ NoFault
  /\ UNCHANGED <<up, file, starts>>

\* Mutation of StopGivesUp: the terminal is waited for without a limit.
StopGivesUpNever(s) ==
  /\ AtPhase(s, "killed") /\ ~ProcessAlive(stops[s].current)
  /\ EndsStopped(s)
  /\ NoFault
  /\ UNCHANGED <<up, file, terminals, starts>>

StopGivesUp(s) ==
  /\ AtPhase(s, "killed")
  /\ IF ProcessAlive(stops[s].current) THEN EndsFailed(s) ELSE EndsStopped(s)
  /\ NoFault
  /\ UNCHANGED <<up, file, terminals, starts>>

-----------------------------------------------------------------------------
(* The terminals.                                                          *)

\* authenticateInternal: the token of a terminal is the one of a live record.
Authentic(n) ==
  /\ up /\ terminals[n].alias \in Live(records)
  /\ records[terminals[n].alias].terminal = n

\* Mutation of Heartbeat: every heartbeat makes the session running.
HeartbeatRevives(n) ==
  /\ Authentic(n)
  /\ records' = [records EXCEPT ![terminals[n].alias].status = "running"]
  /\ NoFault
  /\ UNCHANGED <<up, file, marks, terminals, starts, stops>>

\* It may arrive when its terminal has ended.  One that finds another status
\* changes nothing.
Heartbeat(n) ==
  /\ Authentic(n)
  /\ records[terminals[n].alias].status = "starting"
  /\ records' = [records EXCEPT ![terminals[n].alias].status = "running"]
  /\ NoFault
  /\ UNCHANGED <<up, file, marks, terminals, starts, stops>>

\* The user, or the shutdown control of a stop, ends pi.
Quits(n) ==
  /\ terminals[n].state = "alive"
  /\ terminals' = [terminals EXCEPT ![n].state = "ending"]
  /\ NoFault
  /\ UNCHANGED <<up, records, file, marks, starts, stops>>

\* POST /internal/end from session_shutdown; it may outlive the process.
PostsEnd(n) ==
  /\ terminals[n].state # "alive" /\ Authentic(n)
  /\ MarkStopped(terminals[n].alias)
  /\ NoFault
  /\ UNCHANGED <<up, file, terminals, starts, stops>>

\* The process exits; the exit callback of a controller that listens runs
\* when the process is reaped.
Exits(n) ==
  /\ terminals[n].state # "dead"
  /\ terminals' = [terminals EXCEPT ![n].state = "dead", ![n].watched = FALSE]
  /\ IF up /\ terminals[n].watched
       THEN MarkStopped(terminals[n].alias) ELSE UNCHANGED <<records, marks>>
  /\ NoFault
  /\ UNCHANGED <<up, file, starts, stops>>

\* Who is about to signal the terminal: requests that have found that it is
\* owned, and its own start, which has not looked, or has found it owned.
Poised(n) ==
  {s \in Requests : stops[s] # None /\ stops[s].phase \in {"sigterm", "sigkill"} /\ Target(s) = n}
    \cup {x \in {"start"} : starts[n] # None /\ starts[n].phase \in {"spawned", "unread", "undoing"}}

\* Another process of the user gets the pid; "late" keeps who could not
\* know it.
PidReused(n) ==
  /\ terminals[n].state = "dead" /\ ~terminals[n].reused
  /\ terminals' = [terminals EXCEPT ![n].reused = TRUE, ![n].late = Poised(n)]
  /\ NoFault
  /\ UNCHANGED <<up, records, file, marks, starts, stops>>

-----------------------------------------------------------------------------
(* The controller ends, by a crash or by stop(), which persists; the       *)
(* terminals go on (KillMode=process).                                     *)

Crash ==
  /\ up /\ Fault
  /\ up' = FALSE
  /\ records' = [a \in Aliases |-> None] /\ marks' = {}
  /\ file' \in {file, records}
  /\ terminals' = [n \in Numbers |-> [terminals[n] EXCEPT !.watched = FALSE]]
  /\ starts' = [n \in Numbers |-> None]
  /\ stops' = [s \in Requests |-> IF stops[s] = None THEN None ELSE Ended(stops[s])]

\* reconcile: a live record whose terminal is not owned any more is stopped.
Reconciled(recs) ==
  [a \in Aliases |->
     IF a \in Live(recs) /\ Owned(recs[a].terminal) THEN recs[a] ELSE Stopped(recs, a)[a]]

\* load and reconcile, before the first request is served.
Boot ==
  /\ ~up
  /\ up' = TRUE
  /\ records' = Reconciled(file)
  /\ file' = records'
  /\ NoFault
  /\ UNCHANGED <<marks, terminals, starts, stops>>

-----------------------------------------------------------------------------
Init ==
  /\ up = TRUE
  /\ records = [a \in Aliases |-> None] /\ file = records
  /\ marks = {}
  /\ terminals = [n \in {} |-> None] /\ starts = terminals
  /\ stops = [s \in Requests |-> None]
  /\ faults = 0

Starting ==
  \E n \in Numbers : StartRegisters(n) \/ StartKills(n) \/ StartPersisted(n) \/ StartUndone(n)
Stopping(s) ==
  \/ StopPersisted(s) \/ StopWaits(s) \/ StopWaitsAgain(s)
  \/ StopVerifies(s) \/ StopSignals(s) \/ StopGivesUp(s)

Next ==
  \/ \E a \in Aliases : StartSession(a)
  \/ Starting
  \/ \E s \in Requests, a \in Aliases : StopSession(s, a)
  \/ \E s \in Requests : Stopping(s)
  \/ \E snapshot \in marks : MarkPersisted(snapshot)
  \/ \E n \in Numbers : Heartbeat(n) \/ Quits(n) \/ PostsEnd(n) \/ Exits(n) \/ PidReused(n)
  \/ Crash \/ Boot

Spec == Init /\ [][Next]_vars

\* Awaits come back: of file operations, and of waits that have a limit.
FairSpec == Spec /\ WF_vars(Starting) /\ \A s \in Requests : WF_vars(Stopping(s))

=============================================================================
