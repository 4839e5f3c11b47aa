-------------------------- MODULE BridgeLifecycle --------------------------
(***************************************************************************)
(* The launcher: kipsel processes that share one PiPilot bridge through    *)
(* the shell script launcher/kipsel-bridge, which starts it for the first  *)
(* and stops it with the last of them.                                     *)
(*                                                                         *)
(* A run of kipsel-bridge is a call; ensure, release and stop work under   *)
(* flock 9 on the mutex file, status does not take it.  An open of the     *)
(* mutex file is shared with the bridge that is spawned under it, so the   *)
(* lock is free when it is unlocked, or when the call and every bridge it  *)
(* spawned are gone.  Pids of bridges are reused: proc[b].start is the     *)
(* start time that tells the processes with pid b apart.  A look at a      *)
(* start time and the kill after it are two steps.                         *)
(***************************************************************************)
EXTENDS Integers, FiniteSets

CONSTANTS
  Wrappers,  \* kipsel processes (launcher/kipsel)
  Pids,      \* pids of bridge processes
  Stopper,   \* the user's call of "kipsel-bridge stop"
  None,      \* no record, no process, no call
  Worlds,    \* what can happen, in each world looked at: see BridgeFeatures
  MaxStart   \* bound: processes that had a pid

\* "die": a kipsel is killed with -9.  "reuse": the pid of a dead bridge goes
\* to another process.  "stop", "status": the user's commands.  "external": a
\* bridge that is started by hand.  "interrupt": a call is killed with the
\* kipsel that waits for it.  "hang": a bridge misses health checks for a while.
BridgeFeatures == {"die", "reuse", "stop", "status", "external", "interrupt", "hang"}

\* The verbs of calls, what a locked mutex and what bridge.owner says.
Verbs  == {"ensure", "release", "stop"}
Locks  == [by : Wrappers \cup {Stopper}, verb : Verbs]
Owners == [pid : Pids, start : 0..MaxStart]

ASSUME BridgeAssumption ==
  Worlds \subseteq SUBSET BridgeFeatures /\ MaxStart \in Nat \ {0} /\ Stopper \notin Wrappers

ASSUME NoneAssumption ==
  None \notin Verbs \cup {"empty", "written"} /\ None \notin Locks /\ None \notin Owners

VARIABLES
  features, \* what can happen here: one of Worlds
  wrapper,  \* state of each kipsel
  calls,    \* the call each kipsel and the user is in
  mutex,    \* the call and the way it opened the mutex file, when locked
  holders,  \* the files in holders/: None, "empty", "written"
  record,   \* bridge.owner: pid and start time, None when there is no file
  proc,     \* the process of each bridge pid
  look      \* prune_holders of a status call: files left, file to delete

vars == <<features, wrapper, calls, mutex, holders, record, proc, look>>

Callers == Wrappers \cup {Stopper}
NoCall  == [pc |-> "none", verb |-> None, way |-> 1, pid |-> None]
NoLook  == [left |-> {}, doomed |-> None]
Live    == {"running", "leaving"}   \* a kipsel that has ensured and not gone

Alive(b)   == proc[b].state \notin {"none", "dead"}
Healthy    == \E b \in Pids : proc[b].state = "up"
BoundPort  == \E b \in Pids : proc[b].state \in {"up", "hung"}
Ours(b)    == Alive(b) /\ proc[b].ours
Same(r)    == r # None /\ Alive(r.pid) /\ proc[r.pid].start = r.start
Becomes(b, s) == proc' = [proc EXCEPT ![b].state = s]

\* kill -- -b makes whoever has pid b by now end, unless nobody has it, or
\* another program that leads no process group.
Signal(b, s) ==
  \/ Alive(b) /\ Becomes(b, s)
  \/ ~Ours(b) /\ UNCHANGED proc

\* A call has pid b in mind and does not, or not again, compare start times:
\* spawn_bridge compares the one the pid has with itself.
Unaware(b) ==
  \E c \in Callers :
    calls[c].pid = b /\ calls[c].pc \in {"wait", "record", "giveup", "term", "kill"}

\* flock 9: the description is open in the call that locked it and in the
\* bridges it spawned.
Locked ==
  /\ mutex # None
  /\ \/ calls[mutex.by].pc # "none" /\ calls[mutex.by].verb = mutex.verb
     \/ \E b \in Pids : Alive(b) /\ proc[b].fd = mutex

Goes(c, pc) == calls' = [calls EXCEPT ![c].pc = pc]
Returns(c)  == calls' = [calls EXCEPT ![c].pc = "none", ![c].pid = None]

\* A holder file counts when its process is alive: kipsel pids are not reused.
Registered == {w \in Wrappers : holders[w] = "written" /\ wrapper[w] \in Live \cup {"ensuring"}}
Pruned     == [w \in Wrappers |-> IF w \in Registered THEN "written" ELSE None]

\* kipsel starts and runs "kipsel-bridge ensure" (launcher/kipsel:60).
Start(w) ==
  /\ wrapper[w] = "new"
  /\ wrapper' = [wrapper EXCEPT ![w] = "ensuring"]
  /\ calls' = [calls EXCEPT ![w] = [NoCall EXCEPT !.pc = "lock", !.verb = "ensure"]]
  /\ UNCHANGED <<features, mutex, holders, record, proc, look>>

\* The pager ends and kipsel runs "kipsel-bridge release".
Leave(w) ==
  /\ wrapper[w] = "running"
  /\ wrapper' = [wrapper EXCEPT ![w] = "leaving"]
  /\ calls' = [calls EXCEPT ![w] = [NoCall EXCEPT !.pc = "lock", !.verb = "release"]]
  /\ UNCHANGED <<features, mutex, holders, record, proc, look>>

StopCommand ==
  /\ "stop" \in features /\ calls[Stopper].verb = None
  /\ calls' = [calls EXCEPT ![Stopper] = [NoCall EXCEPT !.pc = "lock", !.verb = "stop"]]
  /\ UNCHANGED <<features, wrapper, mutex, holders, record, proc, look>>

FirstStep(verb) ==
  CASE verb = "ensure" -> "health" [] verb = "release" -> "prune" [] verb = "stop" -> "close"

\* Mutation of Lock: the call does not wait for the lock.
LockAtOnce(c) ==
  /\ calls[c].pc = "lock"
  /\ mutex' = [by |-> c, verb |-> calls[c].verb]
  /\ Goes(c, FirstStep(calls[c].verb))
  /\ UNCHANGED <<features, wrapper, holders, record, proc, look>>

Lock(c) ==
  /\ calls[c].pc = "lock" /\ ~Locked
  /\ mutex' = [by |-> c, verb |-> calls[c].verb]
  /\ Goes(c, FirstStep(calls[c].verb))
  /\ UNCHANGED <<features, wrapper, holders, record, proc, look>>

\* do_ensure: a healthy bridge is reused, whoever started it.
Health(c) ==
  /\ calls[c].pc = "health"
  /\ Goes(c, IF Healthy THEN "register" ELSE "spawn")
  /\ UNCHANGED <<features, wrapper, mutex, holders, record, proc, look>>

\* The source tree is way 1, the binary way 2; kipsel runs without a bridge
\* when both fail.
AfterWay(c) ==
  calls' = [calls EXCEPT ![c].pc = IF calls[c].way = 1 THEN "spawn" ELSE "register",
                         ![c].way = 2, ![c].pid = None]

\* The source tree or the binary is missing, or its download fails.
NoWay(c) ==
  /\ calls[c].pc = "spawn"
  /\ AfterWay(c)
  /\ UNCHANGED <<features, wrapper, mutex, holders, record, proc, look>>

\* spawn_bridge: setsid nohup ... & inherits file descriptor 9.
Spawn(c) ==
  /\ calls[c].pc = "spawn"
  /\ \E b \in Pids :
       /\ ~Alive(b) /\ proc[b].start < MaxStart
       /\ proc' = [proc EXCEPT ![b] =
            [state |-> "starting", start |-> @.start + 1, ours |-> TRUE, blind |-> FALSE, fd |-> mutex]]
       /\ calls' = [calls EXCEPT ![c].pc = "wait", ![c].pid = b]
  /\ UNCHANGED <<features, wrapper, mutex, holders, record, look>>

\* Some bridge is healthy.
SpawnHealthy(c) ==
  /\ calls[c].pc = "wait" /\ Healthy
  /\ Goes(c, "record")
  /\ UNCHANGED <<features, wrapper, mutex, holders, record, proc, look>>

\* The one that was spawned is recorded as ours, with the start time its pid
\* has now (0 when nobody has it).
Record(c) ==
  /\ calls[c].pc = "record"
  /\ LET b == calls[c].pid IN
     record' = [pid |-> b, start |-> IF Alive(b) THEN proc[b].start ELSE 0]
  /\ calls' = [calls EXCEPT ![c].pc = "register", ![c].pid = None]
  /\ UNCHANGED <<features, wrapper, mutex, holders, proc, look>>

\* Nobody has the pid any more, or 20 s have passed.
SpawnFails(c) ==
  /\ calls[c].pc = "wait" /\ ~Healthy
  /\ Goes(c, "giveup")
  /\ UNCHANGED <<features, wrapper, mutex, holders, record, proc, look>>

\* Whoever has the pid is told to end, and the next way is tried.
GiveUp(c) ==
  /\ calls[c].pc = "giveup"
  /\ Signal(calls[c].pid, "dying")
  /\ AfterWay(c)
  /\ UNCHANGED <<features, wrapper, mutex, holders, record, look>>

\* The holder file is created empty by the redirection, then written.
Register(c) ==
  /\ calls[c].pc = "register"
  /\ holders' = [holders EXCEPT ![c] = "empty"]
  /\ Goes(c, "write")
  /\ UNCHANGED <<features, wrapper, mutex, record, proc, look>>

\* A file that was deleted meanwhile stays deleted.
Write(c) ==
  /\ calls[c].pc = "write"
  /\ holders' = [holders EXCEPT ![c] = IF @ = None THEN None ELSE "written"]
  /\ Goes(c, "unlock")
  /\ UNCHANGED <<features, wrapper, mutex, record, proc, look>>

\* Mutation of Prune: the holder files of dead processes are counted.
PruneNone(c) ==
  /\ calls[c].pc = "prune"
  /\ holders' = [holders EXCEPT ![c] = None]
  /\ Goes(c, IF \E w \in Wrappers : holders'[w] # None THEN "unlock" ELSE "close")
  /\ UNCHANGED <<features, wrapper, mutex, record, proc, look>>

\* Mutation of Prune: the count is not looked at.
PruneBlind(c) ==
  /\ calls[c].pc = "prune"
  /\ holders' = [Pruned EXCEPT ![c] = None]
  /\ Goes(c, "close")
  /\ UNCHANGED <<features, wrapper, mutex, record, proc, look>>

\* do_release: the own file goes, then those of the dead; with none left the
\* bridge is closed.
Prune(c) ==
  /\ calls[c].pc = "prune"
  /\ holders' = [Pruned EXCEPT ![c] = None]
  /\ Goes(c, IF \E w \in Wrappers : holders'[w] # None THEN "unlock" ELSE "close")
  /\ UNCHANGED <<features, wrapper, mutex, record, proc, look>>

\* Mutation of Close: the start time of the recorded process is not compared.
CloseByPid(c) ==
  /\ calls[c].pc = "close"
  /\ IF record # None /\ Alive(record.pid)
       THEN calls' = [calls EXCEPT ![c].pc = "term", ![c].pid = record.pid]
       ELSE Goes(c, "forget")
  /\ UNCHANGED <<features, wrapper, mutex, holders, record, proc, look>>

\* The recorded process is looked at, and told to end when it is still the
\* same one.
Close(c) ==
  /\ calls[c].pc = "close"
  /\ IF Same(record)
       THEN calls' = [calls EXCEPT ![c].pc = "term", ![c].pid = record.pid]
       ELSE Goes(c, "forget")
  /\ UNCHANGED <<features, wrapper, mutex, holders, record, proc, look>>

Terminate(c) ==
  /\ calls[c].pc = "term"
  /\ Signal(calls[c].pid, "dying")
  /\ Goes(c, "closing")
  /\ UNCHANGED <<features, wrapper, mutex, holders, record, look>>

\* It has ended within 5 s, or it is killed.
Closing(c) ==
  /\ calls[c].pc = "closing"
  /\ Goes(c, IF Same(record) THEN "kill" ELSE "forget")
  /\ UNCHANGED <<features, wrapper, mutex, holders, record, proc, look>>

Kill(c) ==
  /\ calls[c].pc = "kill"
  /\ Signal(calls[c].pid, "dead")
  /\ Goes(c, "forget")
  /\ UNCHANGED <<features, wrapper, mutex, holders, record, look>>

\* bridge.owner is deleted.
Forget(c) ==
  /\ calls[c].pc = "forget"
  /\ record' = None
  /\ Goes(c, "unlock")
  /\ UNCHANGED <<features, wrapper, mutex, holders, proc, look>>

\* flock -u 9, and the call returns to kipsel.
Unlock(c) ==
  /\ calls[c].pc = "unlock"
  /\ mutex' = None
  /\ Returns(c)
  /\ wrapper' = IF c = Stopper THEN wrapper
                ELSE [wrapper EXCEPT ![c] = IF @ = "ensuring" THEN "running" ELSE "gone"]
  /\ UNCHANGED <<features, holders, record, proc, look>>

Step(c) ==
  \/ Lock(c) \/ Prune(c) \/ Close(c) \/ Terminate(c) \/ Closing(c) \/ Kill(c) \/ Forget(c)
  \/ Unlock(c)
  \/ c # Stopper /\ (Health(c) \/ NoWay(c) \/ Spawn(c) \/ SpawnHealthy(c) \/ Record(c)
                       \/ SpawnFails(c) \/ GiveUp(c) \/ Register(c) \/ Write(c))

\* kill -9, or the terminal and the pager at once: no release.
Die(w) ==
  /\ "die" \in features /\ wrapper[w] = "running"
  /\ wrapper' = [wrapper EXCEPT ![w] = "dead"]
  /\ UNCHANGED <<features, calls, mutex, holders, record, proc, look>>

\* Ctrl-C while kipsel waits for ensure: no trap is set yet, both end.
Interrupt(w) ==
  /\ "interrupt" \in features /\ wrapper[w] = "ensuring"
  /\ wrapper' = [wrapper EXCEPT ![w] = "dead"]
  /\ Returns(w)
  /\ UNCHANGED <<features, mutex, holders, record, proc, look>>

\* do_status takes no lock.  Each holder file is judged, and deleted after.
Status ==
  /\ "status" \in features /\ look = NoLook
  /\ look' = [NoLook EXCEPT !.left = {w \in Wrappers : holders[w] # None}]
  /\ look' # NoLook
  /\ UNCHANGED <<features, wrapper, calls, mutex, holders, record, proc>>

StatusReads ==
  /\ look.doomed = None
  /\ \E w \in look.left :
       look' = [left |-> look.left \ {w}, doomed |-> IF w \in Registered THEN None ELSE w]
  /\ UNCHANGED <<features, wrapper, calls, mutex, holders, record, proc>>

StatusDeletes ==
  /\ look.doomed # None
  /\ holders' = [holders EXCEPT ![look.doomed] = None]
  /\ look' = [look EXCEPT !.doomed = None]
  /\ UNCHANGED <<features, wrapper, calls, mutex, record, proc>>

\* The bridge itself: it comes up when the port is free, or ends
\* (one that was started by hand stays up).
Boot(b)  == proc[b].state = "starting" /\ ~BoundPort /\ Becomes(b, "up")
Fails(b) == proc[b].state \in {"starting", "up"} /\ proc[b].ours /\ Becomes(b, "dead")
Hang(b)  == "hang" \in features /\ proc[b].state = "up" /\ Becomes(b, "hung")
Wake(b)  == proc[b].state = "hung" /\ Becomes(b, "up")
Ends(b)  == proc[b].state = "dying" /\ Becomes(b, "dead")
Bridge(b) ==
  /\ Boot(b) \/ Fails(b) \/ Hang(b) \/ Wake(b) \/ Ends(b)
  /\ UNCHANGED <<features, wrapper, calls, mutex, holders, record, look>>

\* The pid of a dead bridge goes to some other process; "blind" when a call
\* will not see the difference.
Reuse(b) ==
  /\ "reuse" \in features
  /\ proc[b].state = "dead" /\ proc[b].start < MaxStart
  /\ proc' = [proc EXCEPT ![b] =
       [state |-> "other", start |-> @.start + 1, ours |-> FALSE, blind |-> Unaware(b), fd |-> None]]
  /\ UNCHANGED <<features, wrapper, calls, mutex, holders, record, look>>

\* A bridge is started by hand or by systemd.
External(b) ==
  /\ "external" \in features /\ ~BoundPort
  /\ proc[b].state = "none" /\ \A d \in Pids : proc[d].state # "none" => proc[d].ours
  /\ proc' = [proc EXCEPT ![b] = [state |-> "up", start |-> 1, ours |-> FALSE,
                               blind |-> FALSE, fd |-> None]]
  /\ UNCHANGED <<features, wrapper, calls, mutex, holders, record, look>>

Init ==
  /\ features \in Worlds
  /\ wrapper = [w \in Wrappers |-> "new"]
  /\ calls = [c \in Callers |-> NoCall]
  /\ mutex = None /\ record = None /\ look = NoLook
  /\ holders = [w \in Wrappers |-> None]
  /\ proc = [b \in Pids |->
       [state |-> "none", start |-> 0, ours |-> FALSE, blind |-> FALSE, fd |-> None]]

Next ==
  \/ \E c \in Callers : Step(c)
  \/ \E w \in Wrappers : Start(w) \/ Leave(w) \/ Die(w) \/ Interrupt(w)
  \/ StopCommand \/ Status \/ StatusReads \/ StatusDeletes
  \/ \E b \in Pids : Bridge(b) \/ Reuse(b) \/ External(b)

Spec == Init /\ [][Next]_vars

\* Scripts run, flock wakes its waiters, a bridge that is told to end ends.
FairSpec ==
  /\ Spec
  /\ \A c \in Callers : WF_vars(Step(c))
  /\ \A b \in Pids :
       WF_vars(Ends(b) /\ UNCHANGED <<features, wrapper, calls, mutex, holders, record, look>>)

=============================================================================
