---------------------------- MODULE BridgeProofs ----------------------------
(***************************************************************************)
(* The calls of the launcher exclude each other, no bridge is lost sight   *)
(* of, and only processes of ours, or that took the pid of one unnoticed,  *)
(* are signalled, for any number of kipsel processes, pids and bridges.    *)
(***************************************************************************)
EXTENDS BridgeLifecycleProps, FiniteSetTheorems, TLAPS

Call    == [pc : Steps, verb : {None} \cup Verbs, way : {1, 2}, pid : Pids \cup {None}]
Process == [state : {"none", "starting", "up", "hung", "dying", "dead", "other"},
            start : 0..MaxStart, ours : BOOLEAN, blind : BOOLEAN, fd : Locks \cup {None}]

Typed ==
  /\ features \in Worlds
  /\ wrapper \in [Wrappers -> {"new", "ensuring", "running", "leaving", "gone", "dead"}]
  /\ calls \in [Callers -> Call]
  /\ mutex \in Locks \cup {None}
  /\ holders \in [Wrappers -> {None, "empty", "written"}]
  /\ record \in Owners \cup {None}
  /\ proc \in [Pids -> Process]
  /\ look \in [left : SUBSET Wrappers, doomed : Wrappers \cup {None}]

\* Which steps of a call go with which state of the kipsel that waits for it.
Ensuring  == {"health", "spawn", "wait", "record", "giveup", "register", "write"}
Releasing == {"prune", "close", "term", "closing", "kill", "forget"}
Phases ==
  /\ \A c \in Callers : calls[c].pc # "none" => calls[c].verb \in Verbs
  /\ \A w \in Wrappers :
       /\ wrapper[w] \notin {"ensuring", "leaving"} => calls[w].pc = "none"
       /\ calls[w].pc \in Ensuring  => wrapper[w] = "ensuring"
       /\ calls[w].pc \in Releasing => wrapper[w] = "leaving"
       /\ calls[w].pc = "lock" =>
            calls[w].verb = IF wrapper[w] = "ensuring" THEN "ensure" ELSE "release"

\* Whoever is past the lock is the one that has locked it.
Mutex == \A c \in Inside : mutex = [by |-> c, verb |-> calls[c].verb]

\* Processes and their start times; the process that is waited for, the one
\* that is recorded and the one that is about to be signalled are ours, or
\* have taken its pid unnoticed.
Fair(b)  == proc[b].ours \/ proc[b].blind
Waiting  == {"wait", "record", "giveup"}
Aiming   == {"term", "kill"}
Started ==
  \A b \in Pids :
    /\ Alive(b) => proc[b].start > 0
    /\ proc[b].state = "none" => proc[b].start = 0
    /\ proc[b].state = "dying" => Fair(b)
    /\ proc[b].state = "other" => ~proc[b].ours
Awaited ==
  \A c \in Callers :
    /\ calls[c].pc \in Waiting \cup Aiming =>
         /\ calls[c].pid \in Pids
         /\ Fair(calls[c].pid) /\ proc[calls[c].pid].state # "none"
    /\ calls[c].pc \in Aiming \cup {"closing"} => record # None /\ record.pid = calls[c].pid
Recorded ==
  record # None => /\ record.start <= proc[record.pid].start
                   /\ Same(record) => Fair(record.pid)

\* Bridges of ours that nobody has told to end.
Calm     == Without({"interrupt", "hang"})
Stray(b) == Ours(b) /\ proc[b].state # "dying"
Foreign  == \E b \in Pids : proc[b].state = "up" /\ ~proc[b].ours

\* Such a bridge is waited for or recorded with its start time.  There is none
\* when another one is spawned or the record is deleted; and one that is
\* recorded before it has come up owes that to a bridge started by hand, which
\* goes on to answer health checks.
Kept ==
  Calm =>
    /\ \A b \in Pids : proc[b].state # "hung"
    /\ \A b \in Pids : Stray(b) =>
         \/ Same(record) /\ record.pid = b /\ (proc[b].state = "starting" => Foreign)
         \/ \E c \in Callers :
              /\ calls[c].pc \in Waiting /\ calls[c].pid = b
              /\ calls[c].pc = "record" /\ proc[b].state = "starting" => Foreign
    /\ \A c \in Callers, b \in Pids :
         /\ calls[c].pc \in {"spawn", "closing", "kill", "forget"} => ~Stray(b)
         /\ calls[c].pc \in Waiting /\ Stray(b) => calls[c].pid = b

\* A kipsel that runs has its file, and none runs beside the one that closes.
Held ==
  Without({"status"}) =>
    /\ look = NoLook
    /\ \A w \in Wrappers :
         /\ wrapper[w] = "running" => holders[w] = "written"
         /\ calls[w].pc = "write" => holders[w] = "empty"
         /\ calls[w].pc = "unlock" /\ wrapper[w] = "ensuring" => holders[w] = "written"
         /\ calls[w].pc \in {"close", "term"} => \A v \in Wrappers \ {w} : wrapper[v] # "running"

IInv == Typed /\ Phases /\ Mutex /\ Started /\ Awaited /\ Recorded /\ Kept /\ Held

-----------------------------------------------------------------------------
(* A kipsel is a caller that the user is not.                              *)
LEMMA CallerFacts ==
  Wrappers \subseteq Callers /\ Stopper \in Callers /\ Stopper \notin Wrappers
BY BridgeAssumption DEF Callers

(* A call that goes on stays a call.                                       *)
LEMMA CallTypes ==
  ASSUME calls \in [Callers -> Call], NEW c \in Callers
  PROVE  /\ \A pc \in Steps : Goes(c, pc) => calls' \in [Callers -> Call]
         /\ Returns(c) => calls' \in [Callers -> Call]
         /\ AfterWay(c) => calls' \in [Callers -> Call]
<1>1. calls[c] \in Call
  OBVIOUS
<1>2. ASSUME NEW pc \in Steps, Goes(c, pc) PROVE calls' \in [Callers -> Call]
  <2>1. [calls[c] EXCEPT !.pc = pc] \in Call
    BY <1>1 DEF Call
  <2>2. QED BY <1>2, <2>1 DEF Goes
<1>3. ASSUME Returns(c) PROVE calls' \in [Callers -> Call]
  <2>1. [calls[c] EXCEPT !.pc = "none", !.pid = None] \in Call
    BY <1>1 DEF Call, Steps
  <2>2. QED BY <1>3, <2>1 DEF Returns
<1>4. ASSUME AfterWay(c) PROVE calls' \in [Callers -> Call]
  <2>1. \A pc \in Steps : [calls[c] EXCEPT !.pc = pc, !.way = 2, !.pid = None] \in Call
    BY <1>1 DEF Call
  <2>2. QED BY <1>4, <2>1 DEF AfterWay, Steps
<1>5. QED BY <1>2, <1>3, <1>4

(* And a process a process.                                                *)
LEMMA ProcessTypes ==
  ASSUME proc \in [Pids -> Process], NEW b \in Pids
  PROVE  \A s \in {"up", "hung", "dying", "dead"} :
           Becomes(b, s) \/ Signal(b, s) => proc' \in [Pids -> Process]
<1>1. ASSUME NEW s \in {"up", "hung", "dying", "dead"}, Becomes(b, s)
      PROVE  proc' \in [Pids -> Process]
  <2>1. proc[b] \in Process
    OBVIOUS
  <2>2. [proc[b] EXCEPT !.state = s] \in Process
    BY <2>1 DEF Process
  <2>3. QED BY <1>1, <2>2 DEF Becomes
<1>2. QED BY <1>1 DEF Signal

LEMMA TypedStays ==
  ASSUME IInv, [Next]_vars
  PROVE  Typed'
<1>t. /\ features \in Worlds
      /\ wrapper \in [Wrappers -> {"new", "ensuring", "running", "leaving", "gone", "dead"}]
      /\ calls \in [Callers -> Call] /\ mutex \in Locks \cup {None}
      /\ holders \in [Wrappers -> {None, "empty", "written"}]
      /\ record \in Owners \cup {None} /\ proc \in [Pids -> Process]
      /\ look \in [left : SUBSET Wrappers, doomed : Wrappers \cup {None}]
  BY DEF IInv, Typed
<1>c. Wrappers \subseteq Callers /\ Stopper \in Callers /\ Stopper \notin Wrappers
  BY CallerFacts
<1>n. \A pc \in {"lock"}, verb \in Verbs : [NoCall EXCEPT !.pc = pc, !.verb = verb] \in Call
  BY DEF NoCall, Call, Steps
<1>m. 0 \in 0..MaxStart /\ 1 \in 0..MaxStart
  BY BridgeAssumption
<1>0. CASE UNCHANGED vars
  BY <1>0, <1>t DEF vars, Typed
<1>1. ASSUME NEW w \in Wrappers, Start(w) \/ Leave(w) PROVE Typed'
  BY <1>1, <1>t, <1>c, <1>n DEF Start, Leave, Typed, Verbs
<1>2. ASSUME NEW w \in Wrappers, Die(w) \/ Interrupt(w) PROVE Typed'
  BY <1>2, <1>t, <1>c, CallTypes DEF Die, Interrupt, Typed
<1>3. CASE StopCommand
  BY <1>3, <1>t, <1>c, <1>n DEF StopCommand, Typed, Verbs
<1>4. CASE Status \/ StatusReads \/ StatusDeletes
  BY <1>4, <1>t DEF Status, StatusReads, StatusDeletes, NoLook, Typed
<1>5. ASSUME NEW b \in Pids, Bridge(b) PROVE Typed'
  <2>1. \E s \in {"up", "hung", "dying", "dead"} : Becomes(b, s)
    BY <1>5 DEF Bridge, Boot, Fails, Hang, Wake, Ends
  <2>2. proc' \in [Pids -> Process]
    BY <1>t, <2>1, ProcessTypes
  <2>3. QED BY <1>5, <1>t, <2>2 DEF Bridge, Typed
<1>6. ASSUME NEW b \in Pids, Reuse(b) \/ External(b) PROVE Typed'
  <2>1. CASE Reuse(b)
    <3>1. proc[b].start \in 0..MaxStart /\ proc[b].start + 1 \in 0..MaxStart
      BY <1>t, <2>1, BridgeAssumption DEF Reuse, Process
    <3> DEFINE new == [state |-> "other", start |-> proc[b].start + 1, ours |-> FALSE,
                       blind |-> Unaware(b), fd |-> None]
    <3>2. new \in Process /\ proc' = [proc EXCEPT ![b] = new]
      BY <2>1, <3>1 DEF Process, Unaware, Reuse
    <3> HIDE DEF new
    <3>3. QED BY <1>t, <2>1, <3>2 DEF Reuse, Typed
  <2>2. CASE External(b)
    <3>1. [state |-> "up", start |-> 1, ours |-> FALSE, blind |-> FALSE, fd |-> None] \in Process
      BY <1>m DEF Process
    <3>2. QED BY <1>t, <2>2, <3>1 DEF External, Typed
  <2>3. QED BY <1>6, <2>1, <2>2
<1>7. ASSUME NEW c \in Callers, Step(c) PROVE Typed'
  <2>p. \A pc \in Steps : Goes(c, pc) => calls' \in [Callers -> Call]
    BY <1>t, CallTypes
  <2>1. CASE Lock(c)
    <3>1. calls[c].verb \in Verbs
      BY <2>1 DEF Lock, IInv, Phases
    <3>2. FirstStep(calls[c].verb) \in Steps /\ [by |-> c, verb |-> calls[c].verb] \in Locks
      BY <3>1 DEF FirstStep, Verbs, Steps, Locks, Callers
    <3>3. QED BY <1>t, <2>p, <2>1, <3>2 DEF Lock, Typed
  <2>2. CASE Health(c) \/ SpawnHealthy(c) \/ SpawnFails(c) \/ Register(c) \/ Write(c) \/ Closing(c)
             \/ Forget(c)
    BY <1>t, <2>p, <2>2
    DEF Health, SpawnHealthy, SpawnFails, Register, Write, Closing, Forget, Typed, Steps
  <2>3. CASE NoWay(c)
    BY <1>t, <2>3, CallTypes DEF NoWay, Typed
  <2>4. CASE Spawn(c)
    <3>1. PICK b \in Pids :
            /\ proc[b].start < MaxStart
            /\ proc' = [proc EXCEPT ![b] =
                 [state |-> "starting", start |-> @.start + 1, ours |-> TRUE, blind |-> FALSE,
                  fd |-> mutex]]
            /\ calls' = [calls EXCEPT ![c].pc = "wait", ![c].pid = b]
      BY <2>4 DEF Spawn
    <3>2. proc[b].start \in 0..MaxStart /\ proc[b].start + 1 \in 0..MaxStart
      BY <1>t, <3>1, BridgeAssumption DEF Process
    <3>3. [state |-> "starting", start |-> proc[b].start + 1, ours |-> TRUE, blind |-> FALSE,
           fd |-> mutex] \in Process
      BY <1>t, <3>2 DEF Process
    <3>4. calls' \in [Callers -> Call]
      <4>1. calls[c] \in Call
        BY <1>t
      <4>2. [calls[c] EXCEPT !.pc = "wait", !.pid = b] \in Call
        BY <4>1 DEF Call, Steps
      <4>3. QED BY <1>t, <3>1, <4>2
    <3>5. proc' \in [Pids -> Process]
      BY <1>t, <3>1, <3>3
    <3>6. QED BY <1>t, <2>4, <3>4, <3>5 DEF Spawn, Typed
  <2>5. CASE Record(c)
    <3>1. calls[c].pid \in Pids /\ calls[c] \in Call
      BY <1>t, <2>5 DEF Record, IInv, Awaited, Waiting
    <3>2. record' \in Owners
      BY <1>t, <1>m, <2>5, <3>1 DEF Record, Owners, Process
    <3>3. [calls[c] EXCEPT !.pc = "register", !.pid = None] \in Call
      BY <3>1 DEF Call, Steps
    <3>4. calls' \in [Callers -> Call]
      BY <1>t, <2>5, <3>3 DEF Record
    <3>5. QED BY <1>t, <2>5, <3>2, <3>4 DEF Record, Typed
  <2>6. CASE GiveUp(c)
    <3>1. calls[c].pid \in Pids
      BY <2>6 DEF GiveUp, IInv, Awaited, Waiting
    <3>2. proc' \in [Pids -> Process]
      BY <1>t, <2>6, <3>1, ProcessTypes DEF GiveUp
    <3>3. calls' \in [Callers -> Call]
      BY <1>t, <2>6, CallTypes DEF GiveUp
    <3>4. QED BY <1>t, <2>6, <3>2, <3>3 DEF GiveUp, Typed
  <2>7. CASE Prune(c)
    <3>1. holders' \in [Wrappers -> {None, "empty", "written"}]
      BY <2>7 DEF Prune, Pruned
    <3>2. QED BY <1>t, <2>p, <2>7, <3>1 DEF Prune, Typed, Steps
  <2>8. CASE Close(c) \/ Terminate(c) \/ Kill(c)
    <3>1. CASE Close(c)
      <4>1. calls' \in [Callers -> Call]
        <5>1. ASSUME Same(record), calls' = [calls EXCEPT ![c].pc = "term", ![c].pid = record.pid]
              PROVE  calls' \in [Callers -> Call]
          <6>1. record.pid \in Pids /\ calls[c] \in Call
            BY <1>t, <5>1 DEF Same, Owners
          <6>2. [calls[c] EXCEPT !.pc = "term", !.pid = record.pid] \in Call
            BY <6>1 DEF Call, Steps
          <6>3. QED BY <1>t, <5>1, <6>2
        <5>2. "forget" \in Steps
          BY DEF Steps
        <5>3. QED BY <2>p, <3>1, <5>1, <5>2 DEF Close
      <4>2. QED BY <1>t, <3>1, <4>1 DEF Close, Typed
    <3>2. CASE Terminate(c) \/ Kill(c)
      <4>1. calls[c].pid \in Pids
        BY <3>2 DEF Terminate, Kill, IInv, Awaited, Aiming
      <4>2. proc' \in [Pids -> Process]
        BY <1>t, <3>2, <4>1, ProcessTypes DEF Terminate, Kill
      <4>3. calls' \in [Callers -> Call]
        BY <2>p, <3>2 DEF Terminate, Kill, Steps
      <4>4. QED BY <1>t, <3>2, <4>2, <4>3 DEF Terminate, Kill, Typed
    <3>3. QED BY <2>8, <3>1, <3>2
  <2>9. CASE Unlock(c)
    BY <1>t, <2>9, CallTypes DEF Unlock, Typed
  <2>10. QED BY <1>7, <2>1, <2>2, <2>3, <2>4, <2>5, <2>6, <2>7, <2>8, <2>9 DEF Step
<1>8. QED BY <1>0, <1>1, <1>2, <1>3, <1>4, <1>5, <1>6, <1>7 DEF Next

(* How a step of a call changes the calls: it takes the lock, goes on      *)
(* towards the unlocking, or unlocks.                                      *)
LEMMA StepPhases ==
  ASSUME Typed, NEW c \in Callers, Step(c)
  PROVE  /\ \A d \in Callers \ {c} : calls'[d] = calls[d]
         /\ calls'[c].verb = calls[c].verb
         /\ \/ /\ calls[c].pc = "lock" /\ calls'[c].pc = FirstStep(calls[c].verb)
               /\ ~Locked /\ mutex' = [by |-> c, verb |-> calls[c].verb]
               /\ UNCHANGED wrapper
            \/ /\ c # Stopper /\ calls[c].pc \in Ensuring /\ calls'[c].pc \in Ensuring \cup {"unlock"}
               /\ UNCHANGED <<mutex, wrapper>>
            \/ /\ calls[c].pc \in Releasing /\ calls'[c].pc \in Releasing \cup {"unlock"}
               /\ UNCHANGED <<mutex, wrapper>>
            \/ calls[c].pc = "unlock" /\ calls'[c].pc = "none" /\ Unlock(c)
<1>t. calls \in [Callers -> Call] /\ calls[c] \in Call
  BY DEF Typed
<1>1. CASE Lock(c)
  BY <1>1, <1>t DEF Lock, Goes, Call
<1>2. CASE c # Stopper /\ (Health(c) \/ SpawnHealthy(c) \/ SpawnFails(c) \/ Register(c) \/ Write(c))
  BY <1>2, <1>t DEF Health, SpawnHealthy, SpawnFails, Register, Write, Goes, Call, Ensuring
<1>3. CASE c # Stopper /\ (NoWay(c) \/ GiveUp(c))
  BY <1>3, <1>t DEF NoWay, GiveUp, AfterWay, Call, Ensuring
<1>4. CASE c # Stopper /\ (Spawn(c) \/ Record(c))
  BY <1>4, <1>t DEF Spawn, Record, Call, Ensuring
<1>5. CASE Prune(c) \/ Close(c) \/ Terminate(c) \/ Closing(c) \/ Kill(c) \/ Forget(c)
  BY <1>5, <1>t DEF Prune, Close, Terminate, Closing, Kill, Forget, Goes, Call, Releasing
<1>6. CASE Unlock(c)
  BY <1>6, <1>t DEF Unlock, Returns, Call
<1>7. QED BY <1>1, <1>2, <1>3, <1>4, <1>5, <1>6 DEF Step

(* A call that is past the lock keeps the others out.                      *)
LEMMA InsideLocks ==
  ASSUME Typed, Phases, Mutex, NEW c \in Inside
  PROVE  Locked /\ \A d \in Inside : d = c
<1>1. /\ mutex = [by |-> c, verb |-> calls[c].verb] /\ mutex \in Locks
      /\ calls[c].pc # "none" /\ c \in Callers
  BY DEF Mutex, Inside, Phases, Locks, Callers
<1>2. mutex # None
  BY <1>1, NoneAssumption
<1>3. QED BY <1>1, <1>2 DEF Locked, Mutex

LEMMA PhasesStay ==
  ASSUME IInv, [Next]_vars
  PROVE  Phases' /\ Mutex'
<1>t. /\ calls \in [Callers -> Call] /\ Phases /\ Mutex
      /\ wrapper \in [Wrappers -> {"new", "ensuring", "running", "leaving", "gone", "dead"}]
  BY DEF IInv, Typed
<1>c. Wrappers \subseteq Callers /\ Stopper \in Callers /\ Stopper \notin Wrappers
  BY CallerFacts
<1>u. ASSUME UNCHANGED <<calls, wrapper, mutex>> PROVE Phases' /\ Mutex'
  BY <1>u, <1>t DEF Phases, Mutex, Inside
<1>1. ASSUME NEW w \in Wrappers, Start(w) \/ Leave(w) PROVE Phases' /\ Mutex'
  <2>1. /\ calls'[w].pc = "lock" /\ UNCHANGED mutex
        /\ \A d \in Callers \ {w} : calls'[d] = calls[d]
        /\ \A v \in Wrappers \ {w} : wrapper'[v] = wrapper[v]
        /\ \/ wrapper'[w] = "ensuring" /\ calls'[w].verb = "ensure"
           \/ wrapper'[w] = "leaving" /\ calls'[w].verb = "release"
    BY <1>1, <1>t, <1>c DEF Start, Leave, NoCall
  <2>2. Phases'
    BY <1>t, <1>c, <2>1 DEF Phases, Verbs, Ensuring, Releasing
  <2>3. Mutex'
    BY <1>t, <1>c, <2>1 DEF Mutex, Inside
  <2>4. QED BY <2>2, <2>3
<1>2. ASSUME NEW w \in Wrappers, Die(w) \/ Interrupt(w) PROVE Phases' /\ Mutex'
  <2>1. /\ calls'[w].pc = "none" /\ UNCHANGED mutex /\ wrapper'[w] = "dead"
        /\ calls'[w].verb = calls[w].verb
        /\ \A d \in Callers \ {w} : calls'[d] = calls[d]
        /\ \A v \in Wrappers \ {w} : wrapper'[v] = wrapper[v]
    <3>1. calls[w] \in Call
      BY <1>t, <1>c
    <3>2. QED BY <1>2, <1>t, <1>c, <3>1 DEF Die, Interrupt, Returns, Phases, Call
  <2>2. Phases'
    BY <1>t, <1>c, <2>1 DEF Phases, Ensuring, Releasing
  <2>3. Mutex'
    BY <1>t, <1>c, <2>1 DEF Mutex, Inside
  <2>4. QED BY <2>2, <2>3
<1>3. CASE StopCommand
  <2>1. /\ calls'[Stopper].pc = "lock" /\ UNCHANGED <<mutex, wrapper>> /\ calls'[Stopper].verb = "stop"
        /\ \A d \in Callers \ {Stopper} : calls'[d] = calls[d]
    BY <1>3, <1>t, <1>c DEF StopCommand, NoCall
  <2>2. Phases'
    BY <1>t, <1>c, <2>1 DEF Phases, Verbs
  <2>3. Mutex'
    BY <1>t, <1>c, <2>1 DEF Mutex, Inside
  <2>4. QED BY <2>2, <2>3
<1>4. ASSUME NEW c \in Callers, Step(c) PROVE Phases' /\ Mutex'
  <2>o. (\A d \in Callers \ {c} : calls'[d] = calls[d]) /\ calls'[c].verb = calls[c].verb
    BY <1>4, StepPhases DEF IInv
  <2>1. CASE /\ calls[c].pc = "lock" /\ calls'[c].pc = FirstStep(calls[c].verb)
             /\ ~Locked /\ mutex' = [by |-> c, verb |-> calls[c].verb] /\ UNCHANGED wrapper
    <3>1. Inside = {}
      BY <2>1, InsideLocks DEF IInv
    <3>2. Mutex'
      BY <1>t, <2>o, <2>1, <3>1 DEF Mutex, Inside
    <3>3. calls[c].verb \in Verbs
      BY <1>t, <2>1 DEF Phases
    <3>4. /\ calls'[c].pc \in {"health", "prune", "close"}
          /\ calls'[c].pc = "health" <=> calls[c].verb = "ensure"
      BY <2>1, <3>3 DEF FirstStep, Verbs
    <3>5. Phases'
      BY <1>t, <1>c, <2>o, <2>1, <3>3, <3>4 DEF Phases, Ensuring, Releasing
    <3>6. QED BY <3>2, <3>5
  <2>2. CASE /\ calls[c].pc \in Ensuring /\ calls'[c].pc \in Ensuring \cup {"unlock"}
             /\ UNCHANGED <<mutex, wrapper>>
    BY <1>t, <1>c, <2>o, <2>2 DEF Phases, Mutex, Inside, Ensuring, Releasing
  <2>3. CASE /\ calls[c].pc \in Releasing /\ calls'[c].pc \in Releasing \cup {"unlock"}
             /\ UNCHANGED <<mutex, wrapper>>
    BY <1>t, <1>c, <2>o, <2>3 DEF Phases, Mutex, Inside, Ensuring, Releasing
  <2>4. CASE calls[c].pc = "unlock" /\ calls'[c].pc = "none" /\ Unlock(c)
    <3>1. Inside = {c}
      BY <2>4, InsideLocks DEF IInv, Inside
    <3>2. Mutex'
      BY <2>o, <2>4, <3>1 DEF Mutex, Inside
    <3>3. /\ \A v \in Wrappers \ {c} : wrapper'[v] = wrapper[v]
          /\ c \in Wrappers => wrapper'[c] \in {"running", "gone"}
      BY <1>t, <1>c, <2>4 DEF Unlock
    <3>4. Phases'
      BY <1>t, <1>c, <2>o, <2>4, <3>3 DEF Phases, Ensuring, Releasing
    <3>5. QED BY <3>2, <3>4
  <2>5. QED BY <1>4, <2>1, <2>2, <2>3, <2>4, StepPhases DEF IInv
<1>5. QED
  BY <1>u, <1>1, <1>2, <1>3, <1>4
  DEF Next, vars, Status, StatusReads, StatusDeletes, Bridge, Reuse, External

-----------------------------------------------------------------------------
\* What a step may do to a process: it stays the same process, and is told to
\* end only when it is ours or unnoticed, or a dead one makes room for the
\* next, which is so too when a call has its pid in mind.
SameProcess(b) ==
  /\ proc'[b].start = proc[b].start /\ (Fair(b)' <=> Fair(b)) /\ proc'[b].ours = proc[b].ours
  /\ \/ proc'[b].state = proc[b].state
     \/ /\ Alive(b) /\ proc'[b].state \in {"up", "hung", "dying", "dead"}
        /\ proc'[b].state \in {"dying", "dead"} => Fair(b)
NextProcess(b) ==
  /\ ~Alive(b) /\ proc'[b].start = proc[b].start + 1
  /\ proc'[b].state \in {"starting", "up", "other"}
  /\ proc'[b].state = "other" => ~proc'[b].ours
  /\ Unaware(b) => Fair(b)'

(* Every step does one of the two to every process.                        *)
LEMMA ProcessSteps ==
  ASSUME IInv, [Next]_vars, NEW b \in Pids
  PROVE  SameProcess(b) \/ NextProcess(b)
<1> DEFINE Goal == SameProcess(b) \/ NextProcess(b)
<1>t. proc \in [Pids -> Process] /\ proc[b] \in Process
  BY DEF IInv, Typed
<1>u. ASSUME proc'[b] = proc[b] PROVE Goal
  BY <1>u DEF SameProcess, Fair
<1>s. ASSUME NEW d \in Pids, NEW s \in {"up", "hung", "dying", "dead"}, Becomes(d, s), Alive(d),
             s \in {"dying", "dead"} => Fair(d)
      PROVE  Goal
  BY <1>s, <1>t, <1>u DEF SameProcess, Becomes, Process, Fair
<1>n. ASSUME NEW d \in Pids, NEW new, proc' = [proc EXCEPT ![d] = new],
             ~Alive(d), new.start = proc[d].start + 1, new.state \in {"starting", "up", "other"},
             new.state = "other" => ~new.ours,
             Unaware(d) => new.ours \/ new.blind
      PROVE  Goal
  BY <1>n, <1>t, <1>u DEF NextProcess, Fair
<1>k. ASSUME NEW d \in Pids, NEW s \in {"dying", "dead"}, Signal(d, s), Fair(d) PROVE Goal
  BY <1>k, <1>s, <1>u DEF Signal
<1>1. ASSUME NEW d \in Pids, Bridge(d) PROVE Goal
  BY <1>1, <1>s DEF Bridge, Boot, Fails, Hang, Wake, Ends, Alive, IInv, Started, Fair
<1>2. ASSUME NEW d \in Pids, Reuse(d) PROVE Goal
  <2> DEFINE new == [state |-> "other", start |-> proc[d].start + 1, ours |-> FALSE,
                     blind |-> Unaware(d), fd |-> None]
  <2>1. /\ proc' = [proc EXCEPT ![d] = new] /\ ~Alive(d)
        /\ new.start = proc[d].start + 1 /\ new.state = "other" /\ ~new.ours
        /\ Unaware(d) => new.blind
    BY <1>2 DEF Reuse, Alive
  <2> HIDE DEF new
  <2>2. QED BY <2>1, <1>n
<1>3. ASSUME NEW d \in Pids, External(d) PROVE Goal
  <2> DEFINE new == [state |-> "up", start |-> 1, ours |-> FALSE, blind |-> FALSE, fd |-> None]
  <2>1. /\ proc' = [proc EXCEPT ![d] = new] /\ ~Alive(d)
        /\ new.start = proc[d].start + 1 /\ new.state = "up"
        /\ ~Unaware(d)
    BY <1>3 DEF External, Alive, IInv, Started, Awaited, Unaware, Waiting, Aiming
  <2> HIDE DEF new
  <2>2. QED BY <2>1, <1>n
<1>4. ASSUME NEW c \in Callers, Spawn(c) PROVE Goal
  <2> DEFINE New(d) == [state |-> "starting", start |-> proc[d].start + 1, ours |-> TRUE,
                        blind |-> FALSE, fd |-> mutex]
  <2>1. PICK d \in Pids : ~Alive(d) /\ proc' = [proc EXCEPT ![d] = New(d)]
    BY <1>4 DEF Spawn
  <2>2. New(d).start = proc[d].start + 1 /\ New(d).state = "starting" /\ New(d).ours
    OBVIOUS
  <2> HIDE DEF New
  <2>3. QED BY <2>1, <2>2, <1>n
<1>5. ASSUME NEW c \in Callers, GiveUp(c) \/ Terminate(c) \/ Kill(c) PROVE Goal
  <2>1. calls[c].pid \in Pids /\ Fair(calls[c].pid)
    BY <1>5 DEF GiveUp, Terminate, Kill, IInv, Awaited, Waiting, Aiming
  <2>2. QED BY <1>5, <1>k, <2>1 DEF GiveUp, Terminate, Kill
<1>7. ASSUME UNCHANGED proc PROVE Goal
  BY <1>7, <1>u
<1>8. QED
  BY <1>1, <1>2, <1>3, <1>4, <1>5, <1>7
  DEF Next, vars, Step, Start, Leave, Die, Interrupt, StopCommand, Status, StatusReads,
      StatusDeletes, Lock, Health, NoWay, SpawnHealthy, Record, SpawnFails, Register, Write, Prune,
      Close, Closing, Forget, Unlock

(* How a call comes to have a pid in mind: it spawns the process or finds  *)
(* it recorded, and goes on with the pid it has.                           *)
LEMMA PidSteps ==
  ASSUME IInv, [Next]_vars, NEW c \in Callers,
         calls'[c].pc \in Waiting \cup Aiming \cup {"closing"}
  PROVE  \/ calls'[c] = calls[c]
         \/ Spawn(c)
         \/ /\ calls[c].pc = "wait" /\ calls'[c].pc \in Waiting
            /\ calls'[c].pid = calls[c].pid /\ UNCHANGED <<record, proc>>
         \/ /\ Same(record) /\ calls'[c].pc = "term"
            /\ calls'[c].pid = record.pid /\ UNCHANGED <<record, proc>>
         \/ /\ calls[c].pc = "term" /\ calls'[c].pc = "closing"
            /\ calls'[c].pid = calls[c].pid /\ UNCHANGED record
         \/ /\ calls[c].pc = "closing" /\ calls'[c].pc = "kill" /\ Same(record)
            /\ calls'[c].pid = calls[c].pid /\ UNCHANGED <<record, proc>>
<1> DEFINE Aimed == Waiting \cup Aiming \cup {"closing"}
<1>t. calls \in [Callers -> Call] /\ Wrappers \subseteq Callers /\ calls[c] \in Call
  BY CallerFacts DEF IInv, Typed
<1>g. \A pc \in Steps : Goes(c, pc) => calls'[c].pc = pc /\ calls'[c].pid = calls[c].pid
  BY <1>t DEF Goes, Call
<1>a. Aimed = {"wait", "record", "giveup", "term", "kill", "closing"}
  BY DEF Waiting, Aiming
<1>1. ASSUME NEW d \in Callers \ {c}, Step(d) PROVE calls'[c] = calls[c]
  BY <1>1, StepPhases DEF IInv
<1>2. CASE Step(c)
  <2>1. CASE Lock(c)
    <3>1. calls[c].verb \in Verbs
      BY <2>1 DEF Lock, IInv, Phases
    <3>2. FirstStep(calls[c].verb) \in {"health", "prune", "close"}
      BY <3>1 DEF FirstStep, Verbs
    <3>3. QED BY <1>g, <1>a, <2>1, <3>2 DEF Lock, Steps
  <2>2. CASE Health(c) \/ Register(c) \/ Write(c) \/ Prune(c) \/ Forget(c)
    BY <1>g, <1>a, <2>2 DEF Health, Register, Write, Prune, Forget, Steps
  <2>3. CASE NoWay(c) \/ GiveUp(c)
    BY <1>t, <1>a, <2>3 DEF NoWay, GiveUp, AfterWay, Call
  <2>4. CASE Record(c) \/ Unlock(c)
    BY <1>t, <1>a, <2>4 DEF Record, Unlock, Returns, Call
  <2>5. CASE SpawnHealthy(c) \/ SpawnFails(c)
    BY <1>g, <2>5 DEF SpawnHealthy, SpawnFails, Steps, Waiting
  <2>6. CASE Close(c)
    <3>1. CASE Same(record)
      BY <1>t, <2>6, <3>1 DEF Close, Call
    <3>2. CASE ~Same(record)
      BY <1>g, <1>a, <2>6, <3>2 DEF Close, Steps
    <3>3. QED BY <3>1, <3>2
  <2>7. CASE Terminate(c)
    BY <1>g, <2>7 DEF Terminate, Steps
  <2>8. CASE Closing(c)
    BY <1>g, <1>a, <2>8 DEF Closing, Steps
  <2>9. CASE Kill(c)
    BY <1>g, <1>a, <2>9 DEF Kill, Steps
  <2>10. QED
    BY <1>2, <2>1, <2>2, <2>3, <2>4, <2>5, <2>6, <2>7, <2>8, <2>9 DEF Step
<1>3. ASSUME NEW w \in Wrappers, Start(w) \/ Leave(w) \/ Interrupt(w) PROVE calls'[c] = calls[c]
  <2>1. c # w => calls'[c] = calls[c]
    BY <1>3, <1>t DEF Start, Leave, Interrupt, Returns
  <2>2. calls'[w].pc \notin Aimed
    <3>1. calls[w] \in Call /\ w \in Callers
      BY <1>t
    <3>2. CASE Start(w) \/ Leave(w)
      <4>1. calls'[w].pc = "lock"
        BY <1>t, <3>1, <3>2 DEF Start, Leave, NoCall
      <4>2. QED BY <1>a, <4>1
    <3>3. CASE Interrupt(w)
      BY <1>t, <1>a, <3>1, <3>3 DEF Interrupt, Returns, Call
    <3>4. QED BY <1>3, <3>2, <3>3
  <2>3. QED BY <2>1, <2>2
<1>4. CASE StopCommand
  <2>1. calls'[Stopper].pc \notin Aimed
    BY <1>4, <1>t, <1>a, CallerFacts DEF StopCommand, NoCall
  <2>2. QED BY <1>4, <1>t, <2>1 DEF StopCommand
<1>5. QED
  BY <1>1, <1>2, <1>3, <1>4
  DEF Next, vars, Die, Status, StatusReads, StatusDeletes, Bridge, Reuse, External

(* The record changes when a call past the lock records or forgets.        *)
LEMMA RecordSteps ==
  ASSUME [Next]_vars
  PROVE  UNCHANGED record \/ \E c \in Callers : Record(c) \/ Forget(c)
BY DEF Next, vars, Step, Start, Leave, Die, Interrupt, StopCommand, Status, StatusReads,
       StatusDeletes, Lock, Health, NoWay, Spawn, SpawnHealthy, SpawnFails, GiveUp, Register,
       Write, Prune, Close, Terminate, Closing, Kill, Unlock, Bridge, Reuse, External

LEMMA ProcessesStay ==
  ASSUME IInv, [Next]_vars
  PROVE  Started' /\ Awaited' /\ Recorded'
<1>t. \A b \in Pids : proc[b] \in Process /\ proc[b].start \in Nat
  BY BridgeAssumption DEF IInv, Typed, Process
<1>p. \A b \in Pids : SameProcess(b) \/ NextProcess(b)
  BY ProcessSteps
<1>r. record # None => record.pid \in Pids /\ record.start \in Nat
  BY BridgeAssumption DEF IInv, Typed, Owners
<1>1. Started'
  BY <1>t, <1>p DEF IInv, Started, Alive, SameProcess, NextProcess
<1>2. ASSUME NEW b \in Pids, proc[b].state # "none", Fair(b), UNCHANGED proc \/ Unaware(b)
      PROVE  Fair(b)' /\ proc'[b].state # "none"
  BY <1>2, <1>p DEF Fair, Alive, SameProcess, NextProcess
<1>3. ASSUME NEW c \in Callers, calls'[c].pc \in Waiting \cup Aiming
      PROVE  calls'[c].pid \in Pids /\ Fair(calls[c].pid)' /\ proc'[calls'[c].pid].state # "none"
  <2>1. CASE calls'[c] = calls[c]
    <3>1. Unaware(calls[c].pid)
      BY <1>3, <2>1 DEF Unaware, Waiting, Aiming
    <3>2. QED BY <1>2, <1>3, <2>1, <3>1 DEF IInv, Awaited, Fair
  <2>2. CASE Spawn(c)
    <3>1. PICK b \in Pids :
            /\ calls' = [calls EXCEPT ![c].pc = "wait", ![c].pid = b]
            /\ proc' = [proc EXCEPT ![b] =
                 [state |-> "starting", start |-> @.start + 1, ours |-> TRUE, blind |-> FALSE,
                  fd |-> mutex]]
      BY <2>2 DEF Spawn
    <3>2. calls'[c].pid = b /\ proc'[b].ours /\ proc'[b].state = "starting"
      BY <3>1 DEF IInv, Typed, Call
    <3>3. QED BY <3>2 DEF Fair
  <2>3. CASE calls[c].pc = "wait" /\ calls'[c].pid = calls[c].pid /\ UNCHANGED <<record, proc>>
    BY <1>2, <2>3 DEF IInv, Awaited, Waiting, Fair
  <2>4. CASE Same(record) /\ calls'[c].pid = record.pid /\ UNCHANGED <<record, proc>>
    BY <1>r, <2>4 DEF IInv, Recorded, Same, Alive, Fair
  <2>5. CASE calls[c].pc = "closing" /\ Same(record) /\ calls'[c].pid = calls[c].pid
             /\ UNCHANGED <<record, proc>>
    BY <1>r, <2>5 DEF IInv, Awaited, Recorded, Same, Alive, Fair
  <2>6. calls'[c].pc # "closing"
    BY <1>3 DEF Waiting, Aiming
  <2>7. QED BY <1>3, <2>1, <2>2, <2>3, <2>4, <2>5, <2>6, PidSteps
<1>4. ASSUME NEW c \in Callers, calls'[c].pc \in Aiming \cup {"closing"}
      PROVE  record' # None /\ record'.pid = calls'[c].pid
  <2>1. CASE calls'[c] = calls[c]
    <3>1. ASSUME NEW d \in Callers, Record(d) \/ Forget(d) PROVE FALSE
      <4>1. calls[d].pc \in {"record", "forget"}
        BY <3>1 DEF Record, Forget
      <4>2. d \in Inside /\ c \in Inside
        BY <1>4, <2>1, <4>1 DEF Inside, Aiming
      <4>3. d = c
        BY <4>2, InsideLocks DEF IInv
      <4>4. QED BY <1>4, <2>1, <4>1, <4>3 DEF Aiming
    <3>2. UNCHANGED record
      BY <3>1, RecordSteps
    <3>3. QED BY <1>4, <2>1, <3>2 DEF IInv, Awaited
  <2>2. CASE Spawn(c)
    <3>1. calls'[c].pc = "wait"
      BY <2>2 DEF Spawn, IInv, Typed, Call
    <3>2. QED BY <1>4, <3>1 DEF Aiming
  <2>3. CASE Same(record) /\ calls'[c].pid = record.pid /\ UNCHANGED record
    BY <2>3 DEF Same
  <2>4. CASE calls[c].pc \in {"term", "closing"} /\ calls'[c].pid = calls[c].pid /\ UNCHANGED record
    BY <2>4 DEF IInv, Awaited, Aiming
  <2>5. calls'[c].pc \notin Waiting
    BY <1>4 DEF Waiting, Aiming
  <2>6. QED BY <1>4, <2>1, <2>2, <2>3, <2>4, <2>5, PidSteps
<1>5. Recorded'
  <2>1. CASE UNCHANGED record
    BY <1>t, <1>p, <1>r, <2>1 DEF IInv, Recorded, Same, Alive, SameProcess, NextProcess
  <2>2. ASSUME NEW c \in Callers, Forget(c) PROVE Recorded'
    BY <2>2 DEF Forget, Recorded
  <2>3. ASSUME NEW c \in Callers, Record(c) PROVE Recorded'
    <3>1. calls[c].pid \in Pids /\ Fair(calls[c].pid)
      BY <2>3 DEF Record, IInv, Awaited, Waiting
    <3>2. UNCHANGED proc /\ record'.pid = calls[c].pid
          /\ record'.start \in {0, proc[calls[c].pid].start}
      BY <2>3 DEF Record
    <3>3. QED BY <1>t, <3>1, <3>2 DEF Recorded, Same, Alive, Fair
  <2>4. QED BY <2>1, <2>2, <2>3, RecordSteps
<1>6. Awaited'
  BY <1>3, <1>4 DEF Awaited
<1>7. QED BY <1>1, <1>5, <1>6

-----------------------------------------------------------------------------
(* Under Calm, no bridge of ours that is to go on is lost sight of.        *)
LEMMA KeptStays ==
  ASSUME IInv, [Next]_vars
  PROVE  Kept'
<1> SUFFICES ASSUME Calm' PROVE Kept'
  BY DEF Kept
<1>f. UNCHANGED features /\ Calm
  BY DEF Calm, Without, Next, vars, Step, Start, Leave, Die, Interrupt, StopCommand, Status,
         StatusReads, StatusDeletes, Lock, Health, NoWay, Spawn, SpawnHealthy, Record, SpawnFails,
         GiveUp, Register, Write, Prune, Close, Terminate, Closing, Kill, Forget, Unlock, Bridge,
         Reuse, External
<1>k. /\ \A b \in Pids : proc[b].state # "hung"
      /\ \A b \in Pids : Stray(b) =>
           \/ Same(record) /\ record.pid = b /\ (proc[b].state = "starting" => Foreign)
           \/ \E c \in Callers :
                /\ calls[c].pc \in Waiting /\ calls[c].pid = b
                /\ calls[c].pc = "record" /\ proc[b].state = "starting" => Foreign
      /\ \A c \in Callers, b \in Pids :
           /\ calls[c].pc \in {"spawn", "closing", "kill", "forget"} => ~Stray(b)
           /\ calls[c].pc \in Waiting /\ Stray(b) => calls[c].pid = b
  BY <1>f DEF IInv, Kept
<1>t. /\ proc \in [Pids -> Process] /\ calls \in [Callers -> Call]
      /\ \A b \in Pids : proc[b] \in Process
      /\ \A c \in Callers : calls[c] \in Call
  BY DEF IInv, Typed
<1> DEFINE NoHung == \A b \in Pids : proc'[b].state # "hung"
           Seen   == \A b \in Pids : Stray(b)' =>
                       \/ /\ Same(record)' /\ record'.pid = b
                          /\ proc'[b].state = "starting" => Foreign'
                       \/ \E c \in Callers :
                            /\ calls'[c].pc \in Waiting /\ calls'[c].pid = b
                            /\ calls'[c].pc = "record" /\ proc'[b].state = "starting" => Foreign'
           Apart  == \A c \in Callers, b \in Pids :
                       /\ calls'[c].pc \in {"spawn", "closing", "kill", "forget"} => ~Stray(b)'
                       /\ calls'[c].pc \in Waiting /\ Stray(b)' => calls'[c].pid = b
<1>g. ASSUME NoHung, Seen, Apart PROVE Kept'
  BY <1>g DEF Kept
<1>i. \A c, d \in Callers : calls[c].pc \notin {"none", "lock"} /\ calls[d].pc \notin {"none", "lock"} => c = d
  BY InsideLocks DEF IInv, Inside
<1>n. ASSUME NoHung, \A b \in Pids : ~Stray(b)' PROVE Kept'
  BY <1>g, <1>n
<1>e. ASSUME NEW b \in Pids, NEW s \in {"dying", "dead"}, Signal(b, s),
             \A d \in Pids : Stray(d) => d = b
      PROVE  Kept'
  <2>1. CASE Alive(b) /\ Becomes(b, s)
    <3>1. proc'[b].state = s /\ \A d \in Pids \ {b} : proc'[d] = proc[d]
      BY <1>t, <2>1 DEF Becomes, Process
    <3>2. ~Stray(b)' /\ \A d \in Pids \ {b} : ~Stray(d)'
      BY <1>e, <3>1 DEF Stray, Ours, Alive
    <3>3. NoHung
      BY <1>k, <3>1
    <3>4. QED BY <1>n, <3>2, <3>3
  <2>2. CASE ~Ours(b) /\ UNCHANGED proc
    <3>1. \A d \in Pids : ~Stray(d)'
      BY <1>e, <2>2 DEF Stray, Ours, Alive
    <3>2. QED BY <1>k, <1>n, <2>2, <3>1
  <2>3. QED BY <1>e, <2>1, <2>2 DEF Signal
<1>c. ASSUME UNCHANGED <<proc, record>>, NEW c \in Callers, \A d \in Callers \ {c} : calls'[d] = calls[d],
             calls[c].pc \notin Waiting,
             calls'[c].pc \notin {"spawn", "closing", "kill", "forget"} \cup Waiting
      PROVE  Kept'
  <2>1. \A b \in Pids : (Stray(b)' <=> Stray(b))
    BY <1>c DEF Stray, Ours, Alive
  <2>2. (Same(record)' <=> Same(record)) /\ (Foreign' <=> Foreign)
    BY <1>c DEF Same, Alive, Foreign
  <2>3. NoHung
    BY <1>k, <1>c
  <2>4. Seen
    BY <1>k, <1>c, <2>1, <2>2
  <2>5. Apart
    BY <1>k, <1>c, <2>1
  <2>6. QED BY <1>g, <2>3, <2>4, <2>5
<1>l. ASSUME UNCHANGED <<calls, record>>, NoHung, Foreign => Foreign',
             \A b \in Pids : Stray(b)' => /\ Stray(b) /\ proc'[b].start = proc[b].start
                                          /\ proc'[b].state = "starting" => proc[b].state = "starting"
      PROVE  Kept'
  <2>1. \A b \in Pids : Stray(b)' => Alive(b)'
    BY DEF Stray, Ours
  <2>2. Seen
    BY <1>k, <1>l, <2>1 DEF Same
  <2>3. Apart
    BY <1>k, <1>l
  <2>4. QED BY <1>g, <1>l, <2>2, <2>3
<1>1. ASSUME UNCHANGED <<calls, record, proc>> PROVE Kept'
  BY <1>1, <1>k, <1>l DEF Stray, Ours, Alive, Foreign
<1>2. ASSUME NEW w \in Wrappers, Start(w) \/ Leave(w) PROVE Kept'
  <2>1. w \in Callers /\ calls[w].pc = "none"
    BY <1>2, CallerFacts DEF Start, Leave, IInv, Phases
  <2>2. calls'[w].pc = "lock" /\ \A d \in Callers \ {w} : calls'[d] = calls[d]
    BY <1>2, <1>t, <2>1 DEF Start, Leave, NoCall
  <2>3. QED BY <1>2, <1>c, <2>1, <2>2 DEF Start, Leave, Waiting
<1>3. CASE StopCommand
  <2>1. Stopper \in Callers /\ calls[Stopper].pc = "none"
    BY <1>3, CallerFacts, NoneAssumption DEF StopCommand, IInv, Phases
  <2>2. calls'[Stopper].pc = "lock" /\ \A d \in Callers \ {Stopper} : calls'[d] = calls[d]
    BY <1>3, <1>t, <2>1 DEF StopCommand, NoCall
  <2>3. QED BY <1>3, <1>c, <2>1, <2>2 DEF StopCommand, Waiting
<1>4. ASSUME NEW w \in Wrappers, Interrupt(w) PROVE Kept'
  BY <1>4, <1>f DEF Interrupt, Calm, Without
<1>5. ASSUME NEW b \in Pids, Bridge(b) PROVE Kept'
  <2>1. UNCHANGED <<calls, record>> /\ ~Hang(b)
    BY <1>5, <1>f DEF Bridge, Hang, Calm, Without
  <2>2. PICK s \in {"up", "dead"} :
          /\ proc' = [proc EXCEPT ![b].state = s]
          /\ \/ proc[b].state = "starting" /\ s = "up"
             \/ proc[b].state = "hung"
             \/ s = "dead" /\ (proc[b].ours \/ proc[b].state = "dying")
    BY <1>5, <2>1 DEF Bridge, Boot, Fails, Wake, Ends, Becomes
  <2>3. /\ \A d \in Pids \ {b} : proc'[d] = proc[d]
        /\ proc'[b].state = s /\ proc'[b].start = proc[b].start /\ proc'[b].ours = proc[b].ours
    BY <1>t, <2>2 DEF Process
  <2>4. NoHung
    BY <1>k, <2>3
  <2>5. Foreign => Foreign'
    BY <2>2, <2>3 DEF Foreign
  <2>6. \A d \in Pids : Stray(d)' => /\ Stray(d) /\ proc'[d].start = proc[d].start
                                     /\ proc'[d].state = "starting" => proc[d].state = "starting"
    BY <1>k, <2>2, <2>3 DEF Stray, Ours, Alive
  <2>7. QED BY <1>l, <2>1, <2>4, <2>5, <2>6
<1>6. ASSUME NEW b \in Pids, Reuse(b) \/ External(b) PROVE Kept'
  <2>1. /\ UNCHANGED <<calls, record>> /\ ~Alive(b)
        /\ \A d \in Pids \ {b} : proc'[d] = proc[d]
        /\ proc'[b].state \in {"other", "up"} /\ ~proc'[b].ours
    BY <1>6, <1>t DEF Reuse, External, Alive
  <2>2. NoHung
    BY <1>k, <2>1
  <2>3. Foreign => Foreign'
    BY <2>1 DEF Foreign, Alive
  <2>4. \A d \in Pids : Stray(d)' => Stray(d) /\ proc'[d] = proc[d]
    BY <2>1 DEF Stray, Ours, Alive
  <2>5. QED BY <1>l, <2>1, <2>2, <2>3, <2>4
<1>7. ASSUME NEW c \in Callers, Step(c) PROVE Kept'
  <2>o. \A d \in Callers \ {c} : calls'[d] = calls[d]
    BY <1>7, StepPhases DEF IInv
  <2>s. \A d \in Callers \ {c} : calls[c].pc \notin {"none", "lock"} => calls[d].pc \in {"none", "lock"}
    BY <1>i
  <2>1. CASE Lock(c)
    <3>1. calls[c].verb \in Verbs /\ calls'[c].pc = FirstStep(calls[c].verb) /\ calls[c].pc = "lock"
      BY <1>t, <2>1 DEF Lock, Goes, IInv, Phases
    <3>2. calls'[c].pc \in {"health", "prune", "close"}
      BY <3>1 DEF FirstStep, Verbs
    <3>3. QED BY <1>c, <2>o, <2>1, <3>1, <3>2 DEF Lock, Waiting
  <2>2. CASE Register(c) \/ Write(c) \/ Prune(c) \/ Unlock(c)
    <3>1. calls[c].pc \notin Waiting /\ calls'[c].pc \in {"write", "unlock", "close", "none"}
      BY <1>t, <2>2 DEF Register, Write, Prune, Unlock, Goes, Returns, Call, Waiting
    <3>2. QED BY <1>c, <2>o, <2>2, <3>1 DEF Register, Write, Prune, Unlock, Waiting
  <2>3. CASE Health(c)
    <3>1. CASE Healthy
      <4>1. calls[c].pc \notin Waiting /\ calls'[c].pc = "register"
        BY <1>t, <2>3, <3>1 DEF Health, Goes, Waiting
      <4>2. QED BY <1>c, <2>o, <2>3, <4>1 DEF Health, Waiting
    <3>2. CASE ~Healthy
      <4>1. \A d \in Callers : calls[d].pc \notin Waiting
        BY <2>s, <2>3 DEF Health, Waiting
      <4>2. ASSUME NEW b \in Pids, Stray(b) PROVE FALSE
        <5>1. proc[b].state = "starting" => Foreign
          BY <1>k, <4>1, <4>2
        <5>2. ~Foreign /\ proc[b].state # "up"
          BY <3>2 DEF Healthy, Foreign
        <5>3. proc[b].state \in {"starting", "up", "hung", "other"}
          BY <1>t, <4>2 DEF Stray, Ours, Alive, Process
        <5>4. proc[b].state = "other"
          BY <1>k, <5>1, <5>2, <5>3
        <5>5. QED BY <4>2, <5>4 DEF IInv, Started, Stray, Ours
      <4>3. QED BY <1>n, <1>k, <2>3, <4>2 DEF Health, Stray, Ours, Alive
    <3>3. QED BY <3>1, <3>2
  <2>4. CASE NoWay(c)
    <3>1. \A b \in Pids : ~Stray(b)'
      BY <1>k, <2>4 DEF NoWay, Stray, Ours, Alive
    <3>2. QED BY <1>n, <1>k, <2>4, <3>1 DEF NoWay
  <2>5. CASE Spawn(c)
    <3>1. PICK b \in Pids :
            /\ ~Alive(b) /\ calls' = [calls EXCEPT ![c].pc = "wait", ![c].pid = b]
            /\ proc' = [proc EXCEPT ![b] =
                 [state |-> "starting", start |-> @.start + 1, ours |-> TRUE, blind |-> FALSE,
                  fd |-> mutex]]
      BY <2>5 DEF Spawn
    <3>2. /\ calls'[c].pc = "wait" /\ calls'[c].pid = b
          /\ \A d \in Pids \ {b} : proc'[d] = proc[d]
          /\ proc'[b].state = "starting"
      <4>1. calls[c] \in Call
        BY <1>t
      <4>2. QED BY <1>t, <3>1, <4>1 DEF Call
    <3>3. \A d \in Pids : Stray(d)' => d = b
      BY <1>k, <2>5, <3>2 DEF Spawn, Stray, Ours, Alive
    <3>4. NoHung
      BY <1>k, <3>2
    <3>5. Seen
      BY <3>2, <3>3 DEF Waiting
    <3>6. \A d \in Callers \ {c} : calls'[d].pc \in {"none", "lock"}
      BY <2>o, <2>s, <2>5 DEF Spawn
    <3>7. Apart
      BY <3>2, <3>3, <3>6 DEF Waiting
    <3>8. QED BY <1>g, <3>4, <3>5, <3>7
  <2>6. CASE SpawnHealthy(c) \/ SpawnFails(c)
    <3> DEFINE b == calls[c].pid
    <3>1. /\ calls[c].pc = "wait" /\ UNCHANGED <<proc, record>>
          /\ calls'[c].pc \in {"record", "giveup"} /\ calls'[c].pid = b
          /\ calls'[c].pc = "record" => Healthy
      BY <1>t, <2>6 DEF SpawnHealthy, SpawnFails, Goes, Call
    <3>2. \A d \in Pids : Stray(d)' => Stray(d) /\ d = b
      BY <1>k, <3>1 DEF Stray, Ours, Alive, Waiting
    <3>3. ASSUME Stray(b), b \in Pids, Healthy, proc[b].state = "starting" PROVE Foreign
      <4>1. PICK e \in Pids : proc[e].state = "up"
        BY <3>3 DEF Healthy
      <4>2. ~Stray(e)
        BY <1>k, <3>1, <3>3, <4>1 DEF Waiting
      <4>3. ~proc[e].ours
        BY <4>1, <4>2 DEF Stray, Ours, Alive
      <4>4. QED BY <4>1, <4>3 DEF Foreign
    <3>4. Foreign => Foreign'
      BY <3>1 DEF Foreign
    <3>5. Seen
      BY <3>1, <3>2, <3>3, <3>4 DEF Waiting
    <3>6. \A d \in Callers \ {c} : calls'[d].pc \in {"none", "lock"}
      BY <2>o, <2>s, <3>1
    <3>7. Apart
      BY <3>1, <3>2, <3>6 DEF Waiting
    <3>8. NoHung
      BY <1>k, <3>1
    <3>9. QED BY <1>g, <3>5, <3>7, <3>8
  <2>7. CASE Record(c)
    <3> DEFINE b == calls[c].pid
    <3>1. /\ calls[c].pc = "record" /\ b \in Pids /\ UNCHANGED proc
          /\ record' = [pid |-> b, start |-> IF Alive(b) THEN proc[b].start ELSE 0]
          /\ calls'[c].pc = "register"
      BY <1>t, <2>7 DEF Record, Call, IInv, Awaited, Waiting
    <3>2. \A d \in Pids : Stray(d)' => Stray(d) /\ d = b
      BY <1>k, <3>1 DEF Stray, Ours, Alive, Waiting
    <3>3. ASSUME NEW d \in Pids, Stray(d)'
          PROVE  /\ Same(record)' /\ record'.pid = d
                 /\ proc'[d].state = "starting" => Foreign'
      <4>1. d = b /\ Alive(b) /\ Stray(b)
        BY <3>2, <3>3 DEF Stray, Ours
      <4>2. record' \in Owners
        BY <1>t, <3>1, <4>1 DEF Owners, Process
      <4>3. Same(record)' /\ record'.pid = d
        BY <3>1, <4>1, <4>2, NoneAssumption DEF Same, Alive
      <4>4. \A e \in Callers : calls[e].pc \in Waiting => e = c
        BY <2>s, <3>1 DEF Waiting
      <4>5. proc[b].state = "starting" => Foreign
        BY <1>k, <3>1, <4>1, <4>4
      <4>6. QED BY <3>1, <4>1, <4>3, <4>5 DEF Foreign
    <3>4. \A d \in Callers : calls'[d].pc \in {"none", "lock", "register"}
      BY <2>o, <2>s, <3>1
    <3>5. NoHung /\ Apart
      BY <1>k, <3>1, <3>4 DEF Waiting
    <3>6. Seen
      BY <3>3
    <3>7. QED BY <1>g, <3>5, <3>6
  <2>8. CASE GiveUp(c)
    <3> DEFINE b == calls[c].pid
    <3>1. b \in Pids /\ calls[c].pc = "giveup" /\ Signal(b, "dying")
      BY <2>8 DEF GiveUp, IInv, Awaited, Waiting
    <3>2. \A d \in Pids : Stray(d) => d = b
      BY <1>k, <3>1 DEF Waiting
    <3>3. QED BY <1>e, <3>1, <3>2
  <2>9. CASE Close(c)
    <3>1. CASE Same(record)
      <4>1. calls[c].pc \notin Waiting /\ calls'[c].pc = "term" /\ UNCHANGED <<proc, record>>
        BY <1>t, <2>9, <3>1 DEF Close, Call, Waiting
      <4>2. QED BY <1>c, <2>o, <4>1 DEF Waiting
    <3>2. CASE ~Same(record)
      <4>1. \A d \in Callers : calls[d].pc \notin Waiting
        BY <2>s, <2>9 DEF Close, Waiting
      <4>2. \A d \in Pids : ~Stray(d)
        BY <1>k, <3>2, <4>1
      <4>3. QED BY <1>n, <1>k, <2>9, <4>2 DEF Close, Stray, Ours, Alive
    <3>3. QED BY <3>1, <3>2
  <2>10. CASE Terminate(c)
    <3>1. /\ record.pid = calls[c].pid /\ calls[c].pid \in Pids /\ calls[c].pc = "term"
          /\ Signal(calls[c].pid, "dying")
      BY <2>10 DEF Terminate, IInv, Awaited, Aiming
    <3>2. \A d \in Callers : calls[d].pc \notin Waiting
      BY <2>s, <3>1 DEF Waiting
    <3>3. \A d \in Pids : Stray(d) => d = calls[c].pid
      BY <1>k, <3>1, <3>2
    <3>4. QED BY <1>e, <3>1, <3>3
  <2>11. CASE Closing(c) \/ Forget(c)
    <3>1. \A d \in Pids : ~Stray(d)
      BY <1>k, <2>11 DEF Closing, Forget
    <3>2. QED BY <1>n, <1>k, <2>11, <3>1 DEF Closing, Forget, Stray, Ours, Alive
  <2>12. CASE Kill(c)
    <3>1. calls[c].pid \in Pids /\ calls[c].pc = "kill" /\ Signal(calls[c].pid, "dead")
      BY <2>12 DEF Kill, IInv, Awaited, Aiming
    <3>2. \A d \in Pids : ~Stray(d)
      BY <1>k, <3>1
    <3>3. QED BY <1>e, <3>1, <3>2
  <2>13. QED
    BY <1>7, <2>1, <2>2, <2>3, <2>4, <2>5, <2>6, <2>7, <2>8, <2>9, <2>10, <2>11, <2>12 DEF Step
<1>8. QED
  BY <1>1, <1>2, <1>3, <1>4, <1>5, <1>6, <1>7
  DEF Next, vars, Die, Status, StatusReads, StatusDeletes

-----------------------------------------------------------------------------
(* A kipsel that runs is registered, and its file is deleted by nobody but *)
(* itself.                                                                 *)
LEMMA HeldStays ==
  ASSUME IInv, [Next]_vars
  PROVE  Held'
<1> SUFFICES ASSUME Without({"status"})' PROVE Held'
  BY DEF Held
<1>f. UNCHANGED features /\ "status" \notin features
  BY DEF Without, Next, vars, Step, Start, Leave, Die, Interrupt, StopCommand, Status,
         StatusReads, StatusDeletes, Lock, Health, NoWay, Spawn, SpawnHealthy, Record, SpawnFails,
         GiveUp, Register, Write, Prune, Close, Terminate, Closing, Kill, Forget, Unlock, Bridge,
         Reuse, External
<1> DEFINE Holds(w) == /\ wrapper[w] = "running" => holders[w] = "written"
                       /\ calls[w].pc = "write" => holders[w] = "empty"
                       /\ calls[w].pc = "unlock" /\ wrapper[w] = "ensuring" => holders[w] = "written"
                       /\ calls[w].pc \in {"close", "term"} =>
                            \A v \in Wrappers \ {w} : wrapper[v] # "running"
<1>h. look = NoLook /\ \A w \in Wrappers : Holds(w)
  BY <1>f DEF IInv, Held, Without
<1>t. /\ calls \in [Callers -> Call] /\ \A c \in Callers : calls[c] \in Call
      /\ wrapper \in [Wrappers -> {"new", "ensuring", "running", "leaving", "gone", "dead"}]
      /\ holders \in [Wrappers -> {None, "empty", "written"}] /\ None \notin {"empty", "written"}
  BY NoneAssumption DEF IInv, Typed
<1>c. Wrappers \subseteq Callers /\ Stopper \in Callers /\ Stopper \notin Wrappers
  BY CallerFacts
<1>i. \A c, d \in Callers : calls[c].pc \notin {"none", "lock"} /\ calls[d].pc \notin {"none", "lock"} => c = d
  BY InsideLocks DEF IInv, Inside
<1>l. ~Status /\ ~StatusReads /\ ~StatusDeletes /\ look' = NoLook
  <2>1. ~Status /\ ~StatusReads /\ ~StatusDeletes
    BY <1>f, <1>h DEF Status, StatusReads, StatusDeletes, NoLook
  <2>2. UNCHANGED look
    BY <2>1 DEF Next, vars, Step, Start, Leave, Die, Interrupt, StopCommand, Lock, Health, NoWay,
                Spawn, SpawnHealthy, Record, SpawnFails, GiveUp, Register, Write, Prune, Close,
                Terminate, Closing, Kill, Forget, Unlock, Bridge, Reuse, External
  <2>3. QED BY <1>h, <2>1, <2>2
<1>g. ASSUME \A w \in Wrappers : Holds(w)' PROVE Held'
  BY <1>l, <1>g DEF Held
<1>1. ASSUME UNCHANGED <<wrapper, calls, holders>> PROVE Held'
  BY <1>1, <1>h, <1>g
<1>2. ASSUME NEW w \in Wrappers, Start(w) \/ Leave(w) \/ Die(w) \/ Interrupt(w) PROVE Held'
  <2>1. /\ wrapper'[w] \in {"ensuring", "leaving", "dead"} /\ UNCHANGED holders
        /\ \A v \in Wrappers \ {w} : wrapper'[v] = wrapper[v]
    BY <1>2, <1>t DEF Start, Leave, Die, Interrupt
  <2>2. /\ calls'[w].pc \in {"none", "lock"}
        /\ \A v \in Wrappers \ {w} : calls'[v] = calls[v]
    <3>1. w \in Callers /\ calls[w] \in Call
      BY <1>c, <1>t
    <3>2. CASE Start(w) \/ Leave(w)
      BY <1>c, <1>t, <3>1, <3>2 DEF Start, Leave, NoCall
    <3>3. CASE Interrupt(w)
      BY <1>c, <1>t, <3>1, <3>3 DEF Interrupt, Returns, Call
    <3>4. CASE Die(w)
      BY <3>4 DEF Die, IInv, Phases
    <3>5. QED BY <1>2, <3>2, <3>3, <3>4
  <2>3. QED BY <1>h, <1>g, <2>1, <2>2
<1>3. CASE StopCommand
  <2>1. UNCHANGED <<wrapper, holders>> /\ \A w \in Wrappers : calls'[w] = calls[w]
    BY <1>3, <1>t, <1>c DEF StopCommand
  <2>2. QED BY <1>h, <1>g, <2>1
<1>4. ASSUME NEW c \in Callers, Step(c) PROVE Held'
  <2>o. \A d \in Wrappers \ {c} : calls'[d] = calls[d]
    BY <1>4, <1>c, StepPhases DEF IInv
  <2>s. \A d \in Wrappers \ {c} : calls[c].pc \notin {"none", "lock"} => calls[d].pc \in {"none", "lock"}
    BY <1>i, <1>c
  <2>p. c \in Wrappers => /\ calls[c].pc \in Ensuring  => wrapper[c] = "ensuring"
                          /\ calls[c].pc \in Releasing => wrapper[c] = "leaving"
    BY DEF IInv, Phases
  <2>1. CASE Lock(c)
    <3>1. c \in Wrappers => calls'[c].pc \in {"health", "prune"}
      BY <1>t, <2>1 DEF Lock, Goes, FirstStep, IInv, Phases
    <3>2. QED BY <1>h, <1>g, <2>o, <2>1, <3>1 DEF Lock
  <2>2. CASE Health(c) \/ NoWay(c) \/ Spawn(c) \/ SpawnHealthy(c) \/ Record(c) \/ SpawnFails(c)
             \/ GiveUp(c) \/ Terminate(c) \/ Closing(c) \/ Kill(c) \/ Forget(c)
    <3>1. UNCHANGED <<wrapper, holders>>
      BY <2>2 DEF Health, NoWay, Spawn, SpawnHealthy, Record, SpawnFails, GiveUp, Terminate,
                  Closing, Kill, Forget
    <3>2. \/ calls'[c].pc \in {"spawn", "register", "wait", "record", "giveup", "closing", "kill",
                             "forget"}
          \/ calls'[c].pc = "unlock" /\ calls[c].pc \in Releasing
      <4>g. \A pc \in Steps : Goes(c, pc) => calls'[c].pc = pc
        BY <1>t DEF Goes
      <4>1. CASE Health(c) \/ SpawnHealthy(c) \/ SpawnFails(c) \/ Terminate(c) \/ Closing(c)
                 \/ Kill(c) \/ Forget(c)
        BY <4>g, <4>1
        DEF Health, SpawnHealthy, SpawnFails, Terminate, Closing, Kill, Forget, Releasing, Steps
      <4>2. CASE NoWay(c) \/ GiveUp(c)
        BY <1>t, <4>2 DEF NoWay, GiveUp, AfterWay, Call
      <4>3. CASE Spawn(c) \/ Record(c)
        BY <1>t, <4>3 DEF Spawn, Record, Call
      <4>4. QED BY <2>2, <4>1, <4>2, <4>3
    <3>3. QED BY <1>h, <1>g, <2>o, <2>p, <3>1, <3>2
  <2>7. CASE Close(c)
    <3>1. /\ UNCHANGED <<wrapper, holders>> /\ calls[c].pc = "close"
          /\ calls'[c].pc \in {"term", "forget"}
      BY <1>t, <2>7 DEF Close, Goes, Call
    <3>2. QED BY <1>h, <1>g, <2>o, <3>1
  <2>3. CASE Register(c) \/ Write(c)
    <3>1. UNCHANGED wrapper /\ \A d \in Wrappers \ {c} : holders'[d] = holders[d]
      BY <1>t, <2>3 DEF Register, Write
    <3>2. c \in Wrappers => \/ calls'[c].pc = "write" /\ holders'[c] = "empty"
                            \/ calls'[c].pc = "unlock" /\ holders'[c] = "written"
      <4>1. CASE Register(c)
        BY <1>t, <4>1 DEF Register, Goes
      <4>2. CASE Write(c)
        <5>1. c \in Wrappers => holders[c] = "empty"
          BY <1>h, <4>2 DEF Write
        <5>2. QED BY <1>t, <4>2, <5>1 DEF Write, Goes
      <4>3. QED BY <2>3, <4>1, <4>2
    <3>3. c \in Wrappers => wrapper[c] = "ensuring"
      BY <2>p, <2>3 DEF Register, Write, Ensuring
    <3>4. QED BY <1>h, <1>g, <2>o, <3>1, <3>2, <3>3
  <2>4. CASE Prune(c)
    <3>1. /\ UNCHANGED wrapper /\ calls[c].pc = "prune"
          /\ c \in Wrappers => wrapper[c] = "leaving"
      BY <2>p, <2>4 DEF Prune, Releasing
    <3>2. \A w \in Wrappers : wrapper[w] = "running" => holders'[w] = "written"
      BY <1>h, <2>4, <3>1 DEF Prune, Pruned, Registered, Live
    <3>3. /\ calls'[c].pc \in {"unlock", "close"}
          /\ calls'[c].pc = "close" => \A w \in Wrappers : holders'[w] = None
      BY <1>t, <2>4 DEF Prune, Goes
    <3>4. calls'[c].pc = "close" => \A w \in Wrappers : wrapper[w] # "running"
      BY <1>t, <3>2, <3>3
    <3>5. \A d \in Wrappers \ {c} : calls'[d].pc \in {"none", "lock"}
      BY <2>o, <2>s, <3>1
    <3>6. QED BY <1>g, <3>1, <3>2, <3>3, <3>4, <3>5
  <2>5. CASE Unlock(c)
    <3>1. /\ calls[c].pc = "unlock" /\ UNCHANGED holders
          /\ \A v \in Wrappers \ {c} : wrapper'[v] = wrapper[v]
          /\ c \in Wrappers => \/ wrapper'[c] = "running" /\ wrapper[c] = "ensuring"
                               \/ wrapper'[c] = "gone"
      BY <1>t, <1>c, <2>5 DEF Unlock
    <3>2. calls'[c].pc = "none"
      BY <1>t, <2>5 DEF Unlock, Returns, Call
    <3>3. \A d \in Wrappers : calls'[d].pc \in {"none", "lock"}
      BY <2>o, <2>s, <3>1, <3>2
    <3>4. QED BY <1>h, <1>g, <3>1, <3>3
  <2>6. QED BY <1>4, <2>1, <2>2, <2>3, <2>4, <2>5, <2>7 DEF Step
<1>5. QED
  BY <1>l, <1>1, <1>2, <1>3, <1>4 DEF Next, vars, Bridge, Reuse, External

LEMMA IInvInit ==
  ASSUME Init
  PROVE  IInv
<1>1. /\ NoCall \in Call /\ NoCall.pc = "none" /\ NoCall.verb = None
      /\ NoLook \in [left : SUBSET Wrappers, doomed : Wrappers \cup {None}]
  BY DEF NoCall, Call, Steps, NoLook
<1>2. [state |-> "none", start |-> 0, ours |-> FALSE, blind |-> FALSE, fd |-> None] \in Process
  BY BridgeAssumption DEF Process
<1>3. Typed
  BY <1>1, <1>2 DEF Init, Typed
<1>4. \A c \in Callers : calls[c].pc = "none"
  BY <1>1 DEF Init
<1>5. Phases /\ Mutex /\ Awaited /\ Recorded
  BY <1>4, CallerFacts DEF Init, Phases, Mutex, Inside, Awaited, Recorded, Ensuring, Releasing,
                            Waiting, Aiming
<1>6. Started
  BY DEF Init, Started, Alive
<1>7. Kept /\ Held
  BY <1>4, CallerFacts DEF Init, Kept, Held, Stray, Ours, Alive, Waiting
<1>8. QED BY <1>3, <1>5, <1>6, <1>7 DEF IInv

LEMMA Invariant == Spec => []IInv
<1>1. IInv /\ [Next]_vars => IInv'
  BY TypedStays, PhasesStay, ProcessesStay, KeptStays, HeldStays DEF IInv
<1>2. QED BY <1>1, IInvInit, PTL DEF Spec

-----------------------------------------------------------------------------
(* One call at a time is past the lock, for any number of kipsel processes *)
(* and although a bridge that was spawned under the lock may hold it on;   *)
(* and where no call is interrupted and no bridge hangs, every bridge of   *)
(* ours that runs is recorded or waited for.                               *)
THEOREM BridgeKept == Spec => []BridgeSound
<1>1. IInv => BridgeSound
  <2> SUFFICES ASSUME IInv PROVE BridgeSound
    OBVIOUS
  <2>1. Cardinality(Inside) <= 1
    <3>1. Inside = {} \/ \E c \in Inside : Inside = {c}
      BY InsideLocks DEF IInv
    <3>2. QED BY <3>1, FS_EmptySet, FS_Singleton
  <2>2. TypeOK
    BY <2>1 DEF IInv, Typed, TypeOK, Call, Process
  <2>3. OursTracked
    <3> SUFFICES ASSUME Calm, NEW b \in Pids, Stray(b) PROVE b \in Tracked
      BY DEF OursTracked, Calm, Stray
    <3>1. CASE Same(record) /\ record.pid = b
      BY <3>1 DEF Same, Tracked
    <3>2. ASSUME NEW c \in Callers, calls[c].pc \in Waiting, calls[c].pid = b
          PROVE  b \in Tracked
      BY <3>2 DEF Tracked, Awaiting, Waiting
    <3>3. QED BY <3>1, <3>2 DEF IInv, Kept
  <2>4. QED BY <2>2, <2>3 DEF BridgeSound
<1>2. QED BY <1>1, Invariant, PTL

(* No step of a call signals a process that neither the launcher spawned   *)
(* nor a call was waiting for or about to signal when it got its pid: at   *)
(* all other times the recorded start time tells the bridge from whatever  *)
(* has its pid.                                                            *)
THEOREM OnlyOursEnd == Spec => OnlyOwnSignalled
<1>1. IInv /\ [Next]_vars =>
        \A b \in Pids : Alive(b) /\ ~proc[b].ours /\ ~proc[b].blind
          => proc'[b].state \notin {"dying", "dead"}
  BY ProcessSteps DEF IInv, Started, Alive, SameProcess, NextProcess, Fair
<1>2. QED BY <1>1, Invariant, PTL DEF Spec, OnlyOwnSignalled

(* A release closes the bridge under no kipsel that runs: from the pruning *)
(* to the closing nobody else comes past the lock, and without a status    *)
(* command nobody deletes the file of a kipsel that runs.                  *)
THEOREM LastReleaseCloses == Spec => LastCloses
<1>1. IInv /\ [Next]_vars =>
        (Without({"status"}) => \A c \in Wrappers :
           calls[c].pc = "term" /\ calls'[c].pc = "closing"
             => \A w \in Wrappers \ {c} : wrapper[w] # "running")
  BY DEF IInv, Held
<1>2. QED BY <1>1, Invariant, PTL DEF Spec, LastCloses

=============================================================================
