----------------------- MODULE SessionLifecycleProofs -----------------------
(***************************************************************************)
(* The registry is sound, statuses only advance and no signal goes astray  *)
(* but in the window between a check and its kill, for any number of       *)
(* aliases, requests, terminals and faults.                                *)
(***************************************************************************)
EXTENDS SessionLifecycleProps, FiniteSetTheorems, TLAPS

RecordsOf(numbers) ==
  [Aliases -> {None} \cup
     [status : LiveStatuses, terminal : numbers] \cup [status : {"stopped"}, terminal : {None}]]

\* Who signals: a request, or the start of the terminal itself.
Senders  == Requests \cup {"start"}

Terminal == [alias : Aliases, state : {"alive", "ending", "dead"}, reused : BOOLEAN,
             watched : BOOLEAN, late : SUBSET Senders, struck : SUBSET Senders]
Start    == [phase : {"spawned", "unread", "persisting", "undoing"},
             snapshot : {None} \cup RecordsOf(Numbers)]
StopPhases == {"persisting", "grace", "term", "sigterm", "signalled", "kill", "sigkill", "killed",
               "done"}
Stop     == [alias : Aliases, pid : Numbers, current : Numbers \cup {None},
             latest : Numbers \cup {None}, phase : StopPhases,
             snapshot : {None} \cup RecordsOf(Numbers)]

\* A request that is about to signal, or has signalled, knows a terminal.
Knows(stop) ==
  /\ stop.phase \in {"sigterm", "signalled", "kill", "sigkill", "killed"} => stop.current # None
  /\ stop.phase = "sigkill" => stop.latest # None

\* Terminals that are yet to be registered, starts that write the state file,
\* and stops that do.
Spawned  == {n \in Numbers : starts[n] # None /\ starts[n].phase = "spawned"}
Writing  == {n \in Numbers : starts[n] # None /\ starts[n].phase = "persisting"}
Saving == {s \in Requests : stops[s] # None /\ stops[s].phase = "persisting"}

\* What the registry holds, and all that it may come to hold after a restart.
Kept ==
  {records, file} \cup marks
    \cup {starts[n].snapshot : n \in Writing} \cup {stops[s].snapshot : s \in Saving}

Typed ==
  /\ up \in BOOLEAN /\ faults \in 0..MaxFaults
  /\ \E k \in 0..MaxTerminals : Numbers = 1..k
  /\ terminals \in [Numbers -> Terminal]
  /\ \A n \in Numbers : terminals[n].reused => terminals[n].state = "dead"
  /\ starts \in [Numbers -> {None} \cup Start]
  /\ stops \in [Requests -> {None} \cup Stop]
  /\ \A s \in Requests : stops[s] # None => Knows(stops[s])

\* A record of registry, file or snapshot: within the limit, and not of a
\* terminal that is yet to be registered.
Fits(recs, numbers, spawned) ==
  /\ recs \in RecordsOf(numbers)
  /\ IsFiniteSet(Live(recs)) /\ Cardinality(Live(recs)) <= MaxSessions
  /\ \A a \in Live(recs) : recs[a].terminal \notin spawned

AllFit == \A recs \in Kept : Fits(recs, Numbers, Spawned)

\* Starts are serialised; there is room for the one under way.
OneStart == \A m, n \in Numbers : starts[m] # None /\ starts[n] # None => m = n
Room     == Spawned # {} => Cardinality(Live(records)) < MaxSessions

\* A controller that is down has neither records nor starts.
Down == ~up => Live(records) = {} /\ \A n \in Numbers : starts[n] = None

\* A process that has got the pid of a terminal was, and can still be, struck
\* only by those who were about to signal when it got it.
NoneAstray ==
  \A n \in Numbers :
    IF terminals[n].reused THEN Poised(n) \cup terminals[n].struck \subseteq terminals[n].late
    ELSE terminals[n].struck = {}

IInv == Typed /\ AllFit /\ OneStart /\ Room /\ Down

-----------------------------------------------------------------------------
(* Records that fit go on to fit when terminals are spawned.               *)
LEMMA FitGrows ==
  ASSUME NEW recs, NEW numbers, NEW spawned, Fits(recs, numbers, spawned),
         NEW more, numbers \subseteq more, NEW others, others \cap numbers \subseteq spawned
  PROVE  Fits(recs, more, others)
<1>1. recs \in RecordsOf(more)
  BY DEF Fits, RecordsOf
<1>2. \A a \in Live(recs) : recs[a].terminal \in numbers
  BY DEF Fits, RecordsOf, Live, LiveStatuses
<1>3. QED BY <1>1, <1>2 DEF Fits

(* So do records of which some are taken away.                             *)
LEMMA FitShrinks ==
  ASSUME NEW recs, NEW numbers, NEW spawned, Fits(recs, numbers, spawned),
         NEW new \in RecordsOf(numbers), Live(new) \subseteq Live(recs),
         \A a \in Live(new) : new[a].terminal = recs[a].terminal
  PROVE  /\ Fits(new, numbers, spawned)
         /\ Cardinality(Live(new)) <= Cardinality(Live(recs))
<1>1. /\ IsFiniteSet(Live(new)) /\ Cardinality(Live(new)) <= Cardinality(Live(recs))
      /\ Cardinality(Live(recs)) \in Nat /\ Cardinality(Live(new)) \in Nat
  BY FS_Subset, FS_CardinalityType DEF Fits
<1>2. QED BY <1>1, BoundsAssumption DEF Fits

(* The marked session leaves the live ones.                                *)
LEMMA StoppedRecords ==
  ASSUME NEW numbers, NEW recs \in RecordsOf(numbers), NEW a \in Aliases
  PROVE  /\ Stopped(recs, a) \in RecordsOf(numbers)
         /\ Live(Stopped(recs, a)) \subseteq Live(recs)
         /\ \A b \in Live(Stopped(recs, a)) : Stopped(recs, a)[b] = recs[b]
BY DEF Stopped, RecordsOf, Live, LiveStatuses

(* A terminal more keeps the types of all that was there.                  *)
LEMMA TypesGrow ==
  ASSUME NEW k \in Nat
  PROVE  /\ 1..k \subseteq 1..(k + 1) /\ k + 1 \notin 1..k /\ 1..(k + 1) = (1..k) \cup {k + 1}
         /\ RecordsOf(1..k) \subseteq RecordsOf(1..(k + 1))
<1>1. 1..k \subseteq 1..(k + 1) /\ k + 1 \notin 1..k /\ 1..(k + 1) = (1..k) \cup {k + 1}
  OBVIOUS
<1>2. RecordsOf(1..k) \subseteq RecordsOf(1..(k + 1))
  BY <1>1 DEF RecordsOf
<1>3. QED BY <1>1, <1>2

(* A start adds a terminal and is the only one under way.                  *)
LEMMA StartStep ==
  ASSUME Typed, NEW a \in Aliases, StartSession(a)
  PROVE  /\ Typed' /\ Numbers \subseteq Numbers'
         /\ \A m \in Numbers : terminals'[m] = terminals[m]
         /\ Spawned = {} /\ Writing = {}
         /\ Spawned' \cap Numbers = {} /\ Writing' = {}
         /\ \A m, n \in Numbers' : starts'[m] # None /\ starts'[n] # None => m = n
<1>1. PICK k \in 0..MaxTerminals : Numbers = 1..k
  BY DEF Typed
<1>2. k \in Nat /\ Cardinality(Numbers) = k
  BY <1>1, FS_Interval, BoundsAssumption
<1> DEFINE n == k + 1
           new == [alias |-> a, state |-> "alive", watched |-> FALSE,
                   reused |-> FALSE, late |-> {}, struck |-> {}]
           one == [phase |-> "spawned", snapshot |-> None]
<1>3. /\ n <= MaxTerminals /\ \A m \in Numbers : starts[m] = None
      /\ terminals' = [m \in 1..n |-> IF m = n THEN new ELSE terminals[m]]
      /\ starts' = [m \in 1..n |-> IF m = n THEN one ELSE starts[m]]
      /\ UNCHANGED <<up, records, file, marks, stops, faults>>
  BY <1>2 DEF StartSession, MayStart, NoFault
<1>4. /\ n \in Nat /\ n \in 0..MaxTerminals /\ n \notin 1..k /\ 1..n = 1..k \cup {n}
      /\ RecordsOf(1..k) \subseteq RecordsOf(1..n)
  BY <1>2, <1>3, TypesGrow, BoundsAssumption
<1>5. /\ new \in Terminal /\ new.reused = FALSE
      /\ one \in [phase : {"spawned", "unread", "persisting", "undoing"},
                  snapshot : {None} \cup RecordsOf(1..n)]
      /\ one.phase = "spawned"
  BY DEF Terminal, Senders
<1> HIDE DEF n, new, one
<1>6. Numbers' = 1..n
  BY <1>3 DEF Numbers
<1>7. Typed'
  <2>1. terminals' \in [Numbers' -> Terminal]
    BY <1>1, <1>3, <1>4, <1>5, <1>6 DEF Typed
  <2>2. \A m \in Numbers' : terminals'[m].reused => terminals'[m].state = "dead"
    BY <1>1, <1>3, <1>4, <1>5, <1>6 DEF Typed
  <2>3. starts' \in [Numbers' -> {None} \cup Start']
    BY <1>1, <1>3, <1>4, <1>5, <1>6 DEF Typed, Start
  <2>4. {None} \cup Stop \subseteq {None} \cup Stop'
    BY <1>1, <1>4, <1>6 DEF Stop
  <2>5. stops' \in [Requests -> {None} \cup Stop']
    BY <1>3, <2>4 DEF Typed
  <2>6. QED BY <1>3, <1>4, <1>6, <2>1, <2>2, <2>3, <2>5 DEF Typed
<1>8. Spawned = {} /\ Writing = {} /\ Spawned' \subseteq {n} /\ Writing' = {}
  BY <1>1, <1>3, <1>4, <1>5, <1>6 DEF Spawned, Writing
<1>9. \A m, l \in Numbers' : starts'[m] # None /\ starts'[l] # None => m = l
  BY <1>1, <1>3, <1>4, <1>6
<1>10. QED BY <1>1, <1>3, <1>4, <1>6, <1>7, <1>8, <1>9

(* A step that gives terminals, starts and stops values of their types.    *)
LEMMA SameNumbers ==
  ASSUME Typed, up' \in BOOLEAN, NoFault \/ Fault,
         terminals' \in [Numbers -> Terminal],
         \A n \in Numbers : terminals'[n].reused => terminals'[n].state = "dead",
         starts' \in [Numbers -> {None} \cup Start], stops' \in [Requests -> {None} \cup Stop],
         \A s \in Requests : stops'[s] # None => Knows(stops'[s])
  PROVE  Typed' /\ Numbers' = Numbers
<1>1. Numbers' = Numbers
  BY DEF Numbers
<1>2. faults' \in 0..MaxFaults
  BY BoundsAssumption DEF Typed, NoFault, Fault
<1>3. QED BY <1>1, <1>2 DEF Typed, Start, Stop

(* The same of terminals alone.                                            *)
TerminalsTyped ==
  /\ terminals' \in [Numbers -> Terminal]
  /\ \A m \in Numbers : terminals'[m].reused => terminals'[m].state = "dead"

LEMMA SignalTypes ==
  ASSUME Typed, NEW n \in Numbers, NEW x \in Senders, Signal(x, n)
  PROVE  TerminalsTyped
BY DEF Typed, Terminal, Signal, TerminalsTyped

LEMMA UnchangedTypes ==
  ASSUME Typed, UNCHANGED terminals
  PROVE  TerminalsTyped
BY DEF Typed, TerminalsTyped

\* And of requests.
RequestsTyped ==
  /\ stops' \in [Requests -> {None} \cup Stop]
  /\ \A s \in Requests : stops'[s] # None => Knows(stops'[s])

LEMMA OneRequestTypes ==
  ASSUME Typed, NEW s \in Requests, NEW one \in Stop, stops' = [stops EXCEPT ![s] = one], Knows(one)
  PROVE  RequestsTyped
BY DEF Typed, RequestsTyped

LEMMA GoesTypes ==
  ASSUME Typed, NEW s \in Requests, NEW phase \in StopPhases, Goes(s, phase), stops[s] # None,
         Knows([stops[s] EXCEPT !.phase = phase, !.snapshot = None])
  PROVE  RequestsTyped
<1> DEFINE one == [stops[s] EXCEPT !.phase = phase, !.snapshot = None]
<1>1. stops[s] \in Stop
  BY DEF Typed
<1>2. one \in Stop /\ stops' = [stops EXCEPT ![s] = one]
  BY <1>1 DEF Stop, Goes
<1>3. QED BY <1>2, OneRequestTypes

LEMMA EndsTypes ==
  ASSUME Typed, NEW s \in Requests, Ends(s), stops[s] # None
  PROVE  RequestsTyped
<1>1. stops[s] \in Stop
  BY DEF Typed
<1>2. Ended(stops[s]) \in Stop /\ Knows(Ended(stops[s]))
  BY <1>1 DEF Stop, Ended, StopPhases, Knows
<1>3. QED BY <1>2, OneRequestTypes DEF Ends

LEMMA SameRequests ==
  ASSUME Typed, UNCHANGED stops
  PROVE  RequestsTyped
BY DEF Typed, RequestsTyped

LEMMA TypedStays ==
  ASSUME Typed, AllFit, [Next]_vars
  PROVE  Typed' /\ Numbers \subseteq Numbers'
<1> DEFINE Goal == Typed' /\ Numbers \subseteq Numbers'
<1>r. {records, file} \cup marks \subseteq RecordsOf(Numbers)
  BY DEF AllFit, Fits, Kept
<1>s. starts \in [Numbers -> {None} \cup Start] /\ up \in BOOLEAN
  BY DEF Typed
<1>g. ASSUME up' \in BOOLEAN, NoFault \/ Fault, TerminalsTyped, RequestsTyped,
             starts' \in [Numbers -> {None} \cup Start]
      PROVE  Goal
  BY <1>g, SameNumbers DEF TerminalsTyped, RequestsTyped
<1>0. CASE UNCHANGED vars
  BY <1>0, <1>s, <1>g, UnchangedTypes, SameRequests DEF vars, NoFault
<1>1. ASSUME NEW a \in Aliases, StartSession(a) PROVE Goal
  BY <1>1, StartStep
<1>2. ASSUME NEW n \in Numbers, StartRegisters(n) PROVE Goal
  <2>1. starts' \in [Numbers -> {None} \cup Start]
    <3>1. CASE starts' = [starts EXCEPT ![n].phase = "unread"]
      <4>1. [starts[n] EXCEPT !.phase = "unread"] \in Start
        BY <1>2, <1>s DEF StartRegisters, StartAt, Start
      <4>2. QED BY <1>s, <3>1, <4>1
    <3>2. CASE /\ starts' = [starts EXCEPT ![n] = [phase |-> "persisting", snapshot |-> records']]
               /\ records' = [records EXCEPT ![terminals[n].alias] = [status |-> "starting", terminal |-> n]]
      <4>1. records' \in RecordsOf(Numbers)
        BY <1>r, <3>2 DEF RecordsOf, LiveStatuses
      <4>2. [phase |-> "persisting", snapshot |-> records'] \in Start
        BY <4>1 DEF Start
      <4>3. QED BY <1>s, <3>2, <4>2
    <3>3. QED BY <1>2, <3>1, <3>2 DEF StartRegisters
  <2>2. QED BY <1>2, <1>s, <1>g, <2>1, SameRequests, UnchangedTypes DEF StartRegisters
<1>3. ASSUME NEW n \in Numbers, StartKills(n) \/ StartPersisted(n) \/ StartUndone(n) PROVE Goal
  <2>1. TerminalsTyped
    <3>1. CASE terminals' = [terminals EXCEPT ![n].watched = terminals[n].state # "dead"]
      <4> DEFINE next == [terminals[n] EXCEPT !.watched = terminals[n].state # "dead"]
      <4>1. terminals[n] \in Terminal /\ (terminals[n].reused => terminals[n].state = "dead")
        BY DEF Typed
      <4>2. next \in Terminal /\ (next.reused => next.state = "dead")
        BY <4>1 DEF Terminal
      <4>3. terminals' = [terminals EXCEPT ![n] = next]
        BY <3>1
      <4> HIDE DEF next
      <4>4. QED BY <4>2, <4>3 DEF Typed, TerminalsTyped
    <3>2. QED BY <1>3, <3>1, SignalTypes, UnchangedTypes
              DEF StartKills, StartPersisted, StartUndone, SignalFails, Senders
  <2>2. starts' \in [Numbers -> {None} \cup Start]
    <3>1. [phase |-> "undoing", snapshot |-> None] \in Start
      BY DEF Start
    <3>2. QED BY <1>3, <1>s, <3>1 DEF StartKills, StartPersisted, StartUndone
  <2>3. QED BY <1>3, <1>s, <1>g, <2>1, <2>2, SameRequests DEF StartKills, StartPersisted, StartUndone
<1>4. ASSUME NEW s \in Requests, NEW a \in Aliases, StopSession(s, a) PROVE Goal
  <2> DEFINE one == [alias |-> a, pid |-> records[a].terminal, current |-> None,
                     latest |-> None, phase |-> "persisting", snapshot |-> records']
  <2>1. records' \in RecordsOf(Numbers) /\ records[a].terminal \in Numbers
    BY <1>4, <1>r DEF StopSession, RecordsOf, Live, LiveStatuses
  <2>2. one \in Stop /\ one.phase = "persisting"
    BY <2>1 DEF Stop, StopPhases
  <2>3. stops' = [stops EXCEPT ![s] = one] /\ NoFault /\ UNCHANGED <<up, terminals, starts>>
    BY <1>4 DEF StopSession
  <2> HIDE DEF one
  <2>4. RequestsTyped
    BY <2>2, <2>3, OneRequestTypes DEF Knows
  <2>5. QED BY <1>s, <1>g, <2>3, <2>4, UnchangedTypes
<1>5. ASSUME NEW s \in Requests, StopPersisted(s) PROVE Goal
  BY <1>5, <1>s, <1>g, GoesTypes, EndsTypes, UnchangedTypes
  DEF StopPersisted, AtPhase, StopPhases, Knows, Typed, Stop
<1>6. ASSUME NEW s \in Requests, StopWaits(s) \/ StopWaitsAgain(s) PROVE Goal
  <2> DEFINE now == CurrentTerminal(stops[s].alias)
  <2>1. /\ stops[s] \in Stop /\ stops[s] # None /\ Knows(stops[s])
        /\ NoFault /\ UNCHANGED <<up, terminals, starts>>
    BY <1>6 DEF StopWaits, StopWaitsAgain, AtPhase, Typed
  <2>2. now \in Numbers \cup {None}
    BY <1>r, <2>1 DEF CurrentTerminal, RecordsOf, Stop
  <2>3. RequestsTyped
    <3> DEFINE first == [stops[s] EXCEPT !.phase = "term", !.current = now]
               again == [stops[s] EXCEPT !.phase = "kill", !.latest = now]
    <3>1. CASE StopWaits(s) /\ stops' = [stops EXCEPT ![s].phase = "term", ![s].current = now]
      <4>1. first \in Stop /\ Knows(first) /\ stops' = [stops EXCEPT ![s] = first]
        BY <2>1, <2>2, <3>1 DEF Stop, StopPhases, Knows
      <4>2. QED BY <4>1, OneRequestTypes
    <3>2. CASE StopWaitsAgain(s) /\ stops' = [stops EXCEPT ![s].phase = "kill", ![s].latest = now]
      <4>1. again \in Stop /\ Knows(again) /\ stops' = [stops EXCEPT ![s] = again]
        BY <2>1, <2>2, <3>2 DEF Stop, StopPhases, Knows, StopWaitsAgain, AtPhase
      <4>2. QED BY <4>1, OneRequestTypes
    <3>3. CASE Ends(s)
      BY <2>1, <3>3, EndsTypes
    <3>4. QED BY <1>6, <3>1, <3>2, <3>3 DEF StopWaits, StopWaitsAgain, EndsStopped
  <2>4. QED BY <1>s, <1>g, <2>1, <2>3, UnchangedTypes
<1>7. ASSUME NEW s \in Requests, StopVerifies(s) \/ StopSignals(s) PROVE Goal
  <2>1. /\ stops[s] \in Stop /\ stops[s] # None /\ Knows(stops[s])
        /\ NoFault /\ UNCHANGED <<up, starts>>
        /\ stops[s].phase \in {"term", "kill", "sigterm", "sigkill"}
    BY <1>7 DEF StopVerifies, StopSignals, AtPhase, Typed
  <2>2. CASE UNCHANGED terminals /\ NotSignalled(s)
    <3>1. RequestsTyped
      BY <2>1, <2>2, GoesTypes, EndsTypes
      DEF NotSignalled, EndsFailed, EndsStopped, StopPhases, Knows, Stop
    <3>2. QED BY <1>s, <1>g, <2>1, <2>2, <3>1, UnchangedTypes
  <2>3. CASE /\ UNCHANGED terminals /\ Owned(Target(s)) /\ StopVerifies(s)
             /\ Goes(s, IF stops[s].phase = "term" THEN "sigterm" ELSE "sigkill")
    <3> DEFINE next == IF stops[s].phase = "term" THEN "sigterm" ELSE "sigkill"
    <3>1. /\ next \in StopPhases /\ stops[s].phase \in {"term", "kill"}
          /\ Knows([stops[s] EXCEPT !.phase = next, !.snapshot = None])
      BY <2>1, <2>3 DEF Stop, StopPhases, Knows, Owned, Target, StopVerifies, AtPhase
    <3> HIDE DEF next
    <3>2. Goes(s, next)
      BY <2>3 DEF next
    <3>3. QED BY <1>s, <1>g, <2>1, <2>3, <3>1, <3>2, GoesTypes, UnchangedTypes
  <2>4. CASE StopSignals(s) /\ Signal(s, Target(s))
             /\ Goes(s, IF stops[s].phase = "sigterm" THEN "signalled" ELSE "killed")
    <3> DEFINE next == IF stops[s].phase = "sigterm" THEN "signalled" ELSE "killed"
    <3>1. /\ next \in StopPhases /\ Target(s) \in Numbers /\ s \in Senders
          /\ Knows([stops[s] EXCEPT !.phase = next, !.snapshot = None])
      BY <2>1, <2>4 DEF Stop, StopPhases, Knows, Target, Senders, StopSignals, AtPhase
    <3> HIDE DEF next
    <3>2. Goes(s, next)
      BY <2>4 DEF next
    <3>3. TerminalsTyped
      BY <2>4, <3>1, SignalTypes
    <3>4. QED BY <1>s, <1>g, <2>1, <3>1, <3>2, <3>3, GoesTypes
  <2>5. QED BY <1>7, <2>2, <2>3, <2>4 DEF StopVerifies, StopSignals, SignalFails
<1>9. ASSUME NEW s \in Requests, StopGivesUp(s) PROVE Goal
  BY <1>9, <1>s, <1>g, EndsTypes, UnchangedTypes
  DEF StopGivesUp, AtPhase, EndsStopped, EndsFailed
<1>10. ASSUME NEW snapshot \in marks, MarkPersisted(snapshot) PROVE Goal
  BY <1>10, <1>s, <1>g, SameRequests, UnchangedTypes DEF MarkPersisted
<1>11. ASSUME NEW n \in Numbers, Heartbeat(n) \/ PostsEnd(n) PROVE Goal
  BY <1>11, <1>s, <1>g, SameRequests, UnchangedTypes DEF Heartbeat, PostsEnd
<1>12. ASSUME NEW n \in Numbers, Quits(n) \/ Exits(n) \/ PidReused(n) PROVE Goal
  <2>1. TerminalsTyped
    <3> DEFINE ends == [terminals[n] EXCEPT !.state = "ending"]
               dies == [terminals[n] EXCEPT !.state = "dead", !.watched = FALSE]
               goes == [terminals[n] EXCEPT !.reused = TRUE, !.late = Poised(n)]
    <3>1. terminals[n] \in Terminal
      BY DEF Typed
    <3>2. /\ ends \in Terminal /\ ends.reused = terminals[n].reused
          /\ dies \in Terminal /\ dies.state = "dead"
          /\ goes \in Terminal /\ goes.state = terminals[n].state
      BY <3>1 DEF Terminal, Senders, Poised
    <3>3. \/ terminals[n].state = "alive" /\ terminals' = [terminals EXCEPT ![n] = ends]
          \/ terminals' = [terminals EXCEPT ![n] = dies]
          \/ terminals[n].state = "dead" /\ terminals' = [terminals EXCEPT ![n] = goes]
      BY <1>12 DEF Quits, Exits, PidReused
    <3> HIDE DEF ends, dies, goes
    <3>4. QED BY <3>2, <3>3 DEF Typed, TerminalsTyped
  <2>2. QED BY <1>12, <1>s, <1>g, <2>1, SameRequests DEF Quits, Exits, PidReused
<1>13. CASE Crash
  <2>1. TerminalsTyped
    BY <1>13 DEF Crash, Typed, Terminal, TerminalsTyped
  <2>2. RequestsTyped
    <3>1. \A s \in Requests : stops[s] # None => Ended(stops[s]) \in Stop /\ Knows(Ended(stops[s]))
      BY DEF Typed, Stop, Ended, StopPhases, Knows
    <3>2. QED BY <1>13, <3>1 DEF Crash, RequestsTyped
  <2>3. QED BY <1>13, <1>g, <2>1, <2>2 DEF Crash
<1>14. CASE Boot
  BY <1>14, <1>s, <1>g, SameRequests, UnchangedTypes DEF Boot
<1>15. QED
  BY <1>0, <1>1, <1>2, <1>3, <1>4, <1>5, <1>6, <1>7, <1>9, <1>10, <1>11, <1>12, <1>13, <1>14
  DEF Next, Starting, Stopping

-----------------------------------------------------------------------------
(* What is kept after a step fits when it was kept before or is the new    *)
(* registry, which fits.                                                   *)
LEMMA KeptStays ==
  ASSUME AllFit, Numbers \subseteq Numbers', Spawned' \cap Numbers \subseteq Spawned,
         Fits(records', Numbers', Spawned'),
         {file'} \cup marks' \subseteq Kept \cup {records'},
         \A n \in Writing' : starts'[n].snapshot \in Kept \cup {records'},
         \A s \in Saving' : stops'[s].snapshot \in Kept \cup {records'}
  PROVE  AllFit'
<1>1. Kept' \subseteq Kept \cup {records'}
  BY DEF Kept
<1>2. \A recs \in Kept : Fits(recs, Numbers', Spawned')
  BY FitGrows DEF AllFit
<1>3. QED BY <1>1, <1>2 DEF AllFit

\* Of these records, these are left.
Left(new, old) ==
  /\ Live(new) \subseteq Live(old)
  /\ \A a \in Live(new) : new[a].terminal = old[a].terminal

\* Nothing is written but what was to be written or the new registry.
NothingElse ==
  /\ {file'} \cup marks' \subseteq Kept \cup {records'}
  /\ \A s \in Saving' : stops'[s].snapshot \in Kept \cup {records'}

\* A start that is left alone, ends, or has nothing to register any more.
GoesOn(n) ==
  \/ starts'[n] \in {starts[n], None}
  \/ starts[n] # None /\ starts'[n].phase \in {"unread", "undoing"}

(* A step that starts nothing and only takes from the registry.            *)
LEMMA LessIsLeft ==
  ASSUME IInv, Typed', Numbers' = Numbers,
         \A n \in Numbers : GoesOn(n),
         records' \in RecordsOf(Numbers), Left(records', records), NothingElse
  PROVE  AllFit' /\ OneStart' /\ Room'
<1>1. /\ Spawned' \subseteq Spawned /\ Writing' \subseteq Writing
      /\ \A n \in Writing' : starts'[n] = starts[n]
  BY DEF Spawned, Writing, GoesOn
<1>2. Fits(records, Numbers, Spawned)
  BY DEF IInv, AllFit, Kept
<1>3. /\ Fits(records', Numbers, Spawned)
      /\ Cardinality(Live(records')) <= Cardinality(Live(records))
  BY <1>2, FitShrinks DEF Left
<1>4. Fits(records', Numbers', Spawned')
  BY <1>1, <1>3, FitGrows
<1>5. \A n \in Writing' : starts'[n].snapshot \in Kept
  BY <1>1 DEF Kept
<1>6. AllFit'
  BY <1>1, <1>4, <1>5, KeptStays DEF IInv, NothingElse
<1>7. OneStart'
  BY DEF IInv, OneStart, GoesOn
<1>8. Room'
  <2>1. Cardinality(Live(records)) \in Nat /\ Cardinality(Live(records')) \in Nat
    BY <1>2, <1>3, FS_CardinalityType DEF Fits
  <2>2. QED BY <1>1, <1>3, <2>1, BoundsAssumption DEF IInv, Room
<1>9. QED BY <1>6, <1>7, <1>8

(* A registry that is as it was, lost a session or had one marked.         *)
LEMMA WhatIsLeft ==
  ASSUME NEW numbers, NEW recs \in RecordsOf(numbers), NEW a \in Aliases
  PROVE  /\ Left(recs, recs) /\ Left(Stopped(recs, a), recs)
         /\ [recs EXCEPT ![a] = None] \in RecordsOf(numbers)
         /\ Left([recs EXCEPT ![a] = None], recs)
         /\ Stopped(recs, a) \in RecordsOf(numbers)
         /\ \A status \in LiveStatuses :
              a \in Live(recs) => /\ [recs EXCEPT ![a].status = status] \in RecordsOf(numbers)
                                  /\ Left([recs EXCEPT ![a].status = status], recs)
<1>1. Left(recs, recs) /\ Left(Stopped(recs, a), recs) /\ Stopped(recs, a) \in RecordsOf(numbers)
  BY StoppedRecords DEF Left
<1>2. /\ [recs EXCEPT ![a] = None] \in RecordsOf(numbers)
      /\ Left([recs EXCEPT ![a] = None], recs)
  BY DEF RecordsOf, Left, Live
<1>3. ASSUME NEW status \in LiveStatuses, a \in Live(recs)
      PROVE  /\ [recs EXCEPT ![a].status = status] \in RecordsOf(numbers)
             /\ Left([recs EXCEPT ![a].status = status], recs)
  <2> DEFINE one == [recs[a] EXCEPT !.status = status]
  <2>1. recs[a] \in [status : LiveStatuses, terminal : numbers]
    BY <1>3 DEF RecordsOf, Live, LiveStatuses
  <2>2. one \in [status : LiveStatuses, terminal : numbers] /\ one.terminal = recs[a].terminal
    BY <2>1
  <2>3. [recs EXCEPT ![a].status = status] = [recs EXCEPT ![a] = one]
    OBVIOUS
  <2> HIDE DEF one
  <2>4. QED BY <1>3, <2>2, <2>3 DEF RecordsOf, Left, Live
<1>4. QED BY <1>1, <1>2, <1>3

(* A terminal that is registered takes the place that was left for it.     *)
LEMMA RegisteredFits ==
  ASSUME IInv, NEW n \in Spawned, NEW new,
         new = [records EXCEPT ![terminals[n].alias] = [status |-> "starting", terminal |-> n]]
  PROVE  Fits(new, Numbers, {})
<1> DEFINE a == terminals[n].alias
<1>1. n \in Numbers /\ a \in Aliases /\ Fits(records, Numbers, Spawned)
  BY DEF IInv, Typed, Spawned, Terminal, AllFit, Kept
<1>2. new \in RecordsOf(Numbers) /\ Live(new) \subseteq Live(records) \cup {a}
  BY <1>1 DEF RecordsOf, Live, LiveStatuses, Fits
<1>3. Cardinality(Live(records)) < MaxSessions /\ Cardinality(Live(records)) \in Nat
  BY <1>1, FS_CardinalityType DEF IInv, Room, Fits
<1>4. /\ IsFiniteSet(Live(records) \cup {a})
      /\ Cardinality(Live(records) \cup {a}) \in
           {Cardinality(Live(records)), Cardinality(Live(records)) + 1}
  BY <1>1, FS_AddElement DEF Fits
<1>5. /\ IsFiniteSet(Live(new)) /\ Cardinality(Live(new)) \in Nat
      /\ Cardinality(Live(new)) <= Cardinality(Live(records) \cup {a})
  BY <1>2, <1>4, FS_Subset, FS_CardinalityType
<1>6. Cardinality(Live(new)) <= MaxSessions
  BY <1>3, <1>4, <1>5, BoundsAssumption
<1>7. QED BY <1>2, <1>5, <1>6 DEF Fits

(* A request that goes on has nothing new to write.                        *)
LEMMA GoesSaving ==
  ASSUME Typed, NEW s \in Requests, NEW phase, Goes(s, phase), phase # "persisting"
  PROVE  \A r \in Saving' : stops'[r].snapshot \in Kept
<1>1. \A r \in Saving' : r \in Saving /\ stops'[r] = stops[r]
  BY DEF Goes, Typed, Saving, Stop
<1>2. QED BY <1>1 DEF Kept

LEMMA EndsSaving ==
  ASSUME Typed, NEW s \in Requests, Ends(s)
  PROVE  \A r \in Saving' : stops'[r].snapshot \in Kept
<1>1. \A r \in Saving' : r \in Saving /\ stops'[r] = stops[r]
  BY DEF Ends, Ended, Typed, Saving, Stop
<1>2. QED BY <1>1 DEF Kept

LEMMA SameSaving ==
  ASSUME UNCHANGED stops
  PROVE  \A r \in Saving' : stops'[r].snapshot \in Kept
BY DEF Saving, Kept

(* The invariant is kept by every step.                                    *)
LEMMA IInvStays ==
  ASSUME IInv, [Next]_vars
  PROVE  IInv'
<1>t. Typed /\ Typed' /\ Numbers \subseteq Numbers'
  BY TypedStays DEF IInv
<1>r. {records, file} \cup marks \subseteq Kept /\ \A recs \in Kept : recs \in RecordsOf(Numbers)
  BY DEF IInv, AllFit, Fits, Kept
<1>a. /\ \A n \in Numbers : terminals[n].alias \in Aliases
      /\ \A s \in Requests : stops[s] # None => stops[s].alias \in Aliases
      /\ starts \in [Numbers -> {None} \cup Start] /\ stops \in [Requests -> {None} \cup Stop]
  BY <1>t DEF Typed, Terminal, Stop
<1>g. ASSUME up' \/ UNCHANGED <<up, records, starts>>, Numbers' = Numbers,
             \A n \in Numbers : GoesOn(n),
             records' \in RecordsOf(Numbers), Left(records', records),
             {file'} \cup marks' \subseteq Kept \cup {records'},
             \A s \in Saving' : stops'[s].snapshot \in Kept \cup {records'}
      PROVE  IInv'
  BY <1>t, <1>g, LessIsLeft DEF IInv, Down, NothingElse, GoesOn
<1>m. ASSUME NEW a \in Aliases, MarkStopped(a)
      PROVE  /\ records' \in RecordsOf(Numbers) /\ Left(records', records)
             /\ marks' \subseteq Kept \cup {records'}
  BY <1>r, <1>m, WhatIsLeft DEF MarkStopped
<1>u. records \in RecordsOf(Numbers) /\ Left(records, records)
  BY <1>r DEF Left
<1>0. CASE UNCHANGED vars
  BY <1>0, <1>g, <1>u, <1>r, SameSaving DEF vars, Numbers, GoesOn
<1>1. ASSUME NEW a \in Aliases, StartSession(a) PROVE IInv'
  <2>1. /\ Spawned' \cap Numbers = {} /\ Writing' = {} /\ OneStart'
        /\ up' /\ UNCHANGED <<records, file, marks, stops>>
        /\ Cardinality(Live(records')) < MaxSessions
    BY <1>1, <1>t, StartStep DEF StartSession, MayStart, OneStart
  <2>2. Fits(records', Numbers', Spawned')
    BY <1>t, <1>r, <2>1, FitGrows DEF IInv, AllFit
  <2>3. AllFit'
    BY <1>t, <1>r, <2>1, <2>2, KeptStays, SameSaving DEF IInv
  <2>4. QED BY <1>t, <2>1, <2>3 DEF IInv, Room, Down
<1>2. ASSUME NEW n \in Numbers, StartRegisters(n) PROVE IInv'
  <2>1. /\ up' /\ UNCHANGED <<file, marks, stops>> /\ Numbers' = Numbers /\ n \in Spawned
    BY <1>2 DEF StartRegisters, StartAt, Numbers, Spawned
  <2>2. CASE UNCHANGED records /\ starts' = [starts EXCEPT ![n].phase = "unread"]
    <3>1. \A m \in Numbers : GoesOn(m)
      BY <1>a, <2>1, <2>2 DEF GoesOn, Spawned, Start
    <3>2. QED BY <1>g, <1>u, <1>r, <2>1, <2>2, <3>1, SameSaving
  <2>3. CASE /\ records' = [records EXCEPT ![terminals[n].alias] = [status |-> "starting", terminal |-> n]]
             /\ starts' = [starts EXCEPT ![n] = [phase |-> "persisting", snapshot |-> records']]
    <3>1. \A m \in Numbers : m # n => starts[m] = None
      BY <2>1 DEF IInv, OneStart, Spawned
    <3>2. /\ Spawned' = {} /\ OneStart'
          /\ \A m \in Writing' : starts'[m].snapshot = records'
      BY <1>a, <2>1, <2>3, <3>1 DEF Spawned, Writing, OneStart
    <3>3. Fits(records', Numbers', Spawned')
      BY <2>1, <2>3, <3>2, RegisteredFits
    <3>4. AllFit'
      BY <1>t, <1>r, <2>1, <3>2, <3>3, KeptStays, SameSaving DEF IInv
    <3>5. QED BY <1>t, <2>1, <3>2, <3>4 DEF IInv, Room, Down
  <2>4. QED BY <1>2, <2>2, <2>3 DEF StartRegisters
<1>3. ASSUME NEW n \in Numbers, StartKills(n) \/ StartPersisted(n) \/ StartUndone(n) PROVE IInv'
  <2>1. /\ up' /\ UNCHANGED <<marks, stops>> /\ Numbers' = Numbers /\ starts[n] # None
        /\ file' \in {file, starts[n].snapshot}
        /\ file' # file => starts[n].snapshot \in Kept
        /\ records' = records \/ records' = [records EXCEPT ![terminals[n].alias] = None]
    BY <1>3, <1>a
    DEF StartKills, StartPersisted, StartUndone, StartAt, Signal, SignalFails, Numbers, Kept, Writing
  <2>2. \A m \in Numbers : GoesOn(m)
    <3> DEFINE undoing == [phase |-> "undoing", snapshot |-> None]
    <3>1. \/ starts' = [starts EXCEPT ![n] = None]
          \/ starts' = [starts EXCEPT ![n] = undoing]
      BY <1>3 DEF StartKills, StartPersisted, StartUndone
    <3>2. undoing.phase = "undoing"
      OBVIOUS
    <3> HIDE DEF undoing
    <3>3. QED BY <1>a, <2>1, <3>1, <3>2 DEF GoesOn
  <2>3. records' \in RecordsOf(Numbers) /\ Left(records', records)
    <3>1. CASE records' = records
      BY <1>u, <3>1
    <3>2. CASE records' = [records EXCEPT ![terminals[n].alias] = None]
      <4> DEFINE alias == terminals[n].alias
      <4>1. alias \in Aliases
        BY <1>a
      <4> HIDE DEF alias
      <4>2. /\ [records EXCEPT ![alias] = None] \in RecordsOf(Numbers)
            /\ Left([records EXCEPT ![alias] = None], records)
        BY <1>u, <4>1, WhatIsLeft
      <4>3. QED BY <3>2, <4>2 DEF alias
    <3>3. QED BY <2>1, <3>1, <3>2
  <2>4. QED BY <1>g, <1>r, <2>1, <2>2, <2>3, SameSaving
<1>4. ASSUME NEW s \in Requests, NEW a \in Aliases, StopSession(s, a) PROVE IInv'
  <2>1. records' \in RecordsOf(Numbers) /\ Left(records', records)
    BY <1>4, <1>u, WhatIsLeft DEF StopSession, LiveStatuses
  <2>2. \A r \in Saving' : stops'[r].snapshot \in Kept \cup {records'}
    BY <1>4, <1>a DEF StopSession, Saving, Kept
  <2>3. QED BY <1>4, <1>g, <1>r, <2>1, <2>2 DEF StopSession, Numbers, GoesOn
<1>5. ASSUME NEW s \in Requests, StopPersisted(s) PROVE IInv'
  <2>1. /\ \A r \in Saving' : stops'[r].snapshot \in Kept
        /\ file' \in {file, stops[s].snapshot} /\ stops[s].snapshot \in Kept
    BY <1>5, <1>t, GoesSaving, EndsSaving DEF StopPersisted, AtPhase, Saving, Kept
  <2>2. QED BY <1>5, <1>g, <1>u, <1>r, <2>1 DEF StopPersisted, AtPhase, Numbers, GoesOn
<1>6. ASSUME NEW s \in Requests, StopWaits(s) \/ StopWaitsAgain(s) PROVE IInv'
  <2> DEFINE now == CurrentTerminal(stops[s].alias)
  <2>1. \A r \in Saving' : stops'[r].snapshot \in Kept
    <3>1. CASE Ends(s)
      BY <1>t, <3>1, EndsSaving
    <3> DEFINE first == [stops[s] EXCEPT !.phase = "term", !.current = now]
               again == [stops[s] EXCEPT !.phase = "kill", !.latest = now]
    <3>2. CASE stops' = [stops EXCEPT ![s] = first] \/ stops' = [stops EXCEPT ![s] = again]
      <4>1. stops[s] \in Stop
        BY <1>6, <1>a DEF StopWaits, StopWaitsAgain, AtPhase
      <4>2. first.phase = "term" /\ again.phase = "kill"
        BY <4>1 DEF Stop
      <4> HIDE DEF first, again
      <4>3. \A r \in Saving' : r \in Saving /\ stops'[r] = stops[r]
        BY <1>a, <3>2, <4>2 DEF Saving
      <4>4. QED BY <4>3 DEF Kept
    <3>3. QED BY <1>6, <3>1, <3>2 DEF StopWaits, StopWaitsAgain, EndsStopped
  <2>2. /\ records' \in RecordsOf(Numbers) /\ Left(records', records)
        /\ marks' \subseteq Kept \cup {records'}
    BY <1>6, <1>u, <1>r, <1>a, <1>m DEF StopWaits, StopWaitsAgain, EndsStopped, AtPhase
  <2>3. QED BY <1>6, <1>g, <1>r, <2>1, <2>2 DEF StopWaits, StopWaitsAgain, AtPhase, Numbers, GoesOn
<1>7. ASSUME NEW s \in Requests, StopVerifies(s) \/ StopSignals(s) PROVE IInv'
  <2>1. /\ up' /\ UNCHANGED <<file, starts>> /\ stops[s] # None /\ Numbers' = Numbers
    BY <1>7 DEF StopVerifies, StopSignals, AtPhase, Signal, SignalFails, Numbers
  <2>2. \/ NotSignalled(s)
        \/ UNCHANGED <<records, marks>> /\ \E phase \in StopPhases : phase # "persisting" /\ Goes(s, phase)
    <3>1. "sigterm" \in StopPhases /\ "sigkill" \in StopPhases /\ "signalled" \in StopPhases
          /\ "killed" \in StopPhases
      BY DEF StopPhases
    <3>2. QED BY <1>7, <3>1 DEF StopVerifies, StopSignals
  <2>3. \A r \in Saving' : stops'[r].snapshot \in Kept
    BY <1>t, <2>2, GoesSaving, EndsSaving DEF NotSignalled, EndsStopped, EndsFailed
  <2>4. /\ records' \in RecordsOf(Numbers) /\ Left(records', records)
        /\ marks' \subseteq Kept \cup {records'}
    BY <1>u, <1>r, <1>a, <1>m, <2>1, <2>2 DEF NotSignalled, EndsStopped, EndsFailed
  <2>5. QED BY <1>g, <1>r, <2>1, <2>3, <2>4 DEF GoesOn
<1>9. ASSUME NEW s \in Requests, StopGivesUp(s) PROVE IInv'
  <2>1. \A r \in Saving' : stops'[r].snapshot \in Kept
    BY <1>9, <1>t, EndsSaving DEF StopGivesUp, EndsStopped, EndsFailed
  <2>2. /\ records' \in RecordsOf(Numbers) /\ Left(records', records)
        /\ marks' \subseteq Kept \cup {records'}
    BY <1>9, <1>u, <1>r, <1>a, <1>m DEF StopGivesUp, EndsStopped, EndsFailed, AtPhase
  <2>3. QED BY <1>9, <1>g, <1>r, <2>1, <2>2 DEF StopGivesUp, AtPhase, Numbers, GoesOn
<1>10. ASSUME NEW snapshot \in marks, MarkPersisted(snapshot) PROVE IInv'
  BY <1>10, <1>g, <1>u, <1>r, SameSaving DEF MarkPersisted, Numbers, GoesOn
<1>11. ASSUME NEW n \in Numbers, Heartbeat(n) PROVE IInv'
  <2>1. records' \in RecordsOf(Numbers) /\ Left(records', records)
    BY <1>11, <1>u, <1>a, WhatIsLeft DEF Heartbeat, Authentic, LiveStatuses
  <2>2. QED BY <1>11, <1>g, <1>r, <2>1, SameSaving DEF Heartbeat, Authentic, Numbers, GoesOn
<1>12. ASSUME NEW n \in Numbers, PostsEnd(n) PROVE IInv'
  BY <1>12, <1>g, <1>r, <1>a, <1>m, SameSaving DEF PostsEnd, Authentic, Numbers, GoesOn
<1>13. ASSUME NEW n \in Numbers, Quits(n) \/ PidReused(n) PROVE IInv'
  BY <1>13, <1>g, <1>u, <1>r, SameSaving DEF Quits, PidReused, Numbers, GoesOn
<1>14. ASSUME NEW n \in Numbers, Exits(n) PROVE IInv'
  BY <1>14, <1>g, <1>u, <1>r, <1>a, <1>m, SameSaving DEF Exits, Numbers, GoesOn
<1>15. CASE Crash
  <2>1. /\ Numbers' = Numbers /\ ~up' /\ \A n \in Numbers : starts'[n] = None
        /\ records' \in RecordsOf(Numbers) /\ Live(records') = {}
        /\ {file'} \cup marks' \subseteq Kept /\ Saving' = {}
    <3>1. \A s \in Requests : stops[s] # None => Ended(stops[s]).phase = "done"
      BY <1>a DEF Ended, Stop
    <3>2. Saving' = {}
      BY <1>15, <3>1 DEF Crash, Saving
    <3>3. QED BY <1>15, <1>r, <3>2 DEF Crash, Numbers, RecordsOf, Live
  <2>2. Left(records', records) /\ NothingElse
    BY <2>1 DEF Left, NothingElse
  <2>3. QED BY <1>t, <2>1, <2>2, LessIsLeft DEF IInv, Down, GoesOn
<1>16. CASE Boot
  <2>1. /\ up' /\ UNCHANGED <<marks, terminals, starts, stops>> /\ Numbers' = Numbers
        /\ file' = records' /\ records' = Reconciled(file)
        /\ \A n \in Numbers : starts[n] = None
    BY <1>16 DEF Boot, Numbers, IInv, Down
  <2>2. Spawned = {} /\ Spawned' = {} /\ Writing' = {}
    BY <2>1 DEF Spawned, Writing
  <2>3. Reconciled(file) \in RecordsOf(Numbers) /\ Left(Reconciled(file), file)
    <3>1. file \in RecordsOf(Numbers)
      BY <1>r
    <3>2. \A a \in Aliases :
            \/ Reconciled(file)[a] = file[a]
            \/ Reconciled(file)[a] = [status |-> "stopped", terminal |-> None]
      BY <3>1 DEF Reconciled, Stopped, RecordsOf
    <3>3. DOMAIN Reconciled(file) = Aliases
      BY DEF Reconciled
    <3>4. Reconciled(file) \in RecordsOf(Numbers)
      <4>1. Reconciled(file) = [a \in Aliases |-> Reconciled(file)[a]]
        BY DEF Reconciled
      <4>2. QED BY <3>1, <3>2, <4>1 DEF RecordsOf
    <3>5. QED BY <3>2, <3>4 DEF Left, Live, LiveStatuses
  <2>4. Fits(records', Numbers', Spawned')
    BY <1>r, <2>1, <2>2, <2>3, FitShrinks DEF IInv, AllFit, Left
  <2>5. AllFit'
    BY <1>t, <1>r, <2>1, <2>2, <2>4, KeptStays, SameSaving DEF IInv
  <2>6. QED BY <1>t, <2>1, <2>2, <2>5 DEF IInv, Room, Down, OneStart
<1>17. QED
  BY <1>0, <1>1, <1>2, <1>3, <1>4, <1>5, <1>6, <1>7, <1>9, <1>10, <1>11, <1>12, <1>13,
     <1>14, <1>15, <1>16
  DEF Next, Starting, Stopping

(* And holds at the start.                                                 *)
LEMMA IInvInit ==
  ASSUME Init
  PROVE  IInv
<1>1. Numbers = {} /\ Numbers = 1..0 /\ 0 \in 0..MaxTerminals
  BY BoundsAssumption DEF Init, Numbers
<1>2. Typed
  BY <1>1, BoundsAssumption DEF Init, Typed
<1>3. Spawned = {} /\ Kept = {records} /\ \A n \in Numbers : starts[n] = None
  BY <1>1 DEF Init, Spawned, Kept, Writing, Saving
<1>4. Live(records) = {} /\ records \in RecordsOf(Numbers)
  BY DEF Init, Live, RecordsOf
<1>5. AllFit
  BY <1>3, <1>4, FS_EmptySet, BoundsAssumption DEF AllFit, Fits
<1>6. QED BY <1>2, <1>3, <1>4, <1>5 DEF IInv, OneStart, Room, Down, Init

LEMMA Invariant == Spec => []IInv
<1>1. IInv /\ [Next]_vars => IInv'
  BY IInvStays
<1>2. QED BY <1>1, IInvInit, PTL DEF Spec

-----------------------------------------------------------------------------
(* The registry, the state file and every snapshot under way are well      *)
(* formed, and the registry never holds more live sessions than the limit, *)
(* for any limit: a start counts the sessions before its first await, and  *)
(* what keeps its place until it registers is that starts are serialised.  *)
THEOREM SessionsSound == Spec => []RegistrySound
<1>1. IInv => RegistrySound
  <2> SUFFICES ASSUME IInv PROVE RegistrySound
    OBVIOUS
  <2>1. \A recs \in Kept : recs \in Records
    BY DEF IInv, AllFit, Fits, RecordsOf, Records
  <2>2. {records, file} \cup marks \subseteq Records
    BY <2>1 DEF Kept
  <2>3. Numbers \in {1..n : n \in 0..MaxTerminals}
    BY DEF IInv, Typed
  <2>4. ASSUME NEW n \in Numbers
        PROVE  /\ terminals[n].alias \in Aliases
               /\ terminals[n].state \in {"alive", "ending", "dead"}
               /\ terminals[n].reused => terminals[n].state = "dead"
               /\ starts[n] # None =>
                    \/ starts[n].phase \in {"spawned", "unread", "undoing"}
                    \/ starts[n].phase = "persisting" /\ starts[n].snapshot \in Records
    <3>1. starts[n] # None /\ starts[n].phase = "persisting" => starts[n].snapshot \in Records
      BY <2>1 DEF Kept, Writing
    <3>2. QED BY <3>1 DEF IInv, Typed, Terminal, Start
  <2>5. ASSUME NEW s \in Requests, stops[s] # None
        PROVE  /\ stops[s].pid \in Numbers
               /\ \/ stops[s].current \in Numbers
                  \/ stops[s].current = None /\ stops[s].phase \in {"persisting", "grace", "term", "done"}
    BY <2>5 DEF IInv, Typed, Stop, StopPhases, Knows
  <2>6. TypeOK
    BY <2>2, <2>3, <2>4, <2>5 DEF TypeOK, IInv, Typed
  <2>7. LimitHeld
    BY DEF IInv, AllFit, Fits, Kept, LimitHeld
  <2>8. QED BY <2>6, <2>7 DEF RegistrySound
<1>2. QED BY <1>1, Invariant, PTL

(* Nobody becomes poised to signal a terminal that is dead.                *)
LEMMA PoisedStays ==
  ASSUME IInv, [Next]_vars, NEW n \in Numbers, terminals[n].state = "dead"
  PROVE  Poised(n)' \subseteq Poised(n)
<1>1. \A s \in Requests : stops[s] # None => stops[s] \in Stop
  BY DEF IInv, Typed
<1>2. stops \in [Requests -> {None} \cup Stop] /\ starts \in [Numbers -> {None} \cup Start]
  BY DEF IInv, Typed
<1> DEFINE About(s) == stops[s] # None /\ stops[s].phase \in {"sigterm", "sigkill"} /\ Target(s) = n
           Begun    == starts[n] # None /\ starts[n].phase \in {"spawned", "unread", "undoing"}
<1>g. ASSUME \A s \in Requests : About(s)' => About(s), Begun' => Begun PROVE Poised(n)' \subseteq Poised(n)
  BY <1>g DEF Poised
<1>s. ASSUME UNCHANGED stops PROVE \A s \in Requests : About(s)' => About(s)
  BY <1>s DEF Target
<1>b. ASSUME UNCHANGED starts PROVE Begun' => Begun
  BY <1>b
<1>e. ASSUME NEW s \in Requests, NEW one, stops' = [stops EXCEPT ![s] = one],
             one.phase \notin {"sigterm", "sigkill"}
      PROVE  \A r \in Requests : About(r)' => About(r)
  BY <1>2, <1>e DEF Target
<1>0. CASE UNCHANGED vars
  BY <1>0, <1>g, <1>s, <1>b DEF vars
<1>1a. ASSUME NEW a \in Aliases, StartSession(a) PROVE Poised(n)' \subseteq Poised(n)
  <2>1. UNCHANGED stops /\ starts'[n] = starts[n]
    <3>1. PICK k \in 0..MaxTerminals : Numbers = 1..k
      BY DEF IInv, Typed
    <3>2. k \in Nat /\ Cardinality(Numbers) = k
      BY <3>1, FS_Interval, BoundsAssumption
    <3>3. QED BY <1>1a, <3>1, <3>2 DEF StartSession
  <2>2. QED BY <1>g, <1>s, <2>1
<1>2a. ASSUME NEW m \in Numbers,
             StartRegisters(m) \/ StartKills(m) \/ StartPersisted(m) \/ StartUndone(m)
      PROVE  Poised(n)' \subseteq Poised(n)
  <2>1. UNCHANGED stops
    BY <1>2a DEF StartRegisters, StartKills, StartPersisted, StartUndone
  <2>2. Begun' => Begun
    BY <1>2, <1>2a DEF StartRegisters, StartKills, StartPersisted, StartUndone, StartAt, Owned
  <2>3. QED BY <1>g, <1>s, <2>1, <2>2
<1>3. ASSUME NEW s \in Requests, NEW a \in Aliases, StopSession(s, a) PROVE Poised(n)' \subseteq Poised(n)
  BY <1>3, <1>g, <1>b, <1>e DEF StopSession
<1>4. ASSUME NEW s \in Requests, NEW phase, Goes(s, phase), phase \notin {"sigterm", "sigkill"}, stops[s] \in Stop
      PROVE  \A r \in Requests : About(r)' => About(r)
  <2> DEFINE one == [stops[s] EXCEPT !.phase = phase, !.snapshot = None]
  <2>1. stops' = [stops EXCEPT ![s] = one] /\ one.phase = phase
    BY <1>4 DEF Goes, Stop
  <2>2. QED BY <1>4, <1>e, <2>1
<1>5. ASSUME NEW s \in Requests, Ends(s), stops[s] \in Stop
      PROVE  \A r \in Requests : About(r)' => About(r)
  <2>1. stops' = [stops EXCEPT ![s] = Ended(stops[s])] /\ Ended(stops[s]).phase = "done"
    BY <1>5 DEF Ends, Ended, Stop
  <2>2. QED BY <1>e, <2>1
<1>6. ASSUME NEW s \in Requests, Stopping(s) PROVE Poised(n)' \subseteq Poised(n)
  <2>1. UNCHANGED starts /\ stops[s] \in Stop
    BY <1>6, <1>1
    DEF Stopping, StopPersisted, StopWaits, StopWaitsAgain, StopVerifies, StopSignals, StopGivesUp,
        AtPhase
  <2>2. CASE \E phase \in StopPhases \ {"sigterm", "sigkill"} : Goes(s, phase)
    BY <1>g, <1>b, <1>4, <2>1, <2>2
  <2>3. CASE Ends(s)
    BY <1>g, <1>b, <1>5, <2>1, <2>3
  <2>4. CASE NotSignalled(s)
    BY <2>2, <2>3, <2>4 DEF NotSignalled, EndsStopped, EndsFailed, StopPhases
  <2>5. CASE StopPersisted(s) \/ StopSignals(s) \/ StopGivesUp(s)
    <3>1. {"grace", "signalled", "killed"} \subseteq StopPhases \ {"sigterm", "sigkill"}
      BY DEF StopPhases
    <3>2. QED BY <2>2, <2>3, <2>4, <2>5, <3>1
              DEF StopPersisted, StopSignals, StopGivesUp, EndsStopped, EndsFailed
  <2>6. CASE StopWaits(s) \/ StopWaitsAgain(s)
    <3> DEFINE now   == CurrentTerminal(stops[s].alias)
               first == [stops[s] EXCEPT !.phase = "term", !.current = now]
               again == [stops[s] EXCEPT !.phase = "kill", !.latest = now]
    <3>1. /\ first.phase = "term" /\ again.phase = "kill"
          /\ \/ stops' = [stops EXCEPT ![s] = first] \/ stops' = [stops EXCEPT ![s] = again] \/ Ends(s)
      BY <2>1, <2>6 DEF Stop, StopWaits, StopWaitsAgain, EndsStopped
    <3> HIDE DEF first, again
    <3>2. QED BY <1>g, <1>b, <1>e, <2>1, <2>3, <3>1
  <2>7. CASE /\ Owned(Target(s)) /\ stops[s].phase \in {"term", "kill"}
             /\ Goes(s, IF stops[s].phase = "term" THEN "sigterm" ELSE "sigkill")
    <3>1. Target(s)' = Target(s) /\ Target(s) # n
      BY <1>2, <2>1, <2>7 DEF Target, Goes, Stop, Owned
    <3>2. \A r \in Requests : r # s => stops'[r] = stops[r]
      BY <1>2, <2>7 DEF Goes
    <3>3. \A r \in Requests : About(r)' => About(r)
      BY <3>1, <3>2 DEF Target
    <3>4. QED BY <1>g, <1>b, <2>1, <3>3
  <2>8. QED BY <1>6, <2>4, <2>5, <2>6, <2>7 DEF Stopping, StopVerifies, AtPhase
<1>7. CASE Crash
  <2>1. \A s \in Requests : stops'[s] = None \/ (stops'[s] = Ended(stops[s]) /\ stops[s] \in Stop)
    BY <1>1, <1>7 DEF Crash
  <2>2. \A s \in Requests : About(s)' => About(s)
    <3>1. \A s \in Requests : stops[s] \in Stop => Ended(stops[s]).phase = "done"
      BY DEF Ended, Stop
    <3>2. QED BY <2>1, <3>1
  <2>3. QED BY <1>7, <1>g, <2>2 DEF Crash
<1>8. ASSUME UNCHANGED <<starts, stops>> PROVE Poised(n)' \subseteq Poised(n)
  BY <1>8, <1>g, <1>s, <1>b
<1>9. QED
  BY <1>0, <1>1a, <1>2a, <1>3, <1>6, <1>7, <1>8
  DEF Next, Starting, MarkPersisted, Heartbeat, Quits, PostsEnd, Exits, PidReused, Boot

\* What a step may do to those who have the pid of a terminal that is dead.
StruckByPoised(n) ==
  /\ terminals'[n].reused = terminals[n].reused /\ terminals'[n].late = terminals[n].late
  /\ \/ terminals'[n].struck = terminals[n].struck
     \/ /\ terminals[n].reused
        /\ \E x \in Poised(n) : terminals'[n].struck = terminals[n].struck \cup {x}

LEMMA StrikesPoised ==
  ASSUME IInv, [Next]_vars, NEW n \in Numbers
  PROVE  \/ StruckByPoised(n)
         \/ /\ PidReused(n) /\ ~terminals[n].reused /\ terminals[n].state = "dead"
            /\ terminals'[n].late = Poised(n) /\ terminals'[n].struck = terminals[n].struck
<1>t. terminals \in [Numbers -> Terminal] /\ \A m \in Numbers : terminals[m].reused => terminals[m].state = "dead"
  BY DEF IInv, Typed
<1>u. ASSUME UNCHANGED terminals PROVE StruckByPoised(n)
  BY <1>u DEF StruckByPoised
<1>s. ASSUME NEW m \in Numbers, NEW x, Signal(x, m), x \in Poised(m) PROVE StruckByPoised(n)
  BY <1>t, <1>s DEF Signal, ProcessAlive, StruckByPoised, Terminal
<1>1. ASSUME NEW a \in Aliases, StartSession(a) PROVE StruckByPoised(n)
  BY <1>1, StartStep DEF IInv, StruckByPoised
<1>2. ASSUME NEW m \in Numbers, StartKills(m) \/ StartUndone(m) PROVE StruckByPoised(n)
  <2>1. "start" \in Poised(m)
    BY <1>2 DEF StartKills, StartUndone, StartAt, Poised
  <2>2. QED BY <1>2, <1>s, <1>u, <2>1 DEF StartKills, StartUndone, SignalFails
<1>3. ASSUME NEW m \in Numbers, StartRegisters(m) \/ StartPersisted(m) PROVE StruckByPoised(n)
  BY <1>3, <1>t, <1>u DEF StartRegisters, StartPersisted, StruckByPoised, Terminal
<1>4. ASSUME NEW s \in Requests, StopSignals(s) PROVE StruckByPoised(n)
  <2>1. /\ stops[s] \in Stop /\ Knows(stops[s]) /\ stops[s].phase \in {"sigterm", "sigkill"}
        /\ stops[s] # None
    BY <1>4 DEF StopSignals, AtPhase, IInv, Typed
  <2>2. Target(s) \in Numbers /\ s \in Poised(Target(s))
    BY <2>1 DEF Target, Stop, Knows, Poised
  <2>3. QED BY <1>4, <1>s, <1>u, <2>2 DEF StopSignals, SignalFails
<1>5. ASSUME NEW m \in Numbers, Quits(m) \/ Exits(m) PROVE StruckByPoised(n)
  BY <1>5, <1>t DEF Quits, Exits, StruckByPoised, Terminal
<1>6. CASE Crash
  BY <1>6, <1>t DEF Crash, StruckByPoised, Terminal
<1>7. ASSUME NEW m \in Numbers, PidReused(m), m # n PROVE StruckByPoised(n)
  BY <1>7, <1>t DEF PidReused, StruckByPoised
<1>8. CASE PidReused(n)
  BY <1>8, <1>t DEF PidReused, Terminal
<1>9. QED
  BY <1>u, <1>1, <1>2, <1>3, <1>4, <1>5, <1>6, <1>7, <1>8
  DEF Next, Starting, Stopping, vars, StopSession, StopPersisted, StopWaits, StopWaitsAgain,
      StopVerifies, StopGivesUp, MarkPersisted, Heartbeat, PostsEnd, Boot

LEMMA NoneAstrayStays ==
  ASSUME IInv, NoneAstray, [Next]_vars
  PROVE  NoneAstray'
<1> DEFINE Fine(n) ==
      IF terminals[n].reused THEN Poised(n) \cup terminals[n].struck \subseteq terminals[n].late
      ELSE terminals[n].struck = {}
<1>t. /\ Typed /\ \A n \in Numbers : terminals[n].reused => terminals[n].state = "dead"
      /\ Numbers \subseteq Numbers'
  BY TypedStays DEF IInv, Typed
<1>1. ASSUME NEW n \in Numbers PROVE Fine(n)'
  <2>1. Fine(n)
    BY DEF NoneAstray
  <2>2. CASE StruckByPoised(n)
    BY <1>t, <2>1, <2>2, PoisedStays DEF StruckByPoised
  <2>3. CASE /\ PidReused(n) /\ ~terminals[n].reused /\ terminals[n].state = "dead"
             /\ terminals'[n].late = Poised(n) /\ terminals'[n].struck = terminals[n].struck
    BY <2>1, <2>3, PoisedStays
  <2>4. QED BY <2>2, <2>3, StrikesPoised
<1>2. ASSUME NEW n \in Numbers', n \notin Numbers PROVE Fine(n)'
  <2>1. PICK a \in Aliases : StartSession(a)
    BY <1>2 DEF Next, vars, Starting, Stopping, StartRegisters, StartKills, StartPersisted,
       StartUndone, StopSession, StopPersisted, StopWaits, StopWaitsAgain, StopVerifies,
       StopSignals, StopGivesUp, MarkPersisted, Heartbeat, Quits, PostsEnd, Exits, PidReused,
       Crash, Boot, Signal, SignalFails, Numbers
  <2>2. PICK k \in 0..MaxTerminals : Numbers = 1..k
    BY <1>t DEF Typed
  <2>3. k \in Nat /\ Cardinality(Numbers) = k
    BY <2>2, FS_Interval, BoundsAssumption
  <2>4. Numbers' = 1..(k + 1)
    BY <2>1, <2>3 DEF StartSession, Numbers
  <2>5. n = k + 1
    BY <1>2, <2>2, <2>3, <2>4
  <2>6. ~terminals'[n].reused /\ terminals'[n].struck = {}
    BY <2>1, <2>3, <2>5 DEF StartSession
  <2>7. QED BY <2>6
<1>3. QED BY <1>1, <1>2 DEF NoneAstray

(* No signal goes astray but in the window the code leaves: a process that *)
(* has got the pid of a terminal is struck only by a request that had      *)
(* verified its ownership before, or by the terminal's own start, whatever *)
(* is waited for, replaced or restarted.  It rests on the verification     *)
(* coming last before every kill, and on a start that only kills what it   *)
(* has spawned.                                                            *)
THEOREM SignalsReachTerminals == Spec => []SignalsOwned
<1>1. Init => NoneAstray
  BY DEF Init, NoneAstray, Numbers
<1>2. NoneAstray => SignalsOwned
  BY DEF NoneAstray, SignalsOwned
<1>3. QED BY <1>1, <1>2, Invariant, NoneAstrayStays, PTL DEF Spec

\* What StatusAdvances says of a step.
Advances ==
  \A a \in Live(records) :
    up' /\ a \in Live(records') /\ records'[a].terminal = records[a].terminal
      => Rank(records[a].status) <= Rank(records'[a].status)

LEMMA Ranks ==
  /\ \A status \in LiveStatuses : Rank(status) \in 1..3
  /\ Rank("starting") = 1 /\ Rank("running") = 2 /\ Rank("stopping") = 3
BY DEF Rank, LiveStatuses

(* The session of a terminal only goes from starting over running to       *)
(* stopping: a terminal registers once, a heartbeat changes the status     *)
(* only of a session that is starting, and a restart begins with no        *)
(* sessions at all.                                                        *)
THEOREM SessionsAdvance == Spec => StatusAdvances
<1>1. IInv /\ [Next]_vars => Advances
  <2> SUFFICES ASSUME IInv, [Next]_vars PROVE Advances
    OBVIOUS
  <2>r. records \in RecordsOf(Numbers) /\ \A a \in Live(records) : records[a].terminal \notin Spawned
    BY DEF IInv, AllFit, Fits, Kept
  <2>a. /\ \A n \in Numbers : terminals[n].alias \in Aliases
        /\ \A s \in Requests : stops[s] # None => stops[s].alias \in Aliases
    BY DEF IInv, Typed, Terminal, Stop
  <2>s. ASSUME \A a \in Live(records') : a \in Live(records) => records'[a] = records[a]
        PROVE  Advances
    BY <2>s, Ranks DEF Advances, Live
  <2>u. ASSUME UNCHANGED records PROVE Advances
    BY <2>u, <2>s
  <2>m. ASSUME NEW a \in Aliases, MarkStopped(a) PROVE Advances
    BY <2>m, <2>s, <2>r, StoppedRecords DEF MarkStopped
  <2>1. ASSUME NEW n \in Numbers, StartRegisters(n) PROVE Advances
    <3>1. CASE records' = [records EXCEPT ![terminals[n].alias] = [status |-> "starting", terminal |-> n]]
      <4>1. n \in Spawned
        BY <2>1 DEF StartRegisters, StartAt, Spawned
      <4>2. \A a \in Live(records) : records'[a] = records[a] \/ records'[a].terminal = n
        BY <2>r, <3>1 DEF RecordsOf, Live
      <4>3. QED BY <2>r, <4>1, <4>2, Ranks DEF Advances, Live
    <3>2. QED BY <2>1, <2>u, <3>1 DEF StartRegisters
  <2>2. ASSUME NEW n \in Numbers, StartKills(n) \/ StartPersisted(n) \/ StartUndone(n) PROVE Advances
    <3>1. CASE records' = [records EXCEPT ![terminals[n].alias] = None]
      BY <2>r, <2>s, <3>1 DEF RecordsOf, Live
    <3>2. QED BY <2>2, <2>u, <3>1 DEF StartKills, StartPersisted, StartUndone
  <2>3. ASSUME NEW s \in Requests, NEW a \in Aliases, StopSession(s, a) PROVE Advances
    <3>1. records' = [records EXCEPT ![a].status = "stopping"] /\ a \in Live(records)
      BY <2>3 DEF StopSession
    <3>2. \A b \in Live(records) : records'[b] = records[b] \/ records'[b].status = "stopping"
      BY <2>r, <3>1 DEF RecordsOf, Live, LiveStatuses
    <3>3. QED BY <3>2, Ranks DEF Advances, Live
  <2>4. ASSUME NEW s \in Requests, Stopping(s) PROVE Advances
    BY <2>4, <2>u, <2>m, <2>a
    DEF Stopping, StopPersisted, StopWaits, StopWaitsAgain, StopVerifies, StopSignals,
        StopGivesUp, NotSignalled, EndsStopped, EndsFailed, AtPhase
  <2>5. ASSUME NEW n \in Numbers, Heartbeat(n) PROVE Advances
    <3>1. /\ terminals[n].alias \in Live(records) /\ records[terminals[n].alias].status = "starting"
          /\ records' = [records EXCEPT ![terminals[n].alias].status = "running"]
      BY <2>5 DEF Heartbeat, Authentic
    <3>2. \A b \in Live(records) :
            \/ records'[b] = records[b]
            \/ records'[b].status = "running" /\ records[b].status = "starting"
      BY <2>r, <3>1 DEF RecordsOf, Live, LiveStatuses
    <3>3. QED BY <3>2, Ranks DEF Advances, Live
  <2>6. ASSUME NEW n \in Numbers, Quits(n) \/ PostsEnd(n) \/ Exits(n) \/ PidReused(n) PROVE Advances
    BY <2>6, <2>u, <2>m, <2>a DEF Quits, PostsEnd, Exits, PidReused
  <2>7. CASE Crash
    BY <2>7 DEF Crash, Advances
  <2>8. CASE Boot
    BY <2>8 DEF Boot, IInv, Down, Advances
  <2>9. ASSUME UNCHANGED records \/ Starting \/ Crash \/ Boot
               \/ (\E s \in Requests : Stopping(s) \/ \E a \in Aliases : StopSession(s, a))
               \/ (\E n \in Numbers : Heartbeat(n) \/ Quits(n) \/ PostsEnd(n) \/ Exits(n) \/ PidReused(n))
        PROVE  Advances
    BY <2>9, <2>u, <2>1, <2>2, <2>3, <2>4, <2>5, <2>6, <2>7, <2>8 DEF Starting
  <2>10. QED BY <2>9 DEF Next, vars, StartSession, MarkPersisted
<1>2. QED BY <1>1, Invariant, PTL DEF Spec, StatusAdvances, Advances

=============================================================================
