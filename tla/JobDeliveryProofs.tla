------------------------- MODULE JobDeliveryProofs -------------------------
(***************************************************************************)
(* The controller and the bridge extension agree on the jobs of an alias,  *)
(* and together keep the promise of JobLifecycle, for any number of jobs,  *)
(* leases, lost calls, reloads and restarts.                               *)
(***************************************************************************)
EXTENDS JobDeliveryProps, SequenceTheorems, WellFoundedInduction, TLAPS

Leases  == Nat \ {0}
Authors == Jobs \cup {Local}

Job ==
  [requestId : Requests, alias : {Alias}, input : Inputs \cup {None}, payloadHash : {Alias} \X Inputs,
   status : Store!Statuses, leaseId : Nat, createdAt : Nat, updatedAt : Nat,
   resultText : Authors \cup {Nothing, None}, interrupted : BOOLEAN, errorCode : Codes \cup {None}]

Outcomes ==
  [op : {"result"}, text : Authors \cup {Nothing}, interrupted : BOOLEAN]
  \cup [op : {"fail"}, code : Codes]

ActiveJob ==
  [id : Jobs, lease : Leases, acknowledged : BOOLEAN, dispatched : {"no", "yes", "overdue"},
   observed : BOOLEAN, sent : BOOLEAN, interrupted : BOOLEAN, attempts : Nat,
   terminal : Outcomes \cup {None}, posting : {"no", "loop", "event"}]

Segment ==
  [user : BOOLEAN, text : Authors \cup {None}, stop : {"stop", "error", "aborted", None}, cut : BOOLEAN]

Control == [kind : {"control"}, n : 1..MaxControls, id : Nat]
Reply ==
  {Ok, Idle, Conflict, TooLarge, Failure} \cup Control
  \cup [kind : {"job", "resume"}, id : Jobs, lease : Leases]

HttpCall ==
  [op : {"poll", "ack", "result", "fail", "controlAck"}, id : Nat, lease : Nat,
   data : BOOLEAN \cup Outcomes \cup Nat \cup {None}, start : Nat,
   phase : {"sent", "waiting", "woken", "answered"}, reply : Reply \cup {None}]

StoreTyped ==
  /\ sequence \in 0..MaxSequence /\ leaseCount \in Nat /\ now \in Nat
  /\ jobs \in [1..sequence -> Job]
  /\ \A i \in 1..sequence : jobs[i].leaseId # 0 <=> jobs[i].status \in Store!Active

\* What an awaited answer can be depends on the call.
CallFits(call, slot) ==
  /\ slot[1] = "event" => call.op \in {"result", "fail"}
  /\ call.phase = "answered" => slot[2] = 0 /\ call.reply \in Reply
  /\ call.phase # "answered" => call.reply = None
  /\ call.phase \in {"waiting", "woken"} => call.op = "poll"
  /\ call.phase = "answered" /\ call.op # "poll" => call.reply \in {Ok, Conflict, TooLarge, Failure}
  /\ call.op = "poll" => call.data \in BOOLEAN
  /\ call.op \in {"result", "fail"} => call.data \in Outcomes /\ call.data.op = call.op
  /\ call.op \in {"result", "fail", "ack"} => call.id \in Jobs /\ call.lease \in Leases

CallsTyped ==
  /\ calls \in [Slots -> HttpCall \cup {None}]
  /\ \A s \in Slots : calls[s] # None => CallFits(calls[s], s)

ActiveTyped == active \in ActiveJob \cup {None}

AgentTyped ==
  /\ segments \in [Jobs -> Segment \cup {None}]
  /\ turn \in Authors \cup {None} /\ streaming \in BOOLEAN
  /\ inbox \in Seq([who : Authors, seen : BOOLEAN])
  /\ typed \in 0..MaxLocal
  /\ prompted \in [Jobs -> Nat]

ControlTyped ==
  /\ control \in Control \cup {None} /\ controlCount \in 0..MaxControls
  /\ control # None => control.n <= controlCount /\ control.id <= sequence

SessionTyped ==
  /\ live \in BOOLEAN /\ up \in BOOLEAN /\ starts \in 1..MaxStarts
  /\ ControlTyped
  /\ pc \in {"top", "poll", "control"} /\ handling \in Nat
  /\ injecting \in 0..sequence
  /\ faults \in 0..MaxFaults

WaiterWaits == waiter # None => waiter \in Slots /\ InPhase(waiter, "waiting")
EndedIsEmpty == ~up => active = None /\ inbox = <<>> /\ ~streaming

Typed ==
  /\ StoreTyped /\ CallsTyped /\ ActiveTyped /\ AgentTyped /\ SessionTyped
  /\ WaiterWaits /\ EndedIsEmpty

\* Who knows job i under lease l: the store, the extension, a call, an answer.
Answered(s) == calls[s] # None /\ calls[s].phase = "answered" /\ calls[s].reply.kind \in {"job", "resume"}
Claim(i, l) ==
  \/ i \in 1..sequence /\ jobs[i].leaseId = l
  \/ active # None /\ active.id = i /\ active.lease = l
  \/ \E s \in Slots : calls[s] # None /\ calls[s].id = i /\ calls[s].lease = l
  \/ \E s \in Slots : Answered(s) /\ calls[s].reply.id = i /\ calls[s].reply.lease = l

\* A lease is of one job.
Claimed ==
  /\ \A i, l : Claim(i, l) => i \in 0..sequence /\ l \in 0..leaseCount
  /\ \A i, j, l : l # 0 /\ Claim(i, l) /\ Claim(j, l) => i = j

Reports(s) == calls[s] # None /\ calls[s].op \in {"result", "fail"}

\* A job that is handed over has begun, and never waits again.
Begun == {i \in 1..sequence : jobs[i].status \notin {"queued", "leased"}}
Handed ==
  /\ \A i \in Jobs : prompted[i] > 0 => i \in Begun
  /\ \A k \in DOMAIN inbox : inbox[k].who \in Begun \cup {Local}
  /\ active # None /\ active.acknowledged => active.id \in Begun
  /\ calls[Loop] # None /\ calls[Loop].op = "ack" =>
       /\ active # None => active.id = calls[Loop].id
       /\ calls[Loop].phase = "answered" /\ calls[Loop].reply = Ok => calls[Loop].id \in Begun
  /\ Answered(Loop) =>
       /\ calls[Loop].op = "poll"
       /\ calls[Loop].reply.kind = "resume" => calls[Loop].reply.id \in Begun

\* A poll that says ready is from an extension without a job.
Ready ==
  /\ calls[Loop] # None /\ calls[Loop].op = "poll" /\ calls[Loop].data => active = None
  /\ Answered(Loop) /\ calls[Loop].reply.kind = "job" => calls[Loop].data

\* The slots of the faults to come are free.
Fresh == \A s \in Slots : s[2] > faults => calls[s] = None

IInv == Typed /\ Fresh /\ Claimed /\ Handed /\ Ready

-----------------------------------------------------------------------------
(* What one step may do to a job, a call, the extension's job and the      *)
(* prompts on their way.                                                   *)

JobMoves(old, new) ==
  \/ new = old
  \/ old.status = "queued" /\ new.status = "leased" /\ new.leaseId = leaseCount + 1
  \/ old.status = "leased" /\ new.status = "running" /\ new.leaseId = old.leaseId
  \/ old.status = "leased" /\ new.status = "queued" /\ new.leaseId = 0
  \/ old.status \notin Store!Terminal /\ new.status \in Store!Terminal /\ new.leaseId = 0

\* One lease at most is new.
StoreMoves ==
  /\ StoreTyped'
  /\ sequence' >= sequence /\ leaseCount' >= leaseCount
  /\ \A i \in 1..sequence : JobMoves(jobs[i], jobs'[i])
  /\ \A i \in 1..sequence' : i > sequence => jobs'[i].status = "queued" /\ jobs'[i].leaseId = 0
  /\ \A i \in 1..sequence' : jobs'[i].leaseId <= leaseCount'
  /\ \A i, j \in 1..sequence' :
       jobs'[i].leaseId = leaseCount + 1 /\ jobs'[j].leaseId = leaseCount + 1 => i = j

\* Nor does any job become active.
Calm == \A i \in 1..sequence : jobs'[i] = jobs[i] \/ jobs'[i].status \notin Store!Active

\* Nor does a lease come back.
Steady == \A i \in 1..sequence : jobs'[i] = jobs[i] \/ jobs'[i].status # "queued"

\* The controller has answered call with reply.
Answers(call, reply) ==
  /\ reply \in Reply
  /\ call.op # "poll" => reply \in {Ok, Conflict, TooLarge, Failure}
  /\ call.op = "ack" /\ reply = Ok => call.id \in Begun'
  /\ reply.kind \in {"job", "resume"} =>
       /\ call.op = "poll"
       /\ reply.id \in 1..sequence' /\ jobs'[reply.id].leaseId = reply.lease
       /\ reply.kind = "resume" => reply.id \in Begun'
       /\ reply.kind = "job" => call.data

Progress(call, slot, phase, reply) ==
  \/ phase \in {"waiting", "woken"} /\ reply = None /\ call.op = "poll"
  \/ phase = "answered" /\ slot[2] = 0 /\ Answers(call, reply)

\* A new call is about a job that the extension knows, or about none.
Sent(call, slot) ==
  /\ call \in HttpCall /\ CallFits(call, slot)
  /\ call.phase = "sent" /\ call.start = starts
  /\ slot \in {Loop, Event} /\ up
  /\ (call.id = 0 /\ call.lease = 0) \/ Claim(call.id, call.lease)
  /\ call.op = "ack" /\ active' # None => active'.id = call.id
  /\ call.op = "poll" /\ call.data => active' = None /\ call.id = 0

CallMoves(s) ==
  \/ calls'[s] = calls[s]
  \/ calls'[s] = None
  \/ /\ calls[s] # None
     /\ \E p, r : Progress(calls[s], s, p, r) /\ calls'[s] = [calls[s] EXCEPT !.phase = p, !.reply = r]
  \/ /\ s[2] # 0 /\ s[2] = faults'
     /\ calls[<<s[1], 0>>] # None /\ calls[<<s[1], 0>>].phase # "answered"
     /\ calls'[s] = calls[<<s[1], 0>>]
  \/ Sent(calls'[s], s)

\* The extension's job goes on, ends, or is taken up from an answer.
Continues(old, new) ==
  /\ new \in ActiveJob /\ new.id = old.id /\ new.lease = old.lease
  /\ new.acknowledged =>
       old.acknowledged \/ (calls[Loop] # None /\ calls[Loop].op = "ack" /\ calls[Loop].phase = "answered"
                            /\ calls[Loop].reply = Ok)
Takes(reply, new) ==
  /\ new \in ActiveJob /\ new.id = reply.id /\ new.lease = reply.lease
  /\ new.acknowledged => reply.kind = "resume"
ActiveMoves ==
  \/ active' = None
  \/ active # None /\ active' # None /\ Continues(active, active')
  \/ /\ active = None /\ active' # None
     /\ Answered(Loop) /\ Takes(calls[Loop].reply, active')
     /\ calls'[Loop] # None =>
          calls'[Loop].op # "poll" /\ (calls'[Loop].op = "ack" => calls'[Loop].id = active'.id)

PromptsMove ==
  /\ \A k \in DOMAIN inbox' :
       \/ inbox'[k].who = Local
       \/ \E j \in DOMAIN inbox : inbox'[k].who = inbox[j].who
       \/ inbox'[k].who \in Begun'
  /\ \A i \in Jobs : prompted'[i] > 0 =>
       prompted[i] > 0 \/ \E j \in DOMAIN inbox : inbox[j].who = i

CallsMove == calls' = [s \in Slots |-> calls'[s]] /\ \A s \in Slots : CallMoves(s)

Moves == StoreMoves /\ CallsMove /\ ActiveMoves /\ PromptsMove

-----------------------------------------------------------------------------
(* Such a step keeps the invariant, whatever the handler.                  *)

LEMMA SlotFacts ==
  /\ Loop \in Slots /\ Event \in Slots /\ Loop # Event
  /\ \A s \in Slots : <<s[1], 0>> \in Slots /\ s[2] \in 0..MaxFaults
  /\ \A s \in Slots : s[2] = 0 => s \in {Loop, Event}
BY BoundsAssumption DEF Slots, Loop, Event

LEMMA CallApart == None \notin HttpCall
<1>1. \A call \in HttpCall : call # None
  BY NoneAssumption DEF HttpCall, Reply, Control, Outcomes, Authors, Jobs, Leases,
                        Ok, Idle, Conflict, TooLarge, Failure
<1>2. QED BY <1>1

LEMMA ActiveApart == None \notin ActiveJob
<1>1. \A job \in ActiveJob : job # None
  BY NoneAssumption DEF ActiveJob, Outcomes, Authors, Jobs, Leases
<1>2. QED BY <1>1

LEMMA JobClaims ==
  ASSUME Typed, StoreMoves, NEW i \in 1..sequence', jobs'[i].leaseId # 0
  PROVE  \/ i \in 1..sequence /\ jobs'[i].leaseId = jobs[i].leaseId
         \/ jobs'[i].leaseId = leaseCount + 1
<1>1. sequence \in Nat /\ sequence' \in Nat
  BY DEF Typed, StoreTyped, StoreMoves
<1>2. i \in 1..sequence
  BY <1>1 DEF StoreMoves
<1>3. JobMoves(jobs[i], jobs'[i])
  BY <1>2 DEF StoreMoves
<1>4. QED BY <1>2, <1>3 DEF JobMoves

LEMMA ActiveClaims ==
  ASSUME Typed, ActiveMoves, active' # None
  PROVE  Claim(active'.id, active'.lease)
BY SlotFacts, Zenon DEF ActiveMoves, Continues, Takes, Claim

LEMMA CallClaims ==
  ASSUME Typed, ActiveMoves, NEW s \in Slots, CallMoves(s), calls'[s] # None
  PROVE  \/ Claim(calls'[s].id, calls'[s].lease)
         \/ calls'[s].id = 0 /\ calls'[s].lease = 0
<1>1. calls[s] # None => calls[s] \in HttpCall
  BY DEF Typed, CallsTyped
<1>2. CASE calls'[s] = calls[s]
  BY <1>2 DEF Claim
<1>3. CASE calls[s] # None /\ \E p, r : calls'[s] = [calls[s] EXCEPT !.phase = p, !.reply = r]
  <2>1. calls'[s].id = calls[s].id /\ calls'[s].lease = calls[s].lease
    BY <1>1, <1>3 DEF HttpCall
  <2>2. QED BY <1>3, <2>1 DEF Claim
<1>4. CASE calls[<<s[1], 0>>] # None /\ calls'[s] = calls[<<s[1], 0>>]
  BY <1>4, SlotFacts, Zenon DEF Claim
<1>5. CASE Sent(calls'[s], s)
  BY <1>5 DEF Sent
<1>6. QED BY <1>2, <1>3, <1>4, <1>5 DEF CallMoves

LEMMA AnswerClaims ==
  ASSUME Typed, NEW s \in Slots, CallMoves(s), Answered(s)'
  PROVE  \/ Answered(s) /\ calls'[s] = calls[s]
         \/ /\ calls[s] # None /\ Answers(calls[s], calls'[s].reply) /\ calls[s] \in HttpCall
            /\ calls'[s] = [calls[s] EXCEPT !.phase = "answered", !.reply = calls'[s].reply]
<1>1. calls[s] # None => calls[s] \in HttpCall
  BY DEF Typed, CallsTyped
<1>2. calls'[s] # None /\ calls'[s].phase = "answered"
  BY DEF Answered
<1>3. CASE calls'[s] = calls[s]
  BY <1>3 DEF Answered
<1>4. CASE calls[s] # None /\ \E p, r : /\ Progress(calls[s], s, p, r)
                                        /\ calls'[s] = [calls[s] EXCEPT !.phase = p, !.reply = r]
  <2>1. PICK p, r : Progress(calls[s], s, p, r) /\ calls'[s] = [calls[s] EXCEPT !.phase = p, !.reply = r]
    BY <1>4
  <2>2. calls'[s].phase = p /\ calls'[s].reply = r
    BY <1>1, <1>4, <2>1 DEF HttpCall
  <2>3. p = "answered"
    BY <1>2, <2>2
  <2>4. QED BY <1>1, <1>4, <2>1, <2>2, <2>3 DEF Progress
<1>5. CASE Sent(calls'[s], s)
  BY <1>2, <1>5 DEF Sent
<1>6. QED BY <1>2, <1>3, <1>4, <1>5 DEF CallMoves

LEMMA ClaimSource ==
  ASSUME Typed, Moves, NEW i, NEW l, Claim(i, l)'
  PROVE  \/ Claim(i, l)
         \/ i \in 1..sequence' /\ jobs'[i].leaseId = l
         \/ i = 0 /\ l = 0
<1>1. CASE active' # None /\ active'.id = i /\ active'.lease = l
  BY <1>1, ActiveClaims DEF Moves, CallsMove
<1>2. ASSUME NEW s \in Slots, calls'[s] # None, calls'[s].id = i, calls'[s].lease = l
      PROVE  Claim(i, l) \/ (i = 0 /\ l = 0)
  <2>1. CallMoves(s) /\ ActiveMoves
    BY DEF Moves, CallsMove
  <2>2. QED BY <1>2, <2>1, CallClaims
<1>3. ASSUME NEW s \in Slots, Answered(s)', calls'[s].reply.id = i, calls'[s].reply.lease = l
      PROVE  Claim(i, l) \/ (i \in 1..sequence' /\ jobs'[i].leaseId = l)
  <2>1. CallMoves(s)
    BY DEF Moves, CallsMove
  <2>2. CASE Answered(s) /\ calls'[s] = calls[s]
    BY <1>3, <2>2 DEF Claim
  <2>3. CASE Answers(calls[s], calls'[s].reply)
    <3>1. calls'[s].reply.kind \in {"job", "resume"}
      BY <1>3 DEF Answered
    <3>2. QED BY <1>3, <2>3, <3>1 DEF Answers
  <2>4. QED BY <1>3, <2>1, <2>2, <2>3, AnswerClaims
<1>4. Slots' = Slots
  BY DEF Slots
<1>5. QED BY <1>1, <1>2, <1>3, <1>4 DEF Claim

LEMMA ClaimedStays ==
  ASSUME Typed, Claimed, Moves
  PROVE  Claimed'
<1> USE DEF Moves, CallsMove
<1>1. /\ sequence \in Nat /\ sequence' \in Nat /\ leaseCount \in Nat /\ leaseCount' \in Nat
      /\ sequence <= sequence' /\ leaseCount <= leaseCount'
      /\ \A i \in 1..sequence' : jobs'[i].leaseId \in 0..leaseCount'
  BY DEF Typed, StoreTyped, StoreMoves, Job
<1>2. ASSUME NEW i, NEW l, Claim(i, l)'
      PROVE  /\ i \in 0..sequence' /\ l \in 0..leaseCount'
             /\ l # 0 => Claim(i, l) \/ (i \in 1..sequence' /\ jobs'[i].leaseId = l /\ l = leaseCount + 1)
  <2>1. CASE Claim(i, l)
    BY <1>1, <2>1 DEF Claimed
  <2>2. CASE i \in 1..sequence' /\ jobs'[i].leaseId = l
    <3>1. l # 0 => (i \in 1..sequence /\ l = jobs[i].leaseId) \/ l = leaseCount + 1
      BY <2>2, JobClaims
    <3>2. (i \in 1..sequence /\ l = jobs[i].leaseId) => Claim(i, l)
      BY DEF Claim
    <3>3. QED BY <1>1, <2>2, <3>1, <3>2
  <2>3. QED BY <1>1, <1>2, <2>1, <2>2, ClaimSource
<1>3. ASSUME NEW i, NEW j, NEW l, l # 0, Claim(i, l)', Claim(j, l)'
      PROVE  i = j
  <2>1. CASE l = leaseCount + 1
    <3>1. ~Claim(i, l) /\ ~Claim(j, l)
      BY <1>1, <2>1 DEF Claimed
    <3>2. /\ i \in 1..sequence' /\ jobs'[i].leaseId = leaseCount + 1
          /\ j \in 1..sequence' /\ jobs'[j].leaseId = leaseCount + 1
      BY <1>2, <1>3, <2>1, <3>1
    <3>3. QED BY <3>2 DEF StoreMoves
  <2>2. CASE l # leaseCount + 1
    <3>1. Claim(i, l) /\ Claim(j, l)
      BY <1>2, <1>3, <2>2
    <3>2. QED BY <1>3, <3>1 DEF Claimed
  <2>3. QED BY <2>1, <2>2
<1>4. QED BY <1>2, <1>3 DEF Claimed

\* What has begun has begun for good.
LEMMA BegunStays ==
  ASSUME Typed, StoreMoves
  PROVE  Begun \subseteq Begun'
<1>1. ASSUME NEW i \in Begun PROVE i \in Begun'
  <2>1. i \in 1..sequence /\ jobs[i].status \notin {"queued", "leased"} /\ i \in 1..sequence'
    BY DEF Begun, Typed, StoreTyped, StoreMoves
  <2>2. JobMoves(jobs[i], jobs'[i])
    BY <2>1 DEF StoreMoves
  <2>3. jobs'[i].status \notin {"queued", "leased"}
    BY <2>1, <2>2 DEF JobMoves, Store!Terminal
  <2>4. QED BY <2>1, <2>3 DEF Begun
<1>2. QED BY <1>1

LEMMA LoopCall ==
  ASSUME Typed, Moves, calls'[Loop] # None
  PROVE  \/ calls'[Loop] = calls[Loop]
         \/ /\ calls[Loop] # None /\ calls'[Loop].op = calls[Loop].op /\ calls'[Loop].id = calls[Loop].id
            /\ calls'[Loop].data = calls[Loop].data
            /\ calls'[Loop].phase = "answered" => Answers(calls[Loop], calls'[Loop].reply)
         \/ Sent(calls'[Loop], Loop)
<1>1. CallMoves(Loop) /\ Loop[2] = 0 /\ Loop \in Slots
  BY SlotFacts DEF Moves, CallsMove, Loop
<1>2. calls[Loop] # None => calls[Loop] \in HttpCall
  BY <1>1 DEF Typed, CallsTyped
<1>3. CASE calls[Loop] # None /\ \E p, r : /\ Progress(calls[Loop], Loop, p, r)
                                           /\ calls'[Loop] = [calls[Loop] EXCEPT !.phase = p, !.reply = r]
  <2>1. PICK p, r : /\ Progress(calls[Loop], Loop, p, r)
                    /\ calls'[Loop] = [calls[Loop] EXCEPT !.phase = p, !.reply = r]
    BY <1>3
  <2>2. /\ calls'[Loop].op = calls[Loop].op /\ calls'[Loop].id = calls[Loop].id
        /\ calls'[Loop].data = calls[Loop].data /\ calls'[Loop].reply = r /\ calls'[Loop].phase = p
    BY <1>2, <1>3, <2>1 DEF HttpCall
  <2>3. QED BY <1>3, <2>1, <2>2 DEF Progress
<1>4. QED BY <1>1, <1>3 DEF CallMoves

LEMMA HandedStays ==
  ASSUME Typed, Handed, Moves
  PROVE  Handed'
<1>1. Begun \subseteq Begun' /\ Jobs' = Jobs
  BY BegunStays DEF Moves, Jobs
<1>2. ASSUME active' # None, active'.acknowledged PROVE active'.id \in Begun'
  <2>1. CASE active # None /\ Continues(active, active')
    BY <1>1, <1>2, <2>1 DEF Continues, Handed
  <2>2. CASE Answered(Loop) /\ Takes(calls[Loop].reply, active')
    BY <1>1, <1>2, <2>2 DEF Takes, Handed
  <2>3. QED BY <1>2, <2>1, <2>2 DEF Moves, ActiveMoves
<1>3. \A k \in DOMAIN inbox' : inbox'[k].who \in Begun' \cup {Local}
  BY <1>1, Zenon DEF Moves, PromptsMove, Handed
<1>4. \A i \in Jobs : prompted'[i] > 0 => i \in Begun'
  <2>1. ASSUME NEW i \in Jobs, prompted'[i] > 0 PROVE i \in Begun'
    <3>1. CASE prompted[i] > 0
      BY <1>1, <3>1 DEF Handed
    <3>2. CASE \E j \in DOMAIN inbox : inbox[j].who = i
      <4>1. i \in Begun \cup {Local}
        BY <3>2 DEF Handed
      <4>2. QED BY <1>1, <4>1, LocalAssumption DEF Jobs
    <3>3. QED BY <2>1, <3>1, <3>2 DEF Moves, PromptsMove
  <2>2. QED BY <2>1
<1>5. ASSUME calls'[Loop] # None, calls'[Loop].op = "ack"
      PROVE  /\ active' # None => active'.id = calls'[Loop].id
             /\ calls'[Loop].phase = "answered" /\ calls'[Loop].reply = Ok => calls'[Loop].id \in Begun'
  <2>1. CASE Sent(calls'[Loop], Loop)
    <3>1. calls'[Loop].id \in Jobs /\ calls'[Loop].phase = "sent"
      BY <1>5, <2>1 DEF Sent, CallFits
    <3>2. QED BY <1>5, <2>1, <3>1 DEF Sent
  <2>2. CASE ~Sent(calls'[Loop], Loop)
    <3>1. calls[Loop] # None /\ calls[Loop].op = "ack" /\ calls[Loop].id = calls'[Loop].id
      BY <1>5, <2>2, LoopCall
    <3>2. active' # None => active # None /\ active'.id = active.id
      <4>1. ~Answered(Loop)
        BY <3>1 DEF Handed
      <4>2. QED BY <4>1 DEF Moves, ActiveMoves, Continues
    <3>3. calls'[Loop].phase = "answered" /\ calls'[Loop].reply = Ok => calls[Loop].id \in Begun'
      BY <1>1, <1>5, <2>2, <3>1, LoopCall DEF Handed, Answers
    <3>4. QED BY <3>1, <3>2, <3>3 DEF Handed
  <2>3. QED BY <2>1, <2>2
<1>6. ASSUME Answered(Loop)'
      PROVE  /\ calls'[Loop].op = "poll"
             /\ calls'[Loop].reply.kind = "resume" => calls'[Loop].reply.id \in Begun'
  <2>1. CASE Answered(Loop) /\ calls'[Loop] = calls[Loop]
    BY <1>1, <2>1 DEF Handed
  <2>2. CASE /\ calls[Loop] # None /\ Answers(calls[Loop], calls'[Loop].reply) /\ calls[Loop] \in HttpCall
             /\ calls'[Loop] = [calls[Loop] EXCEPT !.phase = "answered", !.reply = calls'[Loop].reply]
    <3>1. calls'[Loop].op = calls[Loop].op
      BY <2>2 DEF HttpCall
    <3>2. calls'[Loop].reply.kind \in {"job", "resume"}
      BY <1>6 DEF Answered
    <3>3. QED BY <2>2, <3>1, <3>2 DEF Answers
  <2>3. CallMoves(Loop) /\ Loop \in Slots
    BY SlotFacts DEF Moves, CallsMove
  <2>4. QED BY <1>6, <2>1, <2>2, <2>3, AnswerClaims
<1>7. Loop' = Loop
  BY DEF Loop
<1>8. QED BY <1>1, <1>2, <1>3, <1>4, <1>5, <1>6, <1>7 DEF Handed

LEMMA ReadyStays ==
  ASSUME Typed, Handed, Ready, Moves
  PROVE  Ready'
<1>1. ASSUME calls'[Loop] # None, calls'[Loop].op = "poll", calls'[Loop].data PROVE active' = None
  <2>1. CASE Sent(calls'[Loop], Loop)
    BY <1>1, <2>1 DEF Sent
  <2>2. CASE ~Sent(calls'[Loop], Loop)
    <3>1. calls[Loop] # None /\ calls[Loop].op = "poll" /\ calls[Loop].data
      BY <1>1, <2>2, LoopCall
    <3>2. active = None
      BY <3>1 DEF Ready
    <3>3. QED BY <1>1, <3>2 DEF Moves, ActiveMoves
  <2>3. QED BY <2>1, <2>2
<1>2. ASSUME Answered(Loop)', calls'[Loop].reply.kind = "job" PROVE calls'[Loop].data
  <2>1. CallMoves(Loop) /\ Loop \in Slots
    BY SlotFacts DEF Moves, CallsMove
  <2>2. CASE /\ calls[Loop] # None /\ Answers(calls[Loop], calls'[Loop].reply) /\ calls[Loop] \in HttpCall
             /\ calls'[Loop] = [calls[Loop] EXCEPT !.phase = "answered", !.reply = calls'[Loop].reply]
    <3>1. calls'[Loop].data = calls[Loop].data
      BY <2>2 DEF HttpCall
    <3>2. QED BY <1>2, <2>2, <3>1 DEF Answers
  <2>3. QED BY <1>2, <2>1, <2>2, AnswerClaims DEF Ready
<1>3. Loop' = Loop
  BY DEF Loop
<1>4. QED BY <1>1, <1>2, <1>3 DEF Ready

-----------------------------------------------------------------------------
(* What the methods of the store do to it.                                 *)

LEMMA StoreFacts ==
  ASSUME Typed, Claimed
  PROVE  /\ sequence \in Nat /\ leaseCount \in Nat /\ now \in Nat
         /\ Store!Ids = 1..sequence /\ 1..sequence \subseteq Jobs
         /\ \A i \in 1..sequence : jobs[i] \in Job /\ jobs[i].leaseId \in 0..leaseCount
         /\ \A i \in 1..sequence : jobs[i].leaseId # 0 <=> jobs[i].status \in Store!Active
<1>1. ASSUME NEW i \in 1..sequence PROVE jobs[i].leaseId \in 0..leaseCount
  <2>1. Claim(i, jobs[i].leaseId)
    BY DEF Claim
  <2>2. QED BY <2>1 DEF Claimed
<1>2. QED BY <1>1, BoundsAssumption DEF Typed, StoreTyped, Store!Ids, Jobs

LEMMA NoMove ==
  ASSUME Typed, Claimed, UNCHANGED store
  PROVE  StoreMoves /\ Calm /\ Steady
<1>1. StoreTyped'
  BY DEF store, Typed, StoreTyped, Job, Store!Statuses, Store!Terminal, Store!Active
<1>2. QED BY <1>1, StoreFacts DEF store, StoreMoves, JobMoves, Calm, Steady

LEMMA OneMove ==
  ASSUME Typed, Claimed, NEW i \in 1..sequence, NEW job \in Job,
         jobs' = [jobs EXCEPT ![i] = job],
         UNCHANGED <<sequence, now>>, leaseCount' \in {leaseCount, leaseCount + 1},
         JobMoves(jobs[i], job), job.leaseId \in 0..leaseCount',
         job.leaseId # 0 <=> job.status \in Store!Active
  PROVE  /\ StoreMoves
         /\ job.status \notin Store!Active => Calm
         /\ job.status # "queued" => Steady
<1>1. \A j \in 1..sequence : jobs'[j] = IF j = i THEN job ELSE jobs[j]
  BY DEF Typed, StoreTyped
<1>2. jobs' \in [1..sequence' -> Job]
  BY DEF Typed, StoreTyped
<1>3. StoreTyped'
  BY <1>1, <1>2, StoreFacts DEF Typed, StoreTyped, Job, Store!Statuses, Store!Terminal, Store!Active
<1>4. \A j \in 1..sequence : JobMoves(jobs[j], jobs'[j])
  BY <1>1 DEF JobMoves
<1>5. \A j \in 1..sequence' : jobs'[j].leaseId <= leaseCount' /\ (j # i => jobs'[j].leaseId <= leaseCount)
  BY <1>1, StoreFacts
<1>6. /\ job.status \notin Store!Active => Calm
      /\ job.status # "queued" => Steady
  BY <1>1 DEF Calm, Steady
<1>7. QED BY <1>3, <1>4, <1>5, <1>6, StoreFacts DEF StoreMoves

LEMMA LeasedJob ==
  ASSUME NEW job \in Job, NEW lease \in Nat, now \in Nat
  PROVE  /\ Store!AsLeased(job, lease) \in Job
         /\ Store!AsLeased(job, lease).status = "leased" /\ Store!AsLeased(job, lease).leaseId = lease
BY DEF Store!AsLeased, Job, Store!Statuses, Store!Active

LEMMA Leasing ==
  ASSUME Typed, Claimed, Store!LeaseNext(Alias)
  PROVE  /\ StoreMoves /\ Steady
         /\ Min(Store!Queued(Alias)) \in 1..sequence
         /\ jobs'[Min(Store!Queued(Alias))].leaseId = leaseCount'
         /\ leaseCount' \in Leases
<1>1. PICK i \in Store!Queued(Alias) : /\ Store!IsOldest(i, Store!Queued(Alias))
                                       /\ jobs' = [jobs EXCEPT ![i] = Store!AsLeased(@, leaseCount')]
  BY DEF Store!LeaseNext
<1>2. i \in 1..sequence /\ jobs[i].status = "queued" /\ Store!Queued(Alias) \subseteq 1..sequence
  BY <1>1, StoreFacts DEF Store!Queued
<1>3. \A j \in Store!Queued(Alias) : i <= j
  BY <1>1 DEF Store!IsOldest
<1>4. Min(Store!Queued(Alias)) = i
  BY <1>1, <1>2, <1>3, StoreFacts DEF Min
<1>5. leaseCount' = leaseCount + 1 /\ UNCHANGED <<sequence, now>>
  BY DEF Store!LeaseNext
<1>6. /\ Store!AsLeased(jobs[i], leaseCount') \in Job
      /\ Store!AsLeased(jobs[i], leaseCount').status = "leased"
      /\ Store!AsLeased(jobs[i], leaseCount').leaseId = leaseCount'
  <2>1. jobs[i] \in Job /\ leaseCount' \in Nat /\ now \in Nat
    BY <1>2, <1>5, StoreFacts
  <2>2. QED BY <2>1, LeasedJob, Zenon
<1>7. StoreMoves /\ Steady
  <2> DEFINE job == Store!AsLeased(jobs[i], leaseCount')
  <2>1. jobs' = [jobs EXCEPT ![i] = job]
    BY <1>1
  <2>2. job \in Job /\ job.status = "leased" /\ job.leaseId = leaseCount'
    BY <1>6
  <2> HIDE DEF job
  <2>3. JobMoves(jobs[i], job)
    BY <1>2, <1>5, <2>2 DEF JobMoves
  <2>4. job.leaseId \in 0..leaseCount' /\ (job.leaseId # 0 <=> job.status \in Store!Active)
    BY <1>5, <2>2, StoreFacts DEF Store!Active
  <2>5. QED BY <1>2, <1>5, <2>1, <2>2, <2>3, <2>4, OneMove
<1>8. jobs'[i].leaseId = leaseCount'
  BY <1>1, <1>2, <1>6 DEF Typed, StoreTyped
<1>9. QED BY <1>2, <1>4, <1>5, <1>7, <1>8, StoreFacts DEF Leases

LEMMA Acknowledging ==
  ASSUME Typed, Claimed, NEW i, NEW l, Store!Acknowledge(i, l)
  PROVE  StoreMoves /\ Steady /\ i \in Begun'
<1> DEFINE job == [jobs[i] EXCEPT !.status = "running", !.updatedAt = now]
<1>1. i \in 1..sequence /\ jobs[i].status = "leased"
  BY StoreFacts DEF Store!Acknowledge
<1>2. jobs' = [jobs EXCEPT ![i] = job] /\ UNCHANGED <<sequence, leaseCount, now>>
  BY DEF Store!Acknowledge
<1>3. job \in Job /\ job.status = "running" /\ job.leaseId = jobs[i].leaseId
  <2>1. jobs[i] \in Job /\ now \in Nat
    BY <1>1, StoreFacts
  <2>2. QED BY <2>1 DEF Job, Store!Statuses, Store!Active
<1> HIDE DEF job
<1>4. JobMoves(jobs[i], job)
  BY <1>1, <1>3 DEF JobMoves
<1>5. job.leaseId \in 0..leaseCount' /\ (job.leaseId # 0 <=> job.status \in Store!Active)
  BY <1>1, <1>2, <1>3, StoreFacts DEF Store!Active
<1>6. StoreMoves /\ Steady
  BY <1>1, <1>2, <1>3, <1>4, <1>5, OneMove
<1>7. jobs'[i].status = "running" /\ i \in 1..sequence'
  BY <1>1, <1>2, <1>3 DEF Typed, StoreTyped
<1>8. QED BY <1>6, <1>7 DEF Begun

LEMMA Requeueing ==
  ASSUME Typed, Claimed, NEW i, NEW l, Store!RequeueLease(i, l)
  PROVE  StoreMoves /\ Calm
<1> DEFINE job == Store!AsQueued(jobs[i])
<1>1. i \in 1..sequence /\ jobs[i].status = "leased"
  BY StoreFacts DEF Store!RequeueLease
<1>2. jobs' = [jobs EXCEPT ![i] = job] /\ UNCHANGED <<sequence, leaseCount, now>>
  BY DEF Store!RequeueLease
<1>3. job \in Job /\ job.status = "queued" /\ job.leaseId = 0
  BY <1>1, StoreFacts DEF Job, Store!Statuses, Store!AsQueued
<1> HIDE DEF job
<1>4. JobMoves(jobs[i], job)
  BY <1>1, <1>3 DEF JobMoves
<1>5. job.leaseId \in 0..leaseCount' /\ (job.leaseId # 0 <=> job.status \in Store!Active)
  BY <1>2, <1>3, StoreFacts DEF Store!Active
<1>6. job.status \notin Store!Active
  BY <1>3 DEF Store!Active
<1>7. QED BY <1>1, <1>2, <1>3, <1>4, <1>5, <1>6, OneMove

\* A settled job, however it was.
LEMMA SettledJob ==
  ASSUME NEW job \in Job, NEW status \in Store!Terminal, now \in Nat
  PROVE  /\ Store!Settled(job, status) \in Job
         /\ Store!Settled(job, status).status = status /\ Store!Settled(job, status).leaseId = 0
BY DEF Store!Settled, Job, Store!Statuses, Store!Terminal

LEMMA Settling ==
  ASSUME Typed, Claimed, NEW i \in 1..sequence, NEW job \in Job,
         jobs[i].status \notin Store!Terminal, job.status \in Store!Terminal, job.leaseId = 0,
         jobs' = [jobs EXCEPT ![i] = job], UNCHANGED <<sequence, leaseCount, now>>
  PROVE  StoreMoves /\ Calm /\ Steady
<1>1. JobMoves(jobs[i], job)
  BY DEF JobMoves
<1>2. job.leaseId \in 0..leaseCount' /\ (job.leaseId # 0 <=> job.status \in Store!Active)
  BY StoreFacts DEF Store!Active, Store!Terminal
<1>3. job.status \notin Store!Active /\ job.status # "queued"
  BY DEF Store!Active, Store!Terminal
<1>4. QED BY <1>1, <1>2, <1>3, OneMove

LEMMA Completing ==
  ASSUME Typed, Claimed, NEW i, NEW l, NEW text \in Authors \cup {Nothing}, NEW cut \in BOOLEAN,
         Store!Complete(i, l, text, cut)
  PROVE  StoreMoves /\ Calm /\ Steady
<1> DEFINE settled == Store!Settled(jobs[i], "completed")
           job == [settled EXCEPT !.resultText = text, !.interrupted = cut]
<1>1. i \in 1..sequence /\ jobs[i].status \notin Store!Terminal
  BY StoreFacts DEF Store!Complete, Store!Terminal
<1>2. jobs' = [jobs EXCEPT ![i] = job] /\ UNCHANGED <<sequence, leaseCount, now>>
  BY DEF Store!Complete, Store!AsCompleted
<1>3. settled \in Job /\ settled.status = "completed" /\ settled.leaseId = 0
  BY <1>1, StoreFacts, SettledJob DEF Store!Terminal
<1> HIDE DEF settled
<1>4. job \in Job /\ job.status \in Store!Terminal /\ job.leaseId = 0
  BY <1>3 DEF Job, Store!Terminal
<1> HIDE DEF job
<1>5. QED BY <1>1, <1>2, <1>4, Settling

LEMMA Failed ==
  ASSUME NEW job \in Job, NEW code \in Codes, now \in Nat
  PROVE  /\ Store!AsFailed(job, code) \in Job
         /\ Store!AsFailed(job, code).status = "failed" /\ Store!AsFailed(job, code).leaseId = 0
<1> DEFINE settled == Store!Settled(job, "failed")
<1>1. settled \in Job /\ settled.status = "failed" /\ settled.leaseId = 0
  BY SettledJob DEF Store!Terminal
<1>2. Store!AsFailed(job, code) = [settled EXCEPT !.errorCode = code]
  BY DEF Store!AsFailed
<1> HIDE DEF settled
<1>3. QED BY <1>1, <1>2 DEF Job

LEMMA Failing ==
  ASSUME Typed, Claimed, NEW i, NEW l, NEW code \in Codes, Store!Fail(i, code, l)
  PROVE  StoreMoves /\ Calm /\ Steady
<1> DEFINE job == Store!AsFailed(jobs[i], code)
<1>1. i \in 1..sequence /\ jobs[i].status \notin Store!Terminal
  BY StoreFacts DEF Store!Fail
<1>2. jobs' = [jobs EXCEPT ![i] = job] /\ UNCHANGED <<sequence, leaseCount, now>>
  BY DEF Store!Fail
<1>3. job \in Job /\ job.status \in Store!Terminal /\ job.leaseId = 0
  BY <1>1, StoreFacts, Failed DEF Store!Terminal
<1> HIDE DEF job
<1>4. QED BY <1>1, <1>2, <1>3, Settling

LEMMA Cancelling ==
  ASSUME Typed, Claimed, NEW i, Store!Cancel(i)
  PROVE  StoreMoves /\ Calm /\ Steady
<1> DEFINE job == Store!AsCancelled(jobs[i])
<1>1. i \in 1..sequence /\ jobs[i].status \notin Store!Terminal
  BY StoreFacts DEF Store!Cancel
<1>2. jobs' = [jobs EXCEPT ![i] = job] /\ UNCHANGED <<sequence, leaseCount, now>>
  BY DEF Store!Cancel
<1>3. job \in Job /\ job.status \in Store!Terminal /\ job.leaseId = 0
  BY <1>1, StoreFacts, SettledJob DEF Store!Terminal, Store!AsCancelled
<1> HIDE DEF job
<1>4. QED BY <1>1, <1>2, <1>3, Settling

LEMMA Submitting ==
  ASSUME Typed, Claimed, NEW r \in Requests, NEW x \in Inputs, Store!Submit(r, Alias, x)
  PROVE  StoreMoves /\ Calm /\ Steady
<1> DEFINE job == Store!NewJob(r, Alias, x)
<1>1. /\ sequence < MaxSequence /\ sequence' = sequence + 1 /\ UNCHANGED <<leaseCount, now>>
      /\ jobs' = [i \in Store!Ids \cup {sequence'} |-> IF i = sequence' THEN job ELSE jobs[i]]
  BY DEF Store!Submit
<1>2. job \in Job /\ job.status = "queued" /\ job.leaseId = 0
  BY StoreFacts DEF Store!NewJob, Job, Store!Statuses
<1> HIDE DEF job
<1>3. Store!Ids \cup {sequence'} = 1..sequence' /\ sequence' \notin 1..sequence
  BY <1>1, StoreFacts
<1>4. jobs' \in [1..sequence' -> Job]
  BY <1>1, <1>2, <1>3, StoreFacts
<1>5. /\ \A i \in 1..sequence : jobs'[i] = jobs[i] /\ i \in 1..sequence'
      /\ \A i \in 1..sequence' : i \in 1..sequence \/ jobs'[i] = job
  BY <1>1, <1>3, StoreFacts
<1>6. StoreTyped'
  BY <1>1, <1>2, <1>4, <1>5, StoreFacts, BoundsAssumption
  DEF StoreTyped, Store!Active
<1>7. QED BY <1>1, <1>2, <1>5, <1>6, StoreFacts DEF StoreMoves, JobMoves, Calm, Steady

(* A set of natural numbers has a least one, its Min.                      *)
LEMMA MinExists ==
  ASSUME NEW S \in SUBSET Nat, S # {}
  PROVE  Min(S) \in S /\ \A k \in S : Min(S) <= k
<1> DEFINE R == {pair \in Nat \X Nat : pair[1] < pair[2]}
<1>1. IsWellFoundedOn(R, Nat)
  BY NatLessThanWellFounded, Zenon DEF OpToRel
<1>2. \A k, m \in Nat : k < m => <<k, m>> \in R
  OBVIOUS
<1> HIDE DEF R
<1>3. PICK m \in S : \A k \in S : ~(<<k, m>> \in R)
  BY <1>1, WFMin
<1>4. \A k \in S : ~(k < m)
  BY <1>2, <1>3
<1>5. \A k \in S : m <= k
  BY <1>4
<1>6. QED BY <1>5 DEF Min

LEMMA QueuedJob ==
  ASSUME NEW job \in Job, now \in Nat
  PROVE  /\ Store!AsQueued(job) \in Job
         /\ Store!AsQueued(job).status = "queued" /\ Store!AsQueued(job).leaseId = 0
BY DEF Store!AsQueued, Job, Store!Statuses

LEMMA Stopping ==
  ASSUME Typed, Claimed, MarkStopped
  PROVE  /\ StoreMoves /\ Calm
         /\ (\A i, j \in 1..sequence : jobs[i].status = "running" /\ jobs[j].status = "running" => i = j)
              => \A i \in 1..sequence' : jobs'[i].status # "running"
<1> DEFINE first == Min(Running)
           next(i) == IF i \in Store!Leased(Alias) THEN Store!AsQueued(jobs[i])
                      ELSE IF Running # {} /\ i = first THEN Store!AsFailed(jobs[i], "session-ended")
                      ELSE jobs[i]
<1>1. Running \subseteq 1..sequence /\ \A i \in Running : jobs[i].status = "running"
  BY StoreFacts DEF Running, Store!ActiveOf
<1>2. /\ Store!Leased(Alias) \subseteq 1..sequence
      /\ \A i \in Store!Leased(Alias) : jobs[i].status = "leased"
  BY StoreFacts DEF Store!Leased
<1>3. Running # {} => first \in Running
  <2>1. Running \in SUBSET Nat
    BY <1>1, StoreFacts
  <2>2. QED BY <2>1, MinExists
<1> HIDE DEF first
<1>4. jobs' = [i \in 1..sequence |-> next(i)] /\ UNCHANGED <<sequence, leaseCount, now>>
  <2> DEFINE requeued == [i \in Store!Ids |-> IF i \in Store!Leased(Alias) THEN Store!AsQueued(jobs[i]) ELSE jobs[i]]
  <2>1. Store!Ids = 1..sequence /\ UNCHANGED <<sequence, leaseCount, now>>
    BY StoreFacts DEF MarkStopped
  <2>2. jobs' = IF Running = {} THEN requeued
                ELSE [requeued EXCEPT ![first] = Store!AsFailed(@, "session-ended")]
    BY DEF MarkStopped, Store!Updated, first
  <2>3. Running # {} => first \in 1..sequence /\ first \notin Store!Leased(Alias)
    BY <1>1, <1>2, <1>3
  <2>4. QED BY <2>1, <2>2, <2>3
<1>5. ASSUME NEW i \in 1..sequence
      PROVE  next(i) \in Job /\ next(i).leaseId \in 0..leaseCount /\ JobMoves(jobs[i], next(i))
             /\ (next(i).leaseId # 0 <=> next(i).status \in Store!Active)
             /\ (next(i) = jobs[i] \/ next(i).status \notin Store!Active)
             /\ (next(i).status = "running" => i \in Running /\ i # first)
  <2>1. jobs[i] \in Job /\ now \in Nat /\ leaseCount \in Nat /\ jobs[i].leaseId \in 0..leaseCount
        /\ (jobs[i].leaseId # 0 <=> jobs[i].status \in Store!Active)
    BY StoreFacts
  <2>2. CASE i \in Store!Leased(Alias)
    <3>1. /\ next(i) \in Job /\ next(i).status = "queued" /\ next(i).leaseId = 0
          /\ jobs[i].status = "leased"
      BY <1>2, <2>1, <2>2, QueuedJob
    <3> HIDE DEF next
    <3>2. QED BY <2>1, <3>1 DEF JobMoves, Store!Active
  <2>3. CASE i \notin Store!Leased(Alias) /\ Running # {} /\ i = first
    <3>1. /\ next(i) \in Job /\ next(i).status = "failed" /\ next(i).leaseId = 0
          /\ jobs[i].status = "running"
      <4>1. "session-ended" \in Codes
        BY DEF Codes
      <4>2. QED BY <1>1, <1>3, <2>1, <2>3, <4>1, Failed
    <3> HIDE DEF next
    <3>2. QED BY <2>1, <3>1 DEF JobMoves, Store!Active, Store!Terminal
  <2>4. CASE i \notin Store!Leased(Alias) /\ ~(Running # {} /\ i = first)
    <3>1. next(i) = jobs[i]
      BY <2>4
    <3>2. next(i).status = "running" => i \in Running
      BY <2>1, <3>1, StoreFacts DEF Running, Store!ActiveOf, Store!Active, Job
    <3>3. i \in Running => i # first
      BY <2>4
    <3> HIDE DEF next
    <3>4. QED BY <2>1, <3>1, <3>2, <3>3 DEF JobMoves
  <2>5. QED BY <2>2, <2>3, <2>4
<1> HIDE DEF next
<1>6. \A i \in 1..sequence : jobs'[i] = next(i)
  BY <1>4
<1>7. StoreTyped'
  BY <1>4, <1>5, <1>6 DEF Typed, StoreTyped, Store!Active
<1>8. ASSUME \A i, j \in 1..sequence : jobs[i].status = "running" /\ jobs[j].status = "running" => i = j,
             NEW k \in 1..sequence', jobs'[k].status = "running"
      PROVE  FALSE
  <2>1. k \in 1..sequence /\ k \in Running /\ k # first
    BY <1>4, <1>5, <1>6, <1>8
  <2>2. first \in Running
    BY <1>3, <2>1
  <2>3. QED BY <1>1, <1>8, <2>1, <2>2
<1>9. QED BY <1>4, <1>5, <1>6, <1>7, <1>8, StoreFacts DEF StoreMoves, Calm

LEMMA CallsTypedStay ==
  ASSUME Typed, CallsMove
  PROVE  CallsTyped'
<1>1. ASSUME NEW s \in Slots, calls'[s] # None
      PROVE  calls'[s] \in HttpCall /\ CallFits(calls'[s], s)
  <2>1. \A t \in Slots : calls[t] # None => calls[t] \in HttpCall /\ CallFits(calls[t], t)
    BY DEF Typed, CallsTyped
  <2>2. CASE calls'[s] = calls[s]
    BY <1>1, <2>1, <2>2
  <2>3. CASE calls[s] # None /\ \E p, r : /\ Progress(calls[s], s, p, r)
                                          /\ calls'[s] = [calls[s] EXCEPT !.phase = p, !.reply = r]
    <3>1. PICK p, r : /\ Progress(calls[s], s, p, r)
                      /\ calls'[s] = [calls[s] EXCEPT !.phase = p, !.reply = r]
      BY <2>3
    <3>2. calls[s] \in HttpCall /\ CallFits(calls[s], s)
      BY <2>1, <2>3
    <3>3. p \in {"waiting", "woken", "answered"} /\ r \in Reply \cup {None}
      BY <3>1 DEF Progress, Answers
    <3>4. calls'[s] \in HttpCall
      BY <3>1, <3>2, <3>3 DEF HttpCall
    <3>5. /\ calls'[s].phase = p /\ calls'[s].reply = r
          /\ calls'[s].op = calls[s].op /\ calls'[s].data = calls[s].data
          /\ calls'[s].id = calls[s].id /\ calls'[s].lease = calls[s].lease
      BY <3>1, <3>2 DEF HttpCall
    <3>6. CallFits(calls'[s], s)
      BY <3>1, <3>2, <3>5 DEF CallFits, Progress, Answers
    <3>7. QED BY <3>4, <3>6
  <2>4. CASE /\ calls[<<s[1], 0>>] # None /\ calls[<<s[1], 0>>].phase # "answered"
             /\ calls'[s] = calls[<<s[1], 0>>]
    <3>1. CallFits(calls[<<s[1], 0>>], <<s[1], 0>>) /\ calls[<<s[1], 0>>] \in HttpCall
      BY <2>1, <2>4, SlotFacts
    <3>2. QED BY <2>4, <3>1 DEF CallFits
  <2>5. CASE Sent(calls'[s], s)
    BY <2>5 DEF Sent
  <2>6. QED BY <1>1, <2>2, <2>3, <2>4, <2>5 DEF CallsMove, CallMoves
<1>2. calls' \in [Slots -> HttpCall \cup {None}]
  BY <1>1 DEF CallsMove
<1>3. Slots' = Slots
  BY DEF Slots
<1>4. \A s \in Slots : (calls[s] # None => CallFits(calls[s], s))'
  BY <1>1 DEF CallFits, Outcomes, Reply, Control, Authors, Jobs, Leases, Codes, Ok, Idle, Conflict, TooLarge, Failure
<1>5. QED BY <1>2, <1>3, <1>4 DEF CallsTyped, HttpCall, Outcomes, Reply, Control, Authors, Jobs, Leases, Codes, Ok, Idle, Conflict, TooLarge, Failure

-----------------------------------------------------------------------------
(* What the extension makes of its job.                                    *)

Harvests ==
  {h \in [status : {"pending", "error", "interrupted", "done"}, text : Authors \cup {None},
          interrupted : BOOLEAN] : h.status = "pending" \/ h.text \in Authors}

LEMMA SegmentTypes ==
  ASSUME NEW segment \in Segment \cup {None}
  PROVE  /\ H!SegmentHasUser(segment) \in BOOLEAN /\ H!SegmentResult(segment) \in Harvests
         /\ H!WithUser(segment) \in Segment \cup {None}
         /\ H!Marked \in Segment
         /\ \A who \in Authors \cup {None}, stop \in {"stop", "error", "aborted"} :
              H!WithAnswer(segment, who, stop) \in Segment \cup {None}
<1>1. H!SegmentHasUser(segment) \in BOOLEAN
  BY DEF H!SegmentHasUser, Segment
<1>2. H!SegmentResult(segment) \in Harvests
  BY DEF H!SegmentHasUser, H!SegmentResult, H!Harvested, H!Pending, Segment, Harvests
<1>3. H!WithUser(segment) \in Segment \cup {None} /\ H!Marked \in Segment
  BY DEF H!WithUser, H!Marked, Segment
<1>4. \A who \in Authors \cup {None}, stop \in {"stop", "error", "aborted"} :
        H!WithAnswer(segment, who, stop) \in Segment \cup {None}
  BY DEF H!WithAnswer, Segment
<1>5. QED BY <1>1, <1>2, <1>3, <1>4

LEMMA SegmentsTypes ==
  ASSUME Typed
  PROVE  /\ \A i \in Jobs : HarvestResult(i) \in Harvests /\ HasUserAfterMarker(i) \in BOOLEAN
         /\ \A i \in Jobs : Marking(i) \in [Jobs -> Segment \cup {None}]
         /\ \A segs \in AnsweredSoFar : Recording(segs) \in [Jobs -> Segment \cup {None}]
         /\ AnsweredAtLast \subseteq [Jobs -> Segment \cup {None}]
<1>1. \A i \in Jobs : segments[i] \in Segment \cup {None}
  BY DEF Typed, AgentTyped
<1>2. \A i \in Jobs : HarvestResult(i) \in Harvests /\ HasUserAfterMarker(i) \in BOOLEAN
  BY <1>1, SegmentTypes DEF HarvestResult, HasUserAfterMarker
<1>3. \A i \in Jobs : Marking(i) \in [Jobs -> Segment \cup {None}]
  BY <1>1, SegmentTypes DEF Marking, Typed, AgentTyped
<1>4. \A stop \in {"stop", "error", "aborted"} : Answering(turn, stop) \in [Jobs -> Segment \cup {None}]
  BY <1>1, SegmentTypes DEF Answering, Typed, AgentTyped
<1>5. ASSUME NEW segs \in [Jobs -> Segment \cup {None}]
      PROVE  Recording(segs) \in [Jobs -> Segment \cup {None}]
  BY <1>5, SegmentTypes DEF Recording
<1>6. \A segs \in AnsweredSoFar : segs \in [Jobs -> Segment \cup {None}]
  BY <1>4 DEF AnsweredSoFar, Typed, AgentTyped
<1>7. AnsweredAtLast \subseteq [Jobs -> Segment \cup {None}]
  BY <1>4 DEF AnsweredAtLast, Typed, AgentTyped
<1>8. QED BY <1>2, <1>3, <1>5, <1>6, <1>7

\* What is posted for a job is its outcome.
Flagged(job) == job.posting # "no" => job.terminal # None

\* The job is the same one, whatever has become of it.
Same(old, new) ==
  /\ new \in ActiveJob /\ new.id = old.id /\ new.lease = old.lease
  /\ new.acknowledged = old.acknowledged
  /\ Flagged(old) => Flagged(new)

LEMMA SameJob ==
  ASSUME NEW job \in ActiveJob
  PROVE  /\ Same(job, job)
         /\ \A code \in Codes : Same(job, FailWith(job, code))
         /\ \A h \in Harvests : Same(job, Finish(job, h))
         /\ Same(job, Dispatched(job)) /\ Same(job, Aborted(job))
         /\ \A b \in BOOLEAN : Same(job, [job EXCEPT !.sent = b])
         /\ Same(job, [job EXCEPT !.interrupted = TRUE])
         /\ Same(job, [job EXCEPT !.dispatched = "overdue"])
         /\ Same(job, [job EXCEPT !.observed = TRUE])
         /\ Same(job, [job EXCEPT !.sent = TRUE, !.observed = FALSE])
         /\ \A n \in Nat : Same(job, [job EXCEPT !.attempts = n])
         /\ \A n \in Nat : Same(job, [job EXCEPT !.attempts = n, !.posting = "no"])
         /\ \A activity \in {"loop", "event"} : Same(job, PostedFrom(activity, job))
         /\ Same(job, [FailWith(job, "result-too-large") EXCEPT !.posting = "no"])
<1>7. \A outcome \in Outcomes : outcome # None
  BY NoneAssumption DEF Outcomes, Jobs, Authors
<1>8. ASSUME NEW outcome \in Outcomes PROVE Same(job, [job EXCEPT !.terminal = outcome])
  BY <1>7 DEF Same, ActiveJob, Flagged
<1> USE DEF Same, ActiveJob, Flagged
<1>1. \A code \in Codes : Same(job, FailWith(job, code))
  <2>1. \A code \in Codes : FailOf(code) \in Outcomes
    BY DEF FailOf, Outcomes
  <2>2. QED BY <1>8, <2>1 DEF FailWith
<1>2. ASSUME NEW h \in Harvests PROVE Same(job, Finish(job, h))
  <2>1. "assistant-error" \in Codes
    BY DEF Codes
  <2>2. h.status # "pending" => h.text \in Authors
    BY DEF Harvests
  <2>3. h.interrupted \in BOOLEAN
    BY DEF Harvests
  <2>4. CASE job.terminal = None /\ h.status = "pending" /\ job.interrupted
    <3>1. ResultOf(Nothing, TRUE) \in Outcomes
      BY DEF ResultOf, Outcomes
    <3>2. QED BY <1>8, <2>4, <3>1 DEF Finish
  <2>5. CASE job.terminal = None /\ h.status = "error"
    BY <1>1, <2>1, <2>5 DEF Finish
  <2>6. CASE job.terminal = None /\ h.status # "pending" /\ h.status # "error"
    <3>1. ResultOf(h.text, h.interrupted \/ job.interrupted) \in Outcomes
      BY <2>2, <2>3, <2>6 DEF ResultOf, Outcomes
    <3>2. QED BY <1>8, <2>6, <3>1 DEF Finish
  <2>7. QED BY <2>4, <2>5, <2>6 DEF Finish
<1>3. Same(job, Dispatched(job)) /\ Same(job, Aborted(job))
  <2>1. ResultOf(Nothing, TRUE) \in Outcomes
    BY DEF ResultOf, Outcomes
  <2>2. Same(job, Aborted(job))
    BY <1>8, <2>1 DEF Aborted
  <2>3. QED BY <2>2 DEF Dispatched
<1>4. \A activity \in {"loop", "event"} : Same(job, PostedFrom(activity, job))
  BY DEF PostedFrom, CanPost
<1>5. Same(job, [FailWith(job, "result-too-large") EXCEPT !.posting = "no"])
  <2> DEFINE failed == FailWith(job, "result-too-large")
  <2>1. Same(job, failed)
    BY <1>1 DEF Codes
  <2> HIDE DEF failed
  <2>2. Same(job, [failed EXCEPT !.posting = "no"])
    BY <2>1
  <2>3. QED BY <2>2 DEF failed
<1>6. /\ \A b \in BOOLEAN : Same(job, [job EXCEPT !.sent = b])
      /\ Same(job, [job EXCEPT !.interrupted = TRUE])
      /\ Same(job, [job EXCEPT !.dispatched = "overdue"])
      /\ Same(job, [job EXCEPT !.observed = TRUE])
      /\ Same(job, [job EXCEPT !.sent = TRUE, !.observed = FALSE])
  OBVIOUS
<1>9. \A n \in Nat : /\ Same(job, [job EXCEPT !.attempts = n])
                     /\ Same(job, [job EXCEPT !.attempts = n, !.posting = "no"])
  OBVIOUS
<1>10. Same(job, job)
  OBVIOUS
<1> HIDE DEF Same, ActiveJob, Flagged
<1>11. QED BY <1>1, <1>2, <1>3, <1>4, <1>5, <1>6, <1>9, <1>10

-----------------------------------------------------------------------------
(* The parts of a step.                                                    *)

Rest == AgentTyped /\ SessionTyped /\ WaiterWaits /\ EndedIsEmpty

LEMMA SameCalls ==
  ASSUME Typed, UNCHANGED calls
  PROVE  CallsMove
BY DEF Typed, CallsTyped, CallsMove, CallMoves

LEMMA OneCall ==
  ASSUME Typed, NEW slot \in Slots, NEW call, calls' = [calls EXCEPT ![slot] = call],
         calls'[slot] = call => CallMoves(slot)
  PROVE  CallsMove /\ calls'[slot] = call
<1>1. /\ \A s \in Slots : calls'[s] = IF s = slot THEN call ELSE calls[s]
      /\ calls' = [s \in Slots |-> calls'[s]]
  BY DEF Typed, CallsTyped
<1>2. \A s \in Slots : s # slot => CallMoves(s)
  BY <1>1 DEF CallMoves
<1>3. calls'[slot] = call
  BY <1>1
<1>4. QED BY <1>1, <1>2, <1>3 DEF CallsMove

LEMMA LoopDoneMoves ==
  ASSUME Typed, calls' = LoopDone
  PROVE  CallsMove /\ calls'[Loop] = None
BY OneCall, SlotFacts DEF LoopDone, CallMoves

LEMMA SentMoves ==
  ASSUME Typed, NEW slot \in {Loop, Event}, NEW op, NEW job, NEW data,
         calls' = Sending(slot, op, job, data),
         calls' = [calls EXCEPT ![slot] = Call(op, job, data)] => Sent(Call(op, job, data), slot)
  PROVE  CallsMove /\ calls'[slot] = Call(op, job, data)
<1>1. calls' = [calls EXCEPT ![slot] = Call(op, job, data)] /\ slot \in Slots
  BY SlotFacts DEF Sending
<1>2. calls'[slot] = Call(op, job, data) => CallMoves(slot)
  BY <1>1 DEF CallMoves
<1>3. QED BY <1>1, <1>2, OneCall

\* A report on a job that somebody knows, in slot.
LEMMA PostMoves ==
  ASSUME Typed, up, NEW slot \in {Loop, Event}, NEW job, job.id \in Jobs, job.lease \in Leases,
         Claim(job.id, job.lease), NEW data \in Outcomes,
         calls' = Sending(slot, data.op, job, data)
  PROVE  CallsMove /\ (calls'[slot] # None => calls'[slot].op \in {"result", "fail"})
<1> DEFINE call == Call(data.op, job, data)
<1>1. data.op \in {"result", "fail"} /\ starts \in Nat /\ Jobs \subseteq Nat
  BY DEF Outcomes, Typed, SessionTyped, Jobs
<1>2. call \in HttpCall /\ CallFits(call, slot)
  BY <1>1 DEF Call, HttpCall, CallFits, Leases
<1>3. /\ call.id = job.id /\ call.lease = job.lease /\ call.op = data.op
      /\ call.phase = "sent" /\ call.start = starts
  BY DEF Call
<1> HIDE DEF call
<1>4. Sent(call, slot)
  BY <1>1, <1>2, <1>3 DEF Sent
<1>5. CallsMove /\ calls'[slot] = call
  <2>1. PICK op : op = data.op
    OBVIOUS
  <2>2. calls' = Sending(slot, op, job, data) /\ call = Call(op, job, data)
    BY <2>1 DEF call
  <2>3. QED BY <1>4, <2>2, SentMoves
<1>6. QED BY <1>1, <1>3, <1>5

-----------------------------------------------------------------------------
(* The steps of the controller.                                            *)

LEMMA FaultTypes ==
  ASSUME Typed, NoFault \/ Fault
  PROVE  faults' \in 0..MaxFaults
BY BoundsAssumption DEF Typed, SessionTyped, NoFault, Fault

LEMMA SameActive ==
  ASSUME Typed, UNCHANGED active
  PROVE  ActiveMoves
BY DEF Typed, ActiveTyped, ActiveMoves, Continues, ActiveJob

LEMMA SameControl ==
  ASSUME Typed, StoreMoves, UNCHANGED <<control, controlCount>>
  PROVE  ControlTyped'
<1>1. sequence \in Nat /\ sequence' \in Nat /\ sequence <= sequence'
  BY DEF Typed, StoreTyped, StoreMoves
<1>2. control # None => control.id <= sequence'
  <2>1. control # None => control.id \in Nat /\ control.id <= sequence
    BY DEF Typed, SessionTyped, ControlTyped, Control
  <2>2. QED BY <1>1, <2>1
<1>3. QED BY <1>2 DEF Typed, SessionTyped, ControlTyped, Control

LEMMA ControllerMoves ==
  ASSUME Typed, StoreMoves, CallsMove, WaiterWaits', UNCHANGED <<agent, bridge>>,
         ControlTyped', live' \in BOOLEAN, faults' \in 0..MaxFaults,
         up' \in BOOLEAN, ~up' => ~up, starts' \in 1..MaxStarts
  PROVE  Moves /\ Rest'
<1>1. UNCHANGED <<segments, turn, streaming, inbox, typed, prompted, pc, handling, active, injecting>>
  BY DEF agent, bridge
<1>2. AgentTyped'
  BY <1>1 DEF Typed, AgentTyped, Jobs, Authors, Segment
<1>3. injecting \in 0..sequence'
  BY DEF Typed, SessionTyped, StoreTyped, StoreMoves
<1>4. SessionTyped'
  BY <1>1, <1>3 DEF Typed, SessionTyped
<1>5. EndedIsEmpty'
  BY <1>1 DEF Typed, EndedIsEmpty
<1>6. ActiveMoves
  BY <1>1, SameActive
<1>7. PromptsMove
  BY <1>1 DEF PromptsMove
<1>8. QED BY <1>2, <1>4, <1>5, <1>6, <1>7 DEF Moves, Rest

\* A step that leaves the session's record and controls alone.
LEMMA ControllerRuns ==
  ASSUME Typed, StoreMoves, CallsMove, WaiterWaits', UNCHANGED <<agent, bridge, process>>,
         NoFault \/ Fault, UNCHANGED server
  PROVE  Moves /\ Rest'
<1>1. /\ UNCHANGED <<agent, bridge>> /\ up' = up /\ starts' = starts /\ live' = live
      /\ UNCHANGED <<control, controlCount>>
  BY DEF process, server
<1>2. live \in BOOLEAN /\ up \in BOOLEAN /\ starts \in 1..MaxStarts
  BY DEF Typed, SessionTyped
<1>3. QED BY <1>1, <1>2, SameControl, FaultTypes, ControllerMoves

LEMMA ControllerServes ==
  ASSUME Typed, StoreMoves, CallsMove, WaiterWaits', ControllerStep, NoFault \/ Fault,
         UNCHANGED server
  PROVE  Moves /\ Rest'
BY ControllerRuns DEF ControllerStep

LEMMA ReplyMoves ==
  ASSUME Typed, NEW slot \in Slots, NEW reply, NEW phase \in {"sent", "woken"}, InPhase(slot, phase),
         Answers(calls[slot], reply),
         calls' = Replied(slot, reply)
  PROVE  CallsMove /\ (waiter' = waiter => WaiterWaits')
<1> DEFINE call == IF slot[2] = 0 THEN [calls[slot] EXCEPT !.phase = "answered", !.reply = reply] ELSE None
<1>1. calls' = [calls EXCEPT ![slot] = call]
  BY DEF Replied
<1>2. calls[slot] # None
  BY DEF InPhase
<1>3. calls'[slot] = call => CallMoves(slot)
  BY <1>2 DEF CallMoves, Progress
<1> HIDE DEF call
<1>4. CallsMove
  BY <1>1, <1>3, OneCall
<1>5. ASSUME waiter' = waiter PROVE WaiterWaits'
  <2>1. waiter # None => waiter \in Slots /\ waiter # slot /\ InPhase(waiter, "waiting")
    BY DEF Typed, WaiterWaits, InPhase
  <2>2. waiter # None => calls'[waiter] = calls[waiter]
    BY <1>1, <2>1 DEF Typed, CallsTyped
  <2>3. QED BY <1>5, <2>1, <2>2 DEF WaiterWaits, InPhase, Slots
<1>6. QED BY <1>4, <1>5

LEMMA WakeMoves ==
  ASSUME Typed, WakePoll
  PROVE  CallsMove /\ WaiterWaits'
<1>1. CASE waiter = None
  BY <1>1, SameCalls DEF WakePoll, WaiterWaits
<1>2. CASE waiter # None
  <2> DEFINE call == [calls[waiter] EXCEPT !.phase = "woken"]
  <2>1. waiter \in Slots /\ calls[waiter] # None /\ calls[waiter].phase = "waiting"
    BY <1>2 DEF Typed, WaiterWaits, InPhase
  <2>2. calls[waiter] \in HttpCall /\ CallFits(calls[waiter], waiter)
    BY <2>1 DEF Typed, CallsTyped
  <2>3. calls[waiter].reply = None /\ calls[waiter].op = "poll"
    BY <2>1, <2>2 DEF CallFits
  <2>4. calls' = [calls EXCEPT ![waiter] = call] /\ waiter' = None
    BY <1>2 DEF WakePoll
  <2>5. call = [calls[waiter] EXCEPT !.phase = "woken", !.reply = None]
    BY <2>2, <2>3 DEF HttpCall
  <2> HIDE DEF call
  <2>6. calls'[waiter] = call => CallMoves(waiter)
    <3>1. Progress(calls[waiter], waiter, "woken", None)
      BY <2>3 DEF Progress
    <3>2. QED BY <2>1, <2>5, <3>1, Zenon DEF CallMoves
  <2>7. CallsMove
    BY <2>1, <2>4, <2>6, OneCall
  <2>8. QED BY <2>4, <2>7 DEF WaiterWaits
<1>3. QED BY <1>1, <1>2

\* Refusals, and whatever of a call changes no job and gets an answer.
LEMMA PlainReply ==
  ASSUME Typed, Claimed, NEW slot \in Slots, InPhase(slot, "sent"), NEW reply \in {Ok, Conflict, TooLarge, Failure},
         calls[slot].op # "ack" \/ reply # Ok,
         calls' = Replied(slot, reply), UNCHANGED <<store, waiter>>,
         ControllerStep, NoFault \/ Fault
  PROVE  StoreMoves /\ CallsMove /\ WaiterWaits'
<1>1. StoreMoves
  BY NoMove
<1>2. Answers(calls[slot], reply)
  BY DEF Answers, Reply, Ok, Conflict, TooLarge, Failure
<1>3. QED BY <1>1, <1>2, ReplyMoves

LEMMA RefuseStep ==
  ASSUME Typed, Claimed, NEW slot \in Slots, Refuse(slot) \/ Oversized(slot)
  PROVE  Moves /\ Rest'
<1>1. CASE Refuse(slot)
  <2>1. Failure # Ok
    BY DEF Failure, Ok
  <2>2. StoreMoves /\ CallsMove /\ WaiterWaits'
    BY <1>1, <2>1, PlainReply DEF Refuse
  <2>3. QED BY <1>1, <2>2, ControllerServes DEF Refuse
<1>2. CASE Oversized(slot)
  <2>1. TooLarge # Ok
    BY DEF TooLarge, Ok
  <2>2. StoreMoves /\ CallsMove /\ WaiterWaits'
    BY <1>2, <2>1, PlainReply DEF Oversized
  <2>3. QED BY <1>2, <2>2, ControllerServes DEF Oversized
<1>3. QED BY <1>1, <1>2

LEMMA ControlAckStep ==
  ASSUME Typed, Claimed, NEW slot \in Slots, ControlAck(slot)
  PROVE  Moves /\ Rest'
<1>1. /\ InPhase(slot, "sent") /\ calls[slot].op = "controlAck" /\ ControllerStep /\ NoFault
      /\ calls' = Replied(slot, Ok) /\ UNCHANGED <<store, live, controlCount, waiter>>
      /\ control' \in {control, None}
  BY DEF ControlAck, Arrived
<1>2. StoreMoves /\ CallsMove /\ WaiterWaits'
  BY <1>1, PlainReply
<1>3. ControlTyped'
  BY <1>1 DEF Typed, SessionTyped, ControlTyped, Control, store
<1>4. /\ UNCHANGED <<agent, bridge>> /\ up' = up /\ starts' = starts
      /\ live' \in BOOLEAN /\ up' \in BOOLEAN /\ starts' \in 1..MaxStarts
  BY <1>1 DEF Typed, SessionTyped, ControllerStep, process
<1>5. QED BY <1>1, <1>2, <1>3, <1>4, FaultTypes, ControllerMoves

LEMMA AckStep ==
  ASSUME Typed, Claimed, NEW slot \in Slots, Ack(slot)
  PROVE  Moves /\ Rest'
<1> DEFINE i == calls[slot].id
           l == calls[slot].lease
           reply == IF jobs[i].leaseId = l THEN Ok ELSE Conflict
<1>1. /\ InPhase(slot, "sent") /\ calls[slot].op = "ack" /\ ControllerStep /\ NoFault
      /\ calls' = Replied(slot, reply) /\ UNCHANGED <<server, waiter>>
      /\ IF jobs[i].leaseId = l /\ jobs[i].status = "leased" THEN Store!Acknowledge(i, l) ELSE UNCHANGED store
  BY DEF Ack, Arrived
<1>2. i \in 1..sequence /\ l \in Leases
  <2>1. i \in Jobs /\ l \in Leases
    BY <1>1 DEF Typed, CallsTyped, CallFits, InPhase
  <2>2. Claim(i, l)
    BY <1>1 DEF Claim, InPhase
  <2>3. i \in 0..sequence
    BY <2>2 DEF Claimed
  <2>4. QED BY <2>1, <2>3, StoreFacts DEF Jobs
<1>3. StoreMoves
  BY <1>1, Acknowledging, NoMove
<1>4. reply = Ok => i \in Begun'
  <2>1. CASE jobs[i].leaseId = l /\ jobs[i].status = "leased"
    BY <1>1, <2>1, Acknowledging
  <2>2. CASE jobs[i].leaseId = l /\ jobs[i].status # "leased"
    <3>1. jobs[i].status \in Store!Active
      BY <1>2, <2>2, StoreFacts DEF Leases
    <3>2. i \in Begun
      BY <1>2, <2>2, <3>1 DEF Begun, Store!Active
    <3>3. QED BY <1>3, <3>2, BegunStays
  <2>3. CASE jobs[i].leaseId # l
    BY <2>3 DEF Ok, Conflict
  <2>4. QED BY <2>1, <2>2, <2>3
<1>5. reply \in {Ok, Conflict}
  OBVIOUS
<1> HIDE DEF reply
<1>6. Answers(calls[slot], reply)
  BY <1>1, <1>4, <1>5 DEF Answers, Reply, Ok, Conflict
<1>7. CallsMove /\ WaiterWaits'
  BY <1>1, <1>6, ReplyMoves
<1>8. QED BY <1>1, <1>3, <1>7, ControllerServes

LEMMA ResultStep ==
  ASSUME Typed, Claimed, NEW slot \in Slots, Result(slot)
  PROVE  Moves /\ Rest'
<1>1. /\ InPhase(slot, "sent") /\ calls[slot].op = "result" /\ ControllerStep /\ NoFault
      /\ UNCHANGED <<server, waiter>>
  BY DEF Result, Arrived
<1>2. calls[slot].data \in Outcomes /\ calls[slot].data.op = "result"
  BY <1>1 DEF Typed, CallsTyped, CallFits, InPhase
<1>3. calls[slot].data.text \in Authors \cup {Nothing} /\ calls[slot].data.interrupted \in BOOLEAN
  BY <1>2 DEF Outcomes
<1>4. PICK reply \in {Ok, Conflict} : calls' = Replied(slot, reply)
  BY DEF Result
<1>5. StoreMoves
  BY <1>3, Completing, NoMove DEF Result
<1>6. Answers(calls[slot], reply)
  BY <1>1, <1>4 DEF Answers, Reply, Ok, Conflict
<1>7. CallsMove /\ WaiterWaits'
  BY <1>1, <1>4, <1>6, ReplyMoves
<1>8. QED BY <1>1, <1>5, <1>7, ControllerServes

LEMMA FailReportStep ==
  ASSUME Typed, Claimed, NEW slot \in Slots, FailReport(slot)
  PROVE  Moves /\ Rest'
<1>1. /\ InPhase(slot, "sent") /\ calls[slot].op = "fail" /\ ControllerStep /\ NoFault
      /\ UNCHANGED <<server, waiter>>
  BY DEF FailReport, Arrived
<1>2. calls[slot].data \in Outcomes /\ calls[slot].data.op = "fail"
  BY <1>1 DEF Typed, CallsTyped, CallFits, InPhase
<1>3. calls[slot].data.code \in Codes
  BY <1>2 DEF Outcomes
<1>4. PICK reply \in {Ok, Conflict} : calls' = Replied(slot, reply)
  BY DEF FailReport
<1>5. StoreMoves
  BY <1>3, Failing, NoMove DEF FailReport
<1>6. Answers(calls[slot], reply)
  BY <1>1, <1>4 DEF Answers, Reply, Ok, Conflict
<1>7. CallsMove /\ WaiterWaits'
  BY <1>1, <1>4, <1>6, ReplyMoves
<1>8. QED BY <1>1, <1>5, <1>7, ControllerServes

LEMMA PollStep ==
  ASSUME Typed, Claimed, NEW slot \in Slots, Poll(slot)
  PROVE  Moves /\ Rest'
<1>1. PICK phase \in {"sent", "woken"} : InPhase(slot, phase)
  BY DEF Poll, Arrived
<1>2. UNCHANGED <<agent, bridge, process>> /\ NoFault /\ UNCHANGED server
  BY DEF Poll, Arrived, ControllerStep, NoFault
<1>3. calls[slot] # None /\ calls[slot] \in HttpCall /\ CallFits(calls[slot], slot) /\ calls[slot].phase = phase
  BY <1>1 DEF InPhase, Typed, CallsTyped
<1>4. calls[slot].op = "poll" /\ calls[slot].reply = None
  BY <1>1, <1>3 DEF CallFits, InPhase, Poll, Arrived
<1>5. ASSUME NEW reply, StoreMoves, Answers(calls[slot], reply), calls' = Replied(slot, reply), waiter' = waiter
      PROVE  Moves /\ Rest'
  BY <1>1, <1>2, <1>5, ReplyMoves, ControllerRuns
<1>6. CASE ControlDue(slot) /\ calls' = Replied(slot, control) /\ UNCHANGED <<store, waiter>>
  <2>1. control \in Control
    BY <1>6 DEF ControlDue, Typed, SessionTyped, ControlTyped
  <2>2. control.kind = "control" /\ control \in Reply
    BY <2>1 DEF Control, Reply
  <2>3. Answers(calls[slot], control)
    BY <1>4, <2>2 DEF Answers
  <2>4. QED BY <1>5, <1>6, <2>3, NoMove
<1>7. ASSUME NEW i \in Resumable(slot), calls' = Replied(slot, Carrying("resume", i, jobs[i].leaseId)),
             UNCHANGED <<store, waiter>>
      PROVE  Moves /\ Rest'
  <2> DEFINE reply == Carrying("resume", i, jobs[i].leaseId)
  <2>1. i \in 1..sequence /\ jobs[i].status = "running"
    BY <1>7, StoreFacts DEF Resumable, Running, Store!ActiveOf
  <2>2. jobs[i].leaseId \in Leases /\ i \in Jobs /\ i \in Begun
    BY <2>1, StoreFacts DEF Leases, Store!Active, Begun
  <2>3. /\ reply \in Reply /\ reply.kind = "resume" /\ reply.id = i /\ reply.lease = jobs[i].leaseId
    BY <2>2 DEF Carrying, Reply
  <2>4. StoreMoves
    BY <1>7, NoMove
  <2>5. i \in 1..sequence' /\ jobs'[i].leaseId = jobs[i].leaseId /\ i \in Begun'
    BY <1>7, <2>1, <2>2, <2>4, BegunStays DEF store
  <2> HIDE DEF reply
  <2>6. Answers(calls[slot], reply)
    BY <1>4, <2>3, <2>5 DEF Answers
  <2>7. QED BY <1>5, <1>7, <2>4, <2>6 DEF reply
<1>8. CASE /\ calls[slot].data /\ Store!LeaseNext(Alias)
           /\ calls' = Replied(slot, Carrying("job", Min(Store!Queued(Alias)), leaseCount'))
           /\ UNCHANGED waiter
  <2> DEFINE i == Min(Store!Queued(Alias))
             reply == Carrying("job", i, leaseCount')
  <2>1. /\ StoreMoves /\ i \in 1..sequence /\ jobs'[i].leaseId = leaseCount' /\ leaseCount' \in Leases
    BY <1>8, Leasing
  <2> HIDE DEF i
  <2>2. i \in Jobs /\ i \in 1..sequence'
    BY <2>1, StoreFacts DEF StoreMoves, StoreTyped
  <2>3. reply \in Reply /\ reply.kind = "job" /\ reply.id = i /\ reply.lease = leaseCount'
    BY <2>1, <2>2 DEF Carrying, Reply
  <2> HIDE DEF reply
  <2>4. Answers(calls[slot], reply)
    BY <1>4, <1>8, <2>1, <2>2, <2>3 DEF Answers
  <2>5. QED BY <1>5, <1>8, <2>1, <2>4 DEF reply, i
<1>9. CASE /\ IF InPhase(slot, "sent")
                THEN calls' = [calls EXCEPT ![slot].phase = "waiting"] /\ waiter' = slot
                ELSE calls' = Replied(slot, Idle) /\ UNCHANGED waiter
           /\ UNCHANGED store
  <2>1. CASE InPhase(slot, "sent")
    <3> DEFINE call == [calls[slot] EXCEPT !.phase = "waiting"]
    <3>1. calls' = [calls EXCEPT ![slot] = call] /\ waiter' = slot
      BY <1>9, <2>1
    <3>2. call = [calls[slot] EXCEPT !.phase = "waiting", !.reply = None] /\ call.phase = "waiting"
      BY <1>3, <1>4 DEF HttpCall
    <3>3. call # None
      <4>1. call \in HttpCall
        BY <1>3, <1>4, <3>2 DEF HttpCall
      <4>2. QED BY <4>1, CallApart
    <3> HIDE DEF call
    <3>4. calls'[slot] = call => CallMoves(slot)
      <4>1. Progress(calls[slot], slot, "waiting", None)
        BY <1>4 DEF Progress
      <4>2. QED BY <1>3, <3>2, <4>1, Zenon DEF CallMoves
    <3>5. CallsMove /\ calls'[slot] = call
      BY <3>1, <3>4, OneCall
    <3>6. WaiterWaits'
      BY <3>1, <3>2, <3>3, <3>5 DEF WaiterWaits, InPhase, Slots
    <3>7. QED BY <1>2, <1>9, <3>5, <3>6, NoMove, ControllerRuns
  <2>2. CASE ~InPhase(slot, "sent")
    <3>1. Answers(calls[slot], Idle)
      BY <1>4 DEF Answers, Reply, Idle
    <3>2. QED BY <1>5, <1>9, <2>2, <3>1, NoMove
  <2>3. QED BY <2>1, <2>2
<1>10. QED BY <1>6, <1>7, <1>8, <1>9 DEF Poll

LEMMA PollExpiresStep ==
  ASSUME Typed, Claimed, NEW slot \in Slots, PollExpires(slot)
  PROVE  Moves /\ Rest'
<1> DEFINE call == [calls[slot] EXCEPT !.phase = "woken"]
<1>1. /\ calls[slot] # None /\ calls[slot].phase = "waiting" /\ waiter' = None
      /\ calls' = [calls EXCEPT ![slot] = call] /\ ControllerStep /\ NoFault /\ UNCHANGED <<store, server>>
  BY DEF PollExpires, InPhase
<1>2. calls[slot] \in HttpCall /\ CallFits(calls[slot], slot)
  BY <1>1 DEF Typed, CallsTyped
<1>3. calls[slot].reply = None /\ calls[slot].op = "poll"
  BY <1>1, <1>2 DEF CallFits
<1>4. call = [calls[slot] EXCEPT !.phase = "woken", !.reply = None]
  BY <1>2, <1>3 DEF HttpCall
<1> HIDE DEF call
<1>5. calls'[slot] = call => CallMoves(slot)
  <2>1. Progress(calls[slot], slot, "woken", None)
    BY <1>3 DEF Progress
  <2>2. QED BY <1>1, <1>4, <2>1, Zenon DEF CallMoves
<1>6. CallsMove
  BY <1>1, <1>5, OneCall
<1>7. WaiterWaits'
  BY <1>1 DEF WaiterWaits
<1>8. StoreMoves
  BY <1>1, NoMove
<1>9. QED BY <1>1, <1>6, <1>7, <1>8, ControllerServes

LEMMA LeaseExpiresStep ==
  ASSUME Typed, Claimed, NEW i, LeaseExpires(i)
  PROVE  Moves /\ Rest'
<1>1. StoreMoves
  BY Requeueing DEF LeaseExpires
<1>2. QED BY <1>1, WakeMoves, ControllerServes DEF LeaseExpires

LEMMA WatchdogStep ==
  ASSUME Typed, Claimed, Watchdog
  PROVE  Moves /\ Rest'
<1>1. "extension-unresponsive" \in Codes
  BY DEF Codes
<1>2. StoreMoves
  BY <1>1, Failing DEF Watchdog
<1>3. UNCHANGED calls /\ UNCHANGED waiter
  BY DEF Watchdog, network
<1>4. WaiterWaits'
  BY <1>3 DEF Typed, WaiterWaits, InPhase, Slots
<1>5. QED BY <1>2, <1>3, <1>4, SameCalls, ControllerServes DEF Watchdog

LEMMA SubmitStep ==
  ASSUME Typed, Claimed, NEW r \in Requests, NEW x \in Inputs, Submit(r, x)
  PROVE  Moves /\ Rest'
BY Submitting, WakeMoves, ControllerServes DEF Submit

LEMMA SetControlMoves ==
  ASSUME Typed, StoreMoves, NEW i \in 0..sequence, SetControl(i)
  PROVE  CallsMove /\ WaiterWaits' /\ ControlTyped'
<1>1. sequence \in Nat /\ sequence' \in Nat /\ sequence <= sequence'
  BY DEF Typed, StoreTyped, StoreMoves
<1>2. CASE control # None
  <2>1. UNCHANGED <<control, controlCount, calls, waiter>>
    BY <1>2 DEF SetControl, network
  <2>2. WaiterWaits'
    BY <2>1 DEF Typed, WaiterWaits, InPhase, Slots
  <2>3. QED BY <2>1, <2>2, SameCalls, SameControl
<1>3. CASE control = None
  <2>1. /\ controlCount < MaxControls /\ controlCount' = controlCount + 1 /\ WakePoll
        /\ control' = [kind |-> "control", n |-> controlCount', id |-> i]
    BY <1>3 DEF SetControl
  <2>2. controlCount \in 0..MaxControls /\ MaxControls \in Nat
    BY BoundsAssumption DEF Typed, SessionTyped, ControlTyped
  <2>3. controlCount' \in 1..MaxControls /\ i \in Nat /\ i <= sequence'
    BY <1>1, <2>1, <2>2
  <2>4. control' \in Control /\ control'.n = controlCount' /\ control'.id = i
    BY <2>1, <2>3 DEF Control
  <2>5. ControlTyped'
    BY <2>3, <2>4 DEF ControlTyped, Control
  <2>6. QED BY <2>1, <2>5, WakeMoves
<1>4. QED BY <1>2, <1>3

LEMMA ControllerControls ==
  ASSUME Typed, StoreMoves, CallsMove, WaiterWaits', ControlTyped', ControllerStep, NoFault,
         live' \in BOOLEAN
  PROVE  Moves /\ Rest'
<1>1. /\ UNCHANGED <<agent, bridge>> /\ up' = up /\ starts' = starts
      /\ up \in BOOLEAN /\ starts \in 1..MaxStarts
  BY DEF ControllerStep, process, Typed, SessionTyped
<1>2. QED BY <1>1, FaultTypes, ControllerMoves

LEMMA CancelStep ==
  ASSUME Typed, Claimed, NEW i \in Store!Ids, Cancel(i)
  PROVE  Moves /\ Rest'
<1>1. StoreMoves /\ i \in 0..sequence /\ live' \in BOOLEAN
  BY Cancelling, StoreFacts DEF Cancel, Typed, SessionTyped
<1>2. CASE SetControl(i)
  BY <1>1, <1>2, SetControlMoves, ControllerControls DEF Cancel
<1>3. CASE UNCHANGED <<control, controlCount, network>>
  <2>1. UNCHANGED <<calls, waiter>>
    BY <1>3 DEF network
  <2>2. WaiterWaits'
    BY <2>1 DEF Typed, WaiterWaits, InPhase, Slots
  <2>3. QED BY <1>1, <1>3, <2>1, <2>2, SameCalls, SameControl, ControllerControls DEF Cancel
<1>4. QED BY <1>2, <1>3 DEF Cancel

LEMMA AbortSessionStep ==
  ASSUME Typed, Claimed, AbortSession
  PROVE  Moves /\ Rest'
<1>1. StoreMoves /\ live' \in BOOLEAN
  BY NoMove DEF AbortSession, Typed, SessionTyped
<1>2. PICK i \in 0..sequence : SetControl(i)
  BY StoreFacts DEF AbortSession, Store!ActiveOf
<1>3. QED BY <1>1, <1>2, SetControlMoves, ControllerControls DEF AbortSession

LEMMA MarkStoppedStep ==
  ASSUME Typed, Claimed, MarkStopped
  PROVE  Moves /\ Rest'
<1>1. StoreMoves
  BY Stopping
<1>2. ControlTyped' /\ live' \in BOOLEAN
  BY DEF MarkStopped, Typed, SessionTyped, ControlTyped
<1>3. QED BY <1>1, <1>2, WakeMoves, ControllerControls DEF MarkStopped

LEMMA StartSessionStep ==
  ASSUME Typed, Claimed, StartSession
  PROVE  Moves /\ Rest'
<1>1. StoreMoves
  BY NoMove DEF StartSession
<1>2. UNCHANGED <<calls, waiter, agent, bridge>> /\ live' \in BOOLEAN /\ up' = TRUE
  BY DEF StartSession, network
<1>3. starts' \in 1..MaxStarts
  BY BoundsAssumption DEF StartSession, Typed, SessionTyped
<1>4. WaiterWaits'
  BY <1>2 DEF Typed, WaiterWaits, InPhase, Slots
<1>5. ControlTyped' /\ faults' \in 0..MaxFaults
  BY <1>1, SameControl, FaultTypes DEF StartSession
<1>6. QED BY <1>1, <1>2, <1>3, <1>4, <1>5, SameCalls, ControllerMoves

-----------------------------------------------------------------------------
(* The steps of the extension.                                             *)

Prompt == [who : Authors, seen : BOOLEAN]

LEMMA WaiterStays ==
  ASSUME Typed, NEW slot \in Slots, ~InPhase(slot, "waiting"), NEW call,
         calls' = [calls EXCEPT ![slot] = call]
  PROVE  waiter # None => calls'[waiter] = calls[waiter]
BY DEF Typed, WaiterWaits, CallsTyped

\* A step of the TUI leaves the controller alone.
LEMMA TuiRest ==
  ASSUME Typed, Claimed, up, NoFault \/ Fault, UNCHANGED <<store, server, process, waiter>>,
         waiter # None => calls'[waiter] = calls[waiter],
         AgentTyped', pc' \in {"top", "poll", "control"}, handling' \in Nat, injecting' \in 0..sequence
  PROVE  StoreMoves /\ Rest'
<1>1. StoreMoves
  BY NoMove
<1>2. /\ up' = up /\ starts' = starts /\ live' = live /\ UNCHANGED <<control, controlCount>>
      /\ sequence' = sequence
  BY DEF process, server, store
<1>3. ControlTyped'
  BY <1>1, <1>2, SameControl
<1>4. SessionTyped'
  BY <1>2, <1>3, FaultTypes DEF Typed, SessionTyped
<1>5. WaiterWaits'
  BY DEF Typed, WaiterWaits, InPhase, Slots
<1>6. EndedIsEmpty'
  BY <1>2 DEF EndedIsEmpty
<1>7. QED BY <1>1, <1>4, <1>5, <1>6 DEF Rest

LEMMA LoopRest ==
  ASSUME Typed, Claimed, LoopStep, ~InPhase(Loop, "waiting"),
         NEW call, calls' = [calls EXCEPT ![Loop] = call],
         segments' \in [Jobs -> Segment \cup {None}], inbox' \in Seq(Prompt),
         pc' \in {"top", "poll", "control"}, handling' \in Nat, injecting' \in 0..sequence
  PROVE  StoreMoves /\ Rest'
<1>1. AgentTyped'
  BY DEF LoopStep, Typed, AgentTyped, Prompt, Jobs, Authors, Segment
<1>2. QED BY <1>1, SlotFacts, WaiterStays, TuiRest DEF LoopStep

\* What the loop reports is about the job it has.
LEMMA ReportEffect ==
  ASSUME Typed, up, NEW job \in ActiveJob \cup {None}, job # None => Claim(job.id, job.lease), Report(job)
  PROVE  /\ IF job = None THEN active' = None ELSE Same(job, active')
         /\ CallsMove /\ \E call : calls' = [calls EXCEPT ![Loop] = call]
         /\ calls'[Loop] # None => calls'[Loop].op \in {"result", "fail"}
<1>1. IF job = None THEN active' = None ELSE Same(job, active')
  BY SameJob DEF Report, PostedFrom, CanPost
<1>2. CASE CanPost(job)
  <2>1. job \in ActiveJob /\ job.terminal \in Outcomes /\ job.id \in Jobs /\ job.lease \in Leases
    BY <1>2 DEF CanPost, ActiveJob
  <2>2. calls' = Sending(Loop, job.terminal.op, job, job.terminal)
    BY <1>2 DEF Report, Post
  <2>3. CallsMove /\ (calls'[Loop] # None => calls'[Loop].op \in {"result", "fail"})
    BY <1>2, <2>1, <2>2, PostMoves DEF CanPost
  <2>4. QED BY <1>1, <2>2, <2>3 DEF Sending
<1>3. CASE ~CanPost(job)
  BY <1>1, <1>3, LoopDoneMoves DEF Report, LoopDone
<1>4. QED BY <1>2, <1>3

LEMMA InspectedJob ==
  ASSUME Typed, NEW job \in ActiveJob
  PROVE  Same(job, Inspected(job))
<1> DEFINE sent == [job EXCEPT !.sent = TRUE]
           harvested == HarvestResult(job.id)
<1>1. harvested \in Harvests
  BY SegmentsTypes DEF ActiveJob
<1>2. Same(job, sent) /\ sent \in ActiveJob
  BY SameJob DEF Same
<1>3. {"missing-assistant-result", "dispatch-timeout"} \subseteq Codes
  BY DEF Codes
<1> HIDE DEF sent, harvested
<1>4. Same(sent, Finish(sent, harvested)) /\ Same(sent, FailWith(sent, "missing-assistant-result"))
  BY <1>1, <1>2, <1>3, SameJob
<1>5. Same(job, Finish(sent, harvested)) /\ Same(job, FailWith(sent, "missing-assistant-result"))
  BY <1>2, <1>4 DEF Same
<1>6. Same(job, FailWith(job, "dispatch-timeout")) /\ Same(job, job)
  BY <1>3, SameJob
<1>7. Inspected(job) \in {job, sent, Finish(sent, harvested), FailWith(sent, "missing-assistant-result"),
                          FailWith(job, "dispatch-timeout")}
  BY DEF Inspected, sent, harvested
<1>8. QED BY <1>2, <1>5, <1>6, <1>7

\* inspectActiveWhenIdle keeps the job, and hands over only one that began.
LEMMA InspectEffect ==
  ASSUME Typed, up, NEW job \in ActiveJob \cup {None}, Inspect(job),
         job # None => Claim(job.id, job.lease) /\ (job.acknowledged => job.id \in Begun)
  PROVE  /\ IF job = None THEN active' = None ELSE Same(job, active')
         /\ CallsMove /\ \E call : calls' = [calls EXCEPT ![Loop] = call]
         /\ calls'[Loop] # None => calls'[Loop].op \in {"result", "fail"}
         /\ injecting' \in 0..sequence /\ inbox' \in Seq(Prompt)
         /\ \A k \in DOMAIN inbox' : inbox'[k].who \in Begun \/ \E j \in DOMAIN inbox : inbox'[k].who = inbox[j].who
<1>1. inbox \in Seq(Prompt) /\ injecting \in 0..sequence /\ sequence \in Nat
  BY DEF Typed, AgentTyped, SessionTyped, StoreTyped, Prompt
<1>2. CASE job = None \/ streaming
  <2>1. active' = job /\ calls' = LoopDone /\ UNCHANGED <<injecting, inbox>>
    BY <1>2 DEF Inspect
  <2>2. job # None => Same(job, job)
    BY SameJob
  <2>3. QED BY <1>1, <2>1, <2>2, LoopDoneMoves DEF LoopDone
<1>3. CASE job # None /\ Dispatchable(job) /\ active' = Dispatched(job) /\ HandsOver(job) /\ calls' = LoopDone
  <2>1. job \in ActiveJob /\ job.id \in Begun /\ job.id \in Jobs
    BY <1>3 DEF Dispatchable, ActiveJob
  <2>2. Same(job, active')
    BY <1>3, <2>1, SameJob
  <2>3. job.id \in 0..sequence
    BY <1>1, <2>1 DEF Begun
  <2>4. [who |-> job.id, seen |-> FALSE] \in Prompt
    BY <2>1 DEF Prompt, Authors
  <2>5. inbox' = Append(inbox, [who |-> job.id, seen |-> FALSE])
    BY <1>3 DEF HandsOver
  <2>6. inbox' \in Seq(Prompt)
    BY <1>1, <2>4, <2>5
  <2>7. \A k \in DOMAIN inbox' : inbox'[k].who = job.id \/ \E j \in DOMAIN inbox : inbox'[k].who = inbox[j].who
    BY <1>1, <2>4, <2>5
  <2>8. QED BY <1>3, <2>1, <2>2, <2>3, <2>6, <2>7, LoopDoneMoves DEF HandsOver, LoopDone
<1>4. CASE job # None /\ Report(Inspected(job)) /\ UNCHANGED <<injecting, inbox>>
  <2>1. Same(job, Inspected(job))
    BY <1>4, InspectedJob
  <2>2. /\ Inspected(job) \in ActiveJob /\ Claim(Inspected(job).id, Inspected(job).lease)
        /\ Inspected(job) # None
    BY <1>4, <2>1, ActiveApart DEF Same
  <2>3. Same(Inspected(job), active')
    BY <1>4, <2>2, ReportEffect
  <2>4. Same(job, active')
    BY <2>1, <2>3 DEF Same
  <2>5. QED BY <1>1, <1>4, <2>2, <2>4, ReportEffect
<1>5. QED BY <1>2, <1>3, <1>4 DEF Inspect

\* The extension's job after a step that leaves it the same.
LEMMA SameMoves ==
  ASSUME Typed, active = None => active' = None, active # None => active' = None \/ Same(active, active')
  PROVE  ActiveMoves
<1>1. active # None /\ active' # None => Continues(active, active')
  BY DEF Same, Continues
<1>2. QED BY <1>1 DEF ActiveMoves

LEMMA InboxMoves ==
  ASSUME Typed, StoreMoves, UNCHANGED prompted,
         \A k \in DOMAIN inbox' :
           inbox'[k].who \in Begun \cup {Local} \/ \E j \in DOMAIN inbox : inbox'[k].who = inbox[j].who
  PROVE  PromptsMove
BY BegunStays, Zenon DEF PromptsMove

LEMMA LoopTypes ==
  ASSUME Typed
  PROVE  /\ segments \in [Jobs -> Segment \cup {None}] /\ inbox \in Seq(Prompt)
         /\ pc \in {"top", "poll", "control"} /\ handling \in Nat /\ injecting \in 0..sequence
         /\ active # None => active \in ActiveJob /\ Claim(active.id, active.lease)
BY DEF Typed, ActiveTyped, AgentTyped, SessionTyped, Prompt, Claim

LEMMA InspectActiveStep ==
  ASSUME Typed, Claimed, Handed, InspectActive
  PROVE  Moves /\ Rest'
<1>1. /\ LoopStep /\ calls[Loop] = None /\ pc' = "poll" /\ Inspect(active) /\ UNCHANGED <<handling, segments>>
  BY DEF InspectActive, LoopAt
<1>2. active \in ActiveJob \cup {None}
      /\ (active # None => Claim(active.id, active.lease) /\ (active.acknowledged => active.id \in Begun))
  BY LoopTypes DEF Handed
<1>3. /\ IF active = None THEN active' = None ELSE Same(active, active')
      /\ CallsMove /\ \E call : calls' = [calls EXCEPT ![Loop] = call]
      /\ injecting' \in 0..sequence /\ inbox' \in Seq(Prompt)
      /\ \A k \in DOMAIN inbox' : inbox'[k].who \in Begun \/ \E j \in DOMAIN inbox : inbox'[k].who = inbox[j].who
  BY <1>1, <1>2, InspectEffect DEF LoopStep
<1>4. ~InPhase(Loop, "waiting")
  BY <1>1 DEF InPhase
<1>5. StoreMoves /\ Rest'
  BY <1>1, <1>3, <1>4, LoopTypes, LoopRest
<1>6. ActiveMoves
  BY <1>3, SameMoves
<1>7. PromptsMove
  BY <1>1, <1>3, <1>5, InboxMoves DEF LoopStep
<1>8. QED BY <1>3, <1>5, <1>6, <1>7 DEF Moves

\* A step of the loop that hands nothing over.
LEMMA QuietLoop ==
  ASSUME Typed, Claimed, LoopStep, ~InPhase(Loop, "waiting"),
         NEW call, calls' = [calls EXCEPT ![Loop] = call], CallsMove, ActiveMoves,
         segments' \in [Jobs -> Segment \cup {None}], UNCHANGED inbox,
         pc' \in {"top", "poll", "control"}, handling' \in Nat, injecting' \in 0..sequence
  PROVE  Moves /\ Rest'
<1>1. StoreMoves /\ Rest'
  BY LoopTypes, LoopRest
<1>2. PromptsMove
  BY <1>1, InboxMoves DEF LoopStep
<1>3. QED BY <1>1, <1>2 DEF Moves

\* Polls and acknowledgements of controls.
LEMMA SendMoves ==
  ASSUME Typed, up, NEW op \in {"poll", "controlAck"},
         NEW job, job = NoJob \/ (job \in ActiveJob /\ Claim(job.id, job.lease)),
         NEW data \in BOOLEAN \cup Nat, op = "poll" => data \in BOOLEAN /\ (data => active' = None /\ job = NoJob),
         calls' = Sending(Loop, op, job, data)
  PROVE  CallsMove /\ calls' = [calls EXCEPT ![Loop] = Call(op, job, data)]
<1> DEFINE call == Call(op, job, data)
<1>1. starts \in Nat /\ job.id \in Nat /\ job.lease \in Nat
  BY DEF Typed, SessionTyped, ActiveJob, Jobs, Leases, NoJob
<1>2. call \in HttpCall /\ CallFits(call, Loop)
  BY <1>1 DEF Call, HttpCall, CallFits, Loop
<1>3. call.id = job.id /\ call.lease = job.lease /\ call.op = op /\ call.data = data
      /\ call.phase = "sent" /\ call.start = starts
  BY DEF Call
<1> HIDE DEF call
<1>4. (call.id = 0 /\ call.lease = 0) \/ Claim(call.id, call.lease)
  BY <1>3 DEF NoJob
<1>5. Sent(call, Loop)
  BY <1>2, <1>3, <1>4 DEF Sent, NoJob
<1>6. QED BY <1>5, SentMoves DEF call, Sending

LEMMA SendPollStep ==
  ASSUME Typed, Claimed, SendPoll
  PROVE  Moves /\ Rest'
<1>1. /\ LoopStep /\ calls[Loop] = None /\ pc' = "top"
      /\ UNCHANGED <<handling, active, injecting, inbox, segments>>
  BY DEF SendPoll, LoopAt
<1>2. PICK pending \in BOOLEAN :
        calls' = Sending(Loop, "poll", IF active = None THEN NoJob ELSE active,
                         active = None /\ ~streaming /\ ~pending)
  BY DEF SendPoll, PendingMessages
<1> DEFINE job  == IF active = None THEN NoJob ELSE active
           data == active = None /\ ~streaming /\ ~pending
<1>3. job = NoJob \/ (job \in ActiveJob /\ Claim(job.id, job.lease))
  BY LoopTypes
<1>4. data \in BOOLEAN /\ (data => active' = None /\ job = NoJob)
  BY <1>1
<1>5. calls' = Sending(Loop, "poll", job, data)
  BY <1>2
<1> HIDE DEF job, data
<1>6. CallsMove /\ calls' = [calls EXCEPT ![Loop] = Call("poll", job, data)]
  BY <1>1, <1>3, <1>4, <1>5, SendMoves DEF LoopStep
<1>7. ~InPhase(Loop, "waiting") /\ ActiveMoves
  BY <1>1, SameActive DEF InPhase
<1>8. QED BY <1>1, <1>6, <1>7, LoopTypes, QuietLoop

LEMMA PollGetsNothingStep ==
  ASSUME Typed, Claimed, PollGetsNothing
  PROVE  Moves /\ Rest'
<1>1. /\ LoopStep /\ InPhase(Loop, "answered") /\ calls' = LoopDone
      /\ UNCHANGED <<pc, handling, active, injecting, inbox, segments>>
  BY DEF PollGetsNothing, LoopGets, bridge
<1>2. ~InPhase(Loop, "waiting") /\ ActiveMoves
  BY <1>1, SameActive DEF InPhase
<1>3. CallsMove /\ calls' = [calls EXCEPT ![Loop] = None]
  BY <1>1, LoopDoneMoves DEF LoopDone
<1>4. QED BY <1>1, <1>2, <1>3, LoopTypes, QuietLoop

\* The job of an answered poll.
LEMMA AnsweredJob ==
  ASSUME Typed, InPhase(Loop, "answered"), calls[Loop].op = "poll",
         calls[Loop].reply.kind \in {"job", "resume"}
  PROVE  /\ Answered(Loop) /\ calls[Loop].reply.id \in Jobs /\ calls[Loop].reply.lease \in Leases
         /\ Claim(calls[Loop].reply.id, calls[Loop].reply.lease)
<1>1. Answered(Loop)
  BY DEF Answered, InPhase
<1>2. calls[Loop].reply \in Reply
  BY SlotFacts DEF Typed, CallsTyped, CallFits, InPhase
<1>3. calls[Loop].reply \in [kind : {"job", "resume"}, id : Jobs, lease : Leases]
  BY <1>2 DEF Reply, Control, Ok, Idle, Conflict, TooLarge, Failure
<1>4. QED BY <1>1, <1>3, SlotFacts DEF Claim

LEMMA TakenJob ==
  ASSUME Typed, NEW reply, reply.id \in Jobs, reply.lease \in Leases, NEW acknowledged \in BOOLEAN
  PROVE  /\ NewActive(reply, acknowledged) \in ActiveJob
         /\ NewActive(reply, acknowledged).id = reply.id /\ NewActive(reply, acknowledged).lease = reply.lease
         /\ NewActive(reply, acknowledged).acknowledged = acknowledged
         /\ MarkUnlessSent(reply.id) \in [Jobs -> Segment \cup {None}]
BY SegmentsTypes, LoopTypes DEF NewActive, ActiveJob, MarkUnlessSent

LEMMA PollGetsJobStep ==
  ASSUME Typed, Claimed, PollGetsJob
  PROVE  Moves /\ Rest'
<1> DEFINE reply == calls[Loop].reply
           call  == Call("ack", reply, None)
<1>1. /\ LoopStep /\ InPhase(Loop, "answered") /\ calls[Loop].op = "poll" /\ reply.kind = "job"
      /\ active = None /\ segments' = MarkUnlessSent(reply.id) /\ active' = NewActive(reply, FALSE)
      /\ calls' = Sending(Loop, "ack", reply, None) /\ UNCHANGED <<pc, handling, injecting, inbox>>
  BY DEF PollGetsJob, LoopGets
<1>2. /\ Answered(Loop) /\ reply.id \in Jobs /\ reply.lease \in Leases
      /\ Claim(reply.id, reply.lease)
  BY <1>1, AnsweredJob
<1>3. /\ active' \in ActiveJob /\ active'.id = reply.id /\ active'.lease = reply.lease
      /\ active'.acknowledged = FALSE /\ segments' \in [Jobs -> Segment \cup {None}]
  BY <1>1, <1>2, TakenJob
<1>4. starts \in Nat /\ Jobs \subseteq Nat /\ Leases \subseteq Nat
  BY DEF Typed, SessionTyped, Jobs, Leases
<1>5. call \in HttpCall /\ CallFits(call, Loop)
  BY <1>2, <1>4 DEF Call, HttpCall, CallFits, Loop
<1>6. /\ call.id = reply.id /\ call.lease = reply.lease /\ call.op = "ack"
      /\ call.phase = "sent" /\ call.start = starts
  BY DEF Call
<1> HIDE DEF call, reply
<1>7. Sent(call, Loop)
  BY <1>1, <1>2, <1>3, <1>5, <1>6 DEF Sent, LoopStep
<1>8. CallsMove /\ calls'[Loop] = call /\ calls' = [calls EXCEPT ![Loop] = call]
  BY <1>1, <1>7, SentMoves DEF call, Sending
<1>9. Takes(reply, active')
  BY <1>1, <1>3 DEF Takes
<1>10. ActiveMoves
  BY <1>1, <1>2, <1>3, <1>6, <1>8, <1>9 DEF ActiveMoves, reply
<1>11. ~InPhase(Loop, "waiting")
  BY <1>1 DEF InPhase
<1>12. QED BY <1>1, <1>3, <1>8, <1>10, <1>11, LoopTypes, QuietLoop

LEMMA PollGetsResumeStep ==
  ASSUME Typed, Claimed, Handed, PollGetsResume
  PROVE  Moves /\ Rest'
<1> DEFINE reply == calls[Loop].reply
           job   == NewActive(reply, TRUE)
<1>1. /\ LoopStep /\ InPhase(Loop, "answered") /\ calls[Loop].op = "poll" /\ reply.kind = "resume"
      /\ UNCHANGED <<pc, handling>>
  BY DEF PollGetsResume, LoopGets
<1>2. /\ Answered(Loop) /\ reply.id \in Jobs /\ reply.lease \in Leases
      /\ Claim(reply.id, reply.lease)
  BY <1>1, AnsweredJob
<1>3. ~InPhase(Loop, "waiting")
  BY <1>1 DEF InPhase
<1>4. CASE calls' = LoopDone /\ UNCHANGED <<active, injecting, inbox, segments>>
  <2>1. CallsMove /\ calls' = [calls EXCEPT ![Loop] = None]
    BY <1>4, LoopDoneMoves DEF LoopDone
  <2>2. QED BY <1>1, <1>3, <1>4, <2>1, SameActive, LoopTypes, QuietLoop
<1>5. CASE active = None /\ segments' = MarkUnlessSent(reply.id) /\ Inspect(job)
  <2>1. /\ job \in ActiveJob /\ job.id = reply.id /\ job.lease = reply.lease
        /\ segments' \in [Jobs -> Segment \cup {None}]
    BY <1>2, <1>5, TakenJob
  <2>2. reply.id \in Begun
    BY <1>1, <1>2 DEF Handed
  <2> HIDE DEF job, reply
  <2>3. /\ IF job = None THEN active' = None ELSE Same(job, active')
        /\ CallsMove /\ \E call : calls' = [calls EXCEPT ![Loop] = call]
        /\ calls'[Loop] # None => calls'[Loop].op \in {"result", "fail"}
        /\ injecting' \in 0..sequence /\ inbox' \in Seq(Prompt)
        /\ \A k \in DOMAIN inbox' : inbox'[k].who \in Begun \/ \E j \in DOMAIN inbox : inbox'[k].who = inbox[j].who
    BY <1>1, <1>2, <1>5, <2>1, <2>2, InspectEffect DEF LoopStep
  <2>4. active' # None => Takes(reply, active')
    BY <1>1, <2>1, <2>3 DEF Takes, Same
  <2>5. ActiveMoves
    BY <1>2, <1>5, <2>3, <2>4 DEF ActiveMoves, reply
  <2>6. StoreMoves /\ Rest'
    BY <1>1, <1>3, <2>1, <2>3, LoopTypes, LoopRest
  <2>7. PromptsMove
    BY <1>1, <2>3, <2>6, InboxMoves DEF LoopStep
  <2>8. QED BY <2>3, <2>5, <2>6, <2>7 DEF Moves
<1>6. QED BY <1>4, <1>5 DEF PollGetsResume

LEMMA AckAnsweredStep ==
  ASSUME Typed, Claimed, Handed, AckAnswered
  PROVE  Moves /\ Rest'
<1> DEFINE job == IF active = None THEN None ELSE [active EXCEPT !.acknowledged = TRUE]
<1>1. /\ LoopStep /\ InPhase(Loop, "answered") /\ calls[Loop].op = "ack"
      /\ UNCHANGED <<pc, handling, segments>>
  BY DEF AckAnswered, LoopGets
<1>2. ~InPhase(Loop, "waiting")
  BY <1>1 DEF InPhase
<1>3. CASE calls[Loop].reply = Ok /\ Inspect(job)
  <2>1. calls[Loop].id \in Begun /\ (active # None => active.id = calls[Loop].id)
    BY <1>1, <1>3 DEF Handed, InPhase
  <2>2. active # None => job \in ActiveJob /\ job.id = active.id /\ job.lease = active.lease
    BY LoopTypes DEF ActiveJob
  <2>3. active = None => job = None
    OBVIOUS
  <2> HIDE DEF job
  <2>4. job \in ActiveJob \cup {None} /\ (job # None => Claim(job.id, job.lease) /\ job.id \in Begun)
    BY <2>1, <2>2, <2>3, LoopTypes
  <2>5. /\ IF job = None THEN active' = None ELSE Same(job, active')
        /\ CallsMove /\ \E call : calls' = [calls EXCEPT ![Loop] = call]
        /\ calls'[Loop] # None => calls'[Loop].op \in {"result", "fail"}
        /\ injecting' \in 0..sequence /\ inbox' \in Seq(Prompt)
        /\ \A k \in DOMAIN inbox' : inbox'[k].who \in Begun \/ \E j \in DOMAIN inbox : inbox'[k].who = inbox[j].who
    BY <1>1, <1>3, <2>4, InspectEffect DEF LoopStep
  <2>6. active # None /\ active' # None => Continues(active, active')
    BY <1>1, <1>3, <2>2, <2>5 DEF Continues, Same, InPhase
  <2>7. ActiveMoves
    BY <2>3, <2>5, <2>6 DEF ActiveMoves
  <2>8. StoreMoves /\ Rest'
    BY <1>1, <1>2, <2>5, LoopTypes, LoopRest
  <2>9. PromptsMove
    BY <1>1, <2>5, <2>8, InboxMoves DEF LoopStep
  <2>10. QED BY <2>5, <2>7, <2>8, <2>9 DEF Moves
<1>4. CASE Cleared(calls[Loop]) /\ calls' = LoopDone /\ UNCHANGED inbox
  <2>1. CallsMove /\ calls' = [calls EXCEPT ![Loop] = None]
    BY <1>4, LoopDoneMoves DEF LoopDone
  <2>2. ActiveMoves /\ injecting' \in 0..sequence
    BY <1>4, LoopTypes DEF Cleared, ActiveMoves, Typed, StoreTyped
  <2>3. QED BY <1>1, <1>2, <1>4, <2>1, <2>2, LoopTypes, QuietLoop
<1>5. QED BY <1>3, <1>4 DEF AckAnswered

LEMMA SendControlAckStep ==
  ASSUME Typed, Claimed, SendControlAck
  PROVE  Moves /\ Rest'
<1>1. /\ LoopStep /\ calls[Loop] = None /\ calls' = Sending(Loop, "controlAck", NoJob, handling)
      /\ pc' = "top" /\ handling' = 0 /\ UNCHANGED <<active, injecting, inbox, segments>>
  BY DEF SendControlAck, LoopAt
<1>2. CallsMove /\ calls' = [calls EXCEPT ![Loop] = Call("controlAck", NoJob, handling)]
  BY <1>1, LoopTypes, SendMoves DEF LoopStep
<1>3. ~InPhase(Loop, "waiting") /\ ActiveMoves
  BY <1>1, SameActive DEF InPhase
<1>4. QED BY <1>1, <1>2, <1>3, LoopTypes, QuietLoop

LEMMA ControlAckAnsweredStep ==
  ASSUME Typed, Claimed, ControlAckAnswered
  PROVE  Moves /\ Rest'
<1>1. /\ LoopStep /\ InPhase(Loop, "answered") /\ Report(active)
      /\ UNCHANGED <<pc, handling, injecting, inbox, segments>>
  BY DEF ControlAckAnswered, LoopGets
<1>2. /\ IF active = None THEN active' = None ELSE Same(active, active')
      /\ CallsMove /\ \E call : calls' = [calls EXCEPT ![Loop] = call]
  BY <1>1, LoopTypes, ReportEffect DEF LoopStep
<1>3. ~InPhase(Loop, "waiting") /\ ActiveMoves
  BY <1>1, <1>2, SameMoves DEF InPhase
<1>4. QED BY <1>1, <1>2, <1>3, LoopTypes, QuietLoop

LEMMA PollGetsControlStep ==
  ASSUME Typed, Claimed, PollGetsControl
  PROVE  Moves /\ Rest'
<1> DEFINE c == calls[Loop].reply
           matches   == active # None /\ c.id \in {0, active.id}
           job       == [active EXCEPT !.interrupted = TRUE]
           harvested == HarvestResult(active.id)
           answered  == matches /\ ~streaming /\ active.sent /\ harvested.status # "pending"
           next      == IF ~matches \/ streaming THEN IF matches THEN job ELSE active
                        ELSE IF answered THEN Finish(job, harvested)
                        ELSE Aborted(job)
<1>1. /\ LoopStep /\ InPhase(Loop, "answered") /\ calls[Loop].op = "poll" /\ c.kind = "control"
      /\ UNCHANGED <<injecting, inbox, segments>>
  BY DEF PollGetsControl, LoopGets
<1>2. /\ IF answered /\ CanPost(next)
           THEN Report(next) /\ pc' = "control" /\ handling' = c.n
           ELSE /\ active' = next
                /\ calls' = Sending(Loop, "controlAck", NoJob, c.n)
                /\ UNCHANGED <<pc, handling>>
  BY DEF PollGetsControl
<1>3. c.n \in Nat
  <2>1. c \in Reply
    BY <1>1, SlotFacts DEF Typed, CallsTyped, CallFits, InPhase
  <2>2. c \in Control
    BY <1>1, <2>1 DEF Reply, Control, Ok, Idle, Conflict, TooLarge, Failure
  <2>3. QED BY <2>2 DEF Control
<1>4. active # None => Same(active, next)
  <2>1. ASSUME active # None PROVE Same(active, next)
    <3>1. active \in ActiveJob /\ harvested \in Harvests
      BY <2>1, LoopTypes, SegmentsTypes DEF ActiveJob
    <3>2. Same(active, job) /\ Same(active, active) /\ job \in ActiveJob
      BY <3>1, SameJob DEF Same
    <3> HIDE DEF job, harvested
    <3>3. Same(job, Finish(job, harvested)) /\ Same(job, Aborted(job))
      BY <3>1, <3>2, SameJob
    <3>4. Same(active, Finish(job, harvested)) /\ Same(active, Aborted(job))
      BY <3>2, <3>3 DEF Same
    <3>5. next \in {job, active, Finish(job, harvested), Aborted(job)}
      OBVIOUS
    <3>6. QED BY <3>2, <3>4, <3>5
  <2>2. QED BY <2>1
<1>5. active = None => next = None
  OBVIOUS
<1> HIDE DEF c, next, answered
<1>6. next \in ActiveJob \cup {None} /\ (next # None => Claim(next.id, next.lease))
  BY <1>4, <1>5, LoopTypes DEF Same
<1>7. ~InPhase(Loop, "waiting")
  BY <1>1 DEF InPhase
<1>8. /\ IF next = None THEN active' = None ELSE Same(next, active')
      /\ CallsMove /\ \E call : calls' = [calls EXCEPT ![Loop] = call]
  <2>1. CASE Report(next)
    BY <1>1, <1>6, <2>1, ReportEffect DEF LoopStep
  <2>2. CASE active' = next /\ calls' = Sending(Loop, "controlAck", NoJob, c.n)
    BY <1>1, <1>3, <1>6, <2>2, SameJob, SendMoves DEF LoopStep
  <2>3. QED BY <1>2, <2>1, <2>2
<1>9. ActiveMoves
  <2>1. active # None => Same(active, active')
    BY <1>4, <1>6, <1>8, ActiveApart DEF Same
  <2>2. QED BY <1>5, <1>8, <2>1, SameMoves
<1>10. QED BY <1>1, <1>2, <1>3, <1>7, <1>8, <1>9, LoopTypes, QuietLoop

LEMMA TerminalAnsweredStep ==
  ASSUME Typed, Claimed, NEW slot \in {Loop, Event}, TerminalAnswered(slot)
  PROVE  Moves /\ Rest'
<1> DEFINE c == calls[slot]
           resent == FailOf("terminal-report-failed")
<1>1. /\ up /\ NoFault /\ InPhase(slot, "answered") /\ c.op \in {"result", "fail"}
      /\ UNCHANGED <<store, server, waiter, agent, process, pc, handling>>
  BY DEF TerminalAnswered, NoFault
<1>2. slot \in Slots /\ c # None /\ CallFits(c, slot)
  BY <1>1, SlotFacts DEF InPhase, Typed, CallsTyped
<1>3. ASSUME calls' = [calls EXCEPT ![slot] = None],
             \/ Cleared(c)
             \/ UNCHANGED <<active, injecting>>
             \/ /\ active # None /\ active' = [FailWith(active, "result-too-large") EXCEPT !.posting = "no"]
                /\ UNCHANGED injecting
             \/ /\ active # None /\ active' = [active EXCEPT !.attempts = active.attempts + 1, !.posting = "no"]
                /\ UNCHANGED injecting
      PROVE  /\ CallsMove /\ ActiveMoves /\ injecting' \in 0..sequence
             /\ \E call : calls' = [calls EXCEPT ![slot] = call]
  <2>1. CallsMove
    BY <1>2, <1>3, OneCall DEF CallMoves
  <2>2. injecting' \in 0..sequence
    BY <1>3, LoopTypes DEF Cleared, Typed, StoreTyped
  <2>3. active # None => active \in ActiveJob /\ active.attempts + 1 \in Nat
    BY LoopTypes DEF ActiveJob
  <2>4. active' = None \/ active' = active \/ (active # None /\ Same(active, active'))
    <3>1. CASE Cleared(c) \/ UNCHANGED <<active, injecting>>
      BY <3>1 DEF Cleared
    <3>2. CASE active # None /\ active' = [FailWith(active, "result-too-large") EXCEPT !.posting = "no"]
      BY <2>3, <3>2, SameJob
    <3>3. CASE active # None /\ active' = [active EXCEPT !.attempts = active.attempts + 1, !.posting = "no"]
      BY <2>3, <3>3, SameJob
    <3>4. QED BY <1>3, <3>1, <3>2, <3>3
  <2>5. ActiveMoves
    BY <2>3, <2>4, SameJob, SameMoves DEF ActiveMoves
  <2>6. QED BY <1>3, <2>1, <2>2, <2>5
<1>4. ASSUME NEW job, calls' = LastResort(slot, job), UNCHANGED injecting,
             \/ job = c /\ UNCHANGED active
             \/ /\ active # None /\ job = active
                /\ active' = [active EXCEPT !.attempts = active.attempts + 1]
      PROVE  /\ CallsMove /\ ActiveMoves /\ injecting' \in 0..sequence
             /\ \E call : calls' = [calls EXCEPT ![slot] = call]
  <2>1. active # None => active \in ActiveJob /\ Claim(active.id, active.lease) /\ active.attempts + 1 \in Nat
    BY LoopTypes DEF ActiveJob
  <2>2. job.id \in Jobs /\ job.lease \in Leases /\ Claim(job.id, job.lease)
    BY <1>1, <1>2, <1>4, <2>1 DEF ActiveJob, CallFits, Claim
  <2>3. resent \in Outcomes /\ resent.op = "fail"
    BY DEF FailOf, Outcomes, Codes
  <2>4. calls' = Sending(slot, resent.op, job, resent)
    BY <1>4, <2>3 DEF LastResort
  <2> HIDE DEF resent
  <2>5. CallsMove
    BY <1>1, <2>2, <2>3, <2>4, PostMoves
  <2>6. ActiveMoves
    BY <1>4, <2>1, SameJob, SameMoves
  <2>7. QED BY <1>4, <2>5, <2>6, LoopTypes DEF LastResort, Sending
<1>5. /\ CallsMove /\ ActiveMoves /\ injecting' \in 0..sequence
      /\ \E call : calls' = [calls EXCEPT ![slot] = call]
  <2>1. CASE c.reply \in {Ok, Conflict} \/ LastAttempt(slot)
    BY <1>3, <2>1 DEF TerminalAnswered
  <2>2. CASE ~(c.reply \in {Ok, Conflict} \/ LastAttempt(slot)) /\ ~PostsFor(slot)
    BY <1>3, <1>4, <2>2 DEF TerminalAnswered
  <2>3. CASE ~(c.reply \in {Ok, Conflict} \/ LastAttempt(slot)) /\ PostsFor(slot)
    BY <1>3, <1>4, <2>3 DEF TerminalAnswered, PostsFor
  <2>4. QED BY <2>1, <2>2, <2>3
<1>6. ~InPhase(slot, "waiting")
  BY <1>1 DEF InPhase
<1>7. waiter # None => calls'[waiter] = calls[waiter]
  BY <1>2, <1>5, <1>6, WaiterStays
<1>8. AgentTyped' /\ UNCHANGED <<inbox, prompted>>
  BY <1>1 DEF agent, Typed, AgentTyped, Jobs, Authors, Segment
<1>9. StoreMoves /\ Rest'
  BY <1>1, <1>5, <1>7, <1>8, LoopTypes, TuiRest
<1>10. PromptsMove
  BY <1>8, <1>9, InboxMoves
<1>11. QED BY <1>5, <1>9, <1>10 DEF Moves

LEMMA DispatchOverdueStep ==
  ASSUME Typed, Claimed, DispatchOverdue
  PROVE  Moves /\ Rest'
<1>1. /\ up /\ (NoFault \/ Fault) /\ active # None /\ active' = [active EXCEPT !.dispatched = "overdue"]
      /\ UNCHANGED <<store, server, calls, waiter, process, agent, pc, handling, injecting>>
  BY DEF DispatchOverdue, network
<1>2. AgentTyped' /\ UNCHANGED <<inbox, prompted>>
  BY <1>1 DEF agent, Typed, AgentTyped, Jobs, Authors, Segment
<1>3. StoreMoves /\ Rest'
  BY <1>1, <1>2, LoopTypes, TuiRest
<1>4. ActiveMoves
  BY <1>1, LoopTypes, SameJob, SameMoves
<1>5. QED BY <1>1, <1>2, <1>3, <1>4, SameCalls, InboxMoves DEF Moves

-----------------------------------------------------------------------------
(* The steps of the network, and the ends of the extension.                *)

LEMMA OrphanMoves ==
  ASSUME Typed, Fresh, Fault, NEW A \in SUBSET {"loop", "event"},
         calls' = [s \in Slots |-> calls'[s]],
         \A s \in Slots : calls'[s] = Orphaned(A)[s] \/ (s[1] \in A /\ s[2] = 0 /\ CallMoves(s)),
         waiter' = Rewaited(A)
  PROVE  CallsMove /\ WaiterWaits'
<1>1. faults \in 0..MaxFaults /\ faults' = faults + 1 /\ faults' \in 1..MaxFaults
  BY BoundsAssumption DEF Fault, Typed, SessionTyped
<1>2. \A s \in Slots : CallMoves(s)
  <2>1. ASSUME NEW s \in Slots, calls'[s] = Orphaned(A)[s] PROVE CallMoves(s)
    <3>1. \/ calls'[s] = calls[s] \/ calls'[s] = None
          \/ /\ s[2] # 0 /\ s[2] = faults' /\ calls[<<s[1], 0>>] # None /\ ~InPhase(<<s[1], 0>>, "answered")
             /\ calls'[s] = calls[<<s[1], 0>>]
      BY <2>1 DEF Orphaned
    <3>2. QED BY <3>1, Zenon DEF CallMoves, InPhase
  <2>2. QED BY <2>1
<1>3. ASSUME waiter = None PROVE WaiterWaits'
  BY <1>3 DEF Rewaited, WaiterWaits
<1>4. ASSUME waiter # None PROVE WaiterWaits'
  <2>1. waiter \in Slots /\ InPhase(waiter, "waiting")
    BY <1>4 DEF Typed, WaiterWaits
  <2>2. CASE waiter[2] = 0 /\ waiter[1] \in A
    <3>1. waiter' = <<waiter[1], faults'>> /\ waiter = <<waiter[1], 0>>
      BY <1>4, <2>1, <2>2 DEF Rewaited, Slots
    <3>2. waiter' \in Slots /\ waiter'[2] # 0 /\ waiter'[2] = faults' /\ waiter'[1] = waiter[1]
      BY <1>1, <2>1, <3>1 DEF Slots
    <3>3. calls'[waiter'] = calls[waiter]
      BY <2>1, <2>2, <3>1, <3>2 DEF Orphaned, InPhase
    <3>4. QED BY <2>1, <3>2, <3>3 DEF WaiterWaits, InPhase, Slots
  <2>3. CASE ~(waiter[2] = 0 /\ waiter[1] \in A)
    <3>1. waiter' = waiter
      BY <2>3 DEF Rewaited
    <3>2. waiter[2] # faults'
      <4>1. ~(waiter[2] > faults)
        BY <2>1 DEF Fresh, InPhase
      <4>2. QED BY <1>1, <2>1, <4>1 DEF Slots
    <3>3. calls'[waiter] = calls[waiter]
      BY <2>1, <2>3, <3>2 DEF Orphaned
    <3>4. QED BY <2>1, <3>1, <3>3 DEF WaiterWaits, InPhase, Slots
  <2>4. QED BY <2>2, <2>3
<1>5. QED BY <1>2, <1>3, <1>4 DEF CallsMove

LEMMA CallFailsStep ==
  ASSUME Typed, Claimed, Fresh, NEW a \in {"loop", "event"}, CallFails(a)
  PROVE  Moves /\ Rest'
<1> DEFINE slot == <<a, 0>>
<1>1. /\ calls[slot] # None /\ Fault /\ waiter' = Rewaited({a})
      /\ calls' = [Orphaned({a}) EXCEPT ![slot] = [calls[slot] EXCEPT !.phase = "answered", !.reply = Failure]]
      /\ UNCHANGED <<store, server, agent, bridge, process>>
  BY DEF CallFails
<1>2. slot \in Slots /\ slot[2] = 0 /\ slot[1] \in {a}
  BY SlotFacts DEF Loop, Event
<1>3. DOMAIN Orphaned({a}) = Slots
  BY DEF Orphaned
<1>4. calls' = [s \in Slots |-> calls'[s]]
  BY <1>1, <1>3
<1>5. calls'[slot] = [calls[slot] EXCEPT !.phase = "answered", !.reply = Failure]
  BY <1>1, <1>2, <1>3
<1>6. Answers(calls[slot], Failure)
  BY DEF Answers, Reply, Failure, Ok
<1>7. Progress(calls[slot], slot, "answered", Failure)
  BY <1>2, <1>6 DEF Progress
<1>8. CallMoves(slot)
  BY <1>1, <1>5, <1>7, Zenon DEF CallMoves
<1>9. \A s \in Slots : s # slot => calls'[s] = Orphaned({a})[s]
  BY <1>1, <1>3
<1>10. {a} \in SUBSET {"loop", "event"}
  OBVIOUS
<1> HIDE DEF slot
<1>11. \A s \in Slots : calls'[s] = Orphaned({a})[s] \/ (s[1] \in {a} /\ s[2] = 0 /\ CallMoves(s))
  BY <1>2, <1>8, <1>9
<1>12. CallsMove /\ WaiterWaits'
  BY <1>1, <1>4, <1>10, <1>11, OrphanMoves
<1>13. QED BY <1>1, <1>12, NoMove, ControllerRuns

LEMMA OrphanLostStep ==
  ASSUME Typed, Claimed, NEW slot \in Slots, OrphanLost(slot)
  PROVE  Moves /\ Rest'
<1>1. /\ InPhase(slot, "sent") /\ calls' = [calls EXCEPT ![slot] = None] /\ NoFault
      /\ UNCHANGED <<store, server, waiter, agent, bridge, process>>
  BY DEF OrphanLost, NoFault
<1>2. CallsMove
  BY <1>1, OneCall DEF CallMoves
<1>3. waiter # None => calls'[waiter] = calls[waiter]
  BY <1>1, WaiterStays DEF InPhase
<1>4. WaiterWaits'
  BY <1>1, <1>3 DEF Typed, WaiterWaits, InPhase, Slots
<1>5. QED BY <1>1, <1>2, <1>4, NoMove, ControllerRuns

LEMMA AbandonMoves ==
  ASSUME Typed, Claimed, Fresh, Fault, UNCHANGED store,
         calls' = Orphaned({"loop", "event"}), waiter' = Rewaited({"loop", "event"})
  PROVE  StoreMoves /\ CallsMove /\ WaiterWaits'
<1>1. calls' = [s \in Slots |-> calls'[s]]
  BY DEF Orphaned
<1>2. CallsMove /\ WaiterWaits'
  BY <1>1, OrphanMoves
<1>3. QED BY <1>2, NoMove

LEMMA ReloadStep ==
  ASSUME Typed, Claimed, Fresh, Reload
  PROVE  Moves /\ Rest'
<1>1. StoreMoves /\ CallsMove /\ WaiterWaits'
  BY AbandonMoves DEF Reload
<1>2. /\ up' = up /\ starts' = starts /\ live' = live /\ UNCHANGED <<control, controlCount>>
      /\ UNCHANGED <<inbox, prompted>> /\ faults' \in 0..MaxFaults /\ sequence' \in Nat
  BY FaultTypes DEF Reload, process, server, agent, store, Typed, StoreTyped
<1>3. AgentTyped'
  BY DEF Reload, agent, Typed, AgentTyped, Jobs, Authors, Segment
<1>4. ControlTyped'
  BY <1>1, <1>2, SameControl
<1>5. SessionTyped' /\ EndedIsEmpty'
  BY <1>2, <1>4 DEF Reload, Typed, SessionTyped, EndedIsEmpty
<1>6. ActiveMoves /\ PromptsMove
  BY <1>1, <1>2, InboxMoves DEF Reload, ActiveMoves
<1>7. QED BY <1>1, <1>3, <1>5, <1>6 DEF Moves, Rest

LEMMA TuiExitsStep ==
  ASSUME Typed, Claimed, Fresh, TuiExits
  PROVE  Moves /\ Rest'
<1>1. StoreMoves /\ CallsMove /\ WaiterWaits'
  BY AbandonMoves DEF TuiExits
<1>2. /\ up' = FALSE /\ starts' = starts /\ live' = live /\ UNCHANGED <<control, controlCount>>
      /\ inbox' = <<>> /\ UNCHANGED <<typed, prompted>> /\ faults' \in 0..MaxFaults /\ sequence' \in Nat
  BY FaultTypes DEF TuiExits, server, store, Typed, StoreTyped
<1>3. AgentTyped'
  <2>1. /\ segments' \in [Jobs -> Segment \cup {None}] /\ turn' = None /\ streaming' = FALSE
        /\ typed' \in 0..MaxLocal /\ prompted' \in [Jobs -> Nat] /\ inbox' \in Seq(Prompt)
    BY <1>2 DEF TuiExits, Typed, AgentTyped
  <2>2. QED BY <2>1 DEF AgentTyped, Prompt, Jobs, Authors, Segment
<1>4. ControlTyped'
  BY <1>1, <1>2, SameControl
<1>5. SessionTyped' /\ EndedIsEmpty'
  <2>1. active' = None /\ injecting' = 0 /\ pc' = "top" /\ handling' = 0 /\ streaming' = FALSE
    BY DEF TuiExits
  <2>2. live \in BOOLEAN /\ starts \in 1..MaxStarts
    BY DEF Typed, SessionTyped
  <2>3. EndedIsEmpty'
    BY <1>2, <2>1 DEF EndedIsEmpty
  <2>4. live' \in BOOLEAN /\ up' \in BOOLEAN
    BY <1>2, <2>2, Zenon
  <2>5. starts' \in 1..MaxStarts /\ handling' \in Nat /\ pc' \in {"top", "poll", "control"}
    BY <1>2, <2>1, <2>2
  <2>6. injecting' \in 0..sequence'
    BY <1>2, <2>1
  <2>7. SessionTyped'
    BY <1>2, <1>4, <2>4, <2>5, <2>6 DEF SessionTyped
  <2>8. QED BY <2>3, <2>7
<1>6. ActiveMoves /\ PromptsMove
  BY <1>1, <1>2, InboxMoves DEF TuiExits, ActiveMoves
<1>7. QED BY <1>1, <1>3, <1>5, <1>6 DEF Moves, Rest

-----------------------------------------------------------------------------
(* The steps of pi.                                                        *)

\* Where the j-th element stood before the k-th was taken out.
Moved(j, k) == IF j < k THEN j ELSE j + 1

LEMMA Removed ==
  ASSUME NEW S, NEW s \in Seq(S), NEW k \in DOMAIN s
  PROVE  /\ RemoveAt(s, k) \in Seq(S)
         /\ \A j \in DOMAIN RemoveAt(s, k) : \E m \in DOMAIN s : RemoveAt(s, k)[j] = s[m]
         /\ \A j \in DOMAIN RemoveAt(s, k) :
              /\ j \in Nat /\ Moved(j, k) \in DOMAIN s /\ Moved(j, k) # k
              /\ RemoveAt(s, k)[j] = s[Moved(j, k)]
<1> DEFINE head == SubSeq(s, 1, k - 1)
           tail == SubSeq(s, k + 1, Len(s))
<1>1. k \in 1..Len(s) /\ Len(s) \in Nat
  OBVIOUS
<1>2. RemoveAt(s, k) = head \o tail
  BY DEF RemoveAt
<1>3. /\ head \in Seq(S) /\ Len(head) = k - 1 /\ \A j \in 1..(k - 1) : head[j] = s[j]
  BY <1>1
<1>4. /\ tail \in Seq(S) /\ Len(tail) = Len(s) - k /\ \A j \in 1..(Len(s) - k) : tail[j] = s[k + j]
  BY <1>1
<1> HIDE DEF head, tail
<1>5. /\ head \o tail \in Seq(S) /\ Len(head \o tail) = Len(s) - 1
      /\ \A j \in 1..(Len(s) - 1) : (head \o tail)[j] = IF j <= k - 1 THEN s[j] ELSE s[j + 1]
  <2>1. /\ head \o tail \in Seq(S) /\ Len(head \o tail) = Len(head) + Len(tail)
        /\ \A j \in 1..(Len(head) + Len(tail)) :
             (head \o tail)[j] = IF j <= Len(head) THEN head[j] ELSE tail[j - Len(head)]
    BY <1>3, <1>4, ConcatProperties, Zenon
  <2>2. Len(head) + Len(tail) = Len(s) - 1
    BY <1>1, <1>3, <1>4
  <2>3. ASSUME NEW j \in 1..(Len(s) - 1)
        PROVE  (head \o tail)[j] = IF j <= k - 1 THEN s[j] ELSE s[j + 1]
    <3>1. CASE j <= k - 1
      <4>1. j \in 1..(k - 1) /\ j \in 1..(Len(head) + Len(tail)) /\ j <= Len(head)
        BY <1>1, <1>3, <2>2, <3>1
      <4>2. QED BY <1>3, <2>1, <3>1, <4>1
    <3>2. CASE ~(j <= k - 1)
      <4>1. /\ j - (k - 1) \in 1..(Len(s) - k) /\ k + (j - (k - 1)) = j + 1
            /\ j \in 1..(Len(head) + Len(tail)) /\ ~(j <= Len(head))
        BY <1>1, <1>3, <2>2, <3>2
      <4>2. QED BY <1>3, <1>4, <2>1, <3>2, <4>1
    <3>3. QED BY <3>1, <3>2
  <2>4. QED BY <2>1, <2>2, <2>3
<1>6. ASSUME NEW j \in DOMAIN (head \o tail)
      PROVE  /\ j \in Nat /\ Moved(j, k) \in DOMAIN s /\ Moved(j, k) # k
             /\ (head \o tail)[j] = s[Moved(j, k)]
  <2>1. j \in 1..(Len(s) - 1)
    BY <1>5
  <2>2. Moved(j, k) \in 1..Len(s) /\ Moved(j, k) # k
    BY <1>1, <2>1 DEF Moved
  <2>3. Moved(j, k) = IF j <= k - 1 THEN j ELSE j + 1
    BY <1>1, <2>1 DEF Moved
  <2>4. (head \o tail)[j] = s[Moved(j, k)]
    BY <1>5, <2>1, <2>3, Zenon
  <2>5. QED BY <2>1, <2>2, <2>4
<1>7. QED BY <1>2, <1>5, <1>6

LEMMA Prompts ==
  ASSUME Typed, NEW k \in DOMAIN inbox
  PROVE  inbox[k] \in Prompt /\ inbox[k].who \in Authors
<1>1. inbox \in Seq(Prompt) /\ k \in 1..Len(inbox)
  BY LoopTypes
<1>2. inbox[k] \in Prompt
  BY <1>1
<1>3. QED BY <1>2 DEF Prompt

\* A step of pi that hands over no job.
LEMMA PiRest ==
  ASSUME Typed, Claimed, PiStep, NoFault \/ Fault, UNCHANGED calls,
         AgentTyped', injecting' \in 0..sequence, ActiveMoves, PromptsMove
  PROVE  Moves /\ Rest'
<1>1. UNCHANGED <<store, server, process, waiter, pc, handling>> /\ up
  BY DEF PiStep
<1>2. StoreMoves /\ Rest'
  BY <1>1, LoopTypes, TuiRest
<1>3. QED BY <1>2, SameCalls DEF Moves

LEMMA InputEventStep ==
  ASSUME Typed, Claimed, NEW k \in DOMAIN inbox, InputEvent(k)
  PROVE  Moves /\ Rest'
<1> DEFINE marks == active # None /\ injecting = active.id /\ active.dispatched # "no" /\ ~active.sent
<1>1. /\ PiStep /\ NoFault /\ inbox' = [inbox EXCEPT ![k].seen = TRUE]
      /\ segments' = IF marks THEN Marking(active.id) ELSE segments
      /\ active' = IF marks THEN [active EXCEPT !.observed = TRUE] ELSE active
      /\ UNCHANGED <<calls, turn, streaming, typed, prompted, injecting>>
  BY DEF InputEvent
<1>2. /\ inbox' \in Seq(Prompt) /\ \A j \in DOMAIN inbox' : j \in DOMAIN inbox /\ inbox'[j].who = inbox[j].who
  <2>1. [inbox[k] EXCEPT !.seen = TRUE] \in Prompt /\ [inbox[k] EXCEPT !.seen = TRUE].who = inbox[k].who
    BY Prompts DEF Prompt
  <2>2. inbox' = [inbox EXCEPT ![k] = [inbox[k] EXCEPT !.seen = TRUE]]
    BY <1>1
  <2>3. QED BY <2>1, <2>2, LoopTypes
<1>3. segments' \in [Jobs -> Segment \cup {None}]
  BY <1>1, LoopTypes, SegmentsTypes DEF ActiveJob
<1>4. AgentTyped'
  BY <1>1, <1>2, <1>3 DEF Typed, AgentTyped, Prompt, Jobs, Authors, Segment
<1>5. ActiveMoves
  <2>1. active # None => Same(active, active')
    BY <1>1, LoopTypes, SameJob
  <2>2. active = None => active' = None
    BY <1>1
  <2>3. QED BY <2>1, <2>2, SameMoves
<1>6. PromptsMove
  BY <1>1, <1>2 DEF PromptsMove
<1>7. QED BY <1>1, <1>4, <1>5, <1>6, LoopTypes, PiRest

LEMMA TypePromptStep ==
  ASSUME Typed, Claimed, TypePrompt
  PROVE  Moves /\ Rest'
<1> DEFINE prompt == [who |-> Local, seen |-> TRUE]
<1>1. /\ PiStep /\ NoFault /\ typed < MaxLocal /\ typed' = typed + 1 /\ inbox' = Append(inbox, prompt)
      /\ active' = IF active = None THEN None ELSE [active EXCEPT !.interrupted = TRUE]
      /\ UNCHANGED <<calls, segments, turn, streaming, prompted, injecting>>
  BY DEF TypePrompt
<1>2. prompt \in Prompt /\ prompt.who = Local
  BY DEF Prompt, Authors
<1> HIDE DEF prompt
<1>3. /\ inbox' \in Seq(Prompt)
      /\ \A j \in DOMAIN inbox' : inbox'[j].who = Local \/ \E m \in DOMAIN inbox : inbox'[j].who = inbox[m].who
  BY <1>1, <1>2, LoopTypes
<1>4. typed' \in 0..MaxLocal
  BY <1>1, BoundsAssumption DEF Typed, AgentTyped
<1>5. AgentTyped'
  BY <1>1, <1>3, <1>4 DEF Typed, AgentTyped, Prompt, Jobs, Authors, Segment
<1>6. ActiveMoves
  BY <1>1, LoopTypes, SameJob, SameMoves
<1>7. PromptsMove
  BY <1>1, <1>3 DEF PromptsMove
<1>8. QED BY <1>1, <1>5, <1>6, <1>7, LoopTypes, PiRest

LEMMA RecordPromptStep ==
  ASSUME Typed, Claimed, NEW k \in DOMAIN inbox, RecordPrompt(k)
  PROVE  Moves /\ Rest'
<1> DEFINE who == inbox[k].who
<1>1. /\ PiStep /\ NoFault /\ inbox' = RemoveAt(inbox, k)
      /\ \E segs \in AnsweredSoFar : segments' = Recording(segs)
      /\ turn' = who /\ streaming' = TRUE
      /\ prompted' = IF who = Local THEN prompted ELSE [prompted EXCEPT ![who] = @ + 1]
      /\ UNCHANGED <<calls, typed>>
  BY DEF RecordPrompt
<1>2. /\ inbox' \in Seq(Prompt) /\ \A j \in DOMAIN inbox' : \E m \in DOMAIN inbox : inbox'[j] = inbox[m]
  BY <1>1, LoopTypes, Removed
<1>3. who \in Authors
  BY Prompts
<1>4. segments' \in [Jobs -> Segment \cup {None}]
  BY <1>1, SegmentsTypes
<1>5. /\ prompted' \in [Jobs -> Nat]
      /\ \A i \in Jobs : prompted'[i] > 0 => prompted[i] > 0 \/ i = who
  BY <1>1, <1>3 DEF Typed, AgentTyped, Authors
<1>6. AgentTyped'
  BY <1>1, <1>2, <1>3, <1>4, <1>5 DEF Typed, AgentTyped, Prompt, Jobs, Authors, Segment
<1>7. PromptsMove
  BY <1>2, <1>5 DEF PromptsMove
<1>8. ActiveMoves /\ injecting' \in 0..sequence
  <2>1. active # None => Same(active, active')
    BY LoopTypes, SameJob DEF RecordPrompt
  <2>2. active = None => active' = None
    BY DEF RecordPrompt
  <2>3. injecting' \in 0..sequence
    BY LoopTypes DEF RecordPrompt, Typed, StoreTyped
  <2>4. QED BY <2>1, <2>2, <2>3, SameMoves
<1>9. QED BY <1>1, <1>6, <1>7, <1>8, PiRest

LEMMA PromptLostStep ==
  ASSUME Typed, Claimed, NEW k \in DOMAIN inbox, PromptLost(k)
  PROVE  Moves /\ Rest'
<1>1. /\ PiStep /\ Fault /\ inbox' = RemoveAt(inbox, k)
      /\ UNCHANGED <<calls, segments, turn, streaming, typed, prompted, active, injecting>>
  BY DEF PromptLost
<1>2. /\ inbox' \in Seq(Prompt) /\ \A j \in DOMAIN inbox' : \E m \in DOMAIN inbox : inbox'[j] = inbox[m]
  BY <1>1, LoopTypes, Removed
<1>3. AgentTyped'
  BY <1>1, <1>2 DEF Typed, AgentTyped, Prompt, Jobs, Authors, Segment
<1>4. PromptsMove
  BY <1>1, <1>2 DEF PromptsMove
<1>5. QED BY <1>1, <1>3, <1>4, LoopTypes, SameActive, PiRest

\* The agent_settled handler decides the job, or hands over one that began.
\* How the agent_settled handler reports the job it has decided.
EventReports(next) ==
  IF CanPost(next) /\ calls[Event] = None
    THEN active' = PostedFrom("event", next) /\ calls' = Post(Event, next)
    ELSE active' = next /\ UNCHANGED calls

LEMMA AgentSettledStep ==
  ASSUME Typed, Claimed, Handed, AgentSettled
  PROVE  Moves /\ Rest'
<1>1. PICK segs \in AnsweredAtLast :
       LET sent      == active.sent \/ H!SegmentHasUser(segs[active.id])
           job       == [active EXCEPT !.sent = sent]
           harvested == H!SegmentResult(segs[active.id])
           next      == IF sent /\ harvested.status = "pending" /\ ~job.interrupted
                          THEN FailWith(job, "missing-assistant-result")
                          ELSE Finish(job, harvested)
       IN  /\ segments' = segs
           /\ IF active = None THEN UNCHANGED <<active, calls, injecting, inbox>>
              ELSE IF Decidable(job)
                THEN EventReports(next) /\ UNCHANGED <<injecting, inbox>>
              ELSE \/ /\ Dispatchable(job)
                      /\ active' = Dispatched(job) /\ HandsOver(job)
                      /\ UNCHANGED calls
                   \/ /\ Dispatchable(job) => TRUE \in PendingMessages
                      /\ UNCHANGED <<active, calls, injecting, inbox>>
  BY DEF AgentSettled, EventReports
<1> DEFINE sent      == active.sent \/ H!SegmentHasUser(segs[active.id])
           job       == [active EXCEPT !.sent = sent]
           harvested == H!SegmentResult(segs[active.id])
           next      == IF sent /\ harvested.status = "pending" /\ ~job.interrupted
                          THEN FailWith(job, "missing-assistant-result")
                          ELSE Finish(job, harvested)
<1>2. /\ PiStep /\ NoFault /\ streaming' = FALSE /\ turn' = None /\ UNCHANGED <<typed, prompted>>
      /\ segments' = segs /\ segs \in [Jobs -> Segment \cup {None}]
  BY <1>1, SegmentsTypes DEF AgentSettled
<1>3. ASSUME active # None
      PROVE  /\ Same(active, job) /\ Same(active, next) /\ Same(active, Dispatched(job))
  <2>1. active \in ActiveJob /\ active.id \in Jobs
    BY <1>3, LoopTypes DEF ActiveJob
  <2>2. segs[active.id] \in Segment \cup {None}
    BY <1>2, <2>1
  <2>3. sent \in BOOLEAN /\ harvested \in Harvests
    BY <2>1, <2>2, SegmentTypes DEF ActiveJob
  <2> HIDE DEF sent, harvested
  <2>4. Same(active, job) /\ job \in ActiveJob
    BY <2>1, <2>3, SameJob DEF Same
  <2>5. "missing-assistant-result" \in Codes
    BY DEF Codes
  <2> HIDE DEF job
  <2>6. Same(job, FailWith(job, "missing-assistant-result")) /\ Same(job, Finish(job, harvested))
        /\ Same(job, Dispatched(job))
    BY <2>3, <2>4, <2>5, SameJob
  <2>7. next \in {FailWith(job, "missing-assistant-result"), Finish(job, harvested)}
    OBVIOUS
  <2>8. QED BY <2>4, <2>6, <2>7 DEF Same
<1>4. \/ UNCHANGED <<active, calls, injecting, inbox>>
      \/ active # None /\ EventReports(next) /\ UNCHANGED <<injecting, inbox>>
      \/ /\ active # None /\ Dispatchable(job) /\ active' = Dispatched(job) /\ HandsOver(job)
         /\ UNCHANGED calls
  BY <1>1
<1> HIDE DEF sent, harvested, job, next
<1>5. ActiveMoves
  <2>1. CASE UNCHANGED active
    BY <2>1, SameActive
  <2>2. CASE active # None /\ EventReports(next)
    <3>1. next \in ActiveJob /\ Same(next, next) /\ Same(next, PostedFrom("event", next))
      BY <1>3, <2>2, SameJob DEF Same
    <3>2. Same(active, active')
      BY <1>3, <2>2, <3>1 DEF EventReports, Same
    <3>3. QED BY <2>2, <3>2, SameMoves
  <2>3. CASE active # None /\ active' = Dispatched(job)
    BY <1>3, <2>3, SameMoves
  <2>4. QED BY <1>4, <2>1, <2>2, <2>3
<1>6. ASSUME inbox' \in Seq(Prompt), PromptsMove PROVE AgentTyped'
  BY <1>2, <1>6 DEF Typed, AgentTyped, Prompt, Jobs, Authors, Segment
<1>7. CASE UNCHANGED <<active, calls, injecting, inbox>>
  <2>1. PromptsMove
    BY <1>2, <1>7 DEF PromptsMove
  <2>2. QED BY <1>2, <1>5, <1>6, <1>7, <2>1, LoopTypes, PiRest
<1>8. CASE active # None /\ EventReports(next) /\ UNCHANGED <<injecting, inbox>>
  <2>1. PromptsMove
    BY <1>2, <1>8 DEF PromptsMove
  <2>2. AgentTyped'
    BY <1>6, <1>8, <2>1, LoopTypes
  <2>3. CASE UNCHANGED calls
    BY <1>2, <1>5, <1>8, <2>1, <2>2, <2>3, LoopTypes, PiRest
  <2>4. CASE CanPost(next) /\ calls[Event] = None /\ calls' = Post(Event, next)
    <3>1. next \in ActiveJob /\ Claim(next.id, next.lease)
      BY <1>3, <1>8, LoopTypes DEF Same
    <3>2. next.terminal \in Outcomes /\ next.id \in Jobs /\ next.lease \in Leases
      BY <2>4, <3>1 DEF CanPost, ActiveJob
    <3>3. CallsMove
      BY <1>2, <2>4, <3>1, <3>2, PostMoves DEF Post, PiStep
    <3>4. waiter # None => calls'[waiter] = calls[waiter]
      BY <2>4, SlotFacts, WaiterStays DEF Post, Sending, InPhase
    <3>5. UNCHANGED <<store, server, process, waiter, pc, handling>> /\ up
      BY <1>2 DEF PiStep
    <3>6. StoreMoves /\ Rest'
      BY <1>2, <1>8, <2>2, <3>4, <3>5, LoopTypes, TuiRest
    <3>7. QED BY <1>5, <2>1, <3>3, <3>6 DEF Moves
  <2>5. QED BY <1>8, <2>3, <2>4 DEF EventReports
<1>9. CASE /\ active # None /\ Dispatchable(job) /\ active' = Dispatched(job) /\ HandsOver(job)
           /\ UNCHANGED calls
  <2>1. job \in ActiveJob /\ job.id = active.id /\ job.acknowledged = active.acknowledged
    BY <1>3, <1>9 DEF Same
  <2>2. job.id \in Begun /\ job.id \in Jobs
    BY <1>9, <2>1 DEF Dispatchable, Handed, ActiveJob
  <2>3. [who |-> job.id, seen |-> FALSE] \in Prompt
    BY <2>2 DEF Prompt, Authors
  <2>4. inbox' = Append(inbox, [who |-> job.id, seen |-> FALSE]) /\ injecting' = job.id
    BY <1>9 DEF HandsOver
  <2>5. /\ inbox' \in Seq(Prompt)
        /\ \A k \in DOMAIN inbox' : inbox'[k].who = job.id \/ \E j \in DOMAIN inbox : inbox'[k].who = inbox[j].who
    BY <2>3, <2>4, LoopTypes
  <2>6. StoreMoves
    BY <1>2, NoMove DEF PiStep
  <2>7. PromptsMove
    BY <1>2, <2>2, <2>5, <2>6, InboxMoves
  <2>8. injecting' \in 0..sequence
    BY <2>2, <2>4, StoreFacts DEF Begun
  <2>9. QED BY <1>2, <1>5, <1>6, <1>9, <2>5, <2>7, <2>8, PiRest
<1>10. QED BY <1>4, <1>7, <1>8, <1>9

-----------------------------------------------------------------------------
(* The invariant.                                                          *)

LEMMA ControllerStepMoves ==
  ASSUME Typed, Claimed, Controller
  PROVE  Moves /\ Rest'
<1>1. ASSUME NEW slot \in Slots, Serve(slot) \/ PollExpires(slot) PROVE Moves /\ Rest'
  BY <1>1, RefuseStep, PollStep, AckStep, ResultStep, FailReportStep, ControlAckStep, PollExpiresStep DEF Serve
<1>2. QED BY <1>1, LeaseExpiresStep, MarkStoppedStep DEF Controller

LEMMA ExtensionStepMoves ==
  ASSUME Typed, Claimed, Handed, Extension
  PROVE  Moves /\ Rest'
BY InspectActiveStep, SendPollStep, SendControlAckStep, PollGetsNothingStep, PollGetsJobStep,
   PollGetsResumeStep, PollGetsControlStep, AckAnsweredStep, ControlAckAnsweredStep,
   TerminalAnsweredStep, DispatchOverdueStep
DEF Extension, PollLoop

LEMMA ClientsStepMoves ==
  ASSUME Typed, Claimed, Clients
  PROVE  Moves /\ Rest'
BY SubmitStep, CancelStep, AbortSessionStep, StartSessionStep, TypePromptStep DEF Clients

LEMMA FaultsStepMoves ==
  ASSUME Typed, Claimed, Fresh, Faults
  PROVE  Moves /\ Rest'
BY CallFailsStep, OrphanLostStep, RefuseStep, PromptLostStep, WatchdogStep, ReloadStep, TuiExitsStep
DEF Faults

LEMMA StutterMoves ==
  ASSUME Typed, Claimed, UNCHANGED vars
  PROVE  Moves /\ Rest'
<1>1. UNCHANGED <<store, server, calls, waiter, agent, bridge, process, faults>>
  BY DEF vars, network
<1>2. WaiterWaits'
  BY <1>1 DEF Typed, WaiterWaits, InPhase, Slots
<1>3. QED BY <1>1, <1>2, NoMove, SameCalls, ControllerRuns DEF NoFault

LEMMA NextMoves ==
  ASSUME IInv, [Next]_vars
  PROVE  Moves /\ Rest'
<1>1. Typed /\ Claimed /\ Fresh /\ Handed
  BY DEF IInv
<1>2. CASE Pi
  BY <1>1, <1>2, InputEventStep, RecordPromptStep, AgentSettledStep DEF Pi
<1>3. QED
  BY <1>1, <1>2, ControllerStepMoves, ExtensionStepMoves, ClientsStepMoves, FaultsStepMoves, StutterMoves
  DEF Next

\* Every step is a fault or none.
LEMMA FaultsCount ==
  ASSUME [Next]_vars
  PROVE  NoFault \/ Fault
<1>1. CASE Controller
  BY <1>1 DEF Controller, Serve, Refuse, Poll, Ack, Result, FailReport, ControlAck, PollExpires, Arrived,
              LeaseExpires, MarkStopped, NoFault
<1>2. CASE Extension
  BY <1>2 DEF Extension, PollLoop, InspectActive, SendPoll, SendControlAck, PollGetsNothing, PollGetsJob,
              PollGetsResume, PollGetsControl, AckAnswered, ControlAckAnswered, TerminalAnswered,
              DispatchOverdue, LoopAt, LoopGets, LoopStep, NoFault
<1>3. CASE Pi
  BY <1>3 DEF Pi, InputEvent, RecordPrompt, AgentSettled
<1>4. CASE Clients
  BY <1>4 DEF Clients, Submit, Cancel, AbortSession, StartSession, TypePrompt
<1>5. CASE Faults
  BY <1>5 DEF Faults, CallFails, OrphanLost, Oversized, PromptLost, Watchdog, Reload, TuiExits, NoFault
<1>6. CASE UNCHANGED vars
  BY <1>6 DEF vars, NoFault
<1>7. QED BY <1>1, <1>2, <1>3, <1>4, <1>5, <1>6 DEF Next

LEMMA FreshStays ==
  ASSUME Typed, Fresh, Moves, NoFault \/ Fault
  PROVE  Fresh'
<1>1. faults \in Nat /\ faults' \in Nat /\ faults <= faults'
  BY DEF Typed, SessionTyped, NoFault, Fault
<1>2. ASSUME NEW s \in Slots, s[2] > faults' PROVE calls'[s] = None
  <2>1. s[2] > faults /\ s[2] # 0 /\ s[2] # faults'
    BY <1>1, <1>2 DEF Slots
  <2>2. calls[s] = None
    BY <2>1 DEF Fresh
  <2>3. ~Sent(calls'[s], s)
    BY <2>1 DEF Sent, Loop, Event
  <2>4. CallMoves(s)
    BY DEF Moves, CallsMove
  <2>5. QED BY <2>1, <2>2, <2>3, <2>4 DEF CallMoves
<1>3. Slots' = Slots
  BY DEF Slots
<1>4. QED BY <1>2, <1>3 DEF Fresh

LEMMA TypedStays ==
  ASSUME Typed, Moves, Rest'
  PROVE  Typed'
<1>1. StoreTyped' /\ CallsTyped'
  BY CallsTypedStay DEF Moves, StoreMoves
<1>2. active' \in ActiveJob \cup {None}
  BY DEF Moves, ActiveMoves, Continues, Takes
<1>3. ActiveTyped'
  BY <1>2 DEF ActiveTyped, ActiveJob, Jobs, Leases, Outcomes, Authors, Codes
<1>4. QED BY <1>1, <1>3 DEF Typed, Rest

LEMMA InitIInv ==
  ASSUME Init
  PROVE  IInv
<1>1. /\ sequence = 0 /\ leaseCount = 0 /\ now \in Nat /\ jobs = <<>>
  BY DEF Init, Store!Init
<1>2. jobs \in [1..sequence -> Job] /\ 1..sequence = {}
  BY <1>1
<1>3. StoreTyped
  BY <1>1, <1>2, BoundsAssumption DEF StoreTyped
<1>4. \A s \in Slots : calls[s] = None
  BY DEF Init
<1>5. CallsTyped /\ ActiveTyped
  BY <1>4 DEF Init, CallsTyped, ActiveTyped
<1>6. AgentTyped
  <2>1. inbox \in Seq([who : Authors, seen : BOOLEAN]) /\ typed \in 0..MaxLocal
    BY BoundsAssumption DEF Init
  <2>2. segments \in [Jobs -> Segment \cup {None}] /\ prompted \in [Jobs -> Nat]
    BY DEF Init
  <2>3. QED BY <2>1, <2>2 DEF Init, AgentTyped
<1>7. SessionTyped
  BY <1>1, BoundsAssumption DEF Init, SessionTyped, ControlTyped
<1>8. WaiterWaits /\ EndedIsEmpty /\ Fresh
  BY <1>4 DEF Init, WaiterWaits, EndedIsEmpty, Fresh
<1>9. ~\E i, l : Claim(i, l)
  BY <1>2, <1>4 DEF Init, Claim, Answered
<1>10. ~Reports(Loop) /\ ~Answered(Loop) /\ calls[Loop] = None
  BY <1>4, SlotFacts DEF Reports, Answered
<1>11. Claimed /\ Handed /\ Ready
  BY <1>9, <1>10 DEF Init, Claimed, Handed, Ready
<1>12. QED BY <1>3, <1>5, <1>6, <1>7, <1>8, <1>11 DEF IInv, Typed

LEMMA IInvStays ==
  ASSUME IInv, [Next]_vars
  PROVE  IInv'
<1>1. Moves /\ Rest' /\ (NoFault \/ Fault)
  BY NextMoves, FaultsCount
<1>2. QED BY <1>1, TypedStays, FreshStays, ClaimedStays, HandedStays, ReadyStays DEF IInv

(* The two ends of the delivery keep to each other, whatever is lost and   *)
(* whichever of them is restarted.                                         *)
THEOREM Invariant == Spec => []IInv
BY InitIInv, IInvStays, PTL DEF Spec

(* A job that can still be handed to a TUI was never put to an agent: a    *)
(* lease that comes back, from its timer or a stopped session, comes back  *)
(* before the prompt left the extension (server.mjs:702, index.ts:283).    *)
THEOREM NoReplayHolds == Spec => []NoReplay
<1>1. IInv => NoReplay
  <2>1. ASSUME IInv, NEW i \in Store!Ids, jobs[i].status \in {"queued", "leased"} PROVE prompted[i] = 0
    <3>1. i \in Jobs /\ i \notin Begun
      BY <2>1, StoreFacts DEF IInv, Begun
    <3>2. prompted[i] \in Nat /\ ~(prompted[i] > 0)
      BY <2>1, <3>1 DEF IInv, Handed, Typed, AgentTyped
    <3>3. QED BY <3>2
  <2>2. QED BY <2>1 DEF NoReplay
<1>2. QED BY <1>1, Invariant, PTL


-----------------------------------------------------------------------------
(* The promise of the life cycle.                                          *)

\* Only a submission takes a job in, and it touches no other job.
LEMMA TakenIn ==
  ASSUME Typed, Claimed, [Next]_vars, sequence' # sequence
  PROVE  sequence' = sequence + 1 /\ \A i \in 1..sequence : jobs'[i] = jobs[i]
<1>1. CASE Controller
  BY <1>1 DEF Controller, Serve, Refuse, Poll, Ack, Result, FailReport, ControlAck, PollExpires, Arrived,
              LeaseExpires, MarkStopped, store, Store!LeaseNext, Store!Acknowledge, Store!Complete,
              Store!Fail, Store!RequeueLease
<1>2. CASE Extension
  BY <1>2 DEF Extension, PollLoop, InspectActive, SendPoll, SendControlAck, PollGetsNothing, PollGetsJob,
              PollGetsResume, PollGetsControl, AckAnswered, ControlAckAnswered, TerminalAnswered,
              DispatchOverdue, LoopAt, LoopGets, LoopStep, store
<1>3. CASE Pi
  BY <1>3 DEF Pi, InputEvent, RecordPrompt, AgentSettled, PiStep, store
<1>4. CASE Clients
  <2>1. ASSUME NEW r \in Requests, NEW x \in Inputs, Submit(r, x)
        PROVE  sequence' = sequence + 1 /\ \A i \in 1..sequence : jobs'[i] = jobs[i]
    <3>1. /\ sequence' = sequence + 1
          /\ \E job : jobs' = [i \in Store!Ids \cup {sequence'} |-> IF i = sequence' THEN job ELSE jobs[i]]
      BY <2>1 DEF Submit, Store!Submit
    <3>2. \A i \in 1..sequence : i # sequence' /\ i \in Store!Ids
      BY <3>1, StoreFacts
    <3>3. QED BY <3>1, <3>2
  <2>2. QED BY <1>4, <2>1 DEF Clients, Cancel, AbortSession, StartSession, TypePrompt, PiStep, store, Store!Cancel
<1>5. CASE Faults
  BY <1>5 DEF Faults, CallFails, OrphanLost, Oversized, PromptLost, Watchdog, Reload, TuiExits, PiStep,
              store, Store!Fail
<1>6. CASE UNCHANGED vars
  BY <1>6 DEF vars, store
<1>7. QED BY <1>1, <1>2, <1>3, <1>4, <1>5, <1>6 DEF Next

Verdict(i) ==
  [status |-> jobs[i].status, text |-> jobs[i].resultText,
   interrupted |-> jobs[i].interrupted, code |-> jobs[i].errorCode]

\* A settled job stays as it is.
LEMMA SettledStays ==
  ASSUME Typed, Claimed, StoreMoves, NEW i \in SettledIds
  PROVE  i \in SettledIds' /\ jobs'[i] = jobs[i]
<1>1. i \in 1..sequence /\ jobs[i].status \in Store!Terminal
  BY StoreFacts DEF SettledIds
<1>2. JobMoves(jobs[i], jobs'[i])
  BY <1>1 DEF StoreMoves
<1>3. jobs'[i] = jobs[i]
  BY <1>1, <1>2 DEF JobMoves, Store!Terminal
<1>4. i \in Store!Ids'
  BY <1>1, StoreFacts DEF StoreMoves, StoreTyped, Store!Ids
<1>5. QED BY <1>1, <1>3, <1>4 DEF SettledIds, Store!Terminal

LEMMA LifeStep ==
  ASSUME IInv, IInv', [Next]_vars
  PROVE  [Life!Next]_(Life!vars)
<1>1. Typed /\ Claimed /\ StoreMoves /\ Typed' /\ Claimed'
  BY NextMoves DEF IInv, Moves
<1>2. /\ sequence \in Nat /\ sequence' \in Nat /\ sequence <= sequence'
      /\ SettledIds \subseteq 1..sequence /\ SettledIds' \subseteq 1..sequence' /\ sequence' \in 0..MaxSequence
  <2>1. Store!Ids = 1..sequence /\ sequence \in Nat
    BY <1>1, StoreFacts
  <2>2. DOMAIN jobs' = 1..sequence' /\ sequence' \in 0..MaxSequence
    BY <1>1, BoundsAssumption DEF StoreMoves, StoreTyped
  <2>3. QED BY <1>1, <2>1, <2>2, BoundsAssumption DEF StoreMoves, SettledIds, Store!Ids
<1>3. \A i \in SettledIds : i \in SettledIds' /\ Verdict(i)' = Verdict(i)
  BY <1>1, SettledStays DEF Verdict
<1> DEFINE old == [i \in SettledIds |-> Verdict(i)]
           new == [i \in SettledIds' |-> Verdict(i)']
<1>4. CASE sequence' # sequence
  <2>1. sequence' = sequence + 1 /\ \A i \in 1..sequence : jobs'[i] = jobs[i]
    BY <1>1, <1>4, TakenIn
  <2>2. jobs'[sequence'].status = "queued"
    BY <1>1, <1>2, <2>1 DEF StoreMoves
  <2>3. SettledIds' \subseteq SettledIds
    <3>1. ASSUME NEW i \in SettledIds' PROVE i \in SettledIds
      <4>1. i \in 1..sequence' /\ jobs'[i].status \in Store!Terminal
        BY <1>2 DEF SettledIds, Store!Terminal
      <4>2. i # sequence'
        BY <2>2, <4>1 DEF Store!Terminal
      <4>3. i \in 1..sequence
        BY <1>2, <2>1, <4>1, <4>2
      <4>4. QED BY <1>1, <2>1, <4>1, <4>3, StoreFacts DEF SettledIds
    <3>2. QED BY <3>1
  <2>4. SettledIds' = SettledIds
    BY <1>3, <2>3
  <2>5. new = old
    BY <1>3, <2>4
  <2>6. sequence' \in Jobs /\ sequence' \notin 1..sequence /\ 1..sequence' = (1..sequence) \cup {sequence'}
    BY <1>2, <2>1, BoundsAssumption DEF Jobs
  <2>7. Life!Accept(sequence')
    BY <2>5, <2>6 DEF Life!Accept, Verdict
  <2>8. QED BY <2>6, <2>7 DEF Life!Next
<1>5. CASE sequence' = sequence
  <2>1. \A i \in SettledIds' :
          Verdict(i)' \in [status : Store!Terminal, text : Jobs \cup {Local, Nothing, None},
                           interrupted : BOOLEAN, code : Codes \cup {None}]
    <3>1. ASSUME NEW i \in SettledIds'
          PROVE  Verdict(i)' \in [status : Store!Terminal, text : Jobs \cup {Local, Nothing, None},
                                  interrupted : BOOLEAN, code : Codes \cup {None}]
      <4>1. i \in 1..sequence' /\ jobs'[i].status \in Store!Terminal
        BY <1>2 DEF SettledIds, Store!Terminal
      <4>2. jobs'[i] \in Job
        BY <1>1, <4>1 DEF StoreMoves, StoreTyped, Job, Jobs, Authors, Codes, Store!Statuses, Store!Active, Store!Terminal
      <4>3. /\ jobs'[i].resultText \in Jobs \cup {Local, Nothing, None} /\ jobs'[i].interrupted \in BOOLEAN
            /\ jobs'[i].errorCode \in Codes \cup {None}
        BY <4>2 DEF Job, Authors
      <4>4. QED BY <4>1, <4>3 DEF Verdict
    <3>2. QED BY <3>1
  <2>2. DOMAIN old = SettledIds /\ DOMAIN new = SettledIds'
    OBVIOUS
  <2>3. \A i \in SettledIds : i \in DOMAIN new /\ new[i] = old[i]
    BY <1>3
  <2>4. \A i \in DOMAIN new : new[i] \in [status : Store!Terminal, text : Jobs \cup {Local, Nothing, None},
                                          interrupted : BOOLEAN, code : Codes \cup {None}]
    BY <2>1
  <2>5. new = [i \in DOMAIN new |-> new[i]]
    OBVIOUS
  <2>6. /\ old = [i \in SettledIds |->
                   [status |-> jobs[i].status, text |-> jobs[i].resultText,
                    interrupted |-> jobs[i].interrupted, code |-> jobs[i].errorCode]]
        /\ new = [i \in SettledIds' |->
                   [status |-> jobs'[i].status, text |-> jobs'[i].resultText,
                    interrupted |-> jobs'[i].interrupted, code |-> jobs'[i].errorCode]]
    BY DEF Verdict
  <2>7. SettledIds' \subseteq (SettledIds \cup ((1..sequence) \ (SettledIds \cup {}))) \ {}
    BY <1>2, <1>5
  <2> HIDE DEF old, new
  <2>8. Life!Settle
    BY <1>5, <2>2, <2>3, <2>4, <2>5, <2>6, <2>7
    DEF Life!Settle, Life!Decided, Life!Open, Store!Terminal, Jobs, Codes
  <2>9. QED BY <2>8 DEF Life!Next
<1>6. QED BY <1>4, <1>5

(* The controller and the extension together keep the promise of the job   *)
(* life cycle: a job is decided at most once and its verdict stands,       *)
(* whichever of the result, the failure, the cancellation, the watchdog    *)
(* and the end of the session comes first.                                 *)
THEOREM LifecycleHolds == Spec => Lifecycle
<1>1. Init => Life!Init
  <2>1. ASSUME Init PROVE Life!Init
    <3>1. sequence = 0 /\ Store!Ids = {}
      BY <2>1 DEF Init, Store!Init, Store!Ids
    <3>2. 1..sequence = {} /\ SettledIds = {}
      BY <3>1 DEF SettledIds
    <3>3. QED BY <3>2 DEF Life!Init
  <2>2. QED BY <2>1
<1>2. IInv /\ IInv' /\ [Next]_vars => [Life!Next]_(Life!vars)
  BY LifeStep
<1>3. QED BY <1>1, <1>2, Invariant, PTL DEF Spec, Lifecycle, Life!Spec

-----------------------------------------------------------------------------
(* Over one fault at most.  Without a fault the session lives, its calls   *)
(* are let in, and one job is active at most, whose lease, until it runs,  *)
(* is under way in the loop.  When the first fault ends the TUI, one job   *)
(* at most runs or can begin to, and none is left once the session stops.  *)

UnderWay(l) ==
  /\ calls[Loop] # None
  /\ \/ calls[Loop].op = "ack" /\ calls[Loop].phase = "sent" /\ calls[Loop].lease = l
     \/ calls[Loop].phase = "answered" /\ calls[Loop].reply.kind = "job" /\ calls[Loop].reply.lease = l

\* An acknowledgement of lease l can still arrive.
AckSent(l) ==
  \E s \in Slots : calls[s] # None /\ calls[s].op = "ack" /\ calls[s].phase = "sent" /\ calls[s].lease = l
Runs   == {i \in 1..sequence : jobs[i].status = "running"}
Leased == {i \in 1..sequence : jobs[i].status = "leased"}
MayRun == Runs \cup {i \in Leased : AckSent(jobs[i].leaseId)}
One(S) == \A i, j \in S : i = j

Lives == faults = 0 => live /\ up
LetIn == faults = 0 /\ calls[Loop] # None => calls[Loop].start = starts
Alone ==
  /\ calls[Loop] # None /\ calls[Loop].op = "poll" /\ calls[Loop].data => calls[Loop].id = 0
  /\ faults = 0 => One(Runs \cup Leased) /\ \A i \in Leased : UnderWay(jobs[i].leaseId)
Ended ==
  ~up =>
    /\ calls[Loop] = None /\ calls[Event] = None
    /\ faults <= 1 => One(MayRun)
Left == faults <= 1 /\ ~live => Runs = {}
Sole == Lives /\ LetIn /\ Alone /\ Ended /\ Left

\* Only these two handlers make a job active.
LeasesTo(s) ==
  /\ calls[s] # None /\ calls[s].op = "poll" /\ calls[s].data /\ calls[s].phase \in {"sent", "woken"}
  /\ Resumable(s) = {} /\ Store!LeaseNext(Alias)
  /\ calls' = Replied(s, Carrying("job", Min(Store!Queued(Alias)), leaseCount'))
Acks(s) ==
  /\ live /\ calls[s] # None /\ calls[s].op = "ack" /\ calls[s].phase = "sent"
  /\ Store!Acknowledge(calls[s].id, calls[s].lease)

LEMMA CalmSteps ==
  ASSUME Typed, Claimed, [Next]_vars
  PROVE  Calm \/ \E s \in Slots : LeasesTo(s) \/ Acks(s)
<1>1. CASE Controller
  <2>1. ASSUME NEW s \in Slots, Poll(s) PROVE Calm \/ LeasesTo(s)
    <3>1. \E phase \in {"sent", "woken"} : InPhase(s, phase)
      BY <2>1 DEF Poll, Arrived
    <3>2. calls[s] # None /\ calls[s].phase \in {"sent", "woken"} /\ CallFits(calls[s], s)
      BY <3>1 DEF InPhase, Typed, CallsTyped
    <3>3. calls[s].op = "poll"
      BY <2>1, <3>2 DEF Poll, Arrived, InPhase, CallFits
    <3>4. UNCHANGED store => Calm
      BY NoMove
    <3>5. QED BY <2>1, <3>2, <3>3, <3>4 DEF Poll, LeasesTo
  <2>2. ASSUME NEW s \in Slots, Ack(s) PROVE Calm \/ Acks(s)
    BY <2>2, NoMove DEF Ack, Acks, Arrived, Authentic, InPhase
  <2>3. ASSUME NEW s \in Slots, Result(s) PROVE Calm
    <3>1. calls[s].data \in Outcomes /\ calls[s].data.op = "result"
      BY <2>3 DEF Result, Arrived, Typed, CallsTyped, CallFits, InPhase
    <3>2. calls[s].data.text \in Authors \cup {Nothing} /\ calls[s].data.interrupted \in BOOLEAN
      BY <3>1 DEF Outcomes
    <3>3. QED BY <2>3, <3>2, Completing, NoMove DEF Result
  <2>4. ASSUME NEW s \in Slots, FailReport(s) PROVE Calm
    <3>1. calls[s].data \in Outcomes /\ calls[s].data.op = "fail"
      BY <2>4 DEF FailReport, Arrived, Typed, CallsTyped, CallFits, InPhase
    <3>2. calls[s].data.code \in Codes
      BY <3>1 DEF Outcomes
    <3>3. QED BY <2>4, <3>2, Failing, NoMove DEF FailReport
  <2>5. ASSUME NEW s \in Slots, Refuse(s) \/ ControlAck(s) \/ PollExpires(s) PROVE Calm
    BY <2>5, NoMove DEF Refuse, ControlAck, PollExpires
  <2>6. ASSUME NEW i, LeaseExpires(i) PROVE Calm
    BY <2>6, Requeueing DEF LeaseExpires
  <2>7. QED BY <1>1, <2>1, <2>2, <2>3, <2>4, <2>5, <2>6, Stopping DEF Controller, Serve
<1>2. CASE Extension
  <2>1. UNCHANGED store
    BY <1>2 DEF Extension, PollLoop, InspectActive, SendPoll, SendControlAck, PollGetsNothing, PollGetsJob,
                PollGetsResume, PollGetsControl, AckAnswered, ControlAckAnswered, TerminalAnswered,
                DispatchOverdue, LoopAt, LoopGets, LoopStep
  <2>2. QED BY <2>1, NoMove
<1>3. CASE Pi
  <2>1. UNCHANGED store
    BY <1>3 DEF Pi, InputEvent, RecordPrompt, AgentSettled, PiStep
  <2>2. QED BY <2>1, NoMove
<1>4. CASE Clients
  BY <1>4, NoMove, Submitting, Cancelling DEF Clients, Submit, Cancel, AbortSession, StartSession, TypePrompt, PiStep
<1>5. CASE Faults
  <2>1. "extension-unresponsive" \in Codes
    BY DEF Codes
  <2>2. Watchdog => Calm
    BY <2>1, Failing DEF Watchdog
  <2>3. QED BY <1>5, <2>2, NoMove DEF Faults, CallFails, OrphanLost, Oversized, PromptLost, Reload, TuiExits, PiStep
<1>6. CASE UNCHANGED vars
  BY <1>6, NoMove DEF vars
<1>7. QED BY <1>1, <1>2, <1>3, <1>4, <1>5, <1>6 DEF Next

LEMMA CalmJob ==
  ASSUME Typed, StoreMoves, Calm, NEW i \in 1..sequence', jobs'[i].status \in Store!Active
  PROVE  i \in 1..sequence /\ jobs'[i] = jobs[i]
<1>1. sequence \in Nat /\ sequence' \in Nat
  BY DEF Typed, StoreTyped, StoreMoves
<1>2. i \in 1..sequence
  BY <1>1 DEF StoreMoves, Store!Active
<1>3. QED BY <1>2 DEF Calm

LEMMA LeasesToJob ==
  ASSUME Typed, Claimed, NEW s \in Slots, LeasesTo(s)
  PROVE  \E m \in 1..sequence :
           /\ calls' = Replied(s, Carrying("job", m, leaseCount'))
           /\ jobs'[m].status = "leased" /\ jobs'[m].leaseId = leaseCount'
           /\ leaseCount' = leaseCount + 1 /\ sequence' = sequence
           /\ \A j \in 1..sequence : j # m => jobs'[j] = jobs[j]
<1>1. Store!LeaseNext(Alias) /\ calls' = Replied(s, Carrying("job", Min(Store!Queued(Alias)), leaseCount'))
  BY DEF LeasesTo
<1>2. PICK i \in Store!Queued(Alias) : /\ Store!IsOldest(i, Store!Queued(Alias))
                                       /\ jobs' = [jobs EXCEPT ![i] = Store!AsLeased(@, leaseCount')]
  BY <1>1 DEF Store!LeaseNext
<1>3. i \in 1..sequence /\ Store!Queued(Alias) \subseteq 1..sequence
  BY <1>2, StoreFacts DEF Store!Queued
<1>4. \A j \in Store!Queued(Alias) : i <= j
  BY <1>2 DEF Store!IsOldest
<1>5. Min(Store!Queued(Alias)) = i
  BY <1>2, <1>3, <1>4, StoreFacts DEF Min
<1>6. leaseCount' = leaseCount + 1 /\ UNCHANGED <<sequence, now>>
  BY <1>1 DEF Store!LeaseNext
<1>7. /\ Store!AsLeased(jobs[i], leaseCount').status = "leased"
      /\ Store!AsLeased(jobs[i], leaseCount').leaseId = leaseCount'
  <2>1. jobs[i] \in Job /\ leaseCount' \in Nat /\ now \in Nat
    BY <1>3, <1>6, StoreFacts
  <2>2. QED BY <2>1, LeasedJob, Zenon
<1>8. \A j \in 1..sequence : jobs'[j] = IF j = i THEN Store!AsLeased(jobs[i], leaseCount') ELSE jobs[j]
  BY <1>2 DEF Typed, StoreTyped
<1>9. QED BY <1>1, <1>3, <1>5, <1>6, <1>7, <1>8

LEMMA AcksJob ==
  ASSUME Typed, Claimed, NEW s \in Slots, Acks(s)
  PROVE  \E i \in 1..sequence :
           /\ calls[s].lease = jobs[i].leaseId /\ jobs[i].status = "leased"
           /\ jobs'[i].status = "running"
           /\ sequence' = sequence
           /\ \A j \in 1..sequence : j # i => jobs'[j] = jobs[j]
<1> DEFINE i == calls[s].id
           job == [jobs[i] EXCEPT !.status = "running", !.updatedAt = now]
<1>1. Store!Acknowledge(i, calls[s].lease)
  BY DEF Acks
<1> HIDE DEF i
<1>2. i \in 1..sequence /\ jobs[i].status = "leased" /\ jobs[i].leaseId = calls[s].lease /\ sequence' = sequence
  BY <1>1, StoreFacts DEF Store!Acknowledge
<1>3. jobs' = [jobs EXCEPT ![i] = job]
  BY <1>1 DEF Store!Acknowledge
<1>4. job.status = "running"
  BY <1>2, StoreFacts DEF Job
<1>5. \A j \in 1..sequence : jobs'[j] = IF j = i THEN job ELSE jobs[j]
  BY <1>3 DEF Typed, StoreTyped
<1>6. QED BY <1>2, <1>4, <1>5

\* Only the end and the start of a session change who is there.
LEMMA SessionSteps ==
  ASSUME [Next]_vars
  PROVE  /\ live' # live => MarkStopped \/ StartSession
         /\ up' # up => TuiExits \/ StartSession
         /\ starts' # starts => StartSession
<1>1. CASE Controller
  BY <1>1 DEF Controller, Serve, Refuse, Poll, Ack, Result, FailReport, ControlAck, PollExpires, Arrived,
              LeaseExpires, MarkStopped, ControllerStep, server, process
<1>2. CASE Extension
  BY <1>2 DEF Extension, PollLoop, InspectActive, SendPoll, SendControlAck, PollGetsNothing, PollGetsJob,
              PollGetsResume, PollGetsControl, AckAnswered, ControlAckAnswered, TerminalAnswered,
              DispatchOverdue, LoopAt, LoopGets, LoopStep, server, process
<1>3. CASE Pi
  BY <1>3 DEF Pi, InputEvent, RecordPrompt, AgentSettled, PiStep, server, process
<1>4. CASE Clients
  BY <1>4 DEF Clients, Submit, Cancel, AbortSession, TypePrompt, ControllerStep, PiStep, server, process
<1>5. CASE Faults
  BY <1>5 DEF Faults, CallFails, OrphanLost, Oversized, PromptLost, Watchdog, Reload, TuiExits,
              ControllerStep, PiStep, server, process
<1>6. CASE UNCHANGED vars
  BY <1>6 DEF vars, server, process
<1>7. QED BY <1>1, <1>2, <1>3, <1>4, <1>5, <1>6 DEF Next

\* Waking a poll leaves a lease that is under way alone.
LEMMA WakeSpares ==
  ASSUME Typed, NEW l, UnderWay(l), WakePoll
  PROVE  calls'[Loop] = calls[Loop]
<1>1. waiter # None => waiter # Loop
  BY DEF UnderWay, Typed, WaiterWaits, InPhase
<1>2. calls \in [Slots -> HttpCall \cup {None}] /\ Loop \in Slots
  BY SlotFacts DEF Typed, CallsTyped
<1>3. QED BY <1>1, <1>2 DEF WakePoll

\* So does an answer, unless the call is let in and acknowledges it.
LEMMA ServeSpares ==
  ASSUME Typed, NEW l, UnderWay(l), Authentic(Loop), NEW s \in Slots, Serve(s) \/ PollExpires(s),
         calls'[Loop] # calls[Loop]
  PROVE  Ack(Loop)
<1>1. calls \in [Slots -> HttpCall \cup {None}] /\ Loop \in Slots
  BY SlotFacts DEF Typed, CallsTyped
<1>2. s = Loop
  <2>1. CASE Serve(s)
    <3>1. \/ \E reply : calls' = Replied(s, reply)
          \/ calls' = [calls EXCEPT ![s].phase = "waiting"]
      BY <2>1 DEF Serve, Refuse, Poll, Ack, Result, FailReport, ControlAck
    <3>2. QED BY <1>1, <3>1 DEF Replied
  <2>2. CASE PollExpires(s)
    BY <1>1, <2>2 DEF PollExpires
  <2>3. QED BY <2>1, <2>2
<1>3. ~InPhase(Loop, "woken") /\ ~InPhase(Loop, "waiting")
  BY DEF UnderWay, InPhase
<1>4. \A op : Arrived(Loop, op) => op = "ack"
  BY DEF UnderWay, Arrived, InPhase
<1>5. ~Refuse(Loop)
  BY DEF Refuse
<1>6. QED BY <1>2, <1>3, <1>4, <1>5
          DEF Serve, Poll, Ack, Result, FailReport, ControlAck, PollExpires

LEMMA LoopSpares ==
  ASSUME Typed, NEW l, UnderWay(l), PollLoop
  PROVE  PollGetsJob
<1>1. calls[Loop] # None
  BY DEF UnderWay
<1>2. CallFits(calls[Loop], Loop)
  BY <1>1, SlotFacts DEF Typed, CallsTyped
<1>3. \A op : LoopGets(op) => op = "poll" /\ calls[Loop].reply.kind = "job"
  BY <1>2 DEF UnderWay, LoopGets, InPhase, CallFits, Ok, Conflict, TooLarge, Failure
<1>4. ~TerminalAnswered(Loop)
  BY <1>2 DEF UnderWay, TerminalAnswered, InPhase, CallFits, Ok, Conflict, TooLarge, Failure
<1>5. ~InspectActive /\ ~SendPoll /\ ~SendControlAck
  BY <1>1 DEF InspectActive, SendPoll, SendControlAck, LoopAt
<1>6. ~PollGetsNothing /\ ~PollGetsResume /\ ~PollGetsControl
  <2>1. ~(LoopGets("poll") /\ calls[Loop].reply.kind \in {"idle", "error", "resume", "control"})
    BY <1>3
  <2>2. QED BY <2>1 DEF PollGetsNothing, PollGetsResume, PollGetsControl
<1>7. ~AckAnswered /\ ~ControlAckAnswered
  BY <1>3 DEF AckAnswered, ControlAckAnswered
<1>8. QED BY <1>4, <1>5, <1>6, <1>7 DEF PollLoop

LEMMA EventSpares ==
  ASSUME Typed, TerminalAnswered(Event) \/ AgentSettled
  PROVE  calls'[Loop] = calls[Loop]
<1>1. calls \in [Slots -> HttpCall \cup {None}] /\ Loop \in Slots /\ Event # Loop
  BY SlotFacts DEF Typed, CallsTyped
<1>2. \/ calls' = calls
      \/ \E call : calls' = [calls EXCEPT ![Event] = call]
  BY DEF TerminalAnswered, AgentSettled, Sending, Post, LastResort
<1>3. QED BY <1>1, <1>2

\* Without a fault, a lease that is under way stays there until it is taken
\* up or acknowledged.
LEMMA Held ==
  ASSUME Typed, Lives, LetIn, [Next]_vars, faults = 0, NoFault,
         NEW l, UnderWay(l), calls'[Loop] # calls[Loop]
  PROVE  Ack(Loop) \/ PollGetsJob
<1>1. live /\ up /\ Authentic(Loop)
  BY DEF Lives, LetIn, Authentic, UnderWay
<1>2. ~Fault
  BY DEF NoFault, Fault
<1>3. CASE Controller
  <2>1. ~MarkStopped
    BY <1>1 DEF MarkStopped
  <2>2. \A i : ~LeaseExpires(i)
    BY WakeSpares DEF LeaseExpires
  <2>3. QED BY <1>1, <1>3, <2>1, <2>2, ServeSpares DEF Controller
<1>4. CASE Extension
  BY <1>4, LoopSpares, EventSpares DEF Extension, DispatchOverdue, network
<1>5. CASE Pi
  BY <1>5, EventSpares DEF Pi, InputEvent, RecordPrompt
<1>6. CASE Clients
  BY <1>6, WakeSpares
  DEF Clients, Submit, Cancel, AbortSession, SetControl, StartSession, TypePrompt, network
<1>7. CASE Faults
  <2>1. ASSUME NEW s \in Slots, OrphanLost(s) PROVE calls'[Loop] = calls[Loop]
    <3>1. calls \in [Slots -> HttpCall \cup {None}] /\ Loop \in Slots /\ s # Loop
      BY <2>1, SlotFacts DEF Typed, CallsTyped, OrphanLost, Loop
    <3>2. QED BY <2>1, <3>1 DEF OrphanLost
  <2>2. QED BY <1>2, <1>7, <2>1 DEF Faults, CallFails, Oversized, PromptLost, Watchdog, Reload, TuiExits
<1>8. CASE UNCHANGED vars
  BY <1>8 DEF vars, network
<1>9. QED BY <1>3, <1>4, <1>5, <1>6, <1>7, <1>8 DEF Next

LEMMA LivesStays ==
  ASSUME IInv, Lives, LetIn, Moves, [Next]_vars, faults' = 0
  PROVE  /\ faults = 0 /\ NoFault /\ live' /\ up'
         /\ calls'[Loop] # None => calls'[Loop].start = starts'
<1>1. faults = 0 /\ NoFault
  BY FaultsCount DEF IInv, Typed, SessionTyped, NoFault, Fault
<1>2. live /\ up
  BY <1>1 DEF Lives
<1>3. ~MarkStopped /\ ~StartSession /\ ~TuiExits
  BY <1>1, <1>2 DEF MarkStopped, StartSession, TuiExits, Fault, NoFault
<1>4. live' = live /\ up' = up /\ starts' = starts
  BY <1>3, SessionSteps
<1>5. ASSUME calls'[Loop] # None PROVE calls'[Loop].start = starts
  <2>1. CallMoves(Loop) /\ Loop[2] = 0
    BY SlotFacts DEF Moves, CallsMove, Loop
  <2>2. calls[Loop] # None => calls[Loop] \in HttpCall /\ calls[Loop].start = starts
    BY <1>1, SlotFacts DEF IInv, Typed, CallsTyped, LetIn
  <2>3. CASE calls[Loop] # None /\ \E p, r : calls'[Loop] = [calls[Loop] EXCEPT !.phase = p, !.reply = r]
    <3>1. calls'[Loop].start = calls[Loop].start
      BY <2>2, <2>3 DEF HttpCall
    <3>2. QED BY <2>2, <2>3, <3>1
  <2>4. CASE Sent(calls'[Loop], Loop)
    BY <2>4 DEF Sent
  <2>5. QED BY <1>5, <2>1, <2>2, <2>3, <2>4 DEF CallMoves
<1>6. QED BY <1>1, <1>2, <1>4, <1>5

\* A lease is one job's.
LEMMA OneLease ==
  ASSUME Typed, Claimed, NEW i \in 1..sequence, NEW j \in 1..sequence,
         jobs[i].status = "leased", jobs[i].leaseId = jobs[j].leaseId
  PROVE  i = j
<1>1. jobs[i].leaseId # 0
  BY StoreFacts DEF Store!Active
<1>2. Claim(i, jobs[i].leaseId) /\ Claim(j, jobs[i].leaseId)
  BY DEF Claim
<1>3. QED BY <1>1, <1>2 DEF Claimed

\* Without a fault, a leased job's lease is under way after the step, or is new.
LEMMA StillUnderWay ==
  ASSUME IInv, Lives, LetIn, [Next]_vars, faults = 0, NoFault,
         NEW i \in 1..sequence, jobs[i].status = "leased", UnderWay(jobs[i].leaseId), jobs'[i] = jobs[i]
  PROVE  UnderWay(jobs[i].leaseId)'
<1> DEFINE l == jobs[i].leaseId
<1>1. Typed /\ Claimed /\ calls \in [Slots -> HttpCall \cup {None}] /\ Loop \in Slots
  BY SlotFacts DEF IInv, Typed, CallsTyped
<1>2. CASE calls'[Loop] = calls[Loop]
  BY <1>2 DEF UnderWay
<1>3. ~Ack(Loop)
  <2>1. SUFFICES ASSUME Ack(Loop) PROVE FALSE
    OBVIOUS
  <2>2. calls[Loop].op = "ack" /\ calls[Loop].phase = "sent" /\ calls[Loop] # None
    BY <2>1 DEF Ack, Arrived, InPhase
  <2>3. calls[Loop].lease = l
    BY <2>2 DEF UnderWay
  <2>4. l # 0 /\ Claim(calls[Loop].id, l) /\ Claim(i, l)
    BY <1>1, <2>2, <2>3, StoreFacts DEF Claim, Store!Active
  <2>5. calls[Loop].id = i
    BY <1>1, <2>4 DEF Claimed
  <2>6. Store!Acknowledge(i, l)
    BY <2>1, <2>3, <2>5 DEF Ack
  <2>7. jobs' = [jobs EXCEPT ![i].status = "running", ![i].updatedAt = now]
    BY <2>6 DEF Store!Acknowledge
  <2>8. jobs'[i] = [jobs[i] EXCEPT !.status = "running", !.updatedAt = now] /\ jobs[i] \in Job
    BY <1>1, <2>7, StoreFacts DEF Typed, StoreTyped
  <2>9. jobs'[i].status = "running"
    BY <2>8 DEF Job
  <2>10. QED BY <2>9
<1>4. CASE PollGetsJob
  <2>1. calls[Loop].op = "poll"
    BY <1>4 DEF PollGetsJob, LoopGets
  <2>2. calls[Loop].reply.lease = l
    BY <2>1 DEF UnderWay
  <2>3. calls'[Loop] = Call("ack", calls[Loop].reply, None)
    BY <1>1, <1>4 DEF PollGetsJob, Sending
  <2>4. calls'[Loop].op = "ack" /\ calls'[Loop].phase = "sent" /\ calls'[Loop].lease = l
    BY <2>2, <2>3 DEF Call
  <2>5. calls[Loop].reply.id \in Nat /\ l \in Nat /\ starts \in Nat
    BY <1>1, <1>4, <2>2, AnsweredJob DEF PollGetsJob, LoopGets, Typed, SessionTyped, Jobs, Leases
  <2>6. calls'[Loop] # None
    <3>1. calls'[Loop] \in HttpCall
      BY <2>2, <2>3, <2>5 DEF Call, HttpCall
    <3>2. QED BY <3>1, CallApart
  <2>7. QED BY <2>4, <2>6 DEF UnderWay
<1>5. QED BY <1>1, <1>2, <1>3, <1>4, Held

\* A ready poll of a session without a fault leases only when nothing is active.
LEMMA NothingActive ==
  ASSUME IInv, Alone, faults = 0, NEW s \in Slots, LeasesTo(s)
  PROVE  s = Loop /\ Runs = {} /\ Leased = {}
<1>1. /\ calls[s] # None /\ calls[s].op = "poll" /\ calls[s].data /\ calls[s].phase \in {"sent", "woken"}
      /\ Resumable(s) = {}
  BY DEF LeasesTo
<1>2. Typed /\ Claimed
  BY DEF IInv
<1>3. s = Loop
  <2>1. s[1] # "event"
    BY <1>1, <1>2 DEF Typed, CallsTyped, CallFits
  <2>2. s[2] = 0
    <3>1. s[2] \in 0..MaxFaults /\ ~(s[2] > faults)
      BY <1>1, SlotFacts DEF IInv, Fresh
    <3>2. QED BY <3>1, BoundsAssumption
  <2>3. QED BY <2>1, <2>2, SlotFacts DEF Event
<1>4. \A l : ~UnderWay(l)
  BY <1>1, <1>3 DEF UnderWay
<1>5. Leased = {}
  BY <1>4 DEF Alone, Leased
<1>6. ASSUME NEW i \in Runs PROVE FALSE
  <2>1. i \in 1..sequence /\ jobs[i].status = "running" /\ jobs[i] \in Job
    BY <1>2, StoreFacts DEF Runs
  <2>2. i \in Store!ActiveOf(Alias)
    BY <1>2, <2>1, StoreFacts DEF Store!ActiveOf, Store!Active, Job
  <2>3. \A j \in Store!ActiveOf(Alias) : j \in Runs \cup Leased
    BY <1>2, StoreFacts DEF Store!ActiveOf, Store!Active, Runs, Leased
  <2>4. \A j \in Store!ActiveOf(Alias) : i = j
    BY <2>3 DEF Alone, One
  <2>5. i \in Running /\ IsActive(i)
    BY <2>1, <2>2, <2>4 DEF Running, IsActive, Store!IsOldest
  <2>6. i # calls[Loop].id
    BY <1>1, <1>3, <2>1 DEF Alone
  <2>7. QED BY <1>1, <1>3, <2>5, <2>6 DEF Resumable
<1>7. QED BY <1>3, <1>5, <1>6

LEMMA AloneStays ==
  ASSUME IInv, Lives, LetIn, Alone, Moves, [Next]_vars
  PROVE  Alone'
<1>1. Typed /\ Claimed /\ StoreMoves
  BY DEF IInv, Moves
<1>2. ASSUME calls'[Loop] # None, calls'[Loop].op = "poll", calls'[Loop].data PROVE calls'[Loop].id = 0
  <2>1. CASE Sent(calls'[Loop], Loop)
    BY <1>2, <2>1 DEF Sent
  <2>2. QED BY <1>1, <1>2, <2>1, LoopCall DEF Alone
<1>3. ASSUME faults' = 0
      PROVE  One(Runs \cup Leased)' /\ \A i \in Leased' : UnderWay(jobs[i].leaseId)'
  <2>1. faults = 0 /\ NoFault
    BY <1>3, LivesStays
  <2>2. CASE Calm
    <3>1. \A i \in Runs' \cup Leased' : i \in 1..sequence /\ jobs'[i] = jobs[i]
      BY <1>1, <2>2, CalmJob DEF Runs, Leased, Store!Active
    <3>2. Runs' \subseteq Runs /\ Leased' \subseteq Leased
      BY <3>1 DEF Runs, Leased
    <3>3. ASSUME NEW i \in Leased' PROVE UnderWay(jobs[i].leaseId)'
      <4>1. i \in 1..sequence /\ jobs[i].status = "leased" /\ jobs'[i] = jobs[i] /\ UnderWay(jobs[i].leaseId)
        BY <2>1, <3>1, <3>2 DEF Leased, Alone
      <4>2. QED BY <2>1, <4>1, StillUnderWay
    <3>4. QED BY <2>1, <3>2, <3>3 DEF Alone, One
  <2>3. ASSUME NEW s \in Slots, LeasesTo(s)
        PROVE  One(Runs \cup Leased)' /\ \A i \in Leased' : UnderWay(jobs[i].leaseId)'
    <3>1. s = Loop /\ Runs = {} /\ Leased = {}
      BY <2>1, <2>3, NothingActive
    <3>2. PICK m \in 1..sequence :
            /\ calls' = Replied(s, Carrying("job", m, leaseCount'))
            /\ jobs'[m].status = "leased" /\ jobs'[m].leaseId = leaseCount'
            /\ leaseCount' = leaseCount + 1 /\ sequence' = sequence
            /\ \A j \in 1..sequence : j # m => jobs'[j] = jobs[j]
      BY <1>1, <2>3, LeasesToJob
    <3>3. \A i \in Runs' \cup Leased' : i = m
      BY <3>1, <3>2 DEF Runs, Leased
    <3>4. UnderWay(jobs[m].leaseId)'
      <4> DEFINE reply == Carrying("job", m, leaseCount')
                 call  == [calls[Loop] EXCEPT !.phase = "answered", !.reply = reply]
      <4>1. calls[Loop] \in HttpCall /\ calls[Loop].op = "poll" /\ calls[Loop].data \in BOOLEAN
        BY <1>1, <2>3, <3>1, SlotFacts DEF LeasesTo, Typed, CallsTyped, CallFits
      <4>2. reply \in Reply /\ reply.kind = "job" /\ reply.lease = leaseCount'
        BY <1>1, <3>2, StoreFacts DEF Carrying, Reply, Leases
      <4>3. calls'[Loop] = call
        BY <1>1, <3>1, <3>2, SlotFacts DEF Replied, Loop, Typed, CallsTyped
      <4> HIDE DEF reply
      <4>4. call.phase = "answered" /\ call.reply = reply /\ call \in HttpCall
        BY <4>1, <4>2 DEF HttpCall
      <4>5. call # None
        BY <4>4, CallApart
      <4>6. QED BY <3>2, <4>2, <4>3, <4>4, <4>5 DEF UnderWay
    <3>5. QED BY <3>2, <3>3, <3>4 DEF One
  <2>4. ASSUME NEW s \in Slots, Acks(s)
        PROVE  One(Runs \cup Leased)' /\ \A i \in Leased' : UnderWay(jobs[i].leaseId)'
    <3>1. PICK i \in 1..sequence :
            /\ jobs[i].status = "leased" /\ jobs'[i].status = "running" /\ sequence' = sequence
            /\ \A j \in 1..sequence : j # i => jobs'[j] = jobs[j]
      BY <1>1, <2>4, AcksJob
    <3>2. \A j \in Runs \cup Leased : j = i
      BY <2>1, <3>1 DEF Alone, One, Leased
    <3>3. Leased' = {} /\ \A j \in Runs' : j = i
      BY <3>1, <3>2 DEF Runs, Leased
    <3>4. QED BY <3>3 DEF One
  <2>5. QED BY <1>1, <2>2, <2>3, <2>4, CalmSteps
<1>4. QED BY <1>2, <1>3 DEF Alone

\* The calls of an ended TUI are at most the ones it had given up.
LEMMA EndedCalls ==
  ASSUME IInv, Moves, ~up, calls[Loop] = None, calls[Event] = None
  PROVE  /\ calls'[Loop] = None /\ calls'[Event] = None
         /\ \A l : AckSent(l)' => AckSent(l)
<1>1. ASSUME NEW s \in Slots
      PROVE  \/ calls'[s] = calls[s]
             \/ calls'[s] = None
             \/ calls[s] # None /\ calls'[s].phase # "sent"
  <2>1. CallMoves(s) /\ calls[<<s[1], 0>>] = None
    BY SlotFacts DEF Moves, CallsMove, Slots, Loop, Event
  <2>2. ~Sent(calls'[s], s)
    BY DEF Sent
  <2>3. CASE calls[s] # None /\ \E p, r : /\ Progress(calls[s], s, p, r)
                                          /\ calls'[s] = [calls[s] EXCEPT !.phase = p, !.reply = r]
    <3>1. PICK p, r : /\ Progress(calls[s], s, p, r)
                      /\ calls'[s] = [calls[s] EXCEPT !.phase = p, !.reply = r]
      BY <2>3
    <3>2. calls'[s].phase = p
      BY <2>3, <3>1 DEF IInv, Typed, CallsTyped, HttpCall
    <3>3. QED BY <2>3, <3>1, <3>2 DEF Progress
  <2>4. QED BY <2>1, <2>2, <2>3 DEF CallMoves
<1>2. Slots' = Slots
  BY DEF Slots
<1>3. QED BY <1>1, <1>2, SlotFacts DEF AckSent

LEMMA EndedStays ==
  ASSUME IInv, Lives, Alone, Ended, Moves, [Next]_vars
  PROVE  Ended'
<1>1. Typed /\ Claimed /\ StoreMoves
  BY DEF IInv, Moves
<1>2. CASE ~up' /\ up
  <2>1. TuiExits
    BY <1>2, SessionSteps DEF StartSession
  <2>2. calls'[Loop] = None /\ calls'[Event] = None
    BY <2>1, SlotFacts DEF TuiExits, Orphaned, Loop, Event
  <2>3. faults' <= 1 => faults = 0
    BY <1>1, <2>1 DEF TuiExits, Fault, Typed, SessionTyped
  <2>4. MayRun' \subseteq Runs \cup Leased
    BY <2>1 DEF TuiExits, store, MayRun, Runs, Leased
  <2>5. QED BY <2>2, <2>3, <2>4 DEF Ended, Alone, One
<1>3. CASE ~up' /\ ~up
  <2>1. /\ calls'[Loop] = None /\ calls'[Event] = None
        /\ \A l : AckSent(l)' => AckSent(l)
    BY <1>3, EndedCalls DEF Ended
  <2>2. faults' <= 1 => faults <= 1
    BY <1>1, FaultsCount DEF NoFault, Fault, Typed, SessionTyped
  <2>3. ASSUME NEW i \in Leased', AckSent(jobs[i].leaseId)'
        PROVE  AckSent(jobs'[i].leaseId)
    <3> DEFINE l == jobs'[i].leaseId
    <3>1. PICK s \in Slots' : /\ calls'[s] # None /\ calls'[s].op = "ack" /\ calls'[s].phase = "sent"
                              /\ calls'[s].lease = l
      BY <2>3 DEF AckSent
    <3> HIDE DEF l
    <3>2. AckSent(l)
      BY <2>1, <3>1 DEF AckSent
    <3>3. QED BY <3>2 DEF l
  <2>4. CASE Calm
    <3>1. \A i \in MayRun' : i \in 1..sequence /\ jobs'[i] = jobs[i]
      BY <1>1, <2>4, CalmJob DEF MayRun, Runs, Leased, Store!Active
    <3>2. MayRun' \subseteq MayRun
      BY <2>3, <3>1 DEF MayRun, Runs, Leased
    <3>3. QED BY <1>3, <2>1, <2>2, <3>2 DEF Ended, One
  <2>5. ASSUME NEW s \in Slots, LeasesTo(s) PROVE Ended'
    <3>1. PICK m \in 1..sequence :
            /\ jobs'[m].status = "leased" /\ jobs'[m].leaseId = leaseCount'
            /\ leaseCount' = leaseCount + 1 /\ sequence' = sequence
            /\ \A j \in 1..sequence : j # m => jobs'[j] = jobs[j]
      BY <1>1, <2>5, LeasesToJob
    <3>2. ~AckSent(leaseCount + 1)
      <4>1. \A i : ~Claim(i, leaseCount + 1)
        BY <1>1, StoreFacts DEF Claimed
      <4>2. QED BY <4>1 DEF AckSent, Claim
    <3>3. m \in Leased' /\ jobs'[m].leaseId = leaseCount + 1
      BY <3>1 DEF Leased
    <3>4. m \notin MayRun'
      BY <2>3, <3>1, <3>2, <3>3 DEF MayRun, Runs
    <3>5. MayRun' \subseteq MayRun
      BY <2>3, <3>1, <3>4 DEF MayRun, Runs, Leased
    <3>6. QED BY <1>3, <2>1, <2>2, <3>5 DEF Ended, One
  <2>6. ASSUME NEW s \in Slots, Acks(s) PROVE Ended'
    <3>1. PICK i \in 1..sequence :
            /\ calls[s].lease = jobs[i].leaseId /\ jobs[i].status = "leased" /\ jobs'[i].status = "running"
            /\ sequence' = sequence
            /\ \A j \in 1..sequence : j # i => jobs'[j] = jobs[j]
      BY <1>1, <2>6, AcksJob
    <3>2. i \in MayRun
      BY <2>6, <3>1 DEF Acks, AckSent, MayRun, Leased
    <3>3. MayRun' \subseteq MayRun
      BY <2>3, <3>1, <3>2 DEF MayRun, Runs, Leased
    <3>4. QED BY <1>3, <2>1, <2>2, <3>3 DEF Ended, One
  <2>7. QED BY <1>1, <2>4, <2>5, <2>6, CalmSteps
<1>4. QED BY <1>2, <1>3 DEF Ended

LEMMA LeftStays ==
  ASSUME IInv, Ended, Left, Moves, [Next]_vars
  PROVE  Left'
<1> SUFFICES ASSUME faults' <= 1, ~live' PROVE Runs' = {}
  BY DEF Left
<1>1. Typed /\ Claimed /\ StoreMoves
  BY DEF IInv, Moves
<1>2. faults <= 1
  BY <1>1, FaultsCount DEF NoFault, Fault, Typed, SessionTyped
<1>3. CASE live
  <2>1. MarkStopped
    BY <1>3, SessionSteps DEF StartSession
  <2>2. One(MayRun)
    BY <1>2, <2>1 DEF Ended, MarkStopped
  <2>3. \A i, j \in 1..sequence : jobs[i].status = "running" /\ jobs[j].status = "running" => i = j
    BY <2>2 DEF One, MayRun, Runs
  <2>4. QED BY <1>1, <2>1, <2>3, Stopping DEF Runs
<1>4. CASE ~live
  <2>1. Runs = {}
    BY <1>2, <1>4 DEF Left
  <2>2. CASE Calm
    <3>1. Runs' \subseteq Runs
      BY <1>1, <2>2, CalmJob DEF Runs, Store!Active
    <3>2. QED BY <2>1, <3>1
  <2>3. ASSUME NEW s \in Slots, LeasesTo(s) PROVE Runs' = {}
    BY <1>1, <2>1, <2>3, LeasesToJob DEF Runs
  <2>4. \A s \in Slots : ~Acks(s)
    BY <1>4 DEF Acks
  <2>5. QED BY <1>1, <2>2, <2>3, <2>4, CalmSteps
<1>5. QED BY <1>3, <1>4

LEMMA SoleStays ==
  ASSUME IInv, Sole, [Next]_vars
  PROVE  Sole'
<1>1. Moves
  BY NextMoves
<1>2. Lives' /\ LetIn'
  BY <1>1, LivesStays DEF Sole, Lives, LetIn
<1>3. QED BY <1>1, <1>2, AloneStays, EndedStays, LeftStays DEF Sole

LEMMA InitSole ==
  ASSUME Init
  PROVE  Sole
<1>1. 1..sequence = {} /\ calls[Loop] = None /\ faults = 0 /\ live /\ up
  BY SlotFacts DEF Init, Store!Init
<1>2. QED BY <1>1 DEF Sole, Lives, LetIn, Alone, Ended, Left, One, Runs, Leased

(* With one fault at most, a job is under way once at most.                *)
THEOREM SoleHolds == Spec => []Sole
<1>1. IInv /\ Sole /\ [Next]_vars => Sole'
  BY SoleStays
<1>2. QED BY <1>1, InitSole, Invariant, PTL DEF Spec

(* The two ends agree on the session: its state is well formed, one fault  *)
(* leaves no running job with a stopped session (markStopped), and a ready *)
(* extension is free, so it never refuses a lease as busy (index.ts:345).  *)
THEOREM SessionAgreesHolds == Spec => []SessionAgrees
<1>1. Spec => []Sole
  BY SoleHolds
<1>2. IInv => TypeOK
  <2> SUFFICES ASSUME IInv PROVE TypeOK
    OBVIOUS
  <2>1. Typed /\ Claimed /\ Store!Ids = 1..sequence /\ sequence \in Nat /\ leaseCount \in Nat
    BY StoreFacts DEF IInv
  <2>2. control # None => control.n \in 1..controlCount /\ control.id \in 0..sequence
    <3>1. control # None => control.n \in 1..MaxControls /\ control.id \in Nat
      BY <2>1 DEF Typed, SessionTyped, ControlTyped, Control
    <3>2. QED BY <2>1, <3>1, BoundsAssumption DEF Typed, SessionTyped, ControlTyped
  <2>3. ASSUME NEW s \in Slots, calls[s] # None
        PROVE  /\ calls[s].op \in {"poll", "ack", "result", "fail", "controlAck"}
               /\ calls[s].phase \in {"sent", "waiting", "woken"} \cup (IF s[2] = 0 THEN {"answered"} ELSE {})
               /\ s[1] = "event" => calls[s].op \in {"result", "fail"}
    BY <2>1, <2>3 DEF Typed, CallsTyped, CallFits, HttpCall
  <2>4. active # None =>
          /\ active.id \in Store!Ids /\ active.lease \in 1..leaseCount
          /\ active.dispatched \in {"no", "yes", "overdue"}
    <3>1. ASSUME active # None
          PROVE  /\ active.id \in Store!Ids /\ active.lease \in 1..leaseCount
                 /\ active.dispatched \in {"no", "yes", "overdue"}
      <4>1. /\ active.id \in Jobs /\ active.lease \in Leases
            /\ active.dispatched \in {"no", "yes", "overdue"}
        BY <2>1, <3>1 DEF Typed, ActiveTyped, ActiveJob
      <4>2. active.id \in 0..sequence /\ active.lease \in 0..leaseCount
        BY <2>1, <3>1 DEF Claimed, Claim
      <4>3. QED BY <2>1, <4>1, <4>2 DEF Jobs, Leases
    <3>2. QED BY <3>1
  <2>5. QED BY <2>1, <2>2, <2>3, <2>4
            DEF TypeOK, Typed, SessionTyped, ControlTyped, AgentTyped, WaiterWaits, EndedIsEmpty
<1>3. IInv => FreeWhenReady
  BY SlotFacts DEF IInv, Ready, Handed, Answered, FreeWhenReady, InPhase
<1>4. IInv /\ Sole => StoppedHasNoRunning
  BY StoreFacts DEF IInv, Sole, Left, Runs, StoppedHasNoRunning, Running, Store!ActiveOf
<1>5. QED BY <1>1, <1>2, <1>3, <1>4, Invariant, PTL DEF SessionAgrees

-----------------------------------------------------------------------------
(* Prompts.  While faults are few, the session has the prompt of any job   *)
(* that is handed over again, so that it counts as sent: the extension     *)
(* drops a running job only at a reload, once its prompt is recorded.      *)

HasUserIn(segs, i) == H!SegmentHasUser(segs[i])
Pending(i) == \E k \in DOMAIN inbox : inbox[k].who = i
Known(i)   == prompted[i] > 0 \/ Pending(i)
Has(i)     == active # None /\ active.id = i
LastFailure == FailOf("terminal-report-failed")

\* The extension's job: what was sent is in the session.  While faults are
\* few, a job that was not handed over is unknown, or sent before a reload,
\* and a prompt on its way is that of the job whose injection is awaited.
Fit(job) ==
  /\ job.sent => HasUserIn(segments, job.id)
  /\ job.acknowledged /\ job.id \in Runs => jobs[job.id].leaseId = job.lease
  /\ job.terminal # LastFailure /\ Flagged(job)
  /\ ~job.sent /\ job.dispatched = "no" =>
       /\ job.terminal # None => job.interrupted
       /\ job.interrupted /\ job.terminal = None => streaming
  /\ faults <= 1 /\ job.dispatched = "no" /\ Known(job.id) => job.sent /\ ~Pending(job.id)
  /\ faults <= 1 /\ job.dispatched # "no" /\ ~job.sent =>
       /\ injecting = job.id
       /\ \A k \in DOMAIN inbox : inbox[k].who = job.id /\ inbox[k].seen => job.observed
       /\ prompted[job.id] = 0

\* The extension's job goes with the call of the loop.
Paired(job, call) ==
  /\ ~job.acknowledged =>
       /\ call # None /\ call.op = "ack" /\ call.id = job.id /\ call.lease = job.lease
       /\ job.dispatched = "no"
       /\ job.interrupted \/ job.terminal # None => job.sent
  /\ call # None /\ call.op = "ack" => ~job.acknowledged
  /\ call # None /\ call.op = "poll" => call.id = job.id

\* The awaited calls of a running extension are let in.
Attended ==
  /\ up => live
  /\ \A s \in {Loop, Event} : calls[s] # None => up /\ calls[s].start = starts
Fitting == active # None => segments[active.id] # None /\ Fit(active) /\ Paired(active, calls[Loop])

\* What the loop acknowledges or is about to take up.
Offered ==
  /\ calls[Loop] # None /\ calls[Loop].op = "ack" =>
       /\ ~Known(calls[Loop].id)
       /\ calls[Loop].phase = "answered" /\ calls[Loop].reply = Ok /\ calls[Loop].id \in Runs =>
            jobs[calls[Loop].id].leaseId = calls[Loop].lease
  /\ Answered(Loop) =>
       /\ calls[Loop].reply.kind = "job" => ~Known(calls[Loop].reply.id)
       /\ calls[Loop].reply.kind = "resume" =>
            /\ calls[Loop].reply.id # calls[Loop].id
            /\ calls[Loop].reply.id \in Runs => jobs[calls[Loop].reply.id].leaseId = calls[Loop].reply.lease

\* A report that the controller has settled leaves its job settled, or is of
\* a job that was never handed over.
Told(s) == calls[s].phase = "answered" /\ calls[s].reply \in {Ok, Conflict}
Reported ==
  \A s \in {Loop, Event} : Reports(s) =>
    LET i == calls[s].id
    IN  \/ i \in Begun /\ (i \in Runs => jobs[i].leaseId = calls[s].lease /\ ~Told(s))
        \/ HasUserIn(segments, i) /\ ~Known(i) /\ (Has(i) => active.sent)

Once ==
  faults <= 1 => \A i \in Jobs :
    /\ prompted[i] <= 1
    /\ prompted[i] > 0 => ~Pending(i)
    /\ \A k, m \in DOMAIN inbox : inbox[k].who = i /\ inbox[m].who = i => k = m

\* A job that may be resumed and was handed over is in the session.
Resumed(i) == i \in Runs \/ (Answered(Loop) /\ calls[Loop].reply.kind = "resume" /\ calls[Loop].reply.id = i)
Dropped ==
  faults <= 1 /\ up => \A i \in Jobs :
    Resumed(i) /\ Known(i) /\ ~Has(i) => ~Pending(i) /\ HasUserIn(segments, i)

\* A call fails by a fault, so one fault is not enough to lose the last report.
LastTry ==
  \A s \in {Loop, Event} : calls[s] # None =>
    /\ calls[s].phase = "answered" /\ calls[s].reply \in {Failure, TooLarge} => faults >= 1
    /\ Reports(s) /\ LastAttempt(s) /\ faults <= 1 =>
         faults = 1 /\ (calls[s].phase = "answered" => calls[s].reply \in {Ok, Conflict})

Prompting == Attended /\ Fitting /\ Offered /\ Reported /\ Once /\ Dropped /\ LastTry

\* A report that the controller has not taken is sent once more.
Repeats(s) ==
  /\ Reports(s) /\ calls[s].phase = "answered" /\ ~Told(s)
  /\ calls'[s].id = calls[s].id /\ calls'[s].lease = calls[s].lease

\* An awaited call is left alone, is over, or is a new one.
Makes(s) ==
  \/ calls'[s] = calls[s] \/ calls'[s] = None
  \/ /\ calls'[s].phase = "sent" /\ calls'[s].start = starts
     /\ calls'[s].op = "ack" =>
          /\ ~Known(calls'[s].id)
          /\ Answered(Loop) /\ calls[Loop].reply.kind = "job"
          /\ calls'[s].id = calls[Loop].reply.id /\ calls'[s].lease = calls[Loop].reply.lease
     /\ calls'[s].op \in {"result", "fail"} =>
          /\ \/ /\ active' # None /\ calls'[s].id = active'.id /\ calls'[s].lease = active'.lease
                /\ active'.terminal # None
             \/ Repeats(s)
          /\ calls'[s].data = LastFailure => faults >= 1

\* What the extension does with its job: it goes on, or is handed over.
Tends(job) ==
  /\ UNCHANGED <<injecting, inbox>>
  /\ active'.observed = job.observed /\ (active'.dispatched = "no" <=> job.dispatched = "no")
  /\ job.sent => active'.sent
  /\ active'.sent => HasUserIn(segments', job.id)
  /\ active'.terminal # LastFailure
  /\ ~active'.sent /\ active'.dispatched = "no" =>
       /\ active'.terminal # None => active'.interrupted
       /\ active'.interrupted /\ active'.terminal = None => streaming'
Hands(job) ==
  /\ Dispatchable(job) /\ ~HasUserIn(segments, job.id)
  /\ ~job.interrupted /\ job.terminal = None
  /\ active' = Dispatched(job) /\ HandsOver(job)

\* The job it works on is its own or the one just taken up.
Works ==
  /\ active' # None
  /\ \E job \in ActiveJob :
       /\ Fit(job) /\ Same(job, active') /\ (Tends(job) \/ Hands(job))
       /\ IF active = None
            THEN /\ HasUserIn(segments, job.id) => job.sent
                 /\ calls'[Loop] # None => calls'[Loop].phase = "sent"
            ELSE /\ job.id = active.id /\ (active.sent => job.sent)
                 /\ job.interrupted = active.interrupted /\ job.terminal = active.terminal
       /\ segments'[job.id] # None
       /\ Paired(active', calls'[Loop])
Clears ==
  /\ active # None /\ active' = None /\ UNCHANGED inbox
  /\ faults <= 1 /\ Known(active.id) => active.id \notin Runs
Idles == active = None /\ active' = None /\ UNCHANGED inbox

SegmentsKept == \A i \in Jobs : HasUserIn(segments, i) => HasUserIn(segments', i)

\* A step of the loop, of the agent_settled handler or of its timer.
Attends ==
  /\ UNCHANGED <<store, live, up, starts, prompted>>
  /\ up /\ SegmentsKept
  /\ Makes(Loop) /\ Makes(Event)
  /\ Works \/ Clears \/ Idles

LEMMA NoneApart ==
  None \notin ActiveJob /\ None \notin Outcomes /\ None \notin Segment /\ H!Marked # None
<1>1. \A job \in ActiveJob : job # None
  BY NoneAssumption DEF ActiveJob, Outcomes, Jobs, Authors, Leases
<1>2. \A outcome \in Outcomes : outcome # None
  BY NoneAssumption DEF Outcomes, Jobs, Authors
<1>3. \A segment \in Segment : segment # None
  BY NoneAssumption DEF Segment, Jobs, Authors
<1>4. H!Marked \in Segment
  BY DEF H!Marked, Segment
<1>5. QED BY <1>1, <1>2, <1>3, <1>4

\* A prompt that is recorded stays in the segment.
LEMMA SegmentGrows ==
  ASSUME NEW segment \in Segment
  PROVE  /\ H!WithUser(segment) # None /\ H!SegmentHasUser(H!WithUser(segment))
         /\ \A who \in Authors \cup {None}, stop \in {"stop", "error", "aborted"} :
              /\ H!WithAnswer(segment, who, stop) # None
              /\ H!SegmentHasUser(segment) => H!SegmentHasUser(H!WithAnswer(segment, who, stop))
<1>1. H!WithUser(segment) \in Segment /\ H!WithUser(segment).user
  BY NoneApart DEF H!WithUser, Segment
<1>2. \A who \in Authors \cup {None}, stop \in {"stop", "error", "aborted"} :
        /\ H!WithAnswer(segment, who, stop) \in Segment
        /\ H!WithAnswer(segment, who, stop).user = segment.user
  BY NoneApart DEF H!WithAnswer, Segment
<1>3. QED BY <1>1, <1>2, NoneApart DEF H!SegmentHasUser

\* What the agent answers and what is recorded takes no prompt back.
LEMMA SessionGrows ==
  ASSUME Typed
  PROVE  /\ \A segs \in AnsweredAtLast \cup AnsweredSoFar, i \in Jobs :
              /\ segments[i] # None => segs[i] # None
              /\ HasUserIn(segments, i) => HasUserIn(segs, i)
         /\ \A segs \in AnsweredSoFar, i \in Jobs :
              segments[i] # None => Recording(segs)[i] # None /\ HasUserIn(Recording(segs), i)
<1>1. \A i \in Jobs : segments[i] \in Segment \cup {None}
  BY DEF Typed, AgentTyped
<1>2. ASSUME NEW stop \in {"stop", "error", "aborted"}, NEW i \in Jobs
      PROVE  /\ segments[i] # None => Answering(turn, stop)[i] # None
             /\ HasUserAfterMarker(i) => H!SegmentHasUser(Answering(turn, stop)[i])
  <2>1. Answering(turn, stop)[i] = H!WithAnswer(segments[i], turn, stop) /\ turn \in Authors \cup {None}
    BY DEF Answering, Typed, AgentTyped
  <2>2. HasUserAfterMarker(i) => segments[i] # None
    BY DEF HasUserAfterMarker, H!SegmentHasUser
  <2>3. QED BY <1>1, <2>1, <2>2, SegmentGrows DEF HasUserAfterMarker
<1>3. \A segs \in AnsweredAtLast \cup AnsweredSoFar, i \in Jobs :
        /\ segments[i] # None => segs[i] # None
        /\ HasUserAfterMarker(i) => H!SegmentHasUser(segs[i])
  BY <1>2 DEF AnsweredAtLast, AnsweredSoFar, HasUserAfterMarker
<1>4. ASSUME NEW segs \in AnsweredSoFar, NEW i \in Jobs, segments[i] # None
      PROVE  Recording(segs)[i] # None /\ H!SegmentHasUser(Recording(segs)[i])
  <2>1. segs \in [Jobs -> Segment \cup {None}]
    <3>1. Answering(turn, "stop") \in AnsweredAtLast /\ segments \in AnsweredAtLast
      BY DEF AnsweredAtLast
    <3>2. QED BY <3>1, SegmentsTypes DEF AnsweredSoFar
  <2>2. segs[i] \in Segment /\ Recording(segs)[i] = H!WithUser(segs[i])
    BY <1>3, <1>4, <2>1 DEF Recording
  <2>3. QED BY <2>2, SegmentGrows
<1>5. QED BY <1>3, <1>4 DEF HasUserIn, HasUserAfterMarker

\* Marking a job whose prompt the session does not have takes no prompt back.
LEMMA MarkingGrows ==
  ASSUME Typed, NEW i \in Jobs
  PROVE  /\ \A j \in Jobs : j # i => Marking(i)[j] = segments[j]
         /\ Marking(i)[i] # None
         /\ MarkUnlessSent(i)[i] # None
         /\ \A j \in Jobs : HasUserIn(segments, j) => HasUserIn(MarkUnlessSent(i), j)
<1>1. \A j \in Jobs : Marking(i)[j] = IF j = i THEN H!Marked ELSE segments[j]
  BY DEF Marking, Typed, AgentTyped
<1>2. H!Marked # None
  BY NoneApart
<1>3. HasUserAfterMarker(i) => segments[i] # None
  BY DEF HasUserAfterMarker, H!SegmentHasUser
<1>4. QED BY <1>1, <1>2, <1>3 DEF MarkUnlessSent, HasUserAfterMarker, HasUserIn

\* What the functions of the extension leave as it was.
Alike(old, new) == new.observed = old.observed /\ new.dispatched = old.dispatched
Decides(old, new) ==
  /\ Same(old, new) /\ Alike(old, new) /\ new.sent = old.sent /\ new.interrupted = old.interrupted
  /\ old.terminal # LastFailure => new.terminal # LastFailure

\* The job but for its flag and its attempts.
Carried(old, new) ==
  /\ Same(old, new) /\ Alike(old, new)
  /\ new.sent = old.sent /\ new.interrupted = old.interrupted /\ new.terminal = old.terminal

LEMMA CarriedJob ==
  ASSUME NEW job \in ActiveJob
  PROVE  /\ Carried(job, job)
         /\ \A activity \in {"loop", "event"} : Carried(job, PostedFrom(activity, job))
         /\ \A n \in Nat : /\ Carried(job, [job EXCEPT !.attempts = n])
                         /\ Carried(job, [job EXCEPT !.attempts = n, !.posting = "no"])
<1>1. \A activity \in {"loop", "event"} : Carried(job, PostedFrom(activity, job))
  <2>1. ASSUME NEW activity \in {"loop", "event"} PROVE Carried(job, PostedFrom(activity, job))
    <3>1. Same(job, PostedFrom(activity, job))
      BY SameJob
    <3>2. PostedFrom(activity, job) \in {job, [job EXCEPT !.posting = activity]}
      BY DEF PostedFrom
    <3>3. QED BY <3>1, <3>2 DEF Carried, Alike, ActiveJob
  <2>2. QED BY <2>1
<1>2. ASSUME NEW n \in Nat
      PROVE  /\ Carried(job, [job EXCEPT !.attempts = n])
             /\ Carried(job, [job EXCEPT !.attempts = n, !.posting = "no"])
  <2>1. /\ Same(job, [job EXCEPT !.attempts = n])
        /\ Same(job, [job EXCEPT !.attempts = n, !.posting = "no"])
    BY SameJob
  <2>2. QED BY <2>1 DEF Carried, Alike, ActiveJob
<1>3. Carried(job, job)
  BY SameJob DEF Carried, Alike
<1>4. QED BY <1>1, <1>2, <1>3

LEMMA DecidedJob ==
  ASSUME NEW job \in ActiveJob
  PROVE  /\ Decides(job, job)
         /\ \A code \in Codes : code # "terminal-report-failed" =>
              Decides(job, FailWith(job, code)) /\ FailWith(job, code).terminal # None
         /\ \A h \in Harvests :
              /\ Decides(job, Finish(job, h))
              /\ job.interrupted => Finish(job, h).terminal # None
              /\ h.status = "pending" /\ ~job.interrupted => Finish(job, h) = job
<1>1. ASSUME NEW code \in Codes, code # "terminal-report-failed"
      PROVE  Decides(job, FailWith(job, code)) /\ FailWith(job, code).terminal # None
  <2>1. FailOf(code) \in Outcomes /\ FailOf(code) # LastFailure
    BY <1>1 DEF FailOf, Outcomes, LastFailure
  <2>2. FailWith(job, code) = [job EXCEPT !.terminal = FailOf(code)]
    BY DEF FailWith
  <2>3. Same(job, FailWith(job, code))
    BY SameJob
  <2> HIDE DEF FailOf
  <2>4. QED BY <2>1, <2>2, <2>3, NoneApart DEF Decides, Alike, ActiveJob
<1>2. ASSUME NEW h \in Harvests
      PROVE  /\ Decides(job, Finish(job, h))
             /\ job.interrupted => Finish(job, h).terminal # None
             /\ h.status = "pending" /\ ~job.interrupted => Finish(job, h) = job
  <2>1. "assistant-error" \in Codes /\ Same(job, Finish(job, h)) /\ Same(job, job)
    BY SameJob DEF Codes
  <2>2. h.status # "pending" => h.text \in Authors
    BY DEF Harvests
  <2>3. h.interrupted \in BOOLEAN
    BY DEF Harvests
  <2> DEFINE set(text, cut) == [job EXCEPT !.terminal = ResultOf(text, cut)]
  <2>4. ASSUME NEW text \in Authors \cup {Nothing}, NEW cut \in BOOLEAN
        PROVE  set(text, cut).terminal # None /\ (Same(job, set(text, cut)) => Decides(job, set(text, cut)))
    <3>1. ResultOf(text, cut) \in Outcomes /\ ResultOf(text, cut) # LastFailure
      BY DEF ResultOf, Outcomes, LastFailure, FailOf
    <3>2. QED BY <3>1, NoneApart DEF Decides, Alike, ActiveJob
  <2>5. CASE job.terminal # None \/ (h.status = "pending" /\ ~job.interrupted)
    BY <2>1, <2>5 DEF Finish, Decides, Alike
  <2>6. CASE job.terminal = None /\ h.status = "pending" /\ job.interrupted
    <3>1. Finish(job, h) = set(Nothing, TRUE)
      BY <2>6 DEF Finish
    <3>2. QED BY <2>1, <2>4, <2>6, <3>1
  <2>7. CASE job.terminal = None /\ h.status = "error"
    <3>1. Finish(job, h) = FailWith(job, "assistant-error")
      BY <2>7 DEF Finish
    <3>2. QED BY <1>1, <2>1, <2>7, <3>1
  <2>8. CASE job.terminal = None /\ h.status # "pending" /\ h.status # "error"
    <3>1. Finish(job, h) = set(h.text, h.interrupted \/ job.interrupted)
      BY <2>8 DEF Finish
    <3>2. h.interrupted \/ job.interrupted \in BOOLEAN
      BY <2>3 DEF ActiveJob
    <3> HIDE DEF set
    <3>3. QED BY <2>1, <2>2, <2>4, <2>8, <3>1, <3>2
  <2>9. QED BY <2>5, <2>6, <2>7, <2>8
<1>3. Decides(job, job)
  BY SameJob DEF Decides, Alike
<1>4. QED BY <1>1, <1>2, <1>3

-----------------------------------------------------------------------------
(* The steps of the extension on its job.                                  *)

LEMMA SentCall ==
  ASSUME NEW op, NEW job, NEW data
  PROVE  LET call == Call(op, job, data)
         IN  /\ call.op = op /\ call.id = job.id /\ call.lease = job.lease /\ call.data = data
             /\ call.phase = "sent" /\ call.start = starts
BY DEF Call

\* A new call of the loop, or none, leaves the other one alone.
LEMMA OtherCall ==
  ASSUME Typed, NEW slot \in {Loop, Event}, NEW call, calls' = [calls EXCEPT ![slot] = call]
  PROVE  /\ calls'[slot] = call
         /\ \A s \in {Loop, Event} : s # slot => calls'[s] = calls[s] /\ Makes(s)
BY SlotFacts DEF Typed, CallsTyped, Makes

\* The loop reports on its job, if it calls at all.
Quits == calls'[Loop] = None \/ (calls'[Loop].op \in {"result", "fail"} /\ calls'[Loop].phase = "sent")

LEMMA PostMakes ==
  ASSUME Typed, NEW slot \in {Loop, Event}, NEW job \in ActiveJob, NEW data \in Outcomes,
         active' # None, active'.id = job.id, active'.lease = job.lease, active'.terminal # None,
         data = LastFailure => faults >= 1,
         calls' = Sending(slot, data.op, job, data)
  PROVE  /\ Makes(Loop) /\ Makes(Event)
         /\ calls'[slot].op \in {"result", "fail"} /\ calls'[slot].phase = "sent"
         /\ \A s \in {Loop, Event} : s # slot => calls'[s] = calls[s]
<1>1. data.op \in {"result", "fail"}
  BY DEF Outcomes
<1>2. /\ calls'[slot] = Call(data.op, job, data)
      /\ \A s \in {Loop, Event} : s # slot => calls'[s] = calls[s] /\ Makes(s)
  BY OtherCall DEF Sending
<1>3. Makes(slot)
  BY <1>1, <1>2, SentCall DEF Makes
<1>4. QED BY <1>1, <1>2, <1>3, SentCall

LEMMA ReportMakes ==
  ASSUME Typed, NEW job \in ActiveJob, job.terminal # LastFailure, Report(job)
  PROVE  Carried(job, active') /\ active' # None /\ Makes(Loop) /\ Makes(Event) /\ Quits
<1>1. active' = PostedFrom("loop", job) /\ Carried(job, active') /\ active' # None
  BY CarriedJob, NoneApart DEF Report, Carried, Same
<1>2. CASE CanPost(job)
  <2>1. job.terminal \in Outcomes /\ job.terminal # None
    BY <1>2 DEF CanPost, ActiveJob
  <2>2. calls' = Sending(Loop, job.terminal.op, job, job.terminal)
    BY <1>2 DEF Report, Post
  <2>3. QED BY <1>1, <2>1, <2>2, PostMakes DEF Quits, Carried, Same
<1>3. CASE ~CanPost(job)
  <2>1. calls' = [calls EXCEPT ![Loop] = None]
    BY <1>3 DEF Report, LoopDone
  <2>2. calls'[Loop] = None /\ Makes(Event)
    BY <2>1, SlotFacts, OtherCall
  <2>3. QED BY <1>1, <2>2 DEF Quits, Makes
<1>4. QED BY <1>2, <1>3

LEMMA InspectedFacts ==
  ASSUME Typed, NEW job \in ActiveJob, job.terminal # LastFailure
  PROVE  /\ Same(job, Inspected(job)) /\ Alike(job, Inspected(job))
         /\ Inspected(job).interrupted = job.interrupted
         /\ Inspected(job).terminal # LastFailure
         /\ job.sent => Inspected(job).sent
         /\ Inspected(job).sent => job.sent \/ HasUserIn(segments, job.id)
         /\ ~Inspected(job).sent /\ Inspected(job).dispatched # "overdue" => Inspected(job) = job
<1> DEFINE sent == [job EXCEPT !.sent = TRUE]
           harvested == HarvestResult(job.id)
           new == Inspected(job)
<1>1. harvested \in Harvests
  BY SegmentsTypes DEF ActiveJob
<1>2. Same(job, sent) /\ sent \in ActiveJob /\ Alike(job, sent) /\ sent.sent
      /\ sent.interrupted = job.interrupted /\ sent.terminal = job.terminal
  <2>1. Same(job, sent) /\ sent \in ActiveJob
    BY SameJob DEF Same
  <2>2. /\ Alike(job, sent) /\ sent.sent
        /\ sent.interrupted = job.interrupted /\ sent.terminal = job.terminal
    BY DEF Alike, ActiveJob
  <2>3. QED BY <2>1, <2>2
<1>3. {"missing-assistant-result", "dispatch-timeout"} \subseteq Codes \ {"terminal-report-failed"}
  BY DEF Codes
<1>4. new \in {job, sent, Finish(sent, harvested), FailWith(sent, "missing-assistant-result"),
               FailWith(job, "dispatch-timeout")}
  BY DEF Inspected
<1>5. /\ new = FailWith(job, "dispatch-timeout") => job.dispatched = "overdue" \/ new \in {job, sent, Finish(sent, harvested), FailWith(sent, "missing-assistant-result")}
      /\ new \in {sent, Finish(sent, harvested), FailWith(sent, "missing-assistant-result")} => new = job \/ HasUserAfterMarker(job.id) \/ (new = FailWith(job, "dispatch-timeout") /\ job.dispatched = "overdue")
  BY DEF Inspected
<1> HIDE DEF sent, harvested, new
<1>6. /\ Decides(sent, Finish(sent, harvested)) /\ Decides(sent, FailWith(sent, "missing-assistant-result"))
      /\ Decides(job, FailWith(job, "dispatch-timeout"))
  BY <1>1, <1>2, <1>3, DecidedJob
<1>7. CASE new \in {sent, Finish(sent, harvested), FailWith(sent, "missing-assistant-result")}
  BY <1>2, <1>5, <1>6, <1>7 DEF Decides, Same, Alike, new, HasUserIn, HasUserAfterMarker
<1>8. CASE new = job
  BY <1>8, SameJob DEF Alike, new
<1>9. CASE new = FailWith(job, "dispatch-timeout")
  BY <1>5, <1>6, <1>7, <1>9 DEF Decides, Same, Alike, new
<1>10. QED BY <1>4, <1>7, <1>8, <1>9

LEMMA InspectWorks ==
  ASSUME Typed, NEW job \in ActiveJob, Fit(job), SegmentsKept, UNCHANGED streaming, Inspect(job)
  PROVE  /\ active' # None /\ Same(job, active') /\ (Tends(job) \/ Hands(job))
         /\ Makes(Loop) /\ Makes(Event) /\ Quits
<1>1. /\ job.terminal # LastFailure
      /\ job.sent => HasUserIn(segments, job.id)
      /\ ~job.sent /\ job.dispatched = "no" =>
           /\ job.terminal # None => job.interrupted
           /\ job.interrupted /\ job.terminal = None => streaming
  BY DEF Fit
<1>2. job # None /\ job.id \in Jobs
  BY NoneApart DEF ActiveJob
<1>3. CASE streaming
  <2>1. active' = job /\ calls' = [calls EXCEPT ![Loop] = None] /\ UNCHANGED <<injecting, inbox>>
    BY <1>3 DEF Inspect, LoopDone
  <2>2. calls'[Loop] = None /\ Makes(Event)
    BY <2>1, SlotFacts, OtherCall
  <2>3. Tends(job)
    BY <1>1, <1>2, <2>1 DEF Tends, SegmentsKept
  <2>4. QED BY <1>2, <2>1, <2>2, <2>3, SameJob DEF Quits, Makes
<1>4. CASE ~streaming /\ job.terminal = None /\ ~HasUserAfterMarker(job.id) /\ Dispatchable(job)
           /\ active' = Dispatched(job) /\ HandsOver(job) /\ calls' = LoopDone
  <2>1. calls' = [calls EXCEPT ![Loop] = None]
    BY <1>4 DEF LoopDone
  <2>2. calls'[Loop] = None /\ Makes(Event)
    BY <2>1, SlotFacts, OtherCall
  <2>3. Same(job, active')
    BY <1>4, SameJob
  <2>4. Hands(job)
    BY <1>1, <1>4 DEF Hands, Dispatchable, HasUserAfterMarker, HasUserIn
  <2>5. QED BY <2>2, <2>3, <2>4, NoneApart DEF Quits, Makes, Same
<1>5. CASE ~streaming /\ Report(Inspected(job)) /\ UNCHANGED <<injecting, inbox>>
  <2> DEFINE new == Inspected(job)
  <2>1. /\ Same(job, new) /\ Alike(job, new) /\ new.interrupted = job.interrupted
        /\ new.terminal # LastFailure
        /\ job.sent => new.sent
        /\ new.sent => job.sent \/ HasUserIn(segments, job.id)
        /\ ~new.sent /\ new.dispatched # "overdue" => new = job
    BY <1>1, InspectedFacts
  <2> HIDE DEF new
  <2>2. new \in ActiveJob /\ new # None
    BY <2>1, NoneApart DEF Same
  <2>3. Carried(new, active') /\ active' # None /\ Makes(Loop) /\ Makes(Event) /\ Quits
    BY <1>5, <2>1, <2>2, ReportMakes DEF new
  <2>4. Tends(job)
    BY <1>1, <1>2, <1>5, <2>1, <2>3 DEF Tends, SegmentsKept, Alike, Carried
  <2>5. QED BY <2>1, <2>3, <2>4 DEF Carried, Same
<1>6. QED BY <1>2, <1>3, <1>4, <1>5 DEF Inspect

LEMMA LoopFrame ==
  ASSUME LoopStep
  PROVE  up /\ UNCHANGED <<store, live, up, starts, prompted, streaming>>
BY DEF LoopStep, server, process

LEMMA SegmentsStay ==
  ASSUME UNCHANGED segments
  PROVE  SegmentsKept
BY DEF SegmentsKept

\* A report, or none, goes with a job that is acknowledged.
LEMMA QuitsPaired ==
  ASSUME Quits, NEW job, job.acknowledged
  PROVE  Paired(job, calls'[Loop])
BY DEF Quits, Paired

\* The extension keeps its job.
LEMMA Keeps ==
  ASSUME Typed, Fitting, active # None, active' # None, UNCHANGED segments,
         Same(active, active'), Tends(active), Paired(active', calls'[Loop])
  PROVE  Works
<1>1. active \in ActiveJob /\ Fit(active) /\ segments[active.id] # None
  BY LoopTypes DEF Fitting
<1>2. QED BY <1>1 DEF Works

LEMMA StaysAsItIs ==
  ASSUME Typed, Fitting, UNCHANGED <<active, injecting, inbox, segments, streaming>>,
         active # None => Paired(active, calls'[Loop])
  PROVE  Works \/ Idles
<1>1. CASE active = None
  BY <1>1 DEF Idles
<1>2. CASE active # None
  <2>1. active \in ActiveJob /\ active.id \in Jobs /\ Fit(active) /\ Same(active, active')
    BY <1>2, LoopTypes, SameJob DEF Fitting, ActiveJob
  <2>2. Tends(active)
    BY <2>1 DEF Tends, Fit
  <2>3. QED BY <1>2, <2>1, <2>2, Keeps
<1>3. QED BY <1>1, <1>2

\* inspectActiveWhenIdle, at the end of a step.
LEMMA InspectAttends ==
  ASSUME Typed, LoopStep, SegmentsKept, NEW job \in ActiveJob, Fit(job), job.acknowledged,
         segments'[job.id] # None, Inspect(job),
         IF active = None THEN HasUserIn(segments, job.id) => job.sent
         ELSE /\ job.id = active.id /\ (active.sent => job.sent)
              /\ job.interrupted = active.interrupted /\ job.terminal = active.terminal
  PROVE  Attends
<1>1. up /\ UNCHANGED <<store, live, up, starts, prompted, streaming>>
  BY LoopFrame
<1>2. /\ active' # None /\ Same(job, active') /\ (Tends(job) \/ Hands(job))
      /\ Makes(Loop) /\ Makes(Event) /\ Quits
  BY <1>1, InspectWorks
<1>3. Paired(active', calls'[Loop])
  BY <1>2, QuitsPaired DEF Same
<1>4. Works
  BY <1>2, <1>3 DEF Works, Quits
<1>5. QED BY <1>1, <1>2, <1>4 DEF Attends

\* Without a job there is nothing to inspect.
LEMMA NothingToInspect ==
  ASSUME Typed, LoopStep, UNCHANGED segments, active = None, Inspect(None)
  PROVE  Attends
<1>1. active' = None /\ calls' = [calls EXCEPT ![Loop] = None] /\ UNCHANGED <<injecting, inbox>>
  BY DEF Inspect, LoopDone
<1>2. calls'[Loop] = None /\ Makes(Event)
  BY <1>1, SlotFacts, OtherCall
<1>3. Makes(Loop) /\ Idles
  BY <1>1, <1>2 DEF Makes, Idles
<1>4. QED BY <1>2, <1>3, LoopFrame, SegmentsStay DEF Attends

\* While the loop is not acknowledging a job, its job is acknowledged.
LEMMA Acknowledged ==
  ASSUME Fitting, active # None, calls[Loop] = None \/ calls[Loop].op # "ack"
  PROVE  active.acknowledged
BY DEF Fitting, Paired

LEMMA InspectActiveAttends ==
  ASSUME Typed, Fitting, InspectActive
  PROVE  Attends
<1>1. LoopStep /\ calls[Loop] = None /\ Inspect(active) /\ UNCHANGED segments
  BY DEF InspectActive, LoopAt
<1>2. CASE active # None
  <2>1. active \in ActiveJob /\ Fit(active) /\ active.acknowledged /\ segments[active.id] # None
    BY <1>1, <1>2, LoopTypes, Acknowledged DEF Fitting
  <2>2. QED BY <1>1, <1>2, <2>1, SegmentsStay, InspectAttends
<1>3. QED BY <1>1, <1>2, NothingToInspect

\* A step of the loop that leaves the extension's job alone.
LEMMA CallAttends ==
  ASSUME Typed, Fitting, LoopStep, UNCHANGED <<active, injecting, inbox, segments>>,
         NEW call, calls' = [calls EXCEPT ![Loop] = call], calls'[Loop] = call => Makes(Loop),
         active # None => Paired(active, call)
  PROVE  Attends
<1>1. up /\ UNCHANGED <<store, live, up, starts, prompted, streaming>>
  BY LoopFrame
<1>2. calls'[Loop] = call /\ Makes(Event)
  BY SlotFacts, OtherCall
<1>3. Works \/ Idles
  BY <1>1, <1>2, StaysAsItIs
<1>4. QED BY <1>1, <1>2, <1>3, SegmentsStay DEF Attends

LEMMA SendPollAttends ==
  ASSUME Typed, Fitting, SendPoll
  PROVE  Attends
<1>1. LoopStep /\ calls[Loop] = None /\ UNCHANGED <<active, injecting, inbox, segments>>
  BY DEF SendPoll, LoopAt
<1>2. PICK data : calls' = Sending(Loop, "poll", IF active = None THEN NoJob ELSE active, data)
  BY DEF SendPoll
<1> DEFINE job  == IF active = None THEN NoJob ELSE active
           call == Call("poll", job, data)
<1>3. calls' = [calls EXCEPT ![Loop] = call]
  BY <1>2 DEF Sending
<1>4. /\ call.op = "poll" /\ call.id = job.id /\ call.phase = "sent" /\ call.start = starts
  BY SentCall
<1>5. calls'[Loop] = call => Makes(Loop)
  BY <1>4 DEF Makes
<1>6. active # None => Paired(active, call)
  BY <1>1, <1>4, Acknowledged DEF Paired
<1> HIDE DEF call
<1>7. QED BY <1>1, <1>3, <1>5, <1>6, CallAttends

\* The loop calls to acknowledge a control, or not at all.
LEMMA OtherCallAttends ==
  ASSUME Typed, Fitting, LoopStep, calls[Loop] = None \/ calls[Loop].op # "ack",
         UNCHANGED <<active, injecting, inbox, segments>>, NEW data,
         calls' = [calls EXCEPT ![Loop] = None] \/ calls' = Sending(Loop, "controlAck", NoJob, data)
  PROVE  Attends
<1>1. active # None => active.acknowledged
  BY Acknowledged
<1>2. CASE calls' = [calls EXCEPT ![Loop] = None]
  <2>1. calls'[Loop] = None => Makes(Loop)
    BY DEF Makes
  <2>2. active # None => Paired(active, None)
    BY <1>1 DEF Paired
  <2>3. QED BY <1>2, <2>1, <2>2, CallAttends
<1>3. CASE calls' = Sending(Loop, "controlAck", NoJob, data)
  <2> DEFINE call == Call("controlAck", NoJob, data)
  <2>1. calls' = [calls EXCEPT ![Loop] = call]
    BY <1>3 DEF Sending
  <2>2. call.op = "controlAck" /\ call.phase = "sent" /\ call.start = starts
    BY SentCall
  <2>3. calls'[Loop] = call => Makes(Loop)
    BY <2>2 DEF Makes
  <2>4. active # None => Paired(active, call)
    BY <1>1, <2>2 DEF Paired
  <2> HIDE DEF call
  <2>5. QED BY <2>1, <2>3, <2>4, CallAttends
<1>4. QED BY <1>2, <1>3

LEMMA PlainAttends ==
  ASSUME Typed, Fitting,
         \/ SendControlAck \/ PollGetsNothing \/ (PollGetsResume /\ active # None)
  PROVE  Attends
<1>1. /\ LoopStep /\ (calls[Loop] = None \/ calls[Loop].op # "ack")
      /\ UNCHANGED <<active, injecting, inbox, segments>>
      /\ calls' = [calls EXCEPT ![Loop] = None] \/ calls' = Sending(Loop, "controlAck", NoJob, handling)
  BY DEF SendControlAck, PollGetsNothing, PollGetsResume, LoopAt, LoopGets, LoopDone, bridge
<1>2. QED BY <1>1, OtherCallAttends

LEMMA ControlAckAnsweredAttends ==
  ASSUME Typed, Fitting, ControlAckAnswered
  PROVE  Attends
<1>1. LoopStep /\ calls[Loop].op = "controlAck" /\ Report(active) /\ UNCHANGED <<injecting, inbox, segments>>
  BY DEF ControlAckAnswered, LoopGets
<1>2. up /\ UNCHANGED <<store, live, up, starts, prompted, streaming>>
  BY <1>1, LoopFrame
<1>4. CASE active = None
  <2>1. calls' = [calls EXCEPT ![Loop] = None]
    BY <1>1, <1>4 DEF Report, CanPost, LoopDone
  <2>2. UNCHANGED active
    BY <1>1, <1>4 DEF Report, PostedFrom, CanPost
  <2>3. QED BY <1>1, <2>1, <2>2, OtherCallAttends
<1>5. CASE active # None
  <2>1. active \in ActiveJob /\ active.terminal # LastFailure /\ active.acknowledged
    BY <1>1, <1>5, LoopTypes, Acknowledged DEF Fitting, Fit
  <2>2. Carried(active, active') /\ active' # None /\ Makes(Loop) /\ Makes(Event) /\ Quits
    BY <1>1, <2>1, ReportMakes
  <2>3. Tends(active)
    BY <1>1, <1>2, <1>5, <2>1, <2>2 DEF Tends, Fitting, Fit, Carried, Alike
  <2>4. Works
    BY <1>1, <1>5, <2>1, <2>2, <2>3, QuitsPaired, Keeps DEF Carried, Same
  <2>5. QED BY <1>1, <1>2, <2>2, <2>4, SegmentsStay DEF Attends
<1>6. QED BY <1>4, <1>5

LEMMA PollGetsControlAttends ==
  ASSUME Typed, Fitting, PollGetsControl
  PROVE  Attends
<1> DEFINE c == calls[Loop].reply
           matches   == active # None /\ c.id \in {0, active.id}
           job       == [active EXCEPT !.interrupted = TRUE]
           harvested == HarvestResult(active.id)
           answered  == matches /\ ~streaming /\ active.sent /\ harvested.status # "pending"
           next      == IF ~matches \/ streaming THEN IF matches THEN job ELSE active
                        ELSE IF answered THEN Finish(job, harvested)
                        ELSE Aborted(job)
<1>1. /\ LoopStep /\ calls[Loop].op = "poll" /\ UNCHANGED <<injecting, inbox, segments>>
      /\ \/ answered /\ Report(next)
         \/ active' = next /\ calls' = Sending(Loop, "controlAck", NoJob, c.n)
  BY DEF PollGetsControl, LoopGets
<1>2. up /\ UNCHANGED <<store, live, up, starts, prompted, streaming>>
  BY <1>1, LoopFrame
<1>3. CASE active = None
  <2>1. ~answered /\ next = None
    BY <1>3
  <2> HIDE DEF answered, next
  <2>2. UNCHANGED <<active, injecting, inbox, segments>> /\ calls' = Sending(Loop, "controlAck", NoJob, c.n)
    BY <1>1, <1>3, <2>1
  <2>3. QED BY <1>1, <2>2, OtherCallAttends
<1>4. CASE active # None
  <2>1. active \in ActiveJob /\ active.id \in Jobs /\ harvested \in Harvests /\ Fit(active) /\ active.acknowledged
    BY <1>1, <1>4, LoopTypes, SegmentsTypes, Acknowledged DEF Fitting, ActiveJob
  <2>2. /\ Same(active, job) /\ job \in ActiveJob /\ Alike(active, job) /\ job.sent = active.sent
        /\ job.interrupted /\ job.terminal = active.terminal
    <3>1. Same(active, job)
      BY <2>1, SameJob
    <3>2. /\ job.interrupted = TRUE /\ job.terminal = active.terminal /\ job.sent = active.sent
          /\ job.observed = active.observed /\ job.dispatched = active.dispatched
      BY <2>1 DEF ActiveJob
    <3> HIDE DEF job
    <3>3. QED BY <3>1, <3>2 DEF Same, Alike
  <2>3. Aborted(job).terminal # None /\ Decides(job, Aborted(job))
    <3>1. ResultOf(Nothing, TRUE) \in Outcomes /\ ResultOf(Nothing, TRUE) # LastFailure
      BY DEF ResultOf, Outcomes, LastFailure, FailOf
    <3>2. job \in ActiveJob /\ Same(job, Aborted(job))
      BY <2>2, SameJob
    <3> HIDE DEF job
    <3>3. QED BY <3>1, <3>2, NoneApart DEF Decides, Alike, ActiveJob, Aborted
  <2>4. Decides(job, Finish(job, harvested)) /\ Finish(job, harvested).terminal # None
    BY <2>1, <2>2, DecidedJob
  <2>5. \/ next = job /\ streaming
        \/ next = active
        \/ next \in {Finish(job, harvested), Aborted(job)}
    OBVIOUS
  <2> HIDE DEF job, harvested, next, answered, matches
  <2>6. /\ Same(active, next)
        /\ Alike(active, next) /\ next.sent = active.sent
        /\ active.terminal # LastFailure => next.terminal # LastFailure
        /\ next = active \/ (next.interrupted /\ (next.terminal # None \/ streaming))
    <3>1. CASE next = active
      BY <2>1, <3>1, SameJob DEF Alike
    <3>2. CASE next = job /\ streaming
      BY <2>2, <3>2
    <3>3. CASE next \in {Finish(job, harvested), Aborted(job)}
      BY <2>2, <2>3, <2>4, <3>3 DEF Decides, Same, Alike
    <3>4. QED BY <2>5, <3>1, <3>2, <3>3
  <2>7. next \in ActiveJob /\ next # None /\ next.terminal # LastFailure
    BY <2>1, <2>6, NoneApart DEF Same, Fit
  <2>8. Carried(next, active') /\ active' # None
    BY <1>1, <2>7, CarriedJob, ReportMakes
  <2>12. Same(active, active')
    BY <2>6, <2>8 DEF Carried, Same
  <2>9. Tends(active)
    BY <1>1, <1>2, <2>1, <2>6, <2>7, <2>8 DEF Tends, Alike, Fit, Carried
  <2>10. CASE Report(next)
    <3>1. Makes(Loop) /\ Makes(Event) /\ Quits
      BY <2>7, <2>10, ReportMakes
    <3>2. Works
      BY <1>1, <1>4, <2>1, <2>8, <2>9, <2>12, <3>1, QuitsPaired, Keeps DEF Same
    <3>3. QED BY <1>1, <1>2, <3>1, <3>2, SegmentsStay DEF Attends
  <2>11. CASE calls' = Sending(Loop, "controlAck", NoJob, c.n)
    <3>1. calls'[Loop] = Call("controlAck", NoJob, c.n) /\ Makes(Event)
      BY <2>11, SlotFacts, OtherCall DEF Sending
    <3>2. /\ calls'[Loop].op = "controlAck" /\ calls'[Loop].phase = "sent" /\ calls'[Loop].start = starts
      BY <3>1, SentCall
    <3>3. Makes(Loop)
      BY <3>2 DEF Makes
    <3>4. Paired(active', calls'[Loop])
      BY <2>1, <2>12, <3>2 DEF Paired, Same
    <3>5. Works
      BY <1>1, <1>4, <2>8, <2>9, <2>12, <3>4, Keeps
    <3>6. QED BY <1>1, <1>2, <3>1, <3>3, <3>5, SegmentsStay DEF Attends
  <2>13. QED BY <1>1, <2>10, <2>11
<1>5. QED BY <1>3, <1>4

\* A job that is taken up.
LEMMA TakenFits ==
  ASSUME Typed, Offered, Dropped, up, active = None,
         LoopGets("poll"), NEW kind \in {"job", "resume"}, calls[Loop].reply.kind = kind
  PROVE  LET reply == calls[Loop].reply
             job   == NewActive(reply, kind = "resume")
         IN  /\ job \in ActiveJob /\ job.id = reply.id /\ job.lease = reply.lease
             /\ job.acknowledged = (kind = "resume") /\ job.dispatched = "no"
             /\ job.sent = HasUserIn(segments, job.id) /\ ~job.interrupted /\ job.terminal = None
             /\ Fit(job) /\ reply.id \in Jobs
<1> DEFINE reply == calls[Loop].reply
           job   == NewActive(reply, kind = "resume")
<1>1. Answered(Loop) /\ reply.id \in Jobs /\ reply.lease \in Leases
  BY AnsweredJob DEF LoopGets
<1>2. /\ job \in ActiveJob /\ job.id = reply.id /\ job.lease = reply.lease
      /\ job.acknowledged = (kind = "resume")
  BY <1>1, TakenJob
<1>3. /\ job.dispatched = "no" /\ job.sent = HasUserIn(segments, job.id)
      /\ job.interrupted = FALSE /\ job.terminal = None
  BY DEF NewActive, HasUserAfterMarker, HasUserIn
<1>4. None # LastFailure
  <2>1. LastFailure \in Outcomes
    BY DEF LastFailure, FailOf, Outcomes, Codes
  <2>2. QED BY <2>1, NoneApart
<1>9. Flagged(job)
  BY DEF NewActive, Flagged
<1> HIDE DEF job
<1>5. job.acknowledged /\ job.id \in Runs => jobs[job.id].leaseId = job.lease
  BY <1>1, <1>2 DEF Offered, reply
<1>6. faults <= 1 /\ Known(job.id) => job.sent /\ ~Pending(job.id)
  <2>1. kind = "job" => ~Known(job.id)
    BY <1>1, <1>2 DEF Offered, reply
  <2>2. kind = "resume" => Resumed(job.id) /\ ~Has(job.id)
    BY <1>1, <1>2 DEF Resumed, Has, reply
  <2>3. QED BY <1>1, <1>2, <1>3, <2>1, <2>2 DEF Dropped, reply
<1>7. Fit(job)
  BY <1>3, <1>4, <1>5, <1>6, <1>9 DEF Fit
<1>8. QED BY <1>1, <1>2, <1>3, <1>7 DEF job

LEMMA PollGetsJobAttends ==
  ASSUME Typed, Offered, Dropped, PollGetsJob
  PROVE  Attends
<1> DEFINE reply == calls[Loop].reply
           job   == NewActive(reply, FALSE)
           call  == Call("ack", reply, None)
<1>1. /\ LoopStep /\ LoopGets("poll") /\ reply.kind = "job" /\ active = None
      /\ segments' = MarkUnlessSent(reply.id) /\ active' = job /\ calls' = [calls EXCEPT ![Loop] = call]
      /\ UNCHANGED <<injecting, inbox>>
  BY DEF PollGetsJob, Sending, LoopGets
<1>2. up /\ UNCHANGED <<store, live, up, starts, prompted, streaming>>
  BY <1>1, LoopFrame
<1>3. /\ job \in ActiveJob /\ job.id = reply.id /\ job.lease = reply.lease
      /\ ~job.acknowledged /\ job.dispatched = "no"
      /\ job.sent = HasUserIn(segments, job.id) /\ ~job.interrupted /\ job.terminal = None
      /\ Fit(job) /\ reply.id \in Jobs
  BY <1>1, <1>2, TakenFits
<1>4. /\ call.op = "ack" /\ call.id = reply.id /\ call.lease = reply.lease
      /\ call.phase = "sent" /\ call.start = starts
  BY SentCall
<1>5. call # None
  <2>1. reply.id \in Nat /\ reply.lease \in Nat /\ starts \in Nat
    BY <1>1, AnsweredJob DEF LoopGets, Typed, SessionTyped, Jobs, Leases
  <2>2. call \in [op : {"poll", "ack"}, id : Nat, lease : Nat, data : BOOLEAN \cup {None}, start : Nat,
                  phase : {"sent", "waiting", "answered"},
                  reply : {None} \cup [kind : {"job"}, id : Nat, lease : Nat]]
    BY <2>1 DEF Call
  <2>3. QED BY <2>2, NoneAssumption
<1>6. segments'[job.id] # None /\ SegmentsKept
  BY <1>1, <1>3, MarkingGrows DEF SegmentsKept
<1> HIDE DEF call, job
<1>7. calls'[Loop] = call /\ Makes(Event)
  BY <1>1, SlotFacts, OtherCall
<1>8. Makes(Loop)
  <2>1. Answered(Loop) /\ ~Known(reply.id)
    BY <1>1, AnsweredJob DEF LoopGets, Offered
  <2>2. QED BY <1>1, <1>4, <1>7, <2>1 DEF Makes
<1>9. Works
  <2>1. Same(job, active') /\ active' # None
    BY <1>1, <1>3, NoneApart, SameJob
  <2>2. Paired(active', calls'[Loop])
    BY <1>1, <1>3, <1>4, <1>5, <1>7 DEF Paired
  <2>3. Tends(job)
    BY <1>1, <1>2, <1>3, <1>6 DEF Tends, Fit, SegmentsKept
  <2>4. QED BY <1>1, <1>3, <1>4, <1>6, <1>7, <2>1, <2>2, <2>3 DEF Works
<1>10. QED BY <1>2, <1>6, <1>7, <1>8, <1>9 DEF Attends

LEMMA PollGetsResumeAttends ==
  ASSUME Typed, Fitting, Offered, Dropped, PollGetsResume
  PROVE  Attends
<1> DEFINE reply == calls[Loop].reply
           job   == NewActive(reply, TRUE)
<1>1. CASE active = None
  <2>1. /\ LoopStep /\ LoopGets("poll") /\ reply.kind = "resume"
        /\ segments' = MarkUnlessSent(reply.id) /\ Inspect(job)
    BY <1>1 DEF PollGetsResume, LoopGets
  <2>2. up
    BY <2>1, LoopFrame
  <2>3. /\ job \in ActiveJob /\ job.id = reply.id /\ job.acknowledged
        /\ job.sent = HasUserIn(segments, job.id) /\ Fit(job) /\ reply.id \in Jobs
    BY <1>1, <2>1, <2>2, TakenFits
  <2> HIDE DEF job
  <2>4. segments'[job.id] # None /\ SegmentsKept
    BY <2>1, <2>3, MarkingGrows DEF SegmentsKept
  <2>5. QED BY <1>1, <2>1, <2>3, <2>4, InspectAttends
<1>2. QED BY <1>1, PlainAttends

LEMMA AckAnsweredAttends ==
  ASSUME Typed, Fitting, Offered, AckAnswered
  PROVE  Attends
<1> DEFINE c == calls[Loop]
<1>1. LoopStep /\ LoopGets("ack") /\ UNCHANGED segments
  BY DEF AckAnswered, LoopGets
<1>2. /\ c # None /\ c.op = "ack" /\ c.phase = "answered" /\ ~Known(c.id)
      /\ c.reply = Ok /\ c.id \in Runs => jobs[c.id].leaseId = c.lease
  BY <1>1 DEF LoopGets, InPhase, Offered
<1>3. active # None => /\ active \in ActiveJob /\ Fit(active) /\ segments[active.id] # None
                       /\ active.id = c.id /\ active.lease = c.lease
  BY <1>2, LoopTypes DEF Fitting, Paired
<1>4. CASE c.reply = Ok /\ active = None
  BY <1>1, <1>4, NothingToInspect DEF AckAnswered
<1>5. CASE c.reply = Ok /\ active # None
  <2> DEFINE job == [active EXCEPT !.acknowledged = TRUE]
  <2>1. /\ job \in ActiveJob /\ job.id = active.id /\ job.lease = active.lease /\ job.acknowledged
        /\ job.dispatched = active.dispatched /\ job.observed = active.observed /\ job.sent = active.sent
        /\ job.interrupted = active.interrupted /\ job.terminal = active.terminal
        /\ Flagged(active) => Flagged(job)
    BY <1>3, <1>5 DEF ActiveJob, Flagged
  <2>2. Inspect(job)
    BY <1>5 DEF AckAnswered
  <2> HIDE DEF job
  <2>3. Fit(job)
    BY <1>2, <1>3, <1>5, <2>1 DEF Fit
  <2>4. QED BY <1>1, <1>3, <1>5, <2>1, <2>2, <2>3, SegmentsStay, InspectAttends
<1>6. CASE c.reply # Ok
  <2>1. active' = None /\ calls' = [calls EXCEPT ![Loop] = None] /\ UNCHANGED inbox
    BY <1>6 DEF AckAnswered, Cleared, LoopDone
  <2>2. calls'[Loop] = None /\ Makes(Event)
    BY <2>1, SlotFacts, OtherCall
  <2>3. Clears \/ Idles
    BY <1>2, <1>3, <2>1 DEF Clears, Idles
  <2>4. QED BY <1>1, <2>2, <2>3, LoopFrame, SegmentsStay DEF Attends, Makes
<1>7. QED BY <1>4, <1>5, <1>6

LEMMA DispatchOverdueAttends ==
  ASSUME Typed, Fitting, DispatchOverdue
  PROVE  Attends
<1>1. /\ up /\ active # None /\ active.dispatched = "yes" /\ active' = [active EXCEPT !.dispatched = "overdue"]
      /\ UNCHANGED <<store, live, up, starts, prompted, streaming, calls, segments, injecting, inbox>>
  BY DEF DispatchOverdue, server, network, process, agent
<1>2. active \in ActiveJob /\ Fit(active) /\ Paired(active, calls[Loop])
  BY <1>1, LoopTypes DEF Fitting
<1>3. Same(active, active') /\ active' # None
  BY <1>1, <1>2, SameJob, NoneApart DEF Same
<1>4. /\ active'.dispatched = "overdue" /\ active'.observed = active.observed /\ active'.sent = active.sent
      /\ active'.terminal = active.terminal /\ active'.acknowledged = active.acknowledged
  BY <1>1, <1>2 DEF ActiveJob
<1>5. Tends(active)
  BY <1>1, <1>2, <1>4 DEF Tends, Fit
<1>6. Paired(active', calls'[Loop])
  BY <1>1, <1>2, <1>3, <1>4 DEF Paired, Same
<1>7. Works
  BY <1>1, <1>3, <1>5, <1>6, Keeps
<1>8. QED BY <1>1, <1>7, SegmentsStay DEF Attends, Makes

\* The extension keeps its job, and the loop its call or nothing.
LEMMA KeepsCall ==
  ASSUME Typed, Fitting, active # None, active' # None, Same(active, active'),
         active'.dispatched = active.dispatched, active.sent => active'.sent,
         active'.interrupted \/ active'.terminal # None =>
           active'.sent \/ active.interrupted \/ active.terminal # None,
         \/ calls'[Loop] = calls[Loop]
         \/ calls[Loop] # None /\ calls[Loop].op # "ack" /\ Quits
  PROVE  Paired(active', calls'[Loop])
<1>1. Paired(active, calls[Loop]) /\ active'.acknowledged = active.acknowledged
      /\ active'.id = active.id /\ active'.lease = active.lease
  BY DEF Fitting, Same
<1>2. CASE calls'[Loop] = calls[Loop]
  BY <1>1, <1>2 DEF Paired
<1>3. CASE calls[Loop] # None /\ calls[Loop].op # "ack" /\ Quits
  <2>1. active'.acknowledged
    BY <1>1, <1>3 DEF Paired
  <2>2. QED BY <1>3, <2>1, QuitsPaired
<1>4. QED BY <1>2, <1>3

\* The rest of postTerminal.
LEMMA TerminalAnsweredAttends ==
  ASSUME Typed, Fitting, Reported, LastTry, NEW slot \in {Loop, Event}, TerminalAnswered(slot)
  PROVE  Attends
<1> DEFINE c == calls[slot]
           again == [active EXCEPT !.attempts = active.attempts + 1]
<1>1. /\ up /\ c # None /\ c.phase = "answered" /\ c.op \in {"result", "fail"} /\ Reports(slot)
      /\ UNCHANGED <<store, live, up, starts, prompted, streaming, segments, inbox>>
  BY DEF TerminalAnswered, InPhase, Reports, server, process, agent
<1>2. c.reply \in {Ok, Conflict, TooLarge, Failure}
  BY <1>1, SlotFacts DEF Typed, CallsTyped, CallFits
<1>3. SegmentsKept
  BY <1>1, SegmentsStay
<1>4. active # None => active \in ActiveJob /\ Fit(active) /\ active.id \in Jobs
  BY LoopTypes DEF Fitting, ActiveJob
<1>5. ASSUME calls' = [calls EXCEPT ![slot] = None]
      PROVE  /\ Makes(Loop) /\ Makes(Event)
             /\ \/ calls'[Loop] = calls[Loop]
                \/ calls[Loop] # None /\ calls[Loop].op # "ack" /\ Quits
  <2>1. calls'[slot] = None /\ \A s \in {Loop, Event} : s # slot => calls'[s] = calls[s] /\ Makes(s)
    BY <1>5, OtherCall
  <2>2. Makes(slot)
    BY <2>1 DEF Makes
  <2>3. QED BY <1>1, <2>1, <2>2 DEF Quits
<1>6. CASE c.reply \in {Ok, Conflict} \/ LastAttempt(slot)
  <2>1. calls' = [calls EXCEPT ![slot] = None]
    BY <1>6 DEF TerminalAnswered
  <2>2. CASE active # None /\ active.id = c.id
    <3>1. active' = None
      BY <1>6, <2>2 DEF TerminalAnswered, Cleared
    <3>2. ASSUME faults <= 1, Known(active.id) PROVE active.id \notin Runs
      <4>1. Told(slot)
        BY <1>1, <1>2, <1>6, <3>2 DEF LastTry, Told
      <4>2. QED BY <1>1, <2>2, <3>2, <4>1 DEF Reported
    <3>3. Clears
      BY <1>1, <2>2, <3>1, <3>2 DEF Clears
    <3>4. QED BY <1>1, <1>3, <1>5, <2>1, <3>3 DEF Attends
  <2>3. CASE ~(active # None /\ active.id = c.id)
    <3>1. UNCHANGED <<active, injecting>>
      BY <1>6, <2>3 DEF TerminalAnswered
    <3>2. active # None => Paired(active', calls'[Loop])
      BY <1>4, <1>5, <2>1, <3>1, KeepsCall, SameJob
    <3>3. Works \/ Idles
      BY <1>1, <3>1, <3>2, StaysAsItIs
    <3>4. QED BY <1>1, <1>3, <1>5, <2>1, <3>3 DEF Attends
  <2>4. QED BY <2>2, <2>3
<1>7. ASSUME ~(c.reply \in {Ok, Conflict} \/ LastAttempt(slot)), NEW job, calls' = LastResort(slot, job),
             job = c \/ (active' # None /\ job.id = active'.id /\ job.lease = active'.lease
                        /\ active'.terminal # None)
      PROVE  /\ Makes(Loop) /\ Makes(Event)
             /\ \/ calls'[Loop] = calls[Loop]
                \/ calls[Loop] # None /\ calls[Loop].op # "ack" /\ Quits
  <2>1. /\ calls'[slot] = Call("fail", job, LastFailure)
        /\ \A s \in {Loop, Event} : s # slot => calls'[s] = calls[s] /\ Makes(s)
    BY <1>7, OtherCall DEF LastResort, Sending, LastFailure
  <2>2. /\ calls'[slot].op = "fail" /\ calls'[slot].id = job.id /\ calls'[slot].lease = job.lease
        /\ calls'[slot].data = LastFailure /\ calls'[slot].phase = "sent" /\ calls'[slot].start = starts
    BY <2>1, SentCall
  <2>3. faults >= 1
    BY <1>1, <1>2, <1>7 DEF LastTry
  <2>4. job = c => Repeats(slot)
    BY <1>1, <1>7, <2>2 DEF Repeats, Told
  <2>5. Makes(slot)
    BY <1>7, <2>2, <2>3, <2>4 DEF Makes
  <2>6. QED BY <1>1, <2>1, <2>2, <2>5 DEF Quits
<1>8. CASE ~(c.reply \in {Ok, Conflict} \/ LastAttempt(slot)) /\ ~PostsFor(slot)
  <2>1. /\ calls' \in {[calls EXCEPT ![slot] = None], LastResort(slot, c)}
        /\ UNCHANGED <<active, injecting>>
    BY <1>8 DEF TerminalAnswered
  <2>2. /\ Makes(Loop) /\ Makes(Event)
        /\ \/ calls'[Loop] = calls[Loop]
           \/ calls[Loop] # None /\ calls[Loop].op # "ack" /\ Quits
    BY <1>5, <1>7, <1>8, <2>1
  <2>3. active # None => Paired(active', calls'[Loop])
    BY <1>4, <2>1, <2>2, KeepsCall, SameJob
  <2>4. Works \/ Idles
    BY <1>1, <2>1, <2>3, StaysAsItIs
  <2>5. QED BY <1>1, <1>3, <2>2, <2>4 DEF Attends
<1>9. CASE ~(c.reply \in {Ok, Conflict} \/ LastAttempt(slot)) /\ PostsFor(slot)
  <2>1. active # None /\ active.terminal # None
    BY <1>4, <1>9 DEF PostsFor, Loop, Event, Fit, Flagged
  <2>2. CASE /\ active' = [FailWith(active, "result-too-large") EXCEPT !.posting = "no"]
             /\ calls' = [calls EXCEPT ![slot] = None] /\ UNCHANGED injecting
    <3> DEFINE failed == FailWith(active, "result-too-large")
    <3>1. "result-too-large" \in Codes
      BY DEF Codes
    <3>2. Decides(active, failed) /\ failed.terminal # None /\ failed \in ActiveJob
      BY <1>4, <2>1, <3>1, DecidedJob DEF Decides, Same
    <3>3. Same(active, active') /\ active' # None
      BY <1>4, <2>1, <2>2, SameJob, NoneApart DEF Same
    <3> HIDE DEF failed
    <3>4. /\ active'.sent = failed.sent /\ active'.interrupted = failed.interrupted
          /\ active'.terminal = failed.terminal /\ active'.dispatched = failed.dispatched
          /\ active'.observed = failed.observed
      BY <2>2, <3>2 DEF failed, ActiveJob
    <3>5. Tends(active)
      BY <1>1, <1>4, <2>1, <2>2, <3>2, <3>4 DEF Tends, Fit, Decides, Alike
    <3>6. Paired(active', calls'[Loop])
      BY <1>5, <2>1, <2>2, <3>2, <3>3, <3>4, KeepsCall DEF Decides, Alike
    <3>7. Works
      BY <1>1, <2>1, <3>3, <3>5, <3>6, Keeps
    <3>8. QED BY <1>1, <1>3, <1>5, <2>2, <3>7 DEF Attends
  <2>3. CASE /\ active' \in {again, [active EXCEPT !.attempts = active.attempts + 1, !.posting = "no"]}
             /\ UNCHANGED injecting
             /\ calls' \in {LastResort(slot, active), [calls EXCEPT ![slot] = None]}
    <3>1. active.attempts + 1 \in Nat
      BY <1>4, <2>1 DEF ActiveJob
    <3>2. Carried(active, active')
      <4> DEFINE n == active.attempts + 1
      <4>1. n \in Nat /\ active' \in {[active EXCEPT !.attempts = n], [active EXCEPT !.attempts = n, !.posting = "no"]}
        BY <2>3, <3>1
      <4> HIDE DEF n
      <4>2. QED BY <1>4, <2>1, <4>1, CarriedJob
    <3>3. Same(active, active') /\ active' # None
      BY <3>2, NoneApart DEF Carried, Same
    <3>4. /\ Makes(Loop) /\ Makes(Event)
          /\ \/ calls'[Loop] = calls[Loop]
             \/ calls[Loop] # None /\ calls[Loop].op # "ack" /\ Quits
      BY <1>5, <1>7, <1>9, <2>1, <2>3, <3>2, <3>3 DEF Carried, Same
    <3>5. Tends(active)
      BY <1>1, <1>4, <2>1, <2>3, <3>2 DEF Tends, Fit, Carried, Alike
    <3>6. Paired(active', calls'[Loop])
      BY <2>1, <3>2, <3>3, <3>4, KeepsCall DEF Carried, Alike
    <3>7. Works
      BY <1>1, <2>1, <3>3, <3>5, <3>6, Keeps
    <3>8. QED BY <1>1, <1>3, <3>4, <3>7 DEF Attends
  <2>4. QED BY <1>9, <2>2, <2>3 DEF TerminalAnswered
<1>10. QED BY <1>6, <1>8, <1>9

\* The agent_settled handler.
LEMMA AgentSettledAttends ==
  ASSUME Typed, Fitting, AgentSettled
  PROVE  Attends
<1>1. PICK segs \in AnsweredAtLast :
       LET sent      == active.sent \/ H!SegmentHasUser(segs[active.id])
           job       == [active EXCEPT !.sent = sent]
           harvested == H!SegmentResult(segs[active.id])
           next      == IF sent /\ harvested.status = "pending" /\ ~job.interrupted
                          THEN FailWith(job, "missing-assistant-result")
                          ELSE Finish(job, harvested)
       IN  /\ segments' = segs
           /\ IF active = None THEN UNCHANGED <<active, calls, injecting, inbox>>
              ELSE IF Decidable(job)
                THEN EventReports(next) /\ UNCHANGED <<injecting, inbox>>
              ELSE \/ /\ Dispatchable(job)
                      /\ active' = Dispatched(job) /\ HandsOver(job)
                      /\ UNCHANGED calls
                   \/ /\ Dispatchable(job) => TRUE \in PendingMessages
                      /\ UNCHANGED <<active, calls, injecting, inbox>>
  BY DEF AgentSettled, EventReports
<1> DEFINE sent      == active.sent \/ H!SegmentHasUser(segs[active.id])
           job       == [active EXCEPT !.sent = sent]
           harvested == H!SegmentResult(segs[active.id])
           next      == IF sent /\ harvested.status = "pending" /\ ~job.interrupted
                          THEN FailWith(job, "missing-assistant-result")
                          ELSE Finish(job, harvested)
<1>2. /\ up /\ streaming' = FALSE /\ UNCHANGED <<store, live, up, starts, prompted>>
      /\ segments' = segs /\ segs \in [Jobs -> Segment \cup {None}]
  BY <1>1, SegmentsTypes DEF AgentSettled, PiStep, server, process
<1>3. /\ \A i \in Jobs : segments[i] # None => segments'[i] # None
      /\ \A i \in Jobs : HasUserIn(segments, i) => HasUserIn(segs, i)
  BY <1>2, SessionGrows
<1>4. SegmentsKept
  BY <1>2, <1>3 DEF SegmentsKept
<1>5. CASE active = None
  <2>1. Idles /\ UNCHANGED calls
    BY <1>1, <1>5 DEF Idles
  <2>2. QED BY <1>2, <1>4, <2>1 DEF Attends, Makes
<1>6. CASE active # None
  <2>1. /\ active \in ActiveJob /\ active.id \in Jobs /\ Fit(active) /\ Paired(active, calls[Loop])
        /\ segments'[active.id] # None
    BY <1>3, <1>6, LoopTypes DEF Fitting, ActiveJob
  <2>2. sent \in BOOLEAN /\ harvested \in Harvests /\ (sent <=> active.sent \/ HasUserIn(segs, active.id))
    BY <1>2, <2>1, SegmentTypes DEF ActiveJob, HasUserIn
  <2>3. sent => HasUserIn(segs, active.id)
    BY <1>3, <2>1, <2>2 DEF Fit
  <2>4. \/ /\ sent \/ job.interrupted
           /\ EventReports(next) /\ UNCHANGED <<injecting, inbox>>
        \/ /\ ~sent /\ ~job.interrupted /\ Dispatchable(job)
           /\ active' = Dispatched(job) /\ HandsOver(job)
           /\ UNCHANGED calls
        \/ ~sent /\ ~job.interrupted /\ UNCHANGED <<active, calls, injecting, inbox>>
    <3>1. job.sent = sent
      BY <2>1
    <3> HIDE DEF sent, harvested
    <3>2. Decidable(job) <=> sent \/ job.interrupted
      BY <3>1 DEF Decidable
    <3> HIDE DEF job, next
    <3>3. QED BY <1>1, <1>6, <3>2 DEF sent, harvested, job, next
  <2> HIDE DEF sent, harvested
  <2>5. Same(active, job)
    BY <2>1, <2>2, SameJob
  <2>6. /\ job.sent = sent /\ Alike(active, job)
        /\ job.interrupted = active.interrupted /\ job.terminal = active.terminal
    BY <2>1, <2>2 DEF ActiveJob, Alike
  <2>7. ~sent => job = active
    BY <2>1, <2>2 DEF ActiveJob
  <2> HIDE DEF job
  <2>8. CASE /\ sent \/ job.interrupted
             /\ EventReports(next) /\ UNCHANGED <<injecting, inbox>>
    <3>1. job \in ActiveJob /\ "missing-assistant-result" \in Codes
      BY <2>5 DEF Same, Codes
    <3>2. Decides(job, next) /\ (job.interrupted => next.terminal # None)
      BY <2>2, <3>1, DecidedJob
    <3> HIDE DEF next
    <3>3. /\ Same(active, next) /\ Alike(active, next) /\ next.sent = sent /\ next.interrupted = active.interrupted
          /\ next.terminal # LastFailure /\ next \in ActiveJob /\ next # None
      BY <2>1, <2>5, <2>6, <3>2, NoneApart DEF Decides, Same, Alike, Fit
    <3>9. Carried(next, active') /\ Same(active, active') /\ active' # None
      <4>1. Carried(next, active')
        BY <2>8, <3>3, CarriedJob DEF EventReports
      <4>2. QED BY <3>3, <4>1, NoneApart DEF Carried, Same
    <3>4. Tends(active)
      BY <1>2, <2>1, <2>2, <2>3, <2>6, <2>8, <3>2, <3>3, <3>9 DEF Tends, Alike, Carried
    <3>5. calls'[Loop] = calls[Loop] /\ Makes(Loop) /\ Makes(Event)
      <4>1. CASE UNCHANGED calls
        BY <4>1 DEF Makes
      <4>2. CASE CanPost(next) /\ calls' = Post(Event, next)
        <5>1. next.terminal \in Outcomes /\ next.terminal # None
          BY <3>3, <4>2 DEF CanPost, ActiveJob
        <5>2. calls' = Sending(Event, next.terminal.op, next, next.terminal)
          BY <4>2 DEF Post
        <5>3. active'.id = next.id /\ active'.lease = next.lease /\ active'.terminal # None
          BY <3>9, <5>1 DEF Carried, Same
        <5>4. QED BY <3>3, <3>9, <5>1, <5>2, <5>3, PostMakes, SlotFacts
      <4>3. QED BY <2>8, <4>1, <4>2 DEF EventReports
    <3>6. active'.interrupted \/ active'.terminal # None =>
            active'.sent \/ active.interrupted \/ active.terminal # None
      BY <2>6, <2>8, <3>3, <3>9 DEF Carried
    <3>7. Paired(active', calls'[Loop])
      BY <1>6, <2>2, <2>8, <3>3, <3>5, <3>6, <3>9, KeepsCall DEF Alike, Carried
    <3>8. Works
      BY <1>6, <2>1, <2>8, <3>4, <3>7, <3>9 DEF Works
    <3>10. QED BY <1>2, <1>4, <3>5, <3>8 DEF Attends
  <2>9. CASE /\ ~sent /\ ~job.interrupted /\ Dispatchable(job)
             /\ active' = Dispatched(job) /\ HandsOver(job)
             /\ UNCHANGED calls
    <3>1. job = active
      BY <2>7, <2>9
    <3>2. Same(active, active') /\ active' # None
      BY <2>1, <2>9, <3>1, SameJob, NoneApart DEF Same
    <3>3. Hands(active)
      BY <1>3, <2>1, <2>2, <2>9, <3>1 DEF Hands, Dispatchable, Fit
    <3>4. Paired(active', calls'[Loop])
      BY <2>1, <2>9, <3>1, <3>2 DEF Paired, Dispatchable, Same
    <3>5. Works
      BY <1>6, <2>1, <3>2, <3>3, <3>4 DEF Works
    <3>6. QED BY <1>2, <1>4, <2>9, <3>5 DEF Attends, Makes
  <2>10. CASE ~sent /\ ~job.interrupted /\ UNCHANGED <<active, calls, injecting, inbox>>
    <3>1. job = active
      BY <2>7, <2>10
    <3>2. Tends(active)
      BY <1>2, <1>3, <2>1, <2>10, <3>1 DEF Tends, Fit
    <3>3. Works
      BY <1>6, <2>1, <2>10, <3>2, SameJob DEF Works
    <3>4. QED BY <1>2, <1>4, <2>10, <3>3 DEF Attends, Makes
  <2>11. QED BY <2>4, <2>8, <2>9, <2>10
<1>7. QED BY <1>5, <1>6

-----------------------------------------------------------------------------
(* The steps of the controller and of the network.                         *)

\* A job that is running was, if it had begun.
LEMMA RunsOn ==
  ASSUME Typed, StoreMoves, NEW i \in Begun, i \in Runs'
  PROVE  i \in Runs /\ jobs'[i] = jobs[i]
<1>1. i \in 1..sequence /\ jobs[i].status \notin {"queued", "leased"} /\ jobs'[i].status = "running"
  BY DEF Begun, Runs
<1>2. JobMoves(jobs[i], jobs'[i])
  BY <1>1 DEF StoreMoves
<1>3. jobs'[i] = jobs[i]
  BY <1>1, <1>2 DEF JobMoves, Store!Terminal
<1>4. QED BY <1>1, <1>3 DEF Runs

\* What an awaited call is answered.
Rules(s, reply) ==
  LET c == calls[s]
  IN  /\ c.op = "ack" /\ reply = Ok => jobs'[c.id].leaseId = c.lease
      /\ c.op = "ack" /\ reply = Conflict => jobs'[c.id].leaseId # c.lease
      /\ reply.kind = "job" => reply.id \notin Begun
      /\ reply.kind = "resume" => /\ reply.id # c.id /\ reply.id \in Runs
                                  /\ jobs'[reply.id].leaseId = reply.lease
      /\ reply.kind = "control" => control # None /\ reply = control /\ control' = control
      /\ reply.kind \in {"job", "resume"} => control = None /\ control' = None
      /\ Reports(s) /\ reply \in {Ok, Conflict} /\ c.id \in Runs' => jobs'[c.id].leaseId # c.lease
      /\ reply \in {Failure, TooLarge} => Fault

\* The call goes on, or is answered.
Advances(s) ==
  /\ calls[s] # None /\ calls'[s] # None
  /\ calls'[s].op = calls[s].op /\ calls'[s].id = calls[s].id /\ calls'[s].lease = calls[s].lease
  /\ calls'[s].data = calls[s].data /\ calls'[s].start = calls[s].start
  /\ calls'[s].phase = "answered" => Rules(s, calls'[s].reply)
Advancing == \A s \in {Loop, Event} : calls'[s] = calls[s] \/ Advances(s)
Serves ==
  /\ UNCHANGED <<active, injecting, segments, inbox, prompted, streaming, up, starts>>
  /\ up => live'
  /\ Advancing

\* One awaited call goes on as call.
GoesOn(slot, call) ==
  /\ call \in HttpCall
  /\ call.op = calls[slot].op /\ call.id = calls[slot].id /\ call.lease = calls[slot].lease
  /\ call.data = calls[slot].data /\ call.start = calls[slot].start
  /\ call.phase = "answered" /\ slot \in {Loop, Event} => Rules(slot, call.reply)

LEMMA OneAdvances ==
  ASSUME Typed, NEW slot \in Slots, calls[slot] # None, NEW call, GoesOn(slot, call),
         calls' = [calls EXCEPT ![slot] = call]
  PROVE  Advancing
<1>1. call # None
  BY CallApart DEF GoesOn
<1>2. \A s \in Slots : calls'[s] = IF s = slot THEN call ELSE calls[s]
  BY DEF Typed, CallsTyped
<1>3. ASSUME NEW s \in {Loop, Event} PROVE calls'[s] = calls[s] \/ Advances(s)
  <2>1. CASE s = slot
    <3>1. calls'[s] = call
      BY <1>2, <2>1
    <3>2. QED BY <1>1, <2>1, <3>1 DEF Advances, GoesOn
  <2>2. QED BY <1>2, <2>1, SlotFacts
<1>4. QED BY <1>3 DEF Advancing

LEMMA ReplyAdvances ==
  ASSUME Typed, NEW slot \in Slots, calls[slot] # None, NEW reply \in Reply,
         slot \in {Loop, Event} => Rules(slot, reply),
         calls' = Replied(slot, reply)
  PROVE  Advancing
<1>1. CASE slot[2] = 0
  <2> DEFINE call == [calls[slot] EXCEPT !.phase = "answered", !.reply = reply]
  <2>1. calls[slot] \in HttpCall
    BY DEF Typed, CallsTyped
  <2>2. GoesOn(slot, call)
    BY <2>1 DEF HttpCall, GoesOn
  <2>3. calls' = [calls EXCEPT ![slot] = call]
    BY <1>1 DEF Replied
  <2> HIDE DEF call
  <2>4. QED BY <2>2, <2>3, OneAdvances
<1>2. CASE slot[2] # 0
  <2>1. calls' = [calls EXCEPT ![slot] = None] /\ slot \notin {Loop, Event}
    BY <1>2 DEF Replied, Loop, Event
  <2>2. QED BY <2>1, SlotFacts DEF Typed, CallsTyped, Advancing
<1>3. QED BY <1>1, <1>2

\* The call is now waiting in its poll, or woken from it.
LEMMA PhaseAdvances ==
  ASSUME Typed, NEW slot \in Slots, calls[slot] # None, NEW phase \in {"waiting", "woken"},
         calls' = [calls EXCEPT ![slot].phase = phase]
  PROVE  Advancing
<1> DEFINE call == [calls[slot] EXCEPT !.phase = phase]
<1>1. calls[slot] \in HttpCall
  BY DEF Typed, CallsTyped
<1>2. GoesOn(slot, call)
  BY <1>1 DEF HttpCall, GoesOn
<1>3. calls' = [calls EXCEPT ![slot] = call]
  OBVIOUS
<1> HIDE DEF call
<1>4. QED BY <1>2, <1>3, OneAdvances

LEMMA WakeAdvances ==
  ASSUME Typed, WakePoll
  PROVE  Advancing
<1>1. CASE waiter = None
  BY <1>1 DEF WakePoll, Advancing
<1>2. CASE waiter # None
  <2>1. waiter \in Slots /\ calls[waiter] # None
    BY <1>2 DEF Typed, WaiterWaits, InPhase
  <2>2. calls' = [calls EXCEPT ![waiter].phase = "woken"]
    BY <1>2 DEF WakePoll
  <2>3. QED BY <2>1, <2>2, PhaseAdvances
<1>3. QED BY <1>1, <1>2

\* A handler of the controller.
LEMMA ControllerServing ==
  ASSUME Attended, ControllerStep, live' = live \/ ~up, Advancing
  PROVE  Serves
BY DEF Attended, ControllerStep, agent, bridge, process, Serves

LEMMA RefuseServes ==
  ASSUME Typed, Attended, NEW slot \in Slots, Refuse(slot)
  PROVE  Serves
<1>1. /\ calls[slot] # None /\ ~Authentic(slot) /\ calls' = Replied(slot, Failure)
      /\ ControllerStep /\ live' = live
  BY DEF Refuse, InPhase, server
<1>2. slot \notin {Loop, Event}
  BY <1>1 DEF Attended, Authentic
<1>3. Failure \in Reply
  BY DEF Reply
<1>4. QED BY <1>1, <1>2, <1>3, ReplyAdvances, ControllerServing

\* The answers that only settle what was asked.
LEMMA PlainRules ==
  ASSUME NEW slot, NEW reply \in {Ok, Conflict},
         calls[slot].op = "ack" => (reply = Ok <=> jobs'[calls[slot].id].leaseId = calls[slot].lease),
         Reports(slot) /\ calls[slot].id \in Runs' => jobs'[calls[slot].id].leaseId # calls[slot].lease
  PROVE  Rules(slot, reply) /\ reply \in Reply
BY DEF Rules, Reply, Ok, Conflict, Failure, TooLarge

LEMMA ControlAckServes ==
  ASSUME Typed, Attended, NEW slot \in Slots, ControlAck(slot)
  PROVE  Serves
<1>1. /\ calls[slot] # None /\ calls[slot].op = "controlAck" /\ calls' = Replied(slot, Ok)
      /\ ControllerStep /\ live' = live
  BY DEF ControlAck, Arrived, InPhase
<1>2. Rules(slot, Ok) /\ Ok \in Reply
  BY <1>1, PlainRules DEF Reports
<1>3. QED BY <1>1, <1>2, ReplyAdvances, ControllerServing

LEMMA AckServes ==
  ASSUME Typed, Claimed, Attended, NEW slot \in Slots, Ack(slot)
  PROVE  Serves
<1> DEFINE i == calls[slot].id
           l == calls[slot].lease
           reply == IF jobs[i].leaseId = l THEN Ok ELSE Conflict
<1>1. /\ calls[slot] # None /\ calls[slot].op = "ack" /\ calls' = Replied(slot, reply)
      /\ ControllerStep /\ live' = live
      /\ Store!Acknowledge(i, l) \/ UNCHANGED store
  BY DEF Ack, Arrived, InPhase, server
<1>2. i \in 1..sequence
  <2>1. i \in Jobs /\ Claim(i, l)
    BY <1>1 DEF Typed, CallsTyped, CallFits, Claim
  <2>2. QED BY <2>1, StoreFacts DEF Claimed, Jobs
<1> HIDE DEF i, l
<1>3. jobs'[i].leaseId = jobs[i].leaseId
  <2>1. CASE Store!Acknowledge(i, l)
    <3> DEFINE job == [jobs[i] EXCEPT !.status = "running", !.updatedAt = now]
    <3>1. jobs' = [jobs EXCEPT ![i] = job]
      BY <2>1 DEF Store!Acknowledge
    <3>2. job.leaseId = jobs[i].leaseId
      BY <1>2, StoreFacts DEF Job
    <3>3. jobs'[i] = job
      BY <1>2, <3>1 DEF Typed, StoreTyped
    <3>4. QED BY <3>2, <3>3
  <2>2. QED BY <1>1, <2>1 DEF store
<1>4. Ok # Conflict
  BY DEF Ok, Conflict
<1>5. Rules(slot, reply) /\ reply \in Reply
  BY <1>1, <1>3, <1>4, PlainRules DEF i, l, Reports
<1> HIDE DEF reply
<1>6. QED BY <1>1, <1>5, ReplyAdvances, ControllerServing

LEMMA ResultServes ==
  ASSUME Typed, Claimed, Attended, NEW slot \in Slots, Result(slot)
  PROVE  Serves
<1> DEFINE i == calls[slot].id
           l == calls[slot].lease
<1>1. /\ calls[slot] # None /\ calls[slot].op = "result" /\ ControllerStep /\ live' = live
      /\ \/ /\ Store!Complete(i, l, calls[slot].data.text, calls[slot].data.interrupted)
            /\ calls' = Replied(slot, Ok)
         \/ /\ jobs[i].status # "running" \/ jobs[i].leaseId # l
            /\ calls' = Replied(slot, Conflict) /\ UNCHANGED store
  BY DEF Result, Arrived, InPhase, server
<1>2. CASE calls' = Replied(slot, Ok) /\ Store!Complete(i, l, calls[slot].data.text, calls[slot].data.interrupted)
  <2>1. i \in 1..sequence
    BY <1>2, StoreFacts DEF Store!Complete
  <2>2. jobs'[i].status = "completed"
    <3> DEFINE settled == Store!Settled(jobs[i], "completed")
               job == [settled EXCEPT !.resultText = calls[slot].data.text,
                                      !.interrupted = calls[slot].data.interrupted]
    <3>1. jobs' = [jobs EXCEPT ![i] = job]
      BY <1>2 DEF Store!Complete, Store!AsCompleted
    <3>2. settled \in Job /\ settled.status = "completed"
      BY <2>1, StoreFacts, SettledJob DEF Store!Terminal
    <3> HIDE DEF settled
    <3>3. job.status = "completed"
      BY <3>2 DEF Job
    <3>4. jobs'[i] = job
      BY <2>1, <3>1 DEF Typed, StoreTyped
    <3>5. QED BY <3>3, <3>4
  <2>3. i \notin Runs'
    BY <2>2 DEF Runs
  <2>4. Rules(slot, Ok) /\ Ok \in Reply
    BY <1>1, <2>3, PlainRules
  <2>5. QED BY <1>1, <1>2, <2>4, ReplyAdvances, ControllerServing
<1>3. CASE /\ jobs[i].status # "running" \/ jobs[i].leaseId # l
           /\ calls' = Replied(slot, Conflict) /\ UNCHANGED store
  <2>1. i \in Runs' => jobs'[i].leaseId # l
    BY <1>3 DEF Runs, store
  <2>2. Conflict # Ok
    BY DEF Ok, Conflict
  <2>3. Rules(slot, Conflict) /\ Conflict \in Reply
    BY <1>1, <2>1, <2>2, PlainRules
  <2>4. QED BY <1>1, <1>3, <2>3, ReplyAdvances, ControllerServing
<1>4. QED BY <1>1, <1>2, <1>3

\* A job that is failed does not run.
LEMMA FailEnds ==
  ASSUME Typed, Claimed, NEW i, NEW l, NEW code \in Codes, Store!Fail(i, code, l)
  PROVE  i \notin Runs'
<1> DEFINE job == Store!AsFailed(jobs[i], code)
<1>1. i \in 1..sequence /\ jobs' = [jobs EXCEPT ![i] = job]
  BY StoreFacts DEF Store!Fail
<1>2. job.status = "failed"
  BY <1>1, StoreFacts, Failed
<1>3. jobs'[i] = job
  BY <1>1 DEF Typed, StoreTyped
<1> HIDE DEF job
<1>4. QED BY <1>2, <1>3 DEF Runs

LEMMA FailReportServes ==
  ASSUME Typed, Claimed, Attended, NEW slot \in Slots, FailReport(slot)
  PROVE  Serves
<1> DEFINE i == calls[slot].id
           l == calls[slot].lease
           code == calls[slot].data.code
           conflict == jobs[i].status \in Store!Active /\ jobs[i].leaseId # l
           reply == IF conflict THEN Conflict ELSE Ok
<1>1. /\ calls[slot] # None /\ calls[slot].op = "fail" /\ ControllerStep /\ live' = live
      /\ calls' = Replied(slot, reply)
      /\ IF conflict \/ jobs[i].status \in Store!Terminal THEN UNCHANGED store ELSE Store!Fail(i, code, l)
  BY DEF FailReport, Arrived, InPhase, server
<1>2. code \in Codes
  <2>1. calls[slot].data \in Outcomes /\ calls[slot].data.op = "fail"
    BY <1>1 DEF Typed, CallsTyped, CallFits
  <2>2. QED BY <2>1 DEF Outcomes
<1> HIDE DEF i, l, code
<1>3. i \in Runs' => jobs'[i].leaseId # l
  <2>1. CASE UNCHANGED store /\ conflict
    BY <2>1 DEF store
  <2>2. CASE UNCHANGED store /\ jobs[i].status \in Store!Terminal
    BY <2>2 DEF store, Runs, Store!Terminal
  <2>3. CASE Store!Fail(i, code, l)
    BY <1>2, <2>3, FailEnds
  <2>4. QED BY <1>1, <2>1, <2>2, <2>3
<1>4. reply \in {Ok, Conflict}
  OBVIOUS
<1> HIDE DEF reply
<1>5. Rules(slot, reply) /\ reply \in Reply
  BY <1>1, <1>3, <1>4, PlainRules DEF i, l
<1>6. QED BY <1>1, <1>5, ReplyAdvances, ControllerServing

LEMMA PollServes ==
  ASSUME Typed, Claimed, Attended, NEW slot \in Slots, Poll(slot)
  PROVE  Serves
<1>1. /\ calls[slot] # None /\ live' = live /\ control' = control
      /\ UNCHANGED <<active, injecting, segments, inbox, prompted, streaming, up, starts>>
      /\ calls[slot].phase \in {"sent", "woken"}
  BY DEF Poll, Arrived, InPhase, ControllerStep, agent, bridge, process, server
<1>2. calls[slot].op = "poll" /\ calls[slot] \in HttpCall
  BY <1>1 DEF Poll, Arrived, InPhase, Typed, CallsTyped, CallFits
<1>3. ASSUME Advancing PROVE Serves
  BY <1>1, <1>3 DEF Attended, Serves
<1>4. ASSUME NEW reply \in Reply, calls' = Replied(slot, reply),
             reply.kind = "job" => reply.id \notin Begun,
             reply.kind = "resume" => /\ reply.id # calls[slot].id /\ reply.id \in Runs
                                      /\ jobs'[reply.id].leaseId = reply.lease,
             reply.kind = "control" => control # None /\ reply = control,
             reply.kind \in {"job", "resume"} => control = None,
             reply.kind \notin {"error", "tooLarge"}
      PROVE  Serves
  <2>1. Rules(slot, reply)
    BY <1>1, <1>2, <1>4 DEF Rules, Reports, Failure, TooLarge
  <2>2. QED BY <1>1, <1>3, <1>4, <2>1, ReplyAdvances
<1>5. CASE control # None /\ calls' = Replied(slot, control)
  <2>1. control \in Control
    BY <1>5 DEF Typed, SessionTyped, ControlTyped
  <2>2. control \in Reply /\ control.kind = "control"
    BY <2>1 DEF Reply, Control
  <2>3. QED BY <1>4, <1>5, <2>2
<1>6. ASSUME NEW i \in Resumable(slot), calls' = Replied(slot, Carrying("resume", i, jobs[i].leaseId)),
             UNCHANGED store, control = None
      PROVE  Serves
  <2> DEFINE reply == Carrying("resume", i, jobs[i].leaseId)
  <2>1. i \in Runs /\ i # calls[slot].id /\ i \in 1..sequence
    BY StoreFacts DEF Resumable, Running, Runs, Store!ActiveOf
  <2>2. jobs[i].leaseId \in Leases /\ i \in Jobs
    BY <2>1, StoreFacts DEF Runs, Store!Active, Leases
  <2>3. reply \in Reply /\ reply.kind = "resume" /\ reply.id = i /\ reply.lease = jobs[i].leaseId
    BY <2>2 DEF Carrying, Reply
  <2> HIDE DEF reply
  <2>4. QED BY <1>4, <1>6, <2>1, <2>3 DEF store, reply
<1>7. CASE /\ Store!LeaseNext(Alias) /\ control = None
           /\ calls' = Replied(slot, Carrying("job", Min(Store!Queued(Alias)), leaseCount'))
  <2> DEFINE m == Min(Store!Queued(Alias))
             reply == Carrying("job", m, leaseCount')
  <2>1. m \in 1..sequence /\ leaseCount' \in Leases
    BY <1>7, Leasing
  <2>2. m \in Store!Queued(Alias)
    <3>1. Store!Queued(Alias) # {}
      BY <1>7 DEF Store!LeaseNext
    <3>2. Store!Queued(Alias) \in SUBSET Nat
      BY StoreFacts DEF Store!Queued
    <3>3. QED BY <3>1, <3>2, MinExists
  <2> HIDE DEF m
  <2>3. m \notin Begun /\ m \in Jobs
    BY <2>1, <2>2, StoreFacts DEF Store!Queued, Begun
  <2>4. reply \in Reply /\ reply.kind = "job" /\ reply.id = m
    BY <2>1, <2>3 DEF Carrying, Reply
  <2> HIDE DEF reply
  <2>5. QED BY <1>4, <1>7, <2>3, <2>4 DEF reply, m
<1>8. CASE calls' = [calls EXCEPT ![slot].phase = "waiting"]
  BY <1>1, <1>3, <1>8, PhaseAdvances
<1>9. CASE calls' = Replied(slot, Idle)
  <2>1. Idle \in Reply /\ Idle.kind = "idle"
    BY DEF Reply, Idle
  <2>2. QED BY <1>4, <1>9, <2>1
<1>10. QED BY <1>5, <1>6, <1>7, <1>8, <1>9 DEF Poll, ControlDue

LEMMA PollExpiresServes ==
  ASSUME Typed, Attended, NEW slot \in Slots, PollExpires(slot)
  PROVE  Serves
<1>1. /\ calls[slot] # None /\ ControllerStep /\ live' = live
      /\ calls' = [calls EXCEPT ![slot].phase = "woken"]
  BY DEF PollExpires, InPhase, server
<1>2. QED BY <1>1, PhaseAdvances, ControllerServing

LEMMA ControllerAnswers ==
  ASSUME Typed, Claimed, Attended, Controller
  PROVE  Serves
<1>1. ASSUME NEW slot \in Slots, Serve(slot) PROVE Serves
  BY <1>1, RefuseServes, PollServes, AckServes, ResultServes, FailReportServes, ControlAckServes DEF Serve
<1>2. ASSUME NEW i, LeaseExpires(i) PROVE Serves
  BY <1>2, WakeAdvances, ControllerServing DEF LeaseExpires, server
<1>3. ASSUME MarkStopped PROVE Serves
  BY <1>3, WakeAdvances, ControllerServing DEF MarkStopped
<1>4. QED BY <1>1, <1>2, <1>3, PollExpiresServes DEF Controller

LEMMA ClientsServe ==
  ASSUME Typed, Attended, Clients
  PROVE  Serves \/ StartSession \/ TypePrompt
<1>1. UNCHANGED network => Advancing
  BY DEF network, Advancing
<1>2. ASSUME NEW r, NEW x, Submit(r, x) PROVE Serves
  BY <1>2, WakeAdvances, ControllerServing DEF Submit, server
<1>3. ASSUME NEW i, SetControl(i) PROVE Advancing
  BY <1>1, <1>3, WakeAdvances DEF SetControl
<1>4. ASSUME NEW i, Cancel(i) PROVE Serves
  BY <1>1, <1>3, <1>4, ControllerServing DEF Cancel
<1>5. ASSUME AbortSession PROVE Serves
  BY <1>3, <1>5, ControllerServing DEF AbortSession
<1>6. QED BY <1>2, <1>4, <1>5 DEF Clients

LEMMA CallFailsServes ==
  ASSUME Typed, Attended, NEW a \in {"loop", "event"}, CallFails(a)
  PROVE  Serves
<1> DEFINE slot == <<a, 0>>
           call == [calls[slot] EXCEPT !.phase = "answered", !.reply = Failure]
<1>1. /\ calls[slot] # None /\ Fault /\ calls' = [Orphaned({a}) EXCEPT ![slot] = call]
      /\ UNCHANGED <<active, injecting, segments, inbox, prompted, streaming, up, starts>> /\ live' = live
  BY DEF CallFails, server, agent, bridge, process
<1>2. slot \in Slots /\ slot \in {Loop, Event} /\ calls[slot] \in HttpCall
  BY <1>1, SlotFacts DEF Loop, Event, Typed, CallsTyped
<1>3. /\ call \in HttpCall
      /\ call.op = calls[slot].op /\ call.id = calls[slot].id /\ call.lease = calls[slot].lease
      /\ call.data = calls[slot].data /\ call.start = calls[slot].start
      /\ call.phase = "answered" /\ call.reply = Failure
  <2>1. Failure \in Reply
    BY DEF Reply
  <2>2. QED BY <1>2, <2>1 DEF HttpCall
<1>4. Rules(slot, Failure)
  BY <1>1 DEF Rules, Failure, Ok, Conflict
<1>5. call # None
  BY <1>3, CallApart
<1>6. \A s \in Slots : calls'[s] = IF s = slot THEN call ELSE Orphaned({a})[s]
  BY <1>1 DEF Orphaned
<1> HIDE DEF call
<1>7. Advances(slot)
  BY <1>1, <1>2, <1>3, <1>4, <1>5, <1>6 DEF Advances
<1>8. \A s \in {Loop, Event} : s # slot => calls'[s] = calls[s]
  BY <1>6, SlotFacts DEF Orphaned, Loop, Event
<1>9. Advancing
  BY <1>7, <1>8 DEF Advancing
<1>10. QED BY <1>1, <1>9 DEF Attended, Serves

LEMMA FaultsServe ==
  ASSUME Typed, Attended, Faults
  PROVE  Serves \/ Reload \/ TuiExits \/ \E k \in DOMAIN inbox : PromptLost(k)
<1>1. ASSUME NEW slot \in Slots, OrphanLost(slot) PROVE Serves
  <2>1. /\ calls' = [calls EXCEPT ![slot] = None] /\ slot \notin {Loop, Event}
        /\ UNCHANGED <<active, injecting, segments, inbox, prompted, streaming, up, starts>> /\ live' = live
    BY <1>1 DEF OrphanLost, server, agent, bridge, process, Loop, Event
  <2>2. Advancing
    BY <2>1, SlotFacts DEF Typed, CallsTyped, Advancing
  <2>3. QED BY <2>1, <2>2 DEF Attended, Serves
<1>2. ASSUME NEW slot \in Slots, Oversized(slot) PROVE Serves
  <2>1. /\ calls[slot] # None /\ calls[slot].op = "result" /\ calls' = Replied(slot, TooLarge)
        /\ ControllerStep /\ live' = live /\ Fault
    BY <1>2 DEF Oversized, InPhase, server
  <2>2. TooLarge \in Reply
    BY DEF Reply
  <2>3. Rules(slot, TooLarge)
    BY <2>1 DEF Rules, TooLarge, Ok, Conflict
  <2>4. QED BY <2>1, <2>2, <2>3, ReplyAdvances, ControllerServing
<1>3. ASSUME Watchdog PROVE Serves
  <2>1. Advancing /\ ControllerStep /\ live' = live
    BY <1>3 DEF Watchdog, network, server, Advancing
  <2>2. QED BY <2>1, ControllerServing
<1>4. QED BY <1>1, <1>2, <1>3, CallFailsServes DEF Faults

LEMMA StutterServes ==
  ASSUME Attended, UNCHANGED vars
  PROVE  Serves
BY DEF Attended, vars, Serves, Advancing, server, network, agent, bridge, process

\* A step of the extension.
LEMMA ExtensionAttends ==
  ASSUME Typed, Fitting, Offered, Reported, Dropped, LastTry, Extension
  PROVE  Attends
<1>1. ASSUME PollLoop PROVE Attends
  BY <1>1, SlotFacts, InspectActiveAttends, SendPollAttends, PlainAttends, PollGetsJobAttends, PollGetsResumeAttends,
     PollGetsControlAttends, AckAnsweredAttends, ControlAckAnsweredAttends, TerminalAnsweredAttends
  DEF PollLoop
<1>2. QED BY <1>1, TerminalAnsweredAttends, DispatchOverdueAttends DEF Extension

-----------------------------------------------------------------------------
(* The steps of pi.                                                        *)

\* It marks a job again only while the prompt of that job is not in.
Marks(i) == Has(i) /\ ~active.sent /\ active.dispatched # "no"

\* The extension's job is the same one, and fits.
Goes(job) ==
  /\ Same(active, job) /\ Fit(job)' /\ (active.sent => job.sent)
  /\ job.dispatched = active.dispatched /\ job.terminal = active.terminal
  /\ job.posting = active.posting
  /\ job.interrupted => active.interrupted \/ job.sent

\* Prompts enter the session or are lost, nothing is handed over.
Stirs ==
  /\ UNCHANGED <<store, calls, live, up, starts>> /\ up
  /\ active = None => active' = None
  /\ active # None => active' # None /\ \E job : job = active' /\ Goes(job)
  /\ \A i \in Jobs :
       /\ Known(i)' => Known(i)
       /\ Pending(i)' => Pending(i)
       /\ segments[i] # None => segments'[i] # None
       /\ HasUserIn(segments, i) => HasUserIn(segments', i) \/ Marks(i)

\* The extension's job fits after the step, spelled out.
LEMMA NextFit ==
  ASSUME NEW job, UNCHANGED store,
         job.sent => HasUserIn(segments', job.id),
         job.acknowledged /\ job.id \in Runs => jobs[job.id].leaseId = job.lease,
         job.terminal # LastFailure, Flagged(job),
         ~job.sent /\ job.dispatched = "no" =>
           /\ job.terminal # None => job.interrupted
           /\ job.interrupted /\ job.terminal = None => streaming',
         faults' <= 1 /\ job.dispatched = "no" /\ Known(job.id)' => job.sent /\ ~Pending(job.id)',
         faults' <= 1 /\ job.dispatched # "no" /\ ~job.sent =>
           /\ injecting' = job.id
           /\ \A k \in DOMAIN inbox' : inbox'[k].who = job.id /\ inbox'[k].seen => job.observed
           /\ prompted'[job.id] = 0
  PROVE  Fit(job)'
BY DEF store, Fit, Runs, Known, Pending, HasUserIn, LastFailure, Flagged

LEMMA InputEventStirs ==
  ASSUME Typed, Fitting, Once, NEW k \in DOMAIN inbox, InputEvent(k)
  PROVE  Stirs /\ Once'
<1> DEFINE marks == active # None /\ injecting = active.id /\ active.dispatched # "no" /\ ~active.sent
<1>1. /\ up /\ UNCHANGED <<store, calls, live, up, starts, faults, prompted, streaming, injecting>>
      /\ inbox' = [inbox EXCEPT ![k].seen = TRUE]
      /\ segments' = IF marks THEN Marking(active.id) ELSE segments
      /\ active' = IF marks THEN [active EXCEPT !.observed = TRUE] ELSE active
  BY DEF InputEvent, PiStep, NoFault, server, process
<1>2. /\ DOMAIN inbox' = DOMAIN inbox
      /\ \A j \in DOMAIN inbox : inbox'[j].who = inbox[j].who /\ (j # k => inbox'[j] = inbox[j])
  <2>1. [inbox[k] EXCEPT !.seen = TRUE].who = inbox[k].who
    BY Prompts DEF Prompt
  <2>2. inbox' = [inbox EXCEPT ![k] = [inbox[k] EXCEPT !.seen = TRUE]]
    BY <1>1
  <2>3. QED BY <2>1, <2>2, LoopTypes
<1>3. \A i : (Pending(i)' <=> Pending(i)) /\ (Known(i)' <=> Known(i))
  BY <1>1, <1>2 DEF Pending, Known
<1>4. Once'
  <2>1. Jobs' = Jobs
    BY DEF Jobs
  <2>2. QED BY <1>1, <1>2, <1>3, <2>1 DEF Once
<1>5. \A i \in Jobs : /\ segments[i] # None => segments'[i] # None
                      /\ HasUserIn(segments, i) => HasUserIn(segments', i) \/ Marks(i)
  <2>1. CASE marks
    <3>1. active.id \in Jobs
      BY <2>1, LoopTypes DEF ActiveJob
    <3>2. QED BY <1>1, <2>1, <3>1, MarkingGrows DEF HasUserIn, Marks, Has
  <2>2. QED BY <1>1, <2>1
<1>6. ASSUME active # None PROVE active' # None /\ \E job : job = active' /\ Goes(job)
  <2>1. active \in ActiveJob /\ Fit(active)
    BY <1>6, LoopTypes DEF Fitting
  <2>2. ASSUME NEW job, Same(active, job), job.sent = active.sent, job.interrupted = active.interrupted,
               job.dispatched = active.dispatched, job.terminal = active.terminal,
               job.posting = active.posting,
               marks \/ job.observed = active.observed, marks => job.observed,
               marks \/ segments' = segments
        PROVE  Goes(job)
    <3>1. job.sent => HasUserIn(segments', job.id)
      BY <2>1, <2>2 DEF Fit, Same
    <3>2. ASSUME faults <= 1, job.dispatched # "no", ~job.sent
          PROVE  injecting = job.id /\ prompted[job.id] = 0 /\ job.observed
      BY <1>6, <2>1, <2>2, <3>2 DEF Fit, Same
    <3>3. Fit(job)'
      BY <1>1, <1>3, <2>1, <2>2, <3>1, <3>2, NextFit DEF Fit, Same
    <3>4. QED BY <2>2, <3>3 DEF Goes
  <2>3. CASE marks
    <3>1. PICK job : job = [active EXCEPT !.observed = TRUE]
      OBVIOUS
    <3>2. Same(active, job)
      BY <2>1, <3>1, SameJob
    <3>3. /\ job.sent = active.sent /\ job.interrupted = active.interrupted /\ job.observed
          /\ job.dispatched = active.dispatched /\ job.terminal = active.terminal
          /\ job.posting = active.posting
      BY <2>1, <3>1 DEF ActiveJob
    <3>4. active' = job
      BY <1>1, <2>3, <3>1
    <3>5. Goes(job)
      BY <2>2, <2>3, <3>2, <3>3
    <3>6. QED BY <3>2, <3>4, <3>5, NoneApart DEF Same
  <2>4. CASE ~marks
    <3>1. PICK job : job = active
      OBVIOUS
    <3>2. active' = job /\ segments' = segments
      BY <1>1, <2>4, <3>1
    <3>3. Same(active, job)
      BY <2>1, <3>1, SameJob
    <3>4. Goes(job)
      BY <2>2, <2>4, <3>1, <3>2, <3>3
    <3>5. QED BY <1>6, <3>1, <3>2, <3>4
  <2>5. QED BY <2>3, <2>4
<1>7. active = None => active' = None
  BY <1>1
<1>8. QED BY <1>1, <1>3, <1>4, <1>5, <1>6, <1>7 DEF Stirs

LEMMA TypePromptStirs ==
  ASSUME Typed, Fitting, Once, TypePrompt
  PROVE  Stirs /\ Once'
<1> DEFINE prompt == [who |-> Local, seen |-> TRUE]
<1>1. /\ up /\ UNCHANGED <<store, calls, live, up, starts, faults, segments, prompted, streaming, injecting>>
      /\ inbox' = Append(inbox, prompt)
      /\ active # None => active.sent
      /\ active' = IF active = None THEN None ELSE [active EXCEPT !.interrupted = TRUE]
  BY DEF TypePrompt, PiStep, NoFault, server, process
<1>2. prompt \in Prompt /\ prompt.who = Local /\ Local \notin Jobs
  BY LocalAssumption DEF Prompt, Authors, Jobs
<1> HIDE DEF prompt
<1>3. \A j \in DOMAIN inbox' : inbox'[j].who # Local => j \in DOMAIN inbox /\ inbox'[j] = inbox[j]
  BY <1>1, <1>2, LoopTypes
<1>4. \A i \in Jobs : (Pending(i)' => Pending(i)) /\ (Known(i)' => Known(i))
  BY <1>1, <1>2, <1>3 DEF Pending, Known
<1>5. Once'
  <2>1. Jobs' = Jobs
    BY DEF Jobs
  <2>2. ASSUME faults <= 1, NEW i \in Jobs
        PROVE  /\ prompted[i] <= 1 /\ (prompted[i] > 0 => ~Pending(i)')
               /\ \A j, m \in DOMAIN inbox' : inbox'[j].who = i /\ inbox'[m].who = i => j = m
    BY <1>2, <1>3, <1>4, <2>2 DEF Once
  <2>3. QED BY <1>1, <2>1, <2>2 DEF Once, Pending
<1>6. ASSUME active # None PROVE active' # None /\ \E job : job = active' /\ Goes(job)
  <2>1. active \in ActiveJob /\ Fit(active) /\ active.id \in Jobs /\ active.sent
    BY <1>1, <1>6, LoopTypes DEF Fitting, ActiveJob
  <2> PICK job : job = [active EXCEPT !.interrupted = TRUE]
    OBVIOUS
  <2>2. Same(active, job)
    BY <2>1, SameJob
  <2>3. /\ job.sent = active.sent /\ job.interrupted
        /\ job.dispatched = active.dispatched /\ job.terminal = active.terminal
        /\ job.posting = active.posting
    BY <2>1 DEF ActiveJob
  <2>4. active' = job
    BY <1>1, <1>6
  <2>5. Fit(job)'
    <3>1. /\ job.id = active.id /\ job.lease = active.lease /\ job.acknowledged = active.acknowledged
          /\ Flagged(job)
      BY <2>1, <2>2 DEF Same, Fit
    <3>2. /\ HasUserIn(segments, job.id) /\ job.terminal # LastFailure
          /\ job.acknowledged /\ job.id \in Runs => jobs[job.id].leaseId = job.lease
      BY <2>1, <2>3, <3>1 DEF Fit
    <3>3. ASSUME faults' <= 1, job.dispatched = "no", Known(job.id)' PROVE ~Pending(job.id)'
      <4>1. Known(job.id) /\ faults <= 1
        BY <1>1, <1>4, <2>1, <3>1, <3>3
      <4>2. ~Pending(job.id)
        BY <2>1, <2>3, <3>1, <3>3, <4>1 DEF Fit
      <4>3. QED BY <1>4, <2>1, <3>1, <4>2
    <3>4. QED BY <1>1, <2>1, <2>3, <3>1, <3>2, <3>3, NextFit
  <2>6. Goes(job)
    BY <2>1, <2>2, <2>3, <2>5 DEF Goes
  <2>7. QED BY <2>2, <2>4, <2>6, NoneApart DEF Same
<1>7. QED BY <1>1, <1>4, <1>5, <1>6 DEF Stirs

\* A prompt that is taken out is there no more.
LEMMA TakenOut ==
  ASSUME Typed, NEW k \in DOMAIN inbox, inbox' = RemoveAt(inbox, k)
  PROVE  /\ \A i : Pending(i)' => Pending(i)
         /\ \A j \in DOMAIN inbox' : \E m \in DOMAIN inbox : inbox'[j] = inbox[m]
         /\ \A i : (\A j, m \in DOMAIN inbox : inbox[j].who = i /\ inbox[m].who = i => j = m) =>
              /\ \A j, m \in DOMAIN inbox' : inbox'[j].who = i /\ inbox'[m].who = i => j = m
              /\ inbox[k].who = i => ~Pending(i)'
<1>1. \A j \in DOMAIN inbox' :
        /\ j \in Nat /\ Moved(j, k) \in DOMAIN inbox /\ Moved(j, k) # k
        /\ inbox'[j] = inbox[Moved(j, k)]
  BY LoopTypes, Removed
<1>2. k \in Nat
  BY LoopTypes
<1>3. \A j, m \in Nat : Moved(j, k) = Moved(m, k) => j = m
  BY <1>2 DEF Moved
<1>4. ASSUME NEW i, \A j, m \in DOMAIN inbox : inbox[j].who = i /\ inbox[m].who = i => j = m
      PROVE  /\ \A j, m \in DOMAIN inbox' : inbox'[j].who = i /\ inbox'[m].who = i => j = m
             /\ inbox[k].who = i => ~Pending(i)'
  <2>1. ASSUME NEW j \in DOMAIN inbox', NEW m \in DOMAIN inbox', inbox'[j].who = i, inbox'[m].who = i
        PROVE  j = m
    <3>1. Moved(j, k) = Moved(m, k)
      BY <1>1, <1>4, <2>1
    <3>2. QED BY <1>1, <1>3, <3>1
  <2>2. ASSUME inbox[k].who = i, NEW j \in DOMAIN inbox', inbox'[j].who = i PROVE FALSE
    BY <1>1, <1>4, <2>2
  <2>3. QED BY <2>1, <2>2 DEF Pending
<1>5. QED BY <1>1, <1>4 DEF Pending

LEMMA PromptLostStirs ==
  ASSUME Typed, Fitting, Once, NEW k \in DOMAIN inbox, PromptLost(k)
  PROVE  Stirs /\ Once'
<1>1. /\ up /\ UNCHANGED <<store, calls, live, up, starts, segments, prompted, streaming, injecting, active>>
      /\ inbox' = RemoveAt(inbox, k) /\ (faults' <= 1 => faults <= 1)
  BY DEF PromptLost, PiStep, Fault, server, process, Typed, SessionTyped
<1>2. /\ \A i : Pending(i)' => Pending(i)
      /\ \A j \in DOMAIN inbox' : \E m \in DOMAIN inbox : inbox'[j] = inbox[m]
      /\ \A i : (\A j, m \in DOMAIN inbox : inbox[j].who = i /\ inbox[m].who = i => j = m) =>
           \A j, m \in DOMAIN inbox' : inbox'[j].who = i /\ inbox'[m].who = i => j = m
  BY <1>1, TakenOut
<1>3. \A i : Known(i)' => Known(i)
  BY <1>1, <1>2 DEF Known
<1>4. Once'
  <2>1. Jobs' = Jobs
    BY DEF Jobs
  <2>2. ASSUME faults <= 1, NEW i \in Jobs
        PROVE  /\ prompted[i] <= 1 /\ (prompted[i] > 0 => ~Pending(i)')
               /\ \A j, m \in DOMAIN inbox' : inbox'[j].who = i /\ inbox'[m].who = i => j = m
    BY <1>2, <2>2 DEF Once
  <2>3. QED BY <1>1, <2>1, <2>2 DEF Once, Pending
<1>5. ASSUME active # None, NEW job, job = active PROVE Goes(job)
  <2>1. active \in ActiveJob /\ Fit(active)
    BY <1>5, LoopTypes DEF Fitting
  <2>2. Fit(job)
    BY <1>5, <2>1
  <2>3. Fit(job)'
    BY <1>1, <1>2, <1>3, <2>2, NextFit DEF Fit
  <2>4. Same(active, job)
    BY <1>5, <2>1, SameJob
  <2>5. QED BY <1>5, <2>3, <2>4 DEF Goes
<1>6. active # None => active' # None /\ \E job : job = active' /\ Goes(job)
  BY <1>1, <1>5
<1>7. QED BY <1>1, <1>2, <1>3, <1>4, <1>6 DEF Stirs

LEMMA RecordPromptStirs ==
  ASSUME Typed, Fitting, Once, NEW k \in DOMAIN inbox, RecordPrompt(k)
  PROVE  Stirs /\ Once'
<1> DEFINE who == inbox[k].who
           takes == active # None /\ active.observed /\ ~active.sent
<1>1. /\ up /\ UNCHANGED <<store, calls, live, up, starts, faults>>
      /\ inbox[k].seen /\ inbox' = RemoveAt(inbox, k) /\ streaming' = TRUE
      /\ \E segs \in AnsweredSoFar : segments' = Recording(segs)
      /\ prompted' = IF who = Local THEN prompted ELSE [prompted EXCEPT ![who] = @ + 1]
      /\ IF takes
           THEN active' = [active EXCEPT !.sent = TRUE, !.observed = FALSE]
           ELSE /\ active' = IF active = None \/ ~active.sent THEN active
                             ELSE [active EXCEPT !.interrupted = TRUE]
                /\ injecting' = injecting
  BY DEF RecordPrompt, PiStep, NoFault, server, process
<1>2. /\ \A i : Pending(i)' => Pending(i)
      /\ \A j \in DOMAIN inbox' : \E m \in DOMAIN inbox : inbox'[j] = inbox[m]
      /\ \A i : (\A j, m \in DOMAIN inbox : inbox[j].who = i /\ inbox[m].who = i => j = m) =>
              /\ \A j, m \in DOMAIN inbox' : inbox'[j].who = i /\ inbox'[m].who = i => j = m
              /\ who = i => ~Pending(i)'
  BY <1>1, TakenOut
<1>3. /\ \A i \in Jobs : prompted'[i] = IF who = i THEN prompted[i] + 1 ELSE prompted[i]
      /\ \A i \in Jobs : prompted[i] \in Nat
  BY <1>1, LocalAssumption, Prompts DEF Typed, AgentTyped, Authors, Jobs
<1>4. Pending(who)
  BY DEF Pending
<1>5. \A i \in Jobs : Known(i)' => Known(i)
  BY <1>2, <1>3, <1>4 DEF Known
<1>6. Once'
  <2>1. Jobs' = Jobs
    BY DEF Jobs
  <2>2. ASSUME faults <= 1, NEW i \in Jobs
        PROVE  /\ prompted'[i] <= 1 /\ (prompted'[i] > 0 => ~Pending(i)')
               /\ \A j, m \in DOMAIN inbox' : inbox'[j].who = i /\ inbox'[m].who = i => j = m
    <3>1. /\ prompted[i] <= 1 /\ (prompted[i] > 0 => ~Pending(i))
          /\ \A j, m \in DOMAIN inbox : inbox[j].who = i /\ inbox[m].who = i => j = m
      BY <2>2 DEF Once
    <3>2. CASE who = i
      <4>1. ~(prompted[i] > 0)
        BY <1>4, <3>1, <3>2
      <4>2. QED BY <1>2, <1>3, <3>1, <3>2, <4>1
    <3>3. CASE who # i
      BY <1>2, <1>3, <3>1, <3>3
    <3>4. QED BY <3>2, <3>3
  <2>3. QED BY <1>1, <2>1, <2>2 DEF Once, Pending
<1>7. \A i \in Jobs : segments[i] # None => segments'[i] # None /\ HasUserIn(segments', i)
  BY <1>1, SessionGrows
<1>8. \A i \in Jobs : HasUserIn(segments, i) => segments[i] # None
  BY DEF HasUserIn, H!SegmentHasUser
<1>9. ASSUME active # None PROVE active' # None /\ \E job : job = active' /\ Goes(job)
  <2>1. active \in ActiveJob /\ Fit(active) /\ active.id \in Jobs /\ segments[active.id] # None
    BY <1>9, LoopTypes DEF Fitting, ActiveJob
  <2>2. CASE takes
    <3> PICK job : job = [active EXCEPT !.sent = TRUE, !.observed = FALSE]
      OBVIOUS
    <3>1. Same(active, job)
      BY <2>1, SameJob
    <3>2. /\ job.sent /\ job.interrupted = active.interrupted
          /\ job.dispatched = active.dispatched /\ job.terminal = active.terminal
          /\ job.posting = active.posting
      BY <2>1 DEF ActiveJob
    <3>3. active' = job
      BY <1>1, <2>2
    <3>4. /\ job.id = active.id /\ job.lease = active.lease /\ job.acknowledged = active.acknowledged
          /\ Flagged(job)
      BY <2>1, <3>1 DEF Same, Fit
    <3>5. ASSUME faults <= 1, job.dispatched = "no", Known(job.id)' PROVE FALSE
      <4>1. Known(active.id)
        BY <1>5, <2>1, <3>4, <3>5
      <4>2. QED BY <2>1, <2>2, <3>2, <3>5, <4>1 DEF Fit
    <3>6. /\ HasUserIn(segments', job.id) /\ job.terminal # LastFailure
          /\ job.acknowledged /\ job.id \in Runs => jobs[job.id].leaseId = job.lease
      BY <1>7, <2>1, <3>2, <3>4 DEF Fit
    <3>7. Fit(job)'
      BY <1>1, <3>2, <3>4, <3>5, <3>6, NextFit
    <3>8. Goes(job)
      BY <3>1, <3>2, <3>7 DEF Goes
    <3>9. QED BY <3>1, <3>3, <3>8, NoneApart DEF Same
  <2>3. CASE ~takes
    <3>1. ASSUME NEW job, Same(active, job), job.sent = active.sent,
                 job.interrupted => active.interrupted \/ job.sent,
                 active.interrupted => job.interrupted,
                 job.dispatched = active.dispatched, job.terminal = active.terminal,
                 job.observed = active.observed, job.posting = active.posting
          PROVE  Goes(job)
      <4>1. /\ job.id = active.id /\ job.lease = active.lease /\ job.acknowledged = active.acknowledged
            /\ Flagged(job)
        BY <2>1, <3>1 DEF Same, Fit
      <4>2. ASSUME faults <= 1, job.dispatched # "no", ~job.sent
            PROVE  /\ injecting' = job.id /\ prompted'[job.id] = 0
                   /\ \A j \in DOMAIN inbox' : inbox'[j].who = job.id /\ inbox'[j].seen => job.observed
        <5>1. /\ injecting = job.id /\ prompted[job.id] = 0 /\ ~job.observed
              /\ \A j \in DOMAIN inbox : inbox[j].who = job.id => ~inbox[j].seen
          BY <1>9, <2>1, <2>3, <3>1, <4>1, <4>2 DEF Fit
        <5>2. who # job.id
          BY <1>1, <5>1
        <5>3. QED BY <1>1, <1>2, <1>3, <2>1, <2>3, <4>1, <5>1, <5>2
      <4>3. Fit(job)'
        BY <1>1, <1>2, <1>5, <1>7, <2>1, <3>1, <4>1, <4>2, NextFit DEF Fit
      <4>4. QED BY <3>1, <4>3 DEF Goes
    <3>2. CASE active.sent
      <4> PICK job : job = [active EXCEPT !.interrupted = TRUE]
        OBVIOUS
      <4>1. Same(active, job)
        BY <2>1, SameJob
      <4>2. /\ job.sent = active.sent /\ job.interrupted /\ job.observed = active.observed
            /\ job.dispatched = active.dispatched /\ job.terminal = active.terminal
            /\ job.posting = active.posting
        BY <2>1 DEF ActiveJob
      <4>3. active' = job
        BY <1>1, <1>9, <2>3, <3>2
      <4>4. Goes(job)
        BY <3>1, <3>2, <4>1, <4>2
      <4>5. QED BY <4>1, <4>3, <4>4, NoneApart DEF Same
    <3>3. CASE ~active.sent
      <4>1. PICK job : job = active
        OBVIOUS
      <4>2. Same(active, job)
        BY <2>1, <4>1, SameJob
      <4>3. Goes(job)
        BY <3>1, <4>1, <4>2
      <4>4. active' = job
        BY <1>1, <1>9, <2>3, <3>3, <4>1
      <4>5. QED BY <1>9, <4>1, <4>3, <4>4
    <3>4. QED BY <3>2, <3>3
  <2>4. QED BY <2>2, <2>3
<1>10. active = None => active' = None
  BY <1>1
<1>11. QED BY <1>1, <1>2, <1>5, <1>6, <1>7, <1>8, <1>9, <1>10 DEF Stirs

-----------------------------------------------------------------------------
(* Each kind of step keeps each part.                                      *)

Grows == faults' >= faults /\ (faults' <= 1 => faults <= 1)

LEMMA FaultsGrow ==
  ASSUME Typed, NoFault \/ Fault
  PROVE  Grows
BY DEF Typed, SessionTyped, NoFault, Fault, Grows

\* The parts after the step, spelled out.
LEMMA NextFitting ==
  ASSUME active' # None =>
           \E job : /\ job = active' /\ segments'[job.id] # None /\ Fit(job)' /\ Paired(job, calls'[Loop])
  PROVE  Fitting'
BY DEF Fitting, Fit, Paired, Known, Pending, HasUserIn, Loop, Flagged

LEMMA NextDropped ==
  ASSUME faults' <= 1 /\ up' => \A i \in Jobs :
           Resumed(i)' /\ Known(i)' /\ ~(active' # None /\ active'.id = i) =>
             ~Pending(i)' /\ HasUserIn(segments', i)
  PROVE  Dropped'
<1>1. Jobs' = Jobs
  BY DEF Jobs
<1>2. QED BY <1>1 DEF Dropped, Has, HasUserIn

LEMMA CallJobs ==
  ASSUME Typed, NEW s \in {Loop, Event}, calls[s] # None
  PROVE  /\ calls[s].op \in {"ack", "result", "fail"} => calls[s].id \in Jobs
         /\ Answered(s) => calls[s].reply.id \in Jobs
         /\ calls[s].phase = "answered" /\ calls[s].op # "poll" => calls[s].reply \in {Ok, Conflict, TooLarge, Failure}
<1>1. s \in Slots /\ CallFits(calls[s], s)
  BY SlotFacts DEF Typed, CallsTyped
<1>2. Answered(s) => calls[s].reply \in Reply /\ calls[s].reply.kind \in {"job", "resume"}
  BY <1>1 DEF Answered, CallFits
<1>3. Answered(s) => calls[s].reply.id \in Jobs
  BY <1>2 DEF Reply, Control, Ok, Idle, Conflict, TooLarge, Failure
<1>4. QED BY <1>1, <1>3 DEF CallFits

LEMMA AttendsFits ==
  ASSUME Typed, Fitting, Attends, Grows
  PROVE  Fitting'
<1>1. CASE Works
  <2>1. PICK job \in ActiveJob :
       /\ Fit(job) /\ Same(job, active') /\ (Tends(job) \/ Hands(job))
       /\ segments'[job.id] # None
    BY <1>1 DEF Works
  <2>2. /\ active' # None /\ Paired(active', calls'[Loop])
        /\ active'.id = job.id /\ active'.lease = job.lease /\ active'.acknowledged = job.acknowledged
        /\ Flagged(active') /\ UNCHANGED <<store, prompted>> /\ job.id \in Jobs
    BY <1>1, <2>1 DEF Works, Same, Attends, ActiveJob, Fit
  <2>3. ASSUME Tends(job), NEW new, new = active' PROVE Fit(new)'
    <3>1. \A i : (Known(i)' <=> Known(i)) /\ (Pending(i)' <=> Pending(i))
      BY <2>2, <2>3 DEF Tends, Known, Pending
    <3>2. ASSUME faults' <= 1, new.dispatched # "no", ~new.sent
          PROVE  /\ injecting' = new.id /\ prompted'[new.id] = 0
                 /\ \A k \in DOMAIN inbox' : inbox'[k].who = new.id /\ inbox'[k].seen => new.observed
      <4>1. job.dispatched # "no" /\ ~job.sent /\ faults <= 1
        BY <2>3, <3>2 DEF Tends, Grows
      <4>2. QED BY <2>1, <2>2, <2>3, <4>1 DEF Tends, Fit
    <3>3. ASSUME faults' <= 1, new.dispatched = "no", Known(new.id)' PROVE new.sent /\ ~Pending(new.id)'
      BY <2>1, <2>2, <2>3, <3>1, <3>3 DEF Tends, Fit, Grows
    <3>4. new.acknowledged /\ new.id \in Runs => jobs[new.id].leaseId = new.lease
      BY <2>1, <2>2, <2>3 DEF Fit
    <3>5. QED BY <2>2, <2>3, <3>2, <3>3, <3>4, NextFit DEF Tends
  <2>4. ASSUME Hands(job), NEW new, new = active' PROVE Fit(new)'
    <3>1. /\ new.dispatched = "yes" /\ ~new.sent /\ new.terminal = None /\ injecting' = job.id
          /\ inbox' = Append(inbox, [who |-> job.id, seen |-> FALSE]) /\ ~job.sent /\ job.dispatched = "no"
      BY <2>1, <2>4 DEF Hands, Dispatched, Dispatchable, HandsOver, ActiveJob
    <3>2. ASSUME faults' <= 1
          PROVE  /\ prompted'[new.id] = 0
                 /\ \A k \in DOMAIN inbox' : inbox'[k].who = new.id => ~inbox'[k].seen
      <4>1. ~Known(job.id)
        BY <2>1, <3>1, <3>2 DEF Fit, Grows
      <4>2. prompted[job.id] = 0 /\ \A k \in DOMAIN inbox : inbox[k].who # job.id
        BY <2>2, <4>1 DEF Known, Pending, Typed, AgentTyped
      <4>3. \A k \in DOMAIN inbox' : inbox'[k] = [who |-> job.id, seen |-> FALSE] \/ (k \in DOMAIN inbox /\ inbox'[k] = inbox[k])
        BY <3>1, LoopTypes
      <4>4. QED BY <2>2, <2>4, <4>2, <4>3
    <3>3. new.acknowledged /\ new.id \in Runs => jobs[new.id].leaseId = new.lease
      BY <2>1, <2>2, <2>4 DEF Fit
    <3>4. new.terminal # LastFailure
      BY <3>1, NoneApart DEF LastFailure, FailOf, Outcomes, Codes
    <3>5. QED BY <2>2, <2>4, <3>1, <3>2, <3>3, <3>4, NextFit
  <2>5. QED BY <2>1, <2>2, <2>3, <2>4, NextFitting
<1>2. CASE active' = None
  BY <1>2, NextFitting
<1>3. QED BY <1>1, <1>2 DEF Attends, Clears, Idles

\* Only the job that is handed over becomes known.
LEMMA AttendsKnown ==
  ASSUME Typed, Attends
  PROVE  /\ ~(Works /\ inbox' # inbox) => \A i : (Known(i)' <=> Known(i)) /\ (Pending(i)' <=> Pending(i))
         /\ Works /\ inbox' # inbox =>
              \E job \in ActiveJob :
                /\ Hands(job) /\ Fit(job) /\ Same(job, active')
                /\ active # None => /\ job.id = active.id /\ job.interrupted = active.interrupted
                                    /\ job.terminal = active.terminal
                /\ \A i : i # job.id => (Known(i)' <=> Known(i)) /\ (Pending(i)' <=> Pending(i))
<1>1. inbox' = inbox => \A i : (Known(i)' <=> Known(i)) /\ (Pending(i)' <=> Pending(i))
  BY DEF Attends, Known, Pending
<1>2. ASSUME Works, inbox' # inbox
      PROVE  \E job \in ActiveJob :
                /\ Hands(job) /\ Fit(job) /\ Same(job, active')
                /\ active # None => /\ job.id = active.id /\ job.interrupted = active.interrupted
                                    /\ job.terminal = active.terminal
                /\ \A i : i # job.id => (Known(i)' <=> Known(i)) /\ (Pending(i)' <=> Pending(i))
  <2>1. PICK job \in ActiveJob :
          /\ Fit(job) /\ Same(job, active') /\ (Tends(job) \/ Hands(job))
          /\ active # None => /\ job.id = active.id /\ job.interrupted = active.interrupted
                              /\ job.terminal = active.terminal
    BY <1>2 DEF Works
  <2>2. Hands(job) /\ inbox' = Append(inbox, [who |-> job.id, seen |-> FALSE]) /\ UNCHANGED prompted
    BY <1>2, <2>1 DEF Tends, Hands, HandsOver, Attends
  <2>3. /\ \A k \in DOMAIN inbox' : inbox'[k].who = job.id \/ (k \in DOMAIN inbox /\ inbox'[k] = inbox[k])
        /\ \A k \in DOMAIN inbox : k \in DOMAIN inbox' /\ inbox'[k] = inbox[k]
    BY <2>2, LoopTypes
  <2>4. \A i : i # job.id => (Known(i)' <=> Known(i)) /\ (Pending(i)' <=> Pending(i))
    BY <2>2, <2>3 DEF Known, Pending
  <2>5. QED BY <2>1, <2>2, <2>4
<1>3. UNCHANGED inbox \/ Works
  BY DEF Attends, Clears, Idles
<1>4. QED BY <1>1, <1>2, <1>3

LEMMA NextOffered ==
  ASSUME \A i : calls'[Loop] # None /\ calls'[Loop].op = "ack" /\ i = calls'[Loop].id =>
           /\ ~Known(i)'
           /\ calls'[Loop].phase = "answered" /\ calls'[Loop].reply = Ok /\ i \in Runs' =>
                jobs'[i].leaseId = calls'[Loop].lease,
         \A i : /\ calls'[Loop] # None /\ calls'[Loop].phase = "answered"
               /\ calls'[Loop].reply.kind \in {"job", "resume"} /\ i = calls'[Loop].reply.id =>
           /\ calls'[Loop].reply.kind = "job" => ~Known(i)'
           /\ calls'[Loop].reply.kind = "resume" =>
                /\ i # calls'[Loop].id
                /\ i \in Runs' => jobs'[i].leaseId = calls'[Loop].reply.lease
  PROVE  Offered'
BY DEF Offered, Answered, Known, Pending, Loop

LEMMA AttendsOffers ==
  ASSUME IInv, Fitting, Fitting', Offered, Attends, Grows
  PROVE  Offered'
<1>1. Typed /\ Handed /\ Ready /\ UNCHANGED store /\ Makes(Loop)
  BY DEF IInv, Attends
<1>2. ASSUME calls'[Loop] # None, calls'[Loop].op = "ack"
      PROVE  \A i : (Known(i)' <=> Known(i)) /\ (Pending(i)' <=> Pending(i))
  <2>1. ASSUME Works, inbox' # inbox PROVE FALSE
    <3>1. PICK job \in ActiveJob : Hands(job) /\ Same(job, active')
      BY <1>1, <2>1, AttendsKnown
    <3>2. active'.acknowledged
      BY <3>1 DEF Hands, Dispatchable, Same
    <3>3. Paired(active', calls'[Loop])
      BY <2>1 DEF Works
    <3>4. QED BY <1>2, <3>2, <3>3 DEF Paired
  <2>2. QED BY <1>1, <2>1, AttendsKnown
<1>3. ASSUME calls'[Loop] # None, calls'[Loop].op = "ack", NEW i, i = calls'[Loop].id
      PROVE  /\ ~Known(i)'
             /\ calls'[Loop].phase = "answered" /\ calls'[Loop].reply = Ok /\ i \in Runs =>
                  jobs[i].leaseId = calls'[Loop].lease
  <2>1. CASE calls'[Loop] = calls[Loop]
    BY <1>2, <1>3, <2>1 DEF Offered
  <2>2. CASE calls'[Loop] # calls[Loop]
    <3>1. ~Known(i) /\ calls'[Loop].phase = "sent"
      BY <1>1, <1>3, <2>2 DEF Makes
    <3>2. QED BY <1>2, <1>3, <3>1
  <2>3. QED BY <2>1, <2>2
<1>4. ASSUME calls'[Loop] # None, calls'[Loop].phase = "answered", calls'[Loop].reply.kind \in {"job", "resume"},
             NEW i, i = calls'[Loop].reply.id
      PROVE  /\ calls'[Loop].reply.kind = "job" => ~Known(i)'
             /\ calls'[Loop].reply.kind = "resume" =>
                  /\ i # calls'[Loop].id
                  /\ i \in Runs => jobs[i].leaseId = calls'[Loop].reply.lease
  <2>1. calls'[Loop] = calls[Loop] /\ Answered(Loop)
    BY <1>1, <1>4 DEF Makes, Answered
  <2>2. ASSUME calls[Loop].reply.kind = "job" PROVE ~Known(i)'
    <3>1. active = None
      BY <1>1, <2>1, <2>2 DEF Handed, Ready, Answered
    <3>2. ~Works
      BY <1>4, <3>1 DEF Works
    <3>3. ~Known(i)
      BY <1>4, <2>1, <2>2 DEF Offered
    <3>4. QED BY <1>1, <3>2, <3>3, AttendsKnown
  <2>3. QED BY <1>4, <2>1, <2>2 DEF Offered
<1>5. Runs' = Runs /\ jobs' = jobs
  BY <1>1 DEF store, Runs
<1>6. QED BY <1>3, <1>4, <1>5, NextOffered

LEMMA NextReported ==
  ASSUME Typed, UNCHANGED store \/ StoreMoves,
         \A s \in {Loop, Event} : calls'[s] # None /\ calls'[s].op \in {"result", "fail"} =>
           \E i : /\ i = calls'[s].id
                  /\ \/ /\ i \in Begun'
                        /\ i \in Runs' => /\ jobs'[i].leaseId = calls'[s].lease
                                          /\ ~(calls'[s].phase = "answered" /\ calls'[s].reply \in {Ok, Conflict})
                     \/ /\ HasUserIn(segments', i) /\ ~Known(i)'
                        /\ active' # None /\ active'.id = i => active'.sent
  PROVE  Reported'
BY DEF Reported, Reports, Told, Known, Pending, HasUserIn, Has, Loop, Event

LEMMA AttendsReports ==
  ASSUME IInv, IInv', Fitting, Fitting', Offered', Reported, Attends, Grows
  PROVE  Reported'
<1>1. Typed /\ Handed' /\ UNCHANGED store /\ SegmentsKept /\ Makes(Loop) /\ Makes(Event)
  BY DEF IInv, Attends
<1>2. Begun' = Begun /\ Runs' = Runs /\ jobs' = jobs
  BY <1>1 DEF store, Begun, Runs
<1>3. ASSUME NEW s \in {Loop, Event}, calls'[s] # None, calls'[s].op \in {"result", "fail"}
      PROVE  \E i : /\ i = calls'[s].id
                    /\ \/ /\ i \in Begun
                          /\ i \in Runs => /\ jobs[i].leaseId = calls'[s].lease
                                           /\ ~(calls'[s].phase = "answered" /\ calls'[s].reply \in {Ok, Conflict})
                       \/ /\ HasUserIn(segments', i) /\ ~Known(i)'
                          /\ active' # None /\ active'.id = i => active'.sent
  <2>1. CASE calls'[s] = calls[s] \/ (Repeats(s) /\ calls'[s].phase = "sent")
    <3>1. PICK i : i = calls[s].id
      OBVIOUS
    <3>2. Reports(s) /\ calls'[s].id = i /\ calls'[s].lease = calls[s].lease
      BY <1>3, <2>1, <3>1 DEF Reports, Repeats
    <3>3. CASE HasUserIn(segments, i) /\ ~Known(i) /\ (Has(i) => active.sent)
      <4>1. i \in Jobs
        BY <1>1, <3>1, <3>2, CallJobs DEF Reports
      <4>2. HasUserIn(segments', i)
        BY <1>1, <3>3, <4>1 DEF SegmentsKept
      <4>3. ~Known(i)'
        <5>1. Works /\ inbox' # inbox =>
                \E job \in ActiveJob :
                  Hands(job) /\ \A j : j # job.id => (Known(j)' <=> Known(j))
          BY <1>1, AttendsKnown
        <5>2. \A job : Hands(job) => job.id # i
          BY <3>3 DEF Hands
        <5>3. QED BY <1>1, <3>3, <5>1, <5>2, AttendsKnown
      <4>4. ASSUME active' # None, active'.id = i PROVE active'.sent
        <5>1. Works
          BY <4>4 DEF Attends, Clears, Idles
        <5>2. PICK job \in ActiveJob :
                /\ Same(job, active') /\ (Tends(job) \/ Hands(job))
                /\ IF active = None THEN HasUserIn(segments, job.id) => job.sent
                   ELSE job.id = active.id /\ (active.sent => job.sent)
          BY <5>1 DEF Works
        <5>3. job.id = i
          BY <4>4, <5>2 DEF Same
        <5>4. job.sent /\ ~Hands(job)
          BY <3>3, <5>2, <5>3 DEF Has, Hands, Dispatchable
        <5>5. QED BY <5>2, <5>4 DEF Tends
      <4>5. QED BY <3>2, <4>2, <4>3, <4>4
    <3>4. CASE i \in Begun /\ (i \in Runs => jobs[i].leaseId = calls[s].lease /\ ~Told(s))
      BY <2>1, <3>1, <3>2, <3>4 DEF Told
    <3>5. QED BY <3>1, <3>2, <3>3, <3>4 DEF Reported
  <2>2. CASE calls'[s] # calls[s] /\ ~Repeats(s)
    <3>1. /\ calls'[s].phase = "sent" /\ active' # None /\ calls'[s].id = active'.id
          /\ calls'[s].lease = active'.lease /\ active'.terminal # None
      BY <1>1, <1>3, <2>2 DEF Makes
    <3>2. Works /\ Paired(active', calls'[Loop])
      BY <3>1 DEF Attends, Clears, Idles, Works
    <3>3. CASE active'.acknowledged
      <4>1. active'.id \in Begun
        BY <1>1, <1>2, <3>1, <3>3 DEF Handed
      <4>2. active'.id \in Runs => jobs[active'.id].leaseId = active'.lease
        BY <1>2, <3>1, <3>3 DEF Fitting, Fit
      <4>3. QED BY <3>1, <4>1, <4>2
    <3>4. CASE ~active'.acknowledged
      <4>1. active'.sent /\ calls'[Loop] # None /\ calls'[Loop].op = "ack" /\ calls'[Loop].id = active'.id
        BY <3>1, <3>2, <3>4 DEF Paired
      <4>2. HasUserIn(segments', active'.id)
        BY <3>1, <4>1 DEF Fitting, Fit, HasUserIn
      <4>3. \A i : i = calls'[Loop].id => ~Known(i)'
        BY <4>1 DEF Offered, Known, Pending, Loop
      <4>4. QED BY <3>1, <4>1, <4>2, <4>3
    <3>5. QED BY <3>3, <3>4
  <2>3. calls'[s] # calls[s] => calls'[s].phase = "sent"
    BY <1>1, <1>3 DEF Makes
  <2>4. QED BY <2>1, <2>2, <2>3
<1>4. QED BY <1>1, <1>2, <1>3, NextReported

LEMMA AttendsOnce ==
  ASSUME Typed, Once, Attends, Grows
  PROVE  Once'
<1>1. UNCHANGED prompted /\ Jobs' = Jobs
  BY DEF Attends, Jobs
<1>2. ASSUME faults' <= 1, NEW i \in Jobs
      PROVE  /\ prompted[i] <= 1 /\ (prompted[i] > 0 => ~Pending(i)')
             /\ \A j, m \in DOMAIN inbox' : inbox'[j].who = i /\ inbox'[m].who = i => j = m
  <2>1. /\ prompted[i] <= 1 /\ (prompted[i] > 0 => ~Pending(i))
        /\ \A j, m \in DOMAIN inbox : inbox[j].who = i /\ inbox[m].who = i => j = m
    BY <1>2 DEF Once, Grows
  <2>2. CASE inbox' = inbox
    BY <2>1, <2>2 DEF Pending
  <2>3. CASE inbox' # inbox
    <3>1. Works
      BY <2>3 DEF Attends, Clears, Idles
    <3>2. PICK job \in ActiveJob :
            Hands(job) /\ Fit(job) /\ \A j : j # job.id => (Pending(j)' <=> Pending(j))
      BY <2>3, <3>1, AttendsKnown
    <3>3. ~job.sent /\ job.dispatched = "no" /\ inbox' = Append(inbox, [who |-> job.id, seen |-> FALSE])
      BY <3>2 DEF Hands, Dispatchable, HandsOver
    <3>4. ~Known(job.id)
      BY <1>2, <3>2, <3>3 DEF Fit, Grows
    <3>5. \A k \in DOMAIN inbox' : \/ inbox'[k].who = job.id /\ k = Len(inbox) + 1
                                   \/ k \in DOMAIN inbox /\ inbox'[k] = inbox[k]
      BY <3>3, LoopTypes
    <3>6. CASE i = job.id
      BY <2>1, <3>4, <3>5, <3>6 DEF Known, Pending
    <3>7. CASE i # job.id
      BY <2>1, <3>2, <3>5, <3>7 DEF Pending
    <3>8. QED BY <3>6, <3>7
  <2>4. QED BY <2>2, <2>3
<1>3. QED BY <1>1, <1>2 DEF Once, Pending

LEMMA AttendsDrops ==
  ASSUME IInv, Fitting, Offered, Dropped, Attends, Grows
  PROVE  Dropped'
<1>1. Typed /\ Handed /\ UNCHANGED <<store, up>> /\ SegmentsKept /\ Makes(Loop)
  BY DEF IInv, Attends
<1>2. ASSUME faults' <= 1, up, NEW i \in Jobs, Resumed(i)', Known(i)', ~(active' # None /\ active'.id = i)
      PROVE  ~Pending(i)' /\ HasUserIn(segments', i)
  <2>1. Resumed(i)
    <3>1. Runs' = Runs
      BY <1>1 DEF store, Runs
    <3>2. ASSUME Answered(Loop)' PROVE calls'[Loop] = calls[Loop]
      <4>1. calls'[Loop] # None /\ calls'[Loop].phase = "answered"
        BY <3>2 DEF Answered, Loop
      <4>2. QED BY <1>1, <4>1 DEF Makes
    <3>3. QED BY <1>2, <3>1, <3>2 DEF Resumed, Answered, Loop
  <2>2. Known(i) /\ (Pending(i)' <=> Pending(i))
    <3>1. CASE Works /\ inbox' # inbox
      <4>1. PICK job \in ActiveJob :
              /\ Same(job, active')
              /\ \A j : j # job.id => (Known(j)' <=> Known(j)) /\ (Pending(j)' <=> Pending(j))
        BY <1>1, <3>1, AttendsKnown
      <4>2. job.id # i
        BY <1>2, <3>1, <4>1 DEF Works, Same
      <4>3. QED BY <1>2, <4>1, <4>2
    <3>2. QED BY <1>1, <1>2, <3>1, AttendsKnown
  <2>3. ~Has(i)
    <3>1. SUFFICES ASSUME active # None, active.id = i PROVE FALSE
      BY DEF Has
    <3>2. ~Works
      BY <1>2, <3>1 DEF Works, Same
    <3>3. i \notin Runs
      BY <1>2, <2>2, <3>1, <3>2 DEF Attends, Clears, Idles, Grows
    <3>4. Answered(Loop) /\ calls[Loop].reply.kind = "resume" /\ calls[Loop].reply.id = i
      BY <2>1, <3>3 DEF Resumed
    <3>5. calls[Loop] # None /\ calls[Loop].op = "poll" /\ i # calls[Loop].id
      BY <1>1, <3>4 DEF Handed, Offered, Answered
    <3>6. QED BY <3>1, <3>5 DEF Fitting, Paired
  <2>4. QED BY <1>1, <1>2, <2>1, <2>2, <2>3 DEF Dropped, SegmentsKept, Grows
<1>3. QED BY <1>1, <1>2, NextDropped

LEMMA NextTries ==
  ASSUME \A s \in {Loop, Event} : calls'[s] # None =>
           /\ calls'[s].phase = "answered" /\ calls'[s].reply \in {Failure, TooLarge} => faults' >= 1
           /\ calls'[s].op \in {"result", "fail"} /\ calls'[s].data = LastFailure /\ faults' <= 1 =>
                faults' = 1 /\ (calls'[s].phase = "answered" => calls'[s].reply \in {Ok, Conflict})
  PROVE  LastTry'
BY DEF LastTry, Reports, LastAttempt, LastFailure, Loop, Event

LEMMA AttendsTries ==
  ASSUME Typed, LastTry, Attends, NoFault \/ Fault
  PROVE  LastTry'
<1>1. faults \in Nat /\ (faults' = faults \/ faults' = faults + 1)
  BY DEF Typed, SessionTyped, NoFault, Fault
<1>2. ASSUME NEW s \in {Loop, Event}, calls'[s] # None
      PROVE  /\ calls'[s].phase = "answered" /\ calls'[s].reply \in {Failure, TooLarge} => faults' >= 1
             /\ calls'[s].op \in {"result", "fail"} /\ calls'[s].data = LastFailure /\ faults' <= 1 =>
                  faults' = 1 /\ (calls'[s].phase = "answered" => calls'[s].reply \in {Ok, Conflict})
  <2>1. CASE calls'[s] = calls[s]
    BY <1>1, <1>2, <2>1 DEF LastTry, Reports, LastAttempt, LastFailure
  <2>2. CASE calls'[s] # calls[s]
    <3>1. calls'[s].phase = "sent" /\ (calls'[s].op \in {"result", "fail"} /\ calls'[s].data = LastFailure => faults >= 1)
      BY <1>2, <2>2 DEF Attends, Makes
    <3>2. QED BY <1>1, <3>1
  <2>3. QED BY <2>1, <2>2
<1>3. QED BY <1>2, NextTries

\* What becomes of the call of an activity while the controller serves it.
LEMMA ServesCall ==
  ASSUME Typed, Serves, NEW s \in {Loop, Event}, calls'[s] # None
  PROVE  /\ calls[s] # None
         /\ calls'[s].op = calls[s].op /\ calls'[s].id = calls[s].id /\ calls'[s].lease = calls[s].lease
         /\ calls'[s].data = calls[s].data /\ calls'[s].start = calls[s].start
         /\ calls'[s] = calls[s] \/ (calls'[s].phase = "answered" => Rules(s, calls'[s].reply))
BY DEF Serves, Advancing, Advances

LEMMA ServesKnown ==
  ASSUME Serves
  PROVE  \A i : (Known(i)' <=> Known(i)) /\ (Pending(i)' <=> Pending(i))
BY DEF Serves, Known, Pending

\* What is known has begun.
LEMMA KnownBegun ==
  ASSUME Typed, Handed, NEW i \in Jobs, Known(i)
  PROVE  i \in Begun
<1>1. i # Local
  BY LocalAssumption DEF Jobs
<1>2. QED BY <1>1 DEF Handed, Known, Pending

LEMMA ServesFits ==
  ASSUME IInv, StoreMoves, Fitting, Serves, Grows
  PROVE  Fitting'
<1>1. Typed /\ Handed /\ UNCHANGED <<active, segments, injecting, inbox, prompted, streaming>>
  BY DEF IInv, Serves
<1>2. CASE active # None
  <2>1. PICK job : job = active
    OBVIOUS
  <2>2. Fit(job) /\ Paired(job, calls[Loop]) /\ segments[job.id] # None
    BY <1>2, <2>1 DEF Fitting
  <2>3. Paired(job, calls'[Loop])
    <3>1. calls[Loop] = None => calls'[Loop] = None
      BY <1>1, ServesCall
    <3>2. calls[Loop] # None => calls'[Loop] # None
      BY DEF Serves, Advancing, Advances
    <3>3. QED BY <1>1, <2>2, <3>1, <3>2, ServesCall DEF Paired
  <2>4. job.acknowledged /\ job.id \in Runs' => jobs'[job.id].leaseId = job.lease
    <3>1. SUFFICES ASSUME job.acknowledged, job.id \in Runs' PROVE jobs'[job.id].leaseId = job.lease
      OBVIOUS
    <3>2. job.id \in Begun
      BY <1>1, <1>2, <2>1, <3>1 DEF Handed
    <3>3. job.id \in Runs /\ jobs'[job.id] = jobs[job.id]
      BY <1>1, <3>1, <3>2, RunsOn
    <3>4. QED BY <2>2, <3>1, <3>3 DEF Fit
  <2>5. Fit(job)'
    BY <1>1, <2>2, <2>4 DEF Fit, Known, Pending, HasUserIn, LastFailure, Flagged, Grows
  <2>6. QED BY <1>1, <2>1, <2>2, <2>3, <2>5, NextFitting
<1>3. CASE active = None
  BY <1>1, <1>3, NextFitting
<1>4. QED BY <1>2, <1>3

\* The answers after the step, spelled out.
LEMMA NextAnswer ==
  ASSUME IInv', NEW s \in {Loop, Event}, calls'[s] # None, calls'[s].phase = "answered"
  PROVE  /\ calls'[s].op # "poll" => calls'[s].reply \in {Ok, Conflict, TooLarge, Failure}
         /\ calls'[s].reply.kind \in {"job", "resume"} => calls'[s].reply.id \in Jobs
<1>1. s \in Slots' /\ CallsTyped'
  BY SlotFacts DEF IInv, Typed, Slots
<1>2. /\ calls'[s].reply \in Reply
      /\ calls'[s].op # "poll" => calls'[s].reply \in {Ok, Conflict, TooLarge, Failure}
  BY <1>1 DEF CallsTyped, CallFits, Reply, Control, Jobs, Leases, Ok, Idle, Conflict, TooLarge, Failure
<1>3. QED BY <1>2 DEF Reply, Control, Ok, Idle, Conflict, TooLarge, Failure

LEMMA ServesOffers ==
  ASSUME IInv, IInv', StoreMoves, Offered, Serves
  PROVE  Offered'
<1>1. Typed /\ Handed
  BY DEF IInv
<1>2. ASSUME NEW i \in Begun, i \in Runs' PROVE i \in Runs /\ jobs'[i] = jobs[i]
  BY <1>1, <1>2, RunsOn
<1>3. ASSUME calls'[Loop] # None, calls'[Loop].op = "ack", NEW i, i = calls'[Loop].id
      PROVE  /\ ~Known(i)'
             /\ calls'[Loop].phase = "answered" /\ calls'[Loop].reply = Ok /\ i \in Runs' =>
                  jobs'[i].leaseId = calls'[Loop].lease
  <2>1. /\ calls[Loop] # None /\ calls[Loop].op = "ack" /\ calls[Loop].id = i
        /\ calls'[Loop].lease = calls[Loop].lease
        /\ calls'[Loop] = calls[Loop] \/ (calls'[Loop].phase = "answered" => Rules(Loop, calls'[Loop].reply))
    BY <1>1, <1>3, ServesCall
  <2>2. ~Known(i)'
    BY <2>1, ServesKnown DEF Offered
  <2>3. ASSUME calls'[Loop] = calls[Loop], calls'[Loop].phase = "answered", calls'[Loop].reply = Ok, i \in Runs'
        PROVE  jobs'[i].leaseId = calls'[Loop].lease
    <3>1. i \in Begun
      BY <1>1, <2>1, <2>3 DEF Handed
    <3>2. QED BY <1>2, <2>1, <2>3, <3>1 DEF Offered
  <2>4. QED BY <2>1, <2>2, <2>3 DEF Rules
<1>4. ASSUME calls'[Loop] # None, calls'[Loop].phase = "answered", calls'[Loop].reply.kind \in {"job", "resume"},
             NEW i, i = calls'[Loop].reply.id
      PROVE  /\ calls'[Loop].reply.kind = "job" => ~Known(i)'
             /\ calls'[Loop].reply.kind = "resume" =>
                  /\ i # calls'[Loop].id
                  /\ i \in Runs' => jobs'[i].leaseId = calls'[Loop].reply.lease
  <2>1. calls'[Loop] = calls[Loop] \/ Rules(Loop, calls'[Loop].reply)
    BY <1>1, <1>4, ServesCall
  <2>2. CASE calls'[Loop] = calls[Loop]
    <3>1. Answered(Loop)
      BY <1>4, <2>2 DEF Answered
    <3>2. /\ calls[Loop].reply.kind = "job" => ~Known(i)
          /\ calls[Loop].reply.kind = "resume" =>
               /\ i # calls[Loop].id /\ i \in Begun
               /\ i \in Runs => jobs[i].leaseId = calls[Loop].reply.lease
      BY <1>1, <1>4, <2>2, <3>1 DEF Handed, Offered
    <3>3. QED BY <1>2, <2>2, <3>2, ServesKnown
  <2>3. CASE Rules(Loop, calls'[Loop].reply)
    <3>1. i \in Jobs
      BY <1>4, NextAnswer
    <3>2. calls'[Loop].reply.kind = "job" => ~Known(i)
      BY <1>1, <1>4, <2>3, <3>1, KnownBegun DEF Rules
    <3>3. calls'[Loop].reply.kind = "resume" => /\ i # calls'[Loop].id
                                                /\ jobs'[i].leaseId = calls'[Loop].reply.lease
      BY <1>1, <1>4, <2>3, ServesCall DEF Rules
    <3>4. QED BY <3>2, <3>3, ServesKnown
  <2>4. QED BY <2>1, <2>2, <2>3
<1>5. QED BY <1>3, <1>4, NextOffered

LEMMA ServesReports ==
  ASSUME IInv, StoreMoves, Reported, Serves
  PROVE  Reported'
<1>1. Typed /\ Begun \subseteq Begun' /\ UNCHANGED <<segments, active>>
  BY BegunStays DEF IInv, Serves
<1>2. ASSUME NEW s \in {Loop, Event}, calls'[s] # None, calls'[s].op \in {"result", "fail"}
      PROVE  \E i : /\ i = calls'[s].id
                    /\ \/ /\ i \in Begun'
                          /\ i \in Runs' => /\ jobs'[i].leaseId = calls'[s].lease
                                            /\ ~(calls'[s].phase = "answered" /\ calls'[s].reply \in {Ok, Conflict})
                       \/ /\ HasUserIn(segments', i) /\ ~Known(i)'
                          /\ active' # None /\ active'.id = i => active'.sent
  <2>1. PICK i : i = calls[s].id
    OBVIOUS
  <2>2. /\ calls'[s].id = i /\ calls'[s].lease = calls[s].lease /\ Reports(s)
        /\ calls'[s] = calls[s] \/ (calls'[s].phase = "answered" => Rules(s, calls'[s].reply))
    BY <1>1, <1>2, <2>1, ServesCall DEF Reports
  <2>3. CASE i \in Begun /\ (i \in Runs => jobs[i].leaseId = calls[s].lease /\ ~Told(s))
    <3>1. ASSUME i \in Runs'
          PROVE  /\ jobs'[i].leaseId = calls'[s].lease
                 /\ ~(calls'[s].phase = "answered" /\ calls'[s].reply \in {Ok, Conflict})
      <4>1. i \in Runs /\ jobs'[i] = jobs[i]
        BY <1>1, <2>3, <3>1, RunsOn
      <4>2. jobs'[i].leaseId = calls[s].lease /\ ~Told(s)
        BY <2>3, <4>1
      <4>3. Rules(s, calls'[s].reply) => calls'[s].reply \notin {Ok, Conflict}
        BY <2>1, <2>2, <3>1, <4>2 DEF Rules
      <4>4. QED BY <2>2, <4>2, <4>3 DEF Told
    <3>2. QED BY <1>1, <2>2, <2>3, <3>1
  <2>4. CASE HasUserIn(segments, i) /\ ~Known(i) /\ (Has(i) => active.sent)
    BY <1>1, <2>2, <2>4, ServesKnown DEF Has
  <2>5. QED BY <2>1, <2>2, <2>3, <2>4 DEF Reported
<1>3. QED BY <1>1, <1>2, NextReported

LEMMA ServesDrops ==
  ASSUME IInv, StoreMoves, Dropped, Serves, Grows
  PROVE  Dropped'
<1>1. Typed /\ Handed /\ UNCHANGED <<segments, active, up>>
  BY DEF IInv, Serves
<1>2. ASSUME faults' <= 1, up, NEW i \in Jobs, Resumed(i)', Known(i)', ~(active' # None /\ active'.id = i)
      PROVE  ~Pending(i)' /\ HasUserIn(segments', i)
  <2>1. Known(i) /\ i \in Begun
    BY <1>1, <1>2, KnownBegun, ServesKnown
  <2>2. CASE i \in Runs'
    <3>1. i \in Runs
      BY <1>1, <2>1, <2>2, RunsOn
    <3>2. QED BY <1>1, <1>2, <2>1, <3>1, ServesKnown DEF Dropped, Resumed, Has, Grows
  <2>3. CASE Answered(Loop)' /\ calls'[Loop].reply.kind = "resume" /\ calls'[Loop].reply.id = i
    <3>1. calls'[Loop] # None /\ calls'[Loop].phase = "answered"
      BY <2>3 DEF Answered, Loop
    <3>2. calls'[Loop] = calls[Loop] \/ Rules(Loop, calls'[Loop].reply)
      BY <1>1, <3>1, ServesCall
    <3>3. Resumed(i)
      BY <2>3, <3>1, <3>2 DEF Resumed, Answered, Rules
    <3>4. QED BY <1>1, <1>2, <2>1, <3>3, ServesKnown DEF Dropped, Has, Grows
  <2>4. QED BY <1>2, <2>2, <2>3 DEF Resumed, Loop
<1>3. QED BY <1>1, <1>2, NextDropped

LEMMA ServesTries ==
  ASSUME IInv, IInv', LastTry, Serves, NoFault \/ Fault
  PROVE  LastTry'
<1>1. Typed /\ faults \in Nat /\ (faults' = faults \/ (Fault /\ faults' = faults + 1))
  BY DEF IInv, Typed, SessionTyped, NoFault, Fault
<1>2. ASSUME NEW s \in {Loop, Event}, calls'[s] # None
      PROVE  /\ calls'[s].phase = "answered" /\ calls'[s].reply \in {Failure, TooLarge} => faults' >= 1
             /\ calls'[s].op \in {"result", "fail"} /\ calls'[s].data = LastFailure /\ faults' <= 1 =>
                  faults' = 1 /\ (calls'[s].phase = "answered" => calls'[s].reply \in {Ok, Conflict})
  <2>1. /\ calls[s] # None /\ calls'[s].op = calls[s].op /\ calls'[s].data = calls[s].data
        /\ calls'[s] = calls[s] \/ (calls'[s].phase = "answered" => Rules(s, calls'[s].reply))
    BY <1>1, <1>2, ServesCall
  <2>2. ASSUME calls'[s].phase = "answered", Rules(s, calls'[s].reply), calls'[s].reply \in {Failure, TooLarge}
        PROVE  faults' = faults + 1
    BY <2>2 DEF Rules, Fault
  <2>3. calls'[s].phase = "answered" /\ calls'[s].op # "poll" => calls'[s].reply \in {Ok, Conflict, TooLarge, Failure}
    BY <1>2, NextAnswer
  <2>4. ASSUME calls'[s].op \in {"result", "fail"}, calls'[s].data = LastFailure, faults' <= 1
        PROVE  faults = 1 /\ faults' = 1
               /\ (calls'[s] = calls[s] => (calls'[s].phase = "answered" => calls'[s].reply \in {Ok, Conflict}))
    <3>1. Reports(s) /\ LastAttempt(s)
      BY <2>1, <2>4 DEF Reports, LastAttempt, LastFailure
    <3>2. QED BY <1>1, <2>1, <2>4, <3>1 DEF LastTry
  <2>5. CASE calls'[s] = calls[s]
    BY <1>1, <2>1, <2>4, <2>5 DEF LastTry
  <2>6. CASE calls'[s].phase = "answered" => Rules(s, calls'[s].reply)
    BY <1>1, <2>2, <2>3, <2>4, <2>6
  <2>7. QED BY <2>1, <2>5, <2>6
<1>3. QED BY <1>2, NextTries

LEMMA StirsKeep ==
  ASSUME IInv, Prompting, Stirs, Once', NoFault \/ Fault
  PROVE  Prompting'
<1>1. /\ Typed /\ Grows /\ UNCHANGED <<store, calls, live, up, starts>> /\ up
      /\ faults \in Nat /\ (faults' = faults \/ faults' = faults + 1)
  BY FaultsGrow DEF IInv, Stirs, Typed, SessionTyped, NoFault, Fault
<1>2. /\ Runs' = Runs /\ Begun' = Begun /\ jobs' = jobs
      /\ \A i \in Jobs : /\ Known(i)' => Known(i)
                         /\ Pending(i)' => Pending(i)
                         /\ segments[i] # None => segments'[i] # None
                         /\ HasUserIn(segments, i) => HasUserIn(segments', i) \/ Marks(i)
  BY <1>1 DEF store, Runs, Begun, Stirs
<1>3. Attended'
  BY <1>1 DEF Prompting, Attended, Loop, Event
<1>4. Fitting'
  <2>1. CASE active # None
    <3>1. PICK job : job = active' /\ Goes(job)
      BY <2>1 DEF Stirs
    <3>2. /\ active.id \in Jobs /\ segments[active.id] # None /\ Paired(active, calls[Loop])
          /\ job.id = active.id /\ job.lease = active.lease /\ job.acknowledged = active.acknowledged
      BY <1>1, <2>1, <3>1, LoopTypes DEF Prompting, Fitting, Goes, Same, ActiveJob
    <3>3. Paired(job, calls'[Loop])
      BY <1>1, <3>1, <3>2 DEF Goes, Paired
    <3>4. QED BY <1>2, <3>1, <3>2, <3>3, NextFitting DEF Goes
  <2>2. CASE active = None
    BY <2>2, NextFitting DEF Stirs
  <2>3. QED BY <2>1, <2>2
<1>5. Offered'
  <2>1. ASSUME calls'[Loop] # None, calls'[Loop].op = "ack", NEW i, i = calls'[Loop].id
        PROVE  /\ ~Known(i)'
               /\ calls'[Loop].phase = "answered" /\ calls'[Loop].reply = Ok /\ i \in Runs' =>
                    jobs'[i].leaseId = calls'[Loop].lease
    <3>1. i \in Jobs
      BY <1>1, <2>1, CallJobs
    <3>2. QED BY <1>1, <1>2, <2>1, <3>1 DEF Prompting, Offered
  <2>2. ASSUME calls'[Loop] # None, calls'[Loop].phase = "answered", calls'[Loop].reply.kind \in {"job", "resume"},
               NEW i, i = calls'[Loop].reply.id
        PROVE  /\ calls'[Loop].reply.kind = "job" => ~Known(i)'
               /\ calls'[Loop].reply.kind = "resume" =>
                    /\ i # calls'[Loop].id
                    /\ i \in Runs' => jobs'[i].leaseId = calls'[Loop].reply.lease
    <3>1. Answered(Loop) /\ i \in Jobs
      BY <1>1, <2>2, CallJobs DEF Answered
    <3>2. QED BY <1>1, <1>2, <2>2, <3>1 DEF Prompting, Offered
  <2>3. QED BY <2>1, <2>2, NextOffered
<1>6. Reported'
  <2>1. ASSUME NEW s \in {Loop, Event}, calls'[s] # None, calls'[s].op \in {"result", "fail"}
        PROVE  \E i : /\ i = calls'[s].id
                      /\ \/ /\ i \in Begun'
                            /\ i \in Runs' => /\ jobs'[i].leaseId = calls'[s].lease
                                              /\ ~(calls'[s].phase = "answered" /\ calls'[s].reply \in {Ok, Conflict})
                         \/ /\ HasUserIn(segments', i) /\ ~Known(i)'
                            /\ active' # None /\ active'.id = i => active'.sent
    <3>1. PICK i : i = calls[s].id
      OBVIOUS
    <3>2. i \in Jobs /\ Reports(s)
      BY <1>1, <2>1, <3>1, CallJobs DEF Reports
    <3>3. CASE i \in Begun /\ (i \in Runs => jobs[i].leaseId = calls[s].lease /\ ~Told(s))
      BY <1>1, <1>2, <3>1, <3>3 DEF Told
    <3>4. CASE HasUserIn(segments, i) /\ ~Known(i) /\ (Has(i) => active.sent)
      <4>1. HasUserIn(segments', i) /\ ~Known(i)'
        BY <1>2, <3>2, <3>4 DEF Marks
      <4>2. active' # None /\ active'.id = i => active'.sent
        BY <3>4 DEF Stirs, Goes, Same, Has
      <4>3. QED BY <1>1, <3>1, <4>1, <4>2
    <3>5. QED BY <3>1, <3>2, <3>3, <3>4 DEF Prompting, Reported
  <2>2. QED BY <1>1, <2>1, NextReported
<1>7. Dropped'
  <2>1. ASSUME faults' <= 1, up, NEW i \in Jobs, Resumed(i)', Known(i)', ~(active' # None /\ active'.id = i)
        PROVE  ~Pending(i)' /\ HasUserIn(segments', i)
    <3>1. Resumed(i)
      BY <1>1, <1>2, <2>1 DEF Resumed, Answered, Loop
    <3>2. ~Has(i)
      BY <2>1 DEF Stirs, Goes, Same, Has
    <3>3. ~Pending(i) /\ HasUserIn(segments, i)
      BY <1>1, <1>2, <2>1, <3>1, <3>2 DEF Prompting, Dropped, Grows
    <3>4. QED BY <1>2, <3>2, <3>3 DEF Marks
  <2>2. QED BY <1>1, <2>1, NextDropped
<1>8. LastTry'
  <2>1. ASSUME NEW s \in {Loop, Event}, calls'[s] # None
        PROVE  /\ calls'[s].phase = "answered" /\ calls'[s].reply \in {Failure, TooLarge} => faults' >= 1
               /\ calls'[s].op \in {"result", "fail"} /\ calls'[s].data = LastFailure /\ faults' <= 1 =>
                    faults' = 1 /\ (calls'[s].phase = "answered" => calls'[s].reply \in {Ok, Conflict})
    BY <1>1, <2>1 DEF Prompting, LastTry, Reports, LastAttempt, LastFailure
  <2>2. QED BY <2>1, NextTries
<1>9. QED BY <1>3, <1>4, <1>5, <1>6, <1>7, <1>8 DEF Prompting

\* Without a call or a job of the extension, only two parts say anything.
LEMMA NothingAwaited ==
  ASSUME Typed, UNCHANGED store, calls'[Loop] = None, calls'[Event] = None, active' = None,
         up' => live', Once', Dropped'
  PROVE  Prompting'
<1>1. Attended' /\ LastTry' /\ Offered'
  BY SlotFacts DEF Attended, LastTry, Reports, Offered, Answered, Loop, Event
<1>2. Fitting' /\ Reported'
  BY NextFitting, NextReported
<1>3. QED BY <1>1, <1>2 DEF Prompting

LEMMA ReloadKeeps ==
  ASSUME IInv, Prompting, Reload
  PROVE  Prompting'
<1>1. /\ Typed /\ up /\ inbox = <<>> /\ active' = None
      /\ calls' = Orphaned({"loop", "event"}) /\ faults' = faults + 1 /\ faults \in Nat
      /\ UNCHANGED <<store, live, up, segments, inbox, prompted>>
  BY DEF IInv, Reload, Fault, Typed, SessionTyped, server, process, agent
<1>2. calls'[Loop] = None /\ calls'[Event] = None
  BY <1>1, SlotFacts DEF Orphaned, Loop, Event
<1>3. Once'
  BY <1>1 DEF Prompting, Once, Jobs, Pending
<1>4. ASSUME faults' <= 1, NEW i \in Jobs, Resumed(i)', Known(i)'
      PROVE  ~Pending(i)' /\ HasUserIn(segments', i)
  <2>1. i \in Runs /\ Known(i) /\ ~Pending(i)' /\ faults <= 1
    BY <1>1, <1>2, <1>4 DEF Resumed, Answered, Known, Pending, Runs, store, Loop
  <2>2. CASE Has(i)
    <3>1. Fit(active) /\ active.id = i /\ prompted[i] > 0 /\ active \in ActiveJob
      BY <1>1, <2>1, <2>2, LoopTypes DEF Prompting, Fitting, Has, Known, Pending
    <3>2. active.sent
      BY <2>1, <3>1 DEF Fit
    <3>3. QED BY <1>1, <2>1, <3>1, <3>2 DEF Fit
  <2>3. CASE ~Has(i)
    BY <1>1, <2>1, <2>3 DEF Prompting, Dropped, Resumed
  <2>4. QED BY <2>2, <2>3
<1>5. Dropped'
  BY <1>1, <1>4, NextDropped
<1>6. QED BY <1>1, <1>2, <1>3, <1>5, NothingAwaited DEF Prompting, Attended

LEMMA TuiExitsKeeps ==
  ASSUME IInv, Prompting, TuiExits
  PROVE  Prompting'
<1>1. /\ Typed /\ ~up' /\ inbox' = <<>> /\ active' = None
      /\ calls' = Orphaned({"loop", "event"}) /\ faults' = faults + 1 /\ faults \in Nat
      /\ UNCHANGED <<store, prompted>>
  BY DEF IInv, TuiExits, Fault, Typed, SessionTyped
<1>2. calls'[Loop] = None /\ calls'[Event] = None
  BY <1>1, SlotFacts DEF Orphaned, Loop, Event
<1>3. Once' /\ Dropped'
  BY <1>1 DEF Prompting, Once, Dropped, Jobs, Pending
<1>4. QED BY <1>1, <1>2, <1>3, NothingAwaited

LEMMA StartSessionKeeps ==
  ASSUME IInv, Sole, Prompting, StartSession
  PROVE  Prompting'
<1>1. /\ Typed /\ ~up /\ ~live /\ live'
      /\ UNCHANGED <<store, calls, active, inbox, prompted, faults>>
  BY DEF IInv, StartSession, NoFault, network, agent, bridge
<1>2. active' = None /\ calls'[Loop] = None /\ calls'[Event] = None
  BY <1>1 DEF Typed, EndedIsEmpty, Sole, Ended
<1>3. Once'
  BY <1>1 DEF Prompting, Once, Jobs, Pending
<1>4. ASSUME faults <= 1, NEW i \in Jobs PROVE ~Resumed(i)'
  BY <1>1, <1>2, <1>4 DEF Sole, Left, Resumed, Runs, store, Answered, Loop
<1>5. Dropped'
  BY <1>1, <1>4, NextDropped
<1>6. QED BY <1>1, <1>2, <1>3, <1>5, NothingAwaited

LEMMA AttendsKeep ==
  ASSUME IInv, IInv', Prompting, Attends, NoFault \/ Fault
  PROVE  Prompting'
<1>1. Typed /\ Grows
  BY FaultsGrow DEF IInv
<1>2. Attended'
  BY DEF Prompting, Attended, Attends, Makes, Loop, Event
<1>3. Fitting'
  BY <1>1, AttendsFits DEF Prompting
<1>4. Offered'
  BY <1>1, <1>3, AttendsOffers DEF Prompting
<1>5. Reported'
  BY <1>1, <1>3, <1>4, AttendsReports DEF Prompting
<1>6. Once' /\ Dropped' /\ LastTry'
  BY <1>1, AttendsOnce, AttendsDrops, AttendsTries DEF Prompting
<1>7. QED BY <1>2, <1>3, <1>4, <1>5, <1>6 DEF Prompting

LEMMA ServesKeep ==
  ASSUME IInv, IInv', StoreMoves, Prompting, Serves, NoFault \/ Fault
  PROVE  Prompting'
<1>1. Typed /\ Grows
  BY FaultsGrow DEF IInv
<1>2. Attended'
  BY <1>1, ServesCall DEF Prompting, Attended, Serves, Loop, Event
<1>3. Once'
  BY <1>1 DEF Prompting, Once, Serves, Jobs, Pending, Grows
<1>4. Fitting' /\ Dropped'
  BY <1>1, ServesFits, ServesDrops DEF Prompting
<1>5. Offered' /\ Reported' /\ LastTry'
  BY ServesOffers, ServesReports, ServesTries DEF Prompting
<1>6. QED BY <1>2, <1>3, <1>4, <1>5 DEF Prompting

\* The kinds of steps.
LEMMA StepKinds ==
  ASSUME IInv, Prompting, [Next]_vars
  PROVE  Serves \/ Attends \/ (Stirs /\ Once') \/ Reload \/ TuiExits \/ StartSession
<1>1. /\ Typed /\ Claimed /\ Attended /\ Fitting /\ Offered /\ Reported /\ Once /\ Dropped /\ LastTry
  BY DEF IInv, Prompting
<1>2. CASE Controller
  BY <1>1, <1>2, ControllerAnswers
<1>3. CASE Extension
  BY <1>1, <1>3, ExtensionAttends
<1>4. CASE Pi
  BY <1>1, <1>4, InputEventStirs, RecordPromptStirs, AgentSettledAttends DEF Pi
<1>5. CASE Clients
  BY <1>1, <1>5, ClientsServe, TypePromptStirs
<1>6. CASE Faults
  BY <1>1, <1>6, FaultsServe, PromptLostStirs
<1>7. CASE UNCHANGED vars
  BY <1>1, <1>7, StutterServes
<1>8. QED BY <1>2, <1>3, <1>4, <1>5, <1>6, <1>7 DEF Next

LEMMA PromptingStays ==
  ASSUME IInv, Sole, Prompting, [Next]_vars
  PROVE  Prompting'
<1>1. IInv' /\ StoreMoves /\ (NoFault \/ Fault)
  BY IInvStays, NextMoves, FaultsCount DEF Moves
<1>2. QED
  BY <1>1, StepKinds, ServesKeep, AttendsKeep, StirsKeep, ReloadKeeps, TuiExitsKeeps, StartSessionKeeps

LEMMA InitPrompting ==
  ASSUME Init
  PROVE  Prompting
<1>1. /\ calls[Loop] = None /\ calls[Event] = None /\ live /\ active = None
      /\ inbox = <<>> /\ \A i \in Jobs : prompted[i] = 0
  BY SlotFacts DEF Init
<1>2. Once /\ Dropped
  BY <1>1 DEF Once, Dropped, Known, Pending
<1>3. QED BY <1>1, <1>2 DEF Prompting, Attended, Fitting, Offered, Reported, LastTry, Reports, Answered

\* A job is handed over by the extension alone, and only while it may be.
LEMMA HandsOverOnce ==
  ASSUME IInv, Prompting, [Next]_vars, NEW i \in Jobs, Pending(i)', ~Pending(i)
  PROVE  /\ faults <= 1 => prompted[i] = 0
         /\ active # None /\ active.id = i => ~active.interrupted /\ active.terminal = None
<1>1. Typed /\ (Serves \/ Attends \/ Stirs \/ Reload \/ TuiExits \/ StartSession)
  BY StepKinds DEF IInv
<1>2. inbox' # inbox /\ DOMAIN inbox' # {}
  BY DEF Pending
<1>3. ~Serves /\ ~Stirs
  BY ServesKnown DEF Stirs
<1>4. ~Reload /\ ~StartSession /\ ~TuiExits
  BY <1>2 DEF Reload, StartSession, TuiExits, agent
<1>5. Attends
  BY <1>1, <1>3, <1>4
<1>6. Works
  BY <1>2, <1>5 DEF Attends, Clears, Idles
<1>7. PICK job \in ActiveJob :
        /\ Hands(job) /\ Fit(job)
        /\ active # None => /\ job.id = active.id /\ job.interrupted = active.interrupted
                            /\ job.terminal = active.terminal
        /\ \A j : j # job.id => (Pending(j)' <=> Pending(j))
  BY <1>1, <1>2, <1>5, <1>6, AttendsKnown
<1>8. job.id = i
  BY <1>7
<1>9. ASSUME faults <= 1 PROVE prompted[i] = 0
  <2>1. ~job.sent /\ job.dispatched = "no"
    BY <1>7 DEF Hands, Dispatchable
  <2>2. ~Known(i)
    BY <1>7, <1>8, <1>9, <2>1 DEF Fit
  <2>3. QED BY <1>1, <2>2 DEF Known, Typed, AgentTyped
<1>10. QED BY <1>7, <1>8, <1>9 DEF Hands

\* The session has the prompt of every job that may be handed over again.
THEOREM PromptingHolds == Spec => []Prompting
<1>1. IInv /\ Sole /\ Prompting /\ [Next]_vars => Prompting'
  BY PromptingStays
<1>2. QED BY <1>1, InitPrompting, Invariant, SoleHolds, PTL DEF Spec

(* A job's prompt enters a session at most once, over one lost call, one   *)
(* reload of the extension that resumes a running job, or one restart of   *)
(* the TUI (hasUserAfterMarker in acceptJob and inspectActiveWhenIdle).    *)
THEOREM PromptedOnceHolds == Spec => []PromptedOnce
<1>1. Prompting => PromptedOnce
  BY DEF Prompting, Once, PromptedOnce
<1>2. QED BY <1>1, PromptingHolds, PTL

(* Once an abort or the local user has interrupted a job, or its outcome   *)
(* is decided, its prompt is not handed to pi any more, nor is it a second *)
(* time over one fault (dispatchActive and its callers); and the job is    *)
(* decided once.                                                           *)
THEOREM DecidedOnceHolds == Spec => DecidedOnce
<1>1. IInv /\ Prompting /\ [Next]_vars =>
        [\A i \in Jobs : i \in HandedOver' \ HandedOver =>
           /\ faults <= 1 => prompted[i] = 0
           /\ active # None /\ active.id = i => ~active.interrupted /\ active.terminal = None]_vars
  <2>1. ASSUME IInv, Prompting, [Next]_vars, NEW i \in Jobs, i \in HandedOver', i \notin HandedOver
        PROVE  /\ faults <= 1 => prompted[i] = 0
               /\ active # None /\ active.id = i => ~active.interrupted /\ active.terminal = None
    <3>1. Pending(i)' /\ ~Pending(i)
      BY <2>1 DEF HandedOver, Pending
    <3>2. QED BY <2>1, <3>1, HandsOverOnce
  <2>2. QED BY <2>1
<1>2. Spec => HandedOverOnce
  BY <1>1, Invariant, PromptingHolds, PTL DEF Spec, HandedOverOnce
<1>3. QED BY <1>2, LifecycleHolds, PTL DEF DecidedOnce

-----------------------------------------------------------------------------
(* Reports of the same job.  Without a fault no lease comes back, so that  *)
(* a job whose acknowledgement is refused has been settled meanwhile, and  *)
(* a report of it that is left behind meets no second one.                 *)

\* Only an ended session and a lease that expires give a job back.
LEMMA SteadySteps ==
  ASSUME Typed, Claimed, [Next]_vars
  PROVE  Steady \/ MarkStopped \/ \E i \in Store!Ids : LeaseExpires(i)
<1>1. CASE Controller
  <2>1. ASSUME NEW s \in Slots, Poll(s) PROVE Steady
    BY <2>1, NoMove, Leasing DEF Poll
  <2>2. ASSUME NEW s \in Slots, Ack(s) PROVE Steady
    BY <2>2, NoMove, Acknowledging DEF Ack
  <2>3. ASSUME NEW s \in Slots, Result(s) PROVE Steady
    <3>1. calls[s].data \in Outcomes /\ calls[s].data.op = "result"
      BY <2>3 DEF Result, Arrived, Typed, CallsTyped, CallFits, InPhase
    <3>2. calls[s].data.text \in Authors \cup {Nothing} /\ calls[s].data.interrupted \in BOOLEAN
      BY <3>1 DEF Outcomes
    <3>3. QED BY <2>3, <3>2, Completing, NoMove DEF Result
  <2>4. ASSUME NEW s \in Slots, FailReport(s) PROVE Steady
    <3>1. calls[s].data \in Outcomes /\ calls[s].data.op = "fail"
      BY <2>4 DEF FailReport, Arrived, Typed, CallsTyped, CallFits, InPhase
    <3>2. calls[s].data.code \in Codes
      BY <3>1 DEF Outcomes
    <3>3. QED BY <2>4, <3>2, Failing, NoMove DEF FailReport
  <2>5. ASSUME NEW s \in Slots, Refuse(s) \/ ControlAck(s) \/ PollExpires(s) PROVE Steady
    BY <2>5, NoMove DEF Refuse, ControlAck, PollExpires
  <2>6. QED BY <1>1, <2>1, <2>2, <2>3, <2>4, <2>5 DEF Controller, Serve
<1>2. CASE Extension
  <2>1. UNCHANGED store
    BY <1>2 DEF Extension, PollLoop, InspectActive, SendPoll, SendControlAck, PollGetsNothing, PollGetsJob,
                PollGetsResume, PollGetsControl, AckAnswered, ControlAckAnswered, TerminalAnswered,
                DispatchOverdue, LoopAt, LoopGets, LoopStep
  <2>2. QED BY <2>1, NoMove
<1>3. CASE Pi
  <2>1. UNCHANGED store
    BY <1>3 DEF Pi, InputEvent, RecordPrompt, AgentSettled, PiStep
  <2>2. QED BY <2>1, NoMove
<1>4. CASE Clients
  BY <1>4, NoMove, Submitting, Cancelling DEF Clients, Submit, Cancel, AbortSession, StartSession, TypePrompt, PiStep
<1>5. CASE Faults
  <2>1. "extension-unresponsive" \in Codes
    BY DEF Codes
  <2>2. Watchdog => Steady
    BY <2>1, Failing DEF Watchdog
  <2>3. QED BY <1>5, <2>2, NoMove DEF Faults, CallFails, OrphanLost, Oversized, PromptLost, Reload, TuiExits, PiStep
<1>6. CASE UNCHANGED vars
  BY <1>6, NoMove DEF vars
<1>7. QED BY <1>1, <1>2, <1>3, <1>4, <1>5, <1>6 DEF Next

\* Without a fault the session lives and its lease is on its way.
LEMMA NoRequeue ==
  ASSUME IInv, Lives, LetIn, Alone, Moves, [Next]_vars, faults' = 0
  PROVE  Steady /\ faults = 0 /\ NoFault
<1>1. faults = 0 /\ NoFault /\ ~Fault
  BY LivesStays DEF NoFault, Fault
<1>2. ~MarkStopped
  BY <1>1 DEF Lives, MarkStopped
<1>3. ASSUME NEW i \in Store!Ids, LeaseExpires(i) PROVE FALSE
  <2>1. i \in 1..sequence /\ jobs[i].status = "leased"
    BY <1>3, StoreFacts DEF IInv, LeaseExpires, Store!RequeueLease
  <2>2. UnderWay(jobs[i].leaseId)
    BY <1>1, <2>1 DEF Alone, Leased
  <2>3. OnItsWay(i)
    BY <2>2 DEF UnderWay, OnItsWay, InPhase
  <2>4. QED BY <1>1, <1>3, <2>3 DEF LeaseExpires
<1>4. QED BY <1>1, <1>2, <1>3, SteadySteps DEF IInv

\* A settled job, and one that has its lease still or is settled.
Gone(i)    == i \in 1..sequence /\ jobs[i].status \in Store!Terminal
Kept(i, l) == i \in 1..sequence /\ (jobs[i].leaseId = l \/ Gone(i))

LEMMA GoneStays ==
  ASSUME Typed, StoreMoves, NEW i, Gone(i)
  PROVE  Gone(i)' /\ i \in Begun /\ i \notin Runs
<1>1. i \in 1..sequence' /\ i \in 1..sequence
  BY DEF Gone, Typed, StoreTyped, StoreMoves
<1>2. JobMoves(jobs[i], jobs'[i])
  BY <1>1 DEF StoreMoves
<1>3. jobs'[i].status \in Store!Terminal
  BY <1>2 DEF Gone, JobMoves, Store!Terminal
<1>4. QED BY <1>1, <1>3 DEF Gone, Begun, Runs, Store!Terminal

LEMMA KeptStays ==
  ASSUME Typed, StoreMoves, Steady, NEW l \in Leases, NEW i, Kept(i, l)
  PROVE  Kept(i, l)'
<1>1. CASE Gone(i)
  BY <1>1, GoneStays DEF Gone, Kept
<1>2. CASE ~Gone(i)
  <2>1. i \in 1..sequence /\ i \in 1..sequence' /\ jobs[i].leaseId = l /\ l # 0
    BY <1>2 DEF Kept, Leases, Typed, StoreTyped, StoreMoves
  <2>2. JobMoves(jobs[i], jobs'[i]) /\ jobs[i].status \in Store!Active
        /\ (jobs'[i] = jobs[i] \/ jobs'[i].status # "queued")
    BY <2>1 DEF StoreMoves, Steady, Typed, StoreTyped
  <2>3. jobs'[i].leaseId = l \/ jobs'[i].status \in Store!Terminal
    BY <2>1, <2>2 DEF JobMoves, Store!Active
  <2>4. QED BY <2>1, <2>3 DEF Kept, Gone
<1>3. QED BY <1>1, <1>2

\* A job that is offered or acknowledged is kept, and one whose
\* acknowledgement was refused is settled.
Delivered ==
  faults = 0 =>
    /\ calls[Loop] # None /\ calls[Loop].op = "ack" =>
         /\ Kept(calls[Loop].id, calls[Loop].lease)
         /\ calls[Loop].phase = "answered" /\ calls[Loop].reply # Ok => Gone(calls[Loop].id)
    /\ Answered(Loop) /\ calls[Loop].reply.kind = "job" =>
         Kept(calls[Loop].reply.id, calls[Loop].reply.lease)

LEMMA DeliveredStays ==
  ASSUME IInv, IInv', Sole, Prompting, Delivered, [Next]_vars
  PROVE  Delivered'
<1> SUFFICES ASSUME faults' = 0 PROVE Delivered'
  BY DEF Delivered
<1>1. /\ Typed /\ Moves /\ StoreMoves /\ Steady /\ faults = 0 /\ NoFault
  BY NextMoves, NoRequeue DEF IInv, Moves, Sole
<1>2. ASSUME NEW i, NEW l \in Leases, Kept(i, l) PROVE Kept(i, l)'
  BY <1>1, <1>2, KeptStays
<1>3. calls[Loop] # None => CallFits(calls[Loop], Loop) /\ calls[Loop] \in HttpCall
  BY <1>1, SlotFacts DEF Typed, CallsTyped
<1>4. ASSUME Answered(Loop) PROVE calls[Loop].reply.id \in Jobs /\ calls[Loop].reply.lease \in Leases
  <2>1. calls[Loop].op = "poll" /\ InPhase(Loop, "answered")
    BY <1>4 DEF Answered, InPhase, IInv, Handed
  <2>2. QED BY <1>1, <1>4, <2>1, AnsweredJob DEF Answered
<1> DEFINE Acked == calls'[Loop] # None /\ calls'[Loop].op = "ack"
           Told2 == calls'[Loop].phase = "answered"
<1>5. CASE calls'[Loop] = calls[Loop]
  <2>1. ASSUME Acked PROVE /\ Kept(calls[Loop].id, calls[Loop].lease)'
                           /\ Told2 /\ calls'[Loop].reply # Ok => Gone(calls[Loop].id)'
    <3>1. calls[Loop].lease \in Leases
      BY <1>3, <1>5, <2>1 DEF CallFits
    <3>2. QED BY <1>1, <1>2, <1>5, <2>1, <3>1, GoneStays DEF Delivered, Kept, Gone
  <2>2. ASSUME Answered(Loop)', calls'[Loop].reply.kind = "job"
        PROVE Kept(calls[Loop].reply.id, calls[Loop].reply.lease)'
    <3>1. Answered(Loop)
      BY <1>5, <2>2 DEF Answered
    <3>2. QED BY <1>1, <1>2, <1>4, <1>5, <2>2, <3>1 DEF Delivered, Kept, Gone
  <2>3. QED BY <1>5, <2>1, <2>2 DEF Delivered, Kept, Gone
<1>6. CASE calls'[Loop] # calls[Loop] /\ Serves
  <2>1. ASSUME calls'[Loop] # None
        PROVE  /\ calls[Loop] # None /\ calls'[Loop].op = calls[Loop].op
               /\ calls'[Loop].id = calls[Loop].id /\ calls'[Loop].lease = calls[Loop].lease
               /\ calls'[Loop].phase = "answered" => Rules(Loop, calls'[Loop].reply)
    BY <1>1, <1>6, <2>1, ServesCall
  <2>2. ASSUME Acked
        PROVE  /\ Kept(calls[Loop].id, calls[Loop].lease)'
               /\ Told2 /\ calls'[Loop].reply # Ok => Gone(calls[Loop].id)'
    <3>1. /\ calls[Loop].lease \in Leases /\ calls[Loop].op = "ack"
          /\ Kept(calls[Loop].id, calls[Loop].lease)
      BY <1>1, <1>3, <2>1, <2>2 DEF CallFits, Delivered
    <3>2. Kept(calls[Loop].id, calls[Loop].lease)'
      BY <1>2, <2>1, <2>2, <3>1 DEF Kept, Gone
    <3>3. ASSUME Told2, calls'[Loop].reply # Ok PROVE calls'[Loop].reply = Conflict
      <4>1. calls'[Loop].reply \in {Ok, Conflict, TooLarge, Failure}
        BY <2>2, <3>3, NextAnswer, Zenon
      <4>2. calls'[Loop].reply \notin {Failure, TooLarge}
        BY <1>1, <2>1, <2>2, <3>3 DEF Rules, Fault, NoFault, Typed, SessionTyped
      <4>3. QED BY <3>3, <4>1, <4>2
    <3>4. QED BY <2>1, <2>2, <3>1, <3>2, <3>3 DEF Rules, Kept, Gone
  <2>3. ASSUME Answered(Loop)', calls'[Loop].reply.kind = "job"
        PROVE Kept(calls[Loop].reply.id, calls[Loop].reply.lease)'
    <3>1. calls'[Loop] # None /\ calls'[Loop].phase = "answered" /\ calls[Loop] # None
      BY <2>1, <2>3 DEF Answered, Loop
    <3>2. Answers(calls[Loop], calls'[Loop].reply)
      BY <1>1, <1>6, <3>1, LoopCall DEF Sent
    <3>3. QED BY <2>3, <3>2 DEF Answers, Kept
  <2>4. QED BY <2>2, <2>3 DEF Delivered, Kept, Gone
<1>7. CASE calls'[Loop] # calls[Loop] /\ Attends
  <2>1. UNCHANGED store /\ Makes(Loop)
    BY <1>7 DEF Attends
  <2>2. ASSUME calls'[Loop] # None
        PROVE  /\ calls'[Loop].phase = "sent"
               /\ calls'[Loop].op = "ack" => Kept(calls[Loop].id, calls[Loop].lease)'
    BY <1>1, <1>7, <2>1, <2>2 DEF Makes, Delivered, Kept, Gone, store
  <2>3. QED BY <2>2 DEF Delivered, Answered, Kept, Gone, Loop
<1>8. ~Reload /\ ~TuiExits
  BY <1>1 DEF Reload, TuiExits, Fault, NoFault
<1>9. Stirs \/ StartSession => calls'[Loop] = calls[Loop]
  BY DEF Stirs, StartSession, network
<1>10. QED BY <1>5, <1>6, <1>7, <1>8, <1>9, StepKinds

\* A report of the loop is of the job that the extension has.  So is one of
\* the handler, or its job is settled and does not come back.
Apart ==
  faults = 0 =>
    /\ Reports(Loop) => Has(calls[Loop].id) /\ active.posting = "loop"
    /\ Reports(Event) =>
         \/ Has(calls[Event].id) /\ active.posting = "event"
         \/ /\ Gone(calls[Event].id) /\ ~Has(calls[Event].id)
            /\ Answered(Loop) => calls[Loop].reply.id # calls[Event].id

\* An activity works on job: it leaves the flag and reports nothing, or sets
\* the flag and reports.
Flags(s, job) ==
  /\ \A t \in {Loop, Event} : t # s => calls'[t] = calls[t]
  /\ active' # None /\ active'.id = job.id
  /\ s = Loop => calls'[Loop] = None \/ calls'[Loop].phase = "sent"
  /\ \/ active'.posting = job.posting
        /\ (calls'[s] = calls[s] \/ calls'[s] = None \/ calls'[s].op \notin {"result", "fail"})
     \/ job.posting = "no" /\ active'.posting = s[1] /\ calls'[s].id = job.id

\* It is the job that the extension has, or the one that it takes up.
TakesUp(s, job) ==
  IF active # None THEN job.id = active.id /\ job.posting = active.posting
  ELSE s = Loop /\ Answered(Loop) /\ job.id = calls[Loop].reply.id /\ job.posting = "no"

LEMMA SameGone ==
  ASSUME UNCHANGED store, NEW i
  PROVE  Gone(i)' <=> Gone(i)
BY DEF store, Gone

LEMMA FlagsApart ==
  ASSUME Apart, UNCHANGED store, NoFault, NEW s \in {Loop, Event}, NEW job, TakesUp(s, job), Flags(s, job)
  PROVE  Apart'
<1> SUFFICES ASSUME faults = 0 PROVE Apart'
  BY DEF Apart, NoFault
<1>1. \A i : Gone(i)' <=> Gone(i)
  BY SameGone
<1>2. Loop # Event /\ Loop[1] = "loop" /\ Event[1] = "event"
  BY DEF Loop, Event
<1>3. active # None => active'.id = active.id
  BY DEF Flags, TakesUp
<1>4. ASSUME Reports(Loop)' PROVE active'.id = calls'[Loop].id /\ active'.posting = "loop"
  <2>1. CASE Reports(Loop) /\ calls'[Loop] = calls[Loop]
    <3>1. active # None /\ active.id = calls[Loop].id /\ active.posting = "loop"
      BY <2>1 DEF Apart, Has
    <3>2. QED BY <1>2, <2>1, <3>1 DEF Flags, TakesUp
  <2>2. CASE ~(Reports(Loop) /\ calls'[Loop] = calls[Loop])
    <3>1. s = Loop
      BY <1>4, <2>2 DEF Flags, Reports, Loop
    <3>2. QED BY <1>2, <1>4, <2>2, <3>1 DEF Flags, Reports
  <2>3. QED BY <2>1, <2>2
<1>5. ASSUME Reports(Event)'
      PROVE  \/ active'.id = calls'[Event].id /\ active'.posting = "event"
             \/ /\ Gone(calls[Event].id)' /\ active'.id # calls'[Event].id
                /\ Answered(Loop)' => calls'[Loop].reply.id # calls'[Event].id
  <2>1. CASE Reports(Event) /\ calls'[Event] = calls[Event]
    <3>1. CASE active # None /\ active.id = calls[Event].id /\ active.posting = "event"
      BY <1>2, <2>1, <3>1 DEF Flags, TakesUp
    <3>2. CASE /\ Gone(calls[Event].id) /\ ~Has(calls[Event].id)
               /\ Answered(Loop) => calls[Loop].reply.id # calls[Event].id
      <4>1. active'.id # calls[Event].id
        BY <3>2 DEF Flags, TakesUp, Has
      <4>2. Answered(Loop)' => calls'[Loop].reply.id # calls[Event].id
        BY <1>2, <3>2 DEF Flags, Answered
      <4>3. Gone(calls[Event].id)'
        BY <2>1, <3>2, SameGone DEF Gone, store
      <4>4. QED BY <2>1, <4>1, <4>2, <4>3
    <3>3. QED BY <2>1, <3>1, <3>2 DEF Apart, Has
  <2>2. CASE ~(Reports(Event) /\ calls'[Event] = calls[Event])
    <3>1. s = Event
      BY <1>5, <2>2 DEF Flags, Reports, Event
    <3>2. QED BY <1>2, <1>5, <2>2, <3>1 DEF Flags, Reports
  <2>3. QED BY <2>1, <2>2
<1>6. active' # None
  BY DEF Flags
<1>7. QED BY <1>4, <1>5, <1>6 DEF Apart, Has

\* Without a job nothing is flagged, and the loop reports nothing.
LEMMA NoneFlagged ==
  ASSUME Apart, UNCHANGED store, NoFault, active = None, active' = None, calls'[Event] = calls[Event],
         calls'[Loop] = None \/ (calls'[Loop].op \notin {"result", "fail"} /\ calls'[Loop].phase = "sent")
  PROVE  Apart'
<1> SUFFICES ASSUME faults = 0 PROVE Apart'
  BY DEF Apart, NoFault
<1>1. ~Reports(Loop)' /\ ~Answered(Loop)'
  BY DEF Reports, Answered
<1>2. ASSUME Reports(Event)' PROVE Gone(calls[Event].id)'
  <2>1. Reports(Event)
    BY <1>2 DEF Reports
  <2>2. Gone(calls[Event].id)
    BY <2>1 DEF Apart, Has
  <2>3. QED BY <2>2, SameGone DEF Gone, store
<1>3. QED BY <1>1, <1>2 DEF Apart, Has

\* What the functions of the extension make of a job has its flag.
KeepsFlag(old, new) == new.id = old.id /\ new.posting = old.posting

LEMMA FlagStays ==
  ASSUME NEW job \in ActiveJob
  PROVE  /\ KeepsFlag(job, Dispatched(job)) /\ KeepsFlag(job, Aborted(job))
         /\ \A code : KeepsFlag(job, FailWith(job, code))
         /\ \A h : KeepsFlag(job, Finish(job, h))
         /\ \A b : KeepsFlag(job, [job EXCEPT !.sent = b])
         /\ KeepsFlag(job, [job EXCEPT !.interrupted = TRUE])
         /\ KeepsFlag(job, [job EXCEPT !.acknowledged = TRUE])
         /\ KeepsFlag(job, [job EXCEPT !.dispatched = "overdue"])
<1>1. \A t : KeepsFlag(job, [job EXCEPT !.terminal = t])
  BY DEF KeepsFlag, ActiveJob
<1>2. \A code : KeepsFlag(job, FailWith(job, code))
  BY <1>1 DEF FailWith
<1>3. \A h : KeepsFlag(job, Finish(job, h))
  BY <1>1, <1>2 DEF Finish, KeepsFlag
<1>4. QED BY <1>1, <1>2, <1>3 DEF KeepsFlag, ActiveJob, Dispatched, Aborted

LEMMA InspectedFlag ==
  ASSUME NEW job \in ActiveJob
  PROVE  KeepsFlag(job, Inspected(job))
<1> DEFINE sent == [job EXCEPT !.sent = TRUE]
<1>1. sent \in ActiveJob /\ KeepsFlag(job, sent)
  BY DEF KeepsFlag, ActiveJob
<1> HIDE DEF sent
<1>2. /\ \A h : KeepsFlag(sent, Finish(sent, h))
      /\ \A code : KeepsFlag(sent, FailWith(sent, code)) /\ KeepsFlag(job, FailWith(job, code))
  BY <1>1, FlagStays
<1>3. \/ Inspected(job) \in {job, sent} \cup {Finish(sent, HarvestResult(job.id))}
      \/ Inspected(job) \in {FailWith(sent, "missing-assistant-result"), FailWith(job, "dispatch-timeout")}
  BY DEF Inspected, sent
<1>4. QED BY <1>1, <1>2, <1>3 DEF KeepsFlag

LEMMA ReportFlags ==
  ASSUME Typed, NEW job \in ActiveJob, Report(job)
  PROVE  Flags(Loop, job)
<1>1. active' = PostedFrom("loop", job) /\ Same(job, active') /\ Loop[1] = "loop"
  BY SameJob DEF Report, Loop
<1>2. active' # None
  BY <1>1, ActiveApart DEF Same
<1>3. CASE CanPost(job)
  <2>1. calls' = [calls EXCEPT ![Loop] = Call(job.terminal.op, job, job.terminal)]
    BY <1>3 DEF Report, Post, Sending
  <2>2. /\ calls'[Loop] = Call(job.terminal.op, job, job.terminal)
        /\ calls'[Event] = calls[Event]
    BY <2>1, SlotFacts, OtherCall
  <2>3. calls'[Loop].phase = "sent" /\ calls'[Loop].id = job.id
    BY <2>2, SentCall
  <2>4. job.posting = "no" /\ active'.posting = "loop" /\ active'.id = job.id
    BY <1>1, <1>3 DEF CanPost, PostedFrom, ActiveJob
  <2>5. QED BY <1>1, <1>2, <2>2, <2>3, <2>4 DEF Flags
<1>4. CASE ~CanPost(job)
  <2>1. calls' = [calls EXCEPT ![Loop] = None] /\ active' = job
    BY <1>1, <1>4 DEF Report, LoopDone, PostedFrom
  <2>2. calls'[Loop] = None /\ calls'[Event] = calls[Event]
    BY <2>1, SlotFacts, OtherCall
  <2>3. QED BY <1>2, <2>1, <2>2 DEF Flags
<1>5. QED BY <1>3, <1>4

LEMMA InspectFlags ==
  ASSUME Typed, NEW job \in ActiveJob, Inspect(job)
  PROVE  Flags(Loop, job)
<1>1. job # None
  BY ActiveApart
<1>2. CASE calls' = LoopDone /\ active' \in {job, Dispatched(job)}
  <2>1. calls'[Loop] = None /\ calls'[Event] = calls[Event]
    BY <1>2, SlotFacts, OtherCall DEF LoopDone
  <2>2. Same(job, active') /\ KeepsFlag(job, active')
    BY <1>2, SameJob, FlagStays DEF KeepsFlag
  <2>3. active' # None
    BY <2>2, ActiveApart DEF Same
  <2>4. QED BY <2>1, <2>2, <2>3 DEF Flags, KeepsFlag
<1>3. CASE Report(Inspected(job))
  <2>1. Inspected(job) \in ActiveJob /\ KeepsFlag(job, Inspected(job))
    BY InspectedJob, InspectedFlag DEF Same
  <2>2. Flags(Loop, Inspected(job))
    BY <1>3, <2>1, ReportFlags
  <2>3. QED BY <2>1, <2>2 DEF Flags, KeepsFlag
<1>4. QED BY <1>1, <1>2, <1>3 DEF Inspect

\* A step of the loop after which it inspects or reports on job.
LEMMA LoopFlags ==
  ASSUME Typed, Apart, LoopStep, NEW job \in ActiveJob \cup {None}, Inspect(job) \/ Report(job),
         job = None => active = None,
         job # None => TakesUp(Loop, job)
  PROVE  Apart'
<1>1. UNCHANGED store /\ NoFault
  BY DEF LoopStep
<1>2. CASE job = None
  <2>1. active' = None /\ calls' = LoopDone
    BY <1>2 DEF Inspect, Report, PostedFrom, CanPost
  <2>2. calls'[Loop] = None /\ calls'[Event] = calls[Event]
    BY <2>1, SlotFacts, OtherCall DEF LoopDone
  <2>3. QED BY <1>1, <1>2, <2>1, <2>2, NoneFlagged
<1>3. CASE job # None
  <2>1. Flags(Loop, job)
    BY <1>3, InspectFlags, ReportFlags
  <2>2. QED BY <1>1, <1>3, <2>1, FlagsApart
<1>4. QED BY <1>2, <1>3

\* A step of the loop that sends another call, or none.
LEMMA LoopSends ==
  ASSUME Typed, Apart, LoopStep, NEW call, calls' = [calls EXCEPT ![Loop] = call],
         call = None \/ (call.op \notin {"result", "fail"} /\ call.phase = "sent"),
         IF active = None THEN active' = None
         ELSE active' # None /\ active'.id = active.id /\ active'.posting = active.posting
  PROVE  Apart'
<1>1. UNCHANGED store /\ NoFault
  BY DEF LoopStep
<1>2. calls'[Loop] = call /\ calls'[Event] = calls[Event]
  BY SlotFacts, OtherCall
<1>3. CASE active = None
  BY <1>1, <1>2, <1>3, NoneFlagged
<1>4. CASE active # None
  <2>1. Flags(Loop, active) /\ TakesUp(Loop, active)
    BY <1>2, <1>4 DEF Flags, TakesUp
  <2>2. QED BY <1>1, <2>1, FlagsApart
<1>5. QED BY <1>3, <1>4

LEMMA TakingApart ==
  ASSUME Typed, Apart, PollGetsJob \/ PollGetsResume
  PROVE  Apart'
<1> DEFINE reply == calls[Loop].reply
<1>1. LoopStep /\ InPhase(Loop, "answered") /\ calls[Loop].op = "poll" /\ reply.kind \in {"job", "resume"}
  BY DEF PollGetsJob, PollGetsResume, LoopGets
<1>2. Answered(Loop) /\ reply.id \in Jobs /\ reply.lease \in Leases
  BY <1>1, AnsweredJob
<1>3. ASSUME NEW acknowledged \in BOOLEAN, active = None
      PROVE  /\ NewActive(reply, acknowledged) \in ActiveJob
             /\ TakesUp(Loop, NewActive(reply, acknowledged))
             /\ NewActive(reply, acknowledged).posting = "no"
  BY <1>2, <1>3, TakenJob DEF TakesUp, NewActive
<1>4. CASE PollGetsJob
  <2> DEFINE job == NewActive(reply, FALSE)
  <2>1. active = None /\ active' = job /\ calls' = [calls EXCEPT ![Loop] = Call("ack", reply, None)]
    BY <1>4 DEF PollGetsJob, Sending
  <2>2. job \in ActiveJob /\ TakesUp(Loop, job)
    BY <1>3, <2>1
  <2> HIDE DEF job
  <2>3. calls'[Loop] = Call("ack", reply, None) /\ calls'[Event] = calls[Event]
    BY <2>1, SlotFacts, OtherCall
  <2>4. calls'[Loop].op = "ack" /\ calls'[Loop].phase = "sent"
    BY <2>3, SentCall
  <2>5. Flags(Loop, job)
    BY <2>1, <2>2, <2>3, <2>4, ActiveApart DEF Flags
  <2>6. QED BY <1>1, <2>2, <2>5, FlagsApart DEF LoopStep
<1>5. CASE PollGetsResume /\ active # None
  BY <1>1, <1>5, LoopSends DEF PollGetsResume, LoopDone
<1>6. CASE PollGetsResume /\ active = None
  <2>1. Inspect(NewActive(reply, TRUE))
    BY <1>6 DEF PollGetsResume
  <2>2. QED BY <1>1, <1>3, <1>6, <2>1, LoopFlags, ActiveApart
<1>7. QED BY <1>4, <1>5, <1>6

LEMMA SendingApart ==
  ASSUME Typed, Apart, SendPoll \/ PollGetsNothing \/ SendControlAck
  PROVE  Apart'
<1>1. LoopStep /\ active' = active
  BY DEF SendPoll, PollGetsNothing, SendControlAck, LoopAt, LoopGets, bridge
<1>2. \/ calls' = [calls EXCEPT ![Loop] = None]
      \/ \E op \in {"poll", "controlAck"} : \E job, data : calls' = [calls EXCEPT ![Loop] = Call(op, job, data)]
  BY DEF SendPoll, PollGetsNothing, SendControlAck, LoopDone, Sending
<1>3. CASE calls' = [calls EXCEPT ![Loop] = None]
  BY <1>1, <1>3, LoopSends
<1>4. ASSUME NEW op \in {"poll", "controlAck"}, NEW job, NEW data, calls' = [calls EXCEPT ![Loop] = Call(op, job, data)]
      PROVE  Apart'
  <2>1. Call(op, job, data).op = op /\ Call(op, job, data).phase = "sent"
    BY SentCall
  <2>2. QED BY <1>1, <1>4, <2>1, LoopSends
<1>5. QED BY <1>2, <1>3, <1>4

LEMMA AckApart ==
  ASSUME Typed, Handed, LastTry, Delivered, Apart, AckAnswered
  PROVE  Apart'
<1>1. LoopStep /\ InPhase(Loop, "answered") /\ calls[Loop].op = "ack"
  BY DEF AckAnswered, LoopGets
<1>2. CASE calls[Loop].reply = Ok
  <2> DEFINE job == IF active = None THEN None ELSE [active EXCEPT !.acknowledged = TRUE]
  <2>1. Inspect(job)
    BY <1>2 DEF AckAnswered
  <2>2. active # None => active \in ActiveJob
    BY LoopTypes
  <2>3. active # None => /\ [active EXCEPT !.acknowledged = TRUE] \in ActiveJob
                         /\ KeepsFlag(active, [active EXCEPT !.acknowledged = TRUE])
    BY <2>2, FlagStays DEF ActiveJob
  <2>4. job \in ActiveJob \cup {None} /\ (job = None => active = None) /\ (job # None => TakesUp(Loop, job))
    BY <2>3, ActiveApart DEF TakesUp, KeepsFlag
  <2> HIDE DEF job
  <2>5. QED BY <1>1, <2>1, <2>4, LoopFlags
<1>3. CASE calls[Loop].reply # Ok
  <2>1. active' = None /\ calls' = [calls EXCEPT ![Loop] = None] /\ UNCHANGED store /\ NoFault
    BY <1>1, <1>3 DEF AckAnswered, Cleared, LoopDone, LoopStep
  <2>2. calls'[Loop] = None /\ calls'[Event] = calls[Event]
    BY <2>1, SlotFacts, OtherCall
  <2>3. ASSUME faults = 0, Reports(Event)' PROVE Gone(calls[Event].id)'
    <3>1. Reports(Event)
      BY <2>2, <2>3 DEF Reports
    <3>2. Gone(calls[Event].id)
      <4>1. CASE Has(calls[Event].id)
        <5>1. active.id = calls[Loop].id /\ calls[Loop] # None
          BY <1>1, <4>1 DEF Handed, Has, InPhase
        <5>2. Gone(calls[Loop].id)
          BY <1>1, <1>3, <2>3 DEF Delivered, InPhase
        <5>3. QED BY <4>1, <5>1, <5>2 DEF Has
      <4>2. QED BY <2>3, <3>1, <4>1 DEF Apart
    <3>3. QED BY <2>1, <2>2, <3>2, SameGone DEF Gone, store
  <2>4. QED BY <2>1, <2>2, <2>3 DEF Apart, Reports, Answered, Has, NoFault
<1>4. QED BY <1>2, <1>3

LEMMA ControlApart ==
  ASSUME Typed, Apart, PollGetsControl
  PROVE  Apart'
<1> DEFINE c == calls[Loop].reply
           matches   == active # None /\ c.id \in {0, active.id}
           job       == [active EXCEPT !.interrupted = TRUE]
           harvested == HarvestResult(active.id)
           answered  == matches /\ ~streaming /\ active.sent /\ harvested.status # "pending"
           next      == IF ~matches \/ streaming THEN IF matches THEN job ELSE active
                        ELSE IF answered THEN Finish(job, harvested)
                        ELSE Aborted(job)
<1>1. /\ LoopStep
      /\ \/ answered /\ Report(next)
         \/ active' = next /\ calls' = [calls EXCEPT ![Loop] = Call("controlAck", NoJob, c.n)]
  BY DEF PollGetsControl, LoopGets, Sending
<1>2. active = None => next = None /\ ~answered
  OBVIOUS
<1>3. ASSUME active # None PROVE next \in ActiveJob /\ KeepsFlag(active, next)
  <2>1. active \in ActiveJob
    BY <1>3, LoopTypes
  <2>2. harvested \in Harvests
    BY <2>1, SegmentsTypes DEF ActiveJob
  <2>3. job \in ActiveJob /\ KeepsFlag(active, job)
    BY <2>1, SameJob, FlagStays DEF Same
  <2> HIDE DEF job, harvested
  <2>4. /\ {Finish(job, harvested), Aborted(job)} \subseteq ActiveJob
        /\ KeepsFlag(job, Finish(job, harvested)) /\ KeepsFlag(job, Aborted(job))
    BY <2>2, <2>3, SameJob, FlagStays DEF Same
  <2>5. next \in {job, active, Finish(job, harvested), Aborted(job)}
    OBVIOUS
  <2> HIDE DEF next
  <2>6. QED BY <2>1, <2>3, <2>4, <2>5 DEF KeepsFlag
<1> HIDE DEF next, answered
<1>4. CASE answered /\ Report(next)
  <2>1. active # None /\ next \in ActiveJob /\ TakesUp(Loop, next)
    BY <1>2, <1>3, <1>4 DEF TakesUp, KeepsFlag
  <2>2. QED BY <1>1, <1>4, <2>1, LoopFlags, ActiveApart
<1>5. CASE active' = next /\ calls' = [calls EXCEPT ![Loop] = Call("controlAck", NoJob, c.n)]
  <2>1. Call("controlAck", NoJob, c.n).op = "controlAck" /\ Call("controlAck", NoJob, c.n).phase = "sent"
    BY SentCall
  <2>2. QED BY <1>1, <1>2, <1>3, <1>5, <2>1, LoopSends, ActiveApart DEF KeepsFlag
<1>6. QED BY <1>1, <1>4, <1>5

LEMMA InspectingApart ==
  ASSUME Typed, Apart, InspectActive \/ ControlAckAnswered
  PROVE  Apart'
<1>1. LoopStep /\ (Inspect(active) \/ Report(active))
  BY DEF InspectActive, ControlAckAnswered, LoopAt, LoopGets
<1>2. active # None => active \in ActiveJob
  BY LoopTypes
<1>3. active # None => TakesUp(Loop, active)
  BY DEF TakesUp
<1>4. QED BY <1>1, <1>2, <1>3, LoopFlags

\* A report that is answered is over; it was of the job that it clears.
LEMMA TerminalApart ==
  ASSUME Typed, LastTry, Apart, NEW slot \in {Loop, Event}, TerminalAnswered(slot)
  PROVE  Apart'
<1> SUFFICES ASSUME faults' = 0 PROVE Apart'
  BY DEF Apart
<1>1. /\ faults = 0 /\ UNCHANGED store
      /\ calls[slot] # None /\ calls[slot].phase = "answered" /\ Reports(slot)
  BY DEF TerminalAnswered, InPhase, Reports
<1>2. calls[slot].reply \in {Ok, Conflict}
  <2>1. calls[slot].reply \in {Ok, Conflict, TooLarge, Failure}
    BY <1>1, SlotFacts DEF Typed, CallsTyped, CallFits, Reports
  <2>2. QED BY <1>1, <2>1 DEF LastTry
<1>3. /\ calls' = [calls EXCEPT ![slot] = None]
      /\ active' = IF Has(calls[slot].id) THEN None ELSE active
  BY <1>2 DEF TerminalAnswered, Cleared, Has
<1>4. calls'[slot] = None /\ \A s \in {Loop, Event} : s # slot => calls'[s] = calls[s]
  BY <1>3, OtherCall
<1>5. \A i : Gone(i)' <=> Gone(i)
  BY <1>1, SameGone
<1>6. CASE slot = Loop
  <2>1. calls'[Loop] = None /\ calls'[Event] = calls[Event]
    BY <1>4, <1>6, SlotFacts
  <2>2. Has(calls[Loop].id) /\ active.posting = "loop" /\ active' = None
    BY <1>1, <1>3, <1>6 DEF Apart
  <2>3. ASSUME Reports(Event)' PROVE Gone(calls[Event].id)'
    <3>1. Reports(Event)
      BY <2>1, <2>3 DEF Reports
    <3>2. Gone(calls[Event].id)
      BY <1>1, <2>2, <3>1 DEF Apart
    <3>3. QED BY <1>1, <2>1, <3>2, SameGone DEF Gone, store
  <2>4. QED BY <2>1, <2>2, <2>3 DEF Apart, Reports, Answered, Has
<1>7. CASE slot = Event
  <2>1. calls'[Event] = None /\ calls'[Loop] = calls[Loop]
    BY <1>4, <1>7, SlotFacts
  <2>2. ASSUME Reports(Loop)' PROVE Has(calls[Loop].id)' /\ active'.posting = "loop"
    <3>1. Reports(Loop)
      BY <2>1, <2>2 DEF Reports
    <3>2. Has(calls[Loop].id) /\ active.posting = "loop"
      BY <1>1, <3>1 DEF Apart
    <3>3. ~Has(calls[Event].id)
      BY <1>1, <1>7, <3>2 DEF Apart
    <3>4. QED BY <1>3, <1>7, <2>1, <3>2, <3>3 DEF Has
  <2>3. QED BY <2>1, <2>2 DEF Apart, Reports
<1>8. QED BY <1>6, <1>7

LEMMA OverdueApart ==
  ASSUME Typed, Apart, DispatchOverdue
  PROVE  Apart'
<1> SUFFICES ASSUME faults' = 0 PROVE Apart'
  BY DEF Apart
<1>1. /\ active # None /\ active' = [active EXCEPT !.dispatched = "overdue"]
      /\ UNCHANGED <<store, calls>> /\ (Fault \/ NoFault)
  BY DEF DispatchOverdue, network
<1>2. NoFault
  BY <1>1 DEF Typed, SessionTyped, Fault, NoFault
<1>3. active \in ActiveJob
  BY <1>1, LoopTypes
<1>4. KeepsFlag(active, active') /\ Same(active, active')
  BY <1>1, <1>3, FlagStays, SameJob
<1>5. Flags(Event, active) /\ TakesUp(Event, active)
  BY <1>1, <1>3, <1>4, ActiveApart, SlotFacts DEF Flags, TakesUp, KeepsFlag, Same
<1>6. QED BY <1>1, <1>2, <1>5, FlagsApart

\* The handler reports on the job that the extension has, if nobody does.
LEMMA EventFlags ==
  ASSUME Typed, NEW next \in ActiveJob, EventReports(next)
  PROVE  Flags(Event, next)
<1>1. active' = PostedFrom("event", next) \/ active' = next
  BY DEF EventReports
<1>2. active' # None /\ active'.id = next.id
  BY <1>1, ActiveApart DEF PostedFrom, ActiveJob
<1>3. Event[1] = "event" /\ Event # Loop
  BY DEF Event, Loop
<1>4. CASE CanPost(next) /\ calls[Event] = None
  <2>1. calls' = [calls EXCEPT ![Event] = Call(next.terminal.op, next, next.terminal)]
    BY <1>4 DEF EventReports, Post, Sending
  <2>2. calls'[Event] = Call(next.terminal.op, next, next.terminal) /\ calls'[Loop] = calls[Loop]
    BY <2>1, SlotFacts, OtherCall
  <2>3. calls'[Event].id = next.id
    BY <2>2, SentCall
  <2>4. next.posting = "no" /\ active'.posting = "event"
    BY <1>4 DEF EventReports, CanPost, PostedFrom, ActiveJob
  <2>5. QED BY <1>2, <1>3, <2>2, <2>3, <2>4 DEF Flags
<1>5. CASE ~(CanPost(next) /\ calls[Event] = None)
  BY <1>2, <1>3, <1>5 DEF EventReports, Flags
<1>6. QED BY <1>4, <1>5

LEMMA SettledApart ==
  ASSUME Typed, Apart, AgentSettled
  PROVE  Apart'
<1>1. PICK segs \in AnsweredAtLast :
       LET sent      == active.sent \/ H!SegmentHasUser(segs[active.id])
           job       == [active EXCEPT !.sent = sent]
           harvested == H!SegmentResult(segs[active.id])
           next      == IF sent /\ harvested.status = "pending" /\ ~job.interrupted
                          THEN FailWith(job, "missing-assistant-result")
                          ELSE Finish(job, harvested)
       IN  /\ segments' = segs
           /\ IF active = None THEN UNCHANGED <<active, calls, injecting, inbox>>
              ELSE IF Decidable(job)
                THEN EventReports(next) /\ UNCHANGED <<injecting, inbox>>
              ELSE \/ /\ Dispatchable(job)
                      /\ active' = Dispatched(job) /\ HandsOver(job)
                      /\ UNCHANGED calls
                   \/ /\ Dispatchable(job) => TRUE \in PendingMessages
                      /\ UNCHANGED <<active, calls, injecting, inbox>>
  BY DEF AgentSettled, EventReports
<1> DEFINE sent      == active.sent \/ H!SegmentHasUser(segs[active.id])
           job       == [active EXCEPT !.sent = sent]
           harvested == H!SegmentResult(segs[active.id])
           next      == IF sent /\ harvested.status = "pending" /\ ~job.interrupted
                          THEN FailWith(job, "missing-assistant-result")
                          ELSE Finish(job, harvested)
<1>2. /\ UNCHANGED store /\ NoFault
      /\ segs \in [Jobs -> Segment \cup {None}]
  BY <1>1, SegmentsTypes DEF AgentSettled, PiStep
<1>3. CASE active = None
  <2>1. UNCHANGED <<active, calls>>
    BY <1>1, <1>3
  <2>2. \A i : Gone(i)' <=> Gone(i)
    BY <1>2, SameGone
  <2>3. Gone(calls[Event].id)' <=> Gone(calls[Event].id)
    BY <1>2, <2>1 DEF Gone, store
  <2>4. QED BY <1>2, <2>1, <2>3 DEF Apart, Reports, Answered, Has, NoFault
<1>4. CASE active # None
  <2>1. active \in ActiveJob
    BY <1>4, LoopTypes
  <2>2. sent \in BOOLEAN /\ harvested \in Harvests
    BY <1>2, <2>1, SegmentTypes DEF ActiveJob
  <2>3. EventReports(next) \/ (active' \in {active, Dispatched(job)} /\ UNCHANGED calls)
    BY <1>1, <1>4
  <2> HIDE DEF sent, harvested
  <2>4. job \in ActiveJob /\ KeepsFlag(active, job)
    BY <2>1, <2>2, SameJob, FlagStays DEF Same
  <2> HIDE DEF job
  <2>5. next \in ActiveJob /\ KeepsFlag(job, next)
    <3>1. "missing-assistant-result" \in Codes
      BY DEF Codes
    <3>2. QED BY <2>2, <2>4, <3>1, SameJob, FlagStays DEF Same
  <2> HIDE DEF next
  <2>6. TakesUp(Event, active)
    BY <1>4 DEF TakesUp
  <2>7. CASE EventReports(next)
    <3>1. Flags(Event, next) /\ TakesUp(Event, next)
      BY <1>4, <2>4, <2>5, <2>7, EventFlags DEF KeepsFlag, TakesUp
    <3>2. QED BY <1>2, <3>1, FlagsApart
  <2>8. CASE active' \in {active, Dispatched(job)} /\ UNCHANGED calls
    <3>1. /\ Dispatched(job) \in ActiveJob /\ KeepsFlag(job, Dispatched(job))
      BY <2>4, SameJob, FlagStays DEF Same
    <3>2. active' # None /\ KeepsFlag(active, active')
      BY <1>4, <2>4, <2>8, <3>1, ActiveApart DEF KeepsFlag
    <3>3. Flags(Event, active)
      BY <2>8, <3>2, SlotFacts DEF Flags, KeepsFlag
    <3>4. QED BY <1>2, <2>6, <3>3, FlagsApart
  <2>9. QED BY <2>3, <2>7, <2>8
<1>5. QED BY <1>3, <1>4

\* The controller offers neither a job that is settled, nor one a second time.
LEMMA ServedApart ==
  ASSUME Typed, StoreMoves, Apart, Serves, faults = 0
  PROVE  Apart'
<1>1. active' = active
  BY DEF Serves
<1>2. ASSUME NEW s \in {Loop, Event}, calls'[s] # None
      PROVE  /\ calls[s] # None /\ calls'[s].op = calls[s].op /\ calls'[s].id = calls[s].id
             /\ calls'[s] = calls[s] \/ (calls'[s].phase = "answered" => Rules(s, calls'[s].reply))
  BY <1>2, ServesCall
<1>3. ASSUME Reports(Loop)' PROVE Has(calls'[Loop].id) /\ active.posting = "loop"
  BY <1>2, <1>3 DEF Apart, Reports
<1>4. ASSUME Reports(Event)', ~(Has(calls'[Event].id) /\ active.posting = "event")
      PROVE  /\ Gone(calls[Event].id)' /\ ~Has(calls'[Event].id)
             /\ Answered(Loop)' => calls'[Loop].reply.id # calls'[Event].id
  <2>1. /\ Gone(calls[Event].id) /\ ~Has(calls[Event].id) /\ calls'[Event].id = calls[Event].id
        /\ Answered(Loop) => calls[Loop].reply.id # calls[Event].id
    BY <1>2, <1>4 DEF Apart, Reports
  <2>2. PICK i : i = calls[Event].id
    OBVIOUS
  <2>3. Gone(i)' /\ i \in Begun /\ i \notin Runs
    BY <2>1, <2>2, GoneStays
  <2>4. ASSUME Answered(Loop)' PROVE calls'[Loop].reply.id # i
    <3>1. CASE calls'[Loop] = calls[Loop]
      BY <2>1, <2>2, <2>4, <3>1 DEF Answered
    <3>2. CASE Rules(Loop, calls'[Loop].reply)
      BY <2>3, <2>4, <3>2 DEF Rules, Answered
    <3>3. QED BY <1>2, <2>4, <3>1, <3>2 DEF Answered
  <2>5. QED BY <2>1, <2>2, <2>3, <2>4 DEF Gone
<1>5. QED
  <2>1. Reports(Loop)' => Has(calls[Loop].id)' /\ active'.posting = "loop"
    BY <1>1, <1>3 DEF Has
  <2>2. Reports(Event)' /\ ~(Has(calls[Event].id)' /\ active'.posting = "event") =>
          /\ Gone(calls[Event].id)' /\ ~Has(calls[Event].id)'
          /\ Answered(Loop)' => calls'[Loop].reply.id # calls'[Event].id
    BY <1>1, <1>4 DEF Has
  <2>3. QED BY <2>1, <2>2 DEF Apart

\* The prompts leave the flags alone.
LEMMA StirredApart ==
  ASSUME Apart, Stirs, NoFault
  PROVE  Apart'
<1>1. UNCHANGED <<store, calls>>
  BY DEF Stirs
<1>2. CASE active = None
  <2>1. active' = None
    BY <1>2 DEF Stirs
  <2>2. Gone(calls[Event].id)' <=> Gone(calls[Event].id)
    BY <1>1 DEF Gone, store
  <2>3. QED BY <1>1, <1>2, <2>1, <2>2 DEF Apart, Reports, Answered, Has, NoFault
<1>3. CASE active # None
  <2>1. active' # None /\ active'.id = active.id /\ active'.posting = active.posting
    BY <1>3 DEF Stirs, Goes, Same
  <2>2. Flags(Event, active) /\ TakesUp(Event, active)
    BY <1>1, <1>3, <2>1, SlotFacts DEF Flags, TakesUp
  <2>3. QED BY <1>1, <2>2, FlagsApart
<1>4. QED BY <1>2, <1>3

LEMMA ApartStays ==
  ASSUME IInv, Sole, Prompting, Delivered, Apart, [Next]_vars
  PROVE  Apart'
<1> SUFFICES ASSUME faults' = 0 PROVE Apart'
  BY DEF Apart
<1>1. /\ Typed /\ Claimed /\ Handed /\ StoreMoves /\ faults = 0 /\ NoFault
      /\ Attended /\ Fitting /\ Offered /\ Reported /\ Once /\ Dropped /\ LastTry
  BY NextMoves, NoRequeue DEF IInv, Moves, Sole, Prompting
<1>2. CASE Serves
  BY <1>1, <1>2, ServedApart
<1>3. CASE Stirs
  BY <1>1, <1>3, StirredApart
<1>4. ASSUME StartSession PROVE Apart'
  BY <1>1, <1>4 DEF StartSession, Apart, Reports, Answered, Has, Gone, store, network, bridge
<1>5. ~Reload /\ ~TuiExits
  BY <1>1 DEF Reload, TuiExits, Fault, NoFault
<1>6. CASE Extension
  <2>1. ASSUME PollLoop PROVE Apart'
    BY <1>1, <2>1, SlotFacts, InspectingApart, SendingApart, TakingApart, ControlApart, AckApart, TerminalApart
    DEF PollLoop
  <2>2. QED BY <1>1, <1>6, <2>1, TerminalApart, OverdueApart DEF Extension
<1>7. CASE Pi
  BY <1>1, <1>3, <1>7, InputEventStirs, RecordPromptStirs, SettledApart DEF Pi
<1>8. CASE Controller \/ UNCHANGED vars
  BY <1>1, <1>2, <1>8, ControllerAnswers, StutterServes
<1>9. CASE Clients
  BY <1>1, <1>2, <1>3, <1>4, <1>9, ClientsServe, TypePromptStirs
<1>10. CASE Faults
  BY <1>1, <1>2, <1>3, <1>5, <1>10, FaultsServe, PromptLostStirs
<1>11. QED BY <1>6, <1>7, <1>8, <1>9, <1>10 DEF Next

(* While nothing is lost, the poll loop and the agent_settled handler      *)
(* never have reports of the same job under way: postingTerminal is a flag *)
(* of the ActiveJob, and the report of one that was cleared meanwhile is   *)
(* of a job that does not come back as a new one.                          *)
THEOREM OnePostAtATimeHolds == Spec => []OnePostAtATime
<1>1. Init => Delivered /\ Apart
  <2>1. Init => calls[Loop] = None /\ calls[Event] = None
    BY SlotFacts DEF Init
  <2>2. QED BY <2>1 DEF Delivered, Apart, Reports, Answered, Loop, Event
<1>2. Apart => OnePostAtATime
  BY DEF Apart, OnePostAtATime, Reporting, Reports, Has
<1>3. IInv /\ IInv' /\ Sole /\ Prompting /\ Delivered /\ Apart /\ [Next]_vars => Delivered' /\ Apart'
  BY DeliveredStays, ApartStays
<1>4. QED BY <1>1, <1>2, <1>3, Invariant, SoleHolds, PromptingHolds, PTL DEF Spec

-----------------------------------------------------------------------------
(* Without a fault, no abort meets a job that it does not name.            *)

\* The loop has been answered with a control.
Controlled == calls[Loop] # None /\ calls[Loop].phase = "answered" /\ calls[Loop].reply.kind = "control"

\* The extension's job, the one on its way to it and the one that a pending
\* control names are the one that is active, as far as there are any.
Tied ==
  faults = 0 =>
    /\ active # None => Runs \cup Leased \subseteq {active.id}
    /\ Answered(Loop) => Runs \cup Leased \subseteq {calls[Loop].reply.id}
    /\ control # None /\ control.id # 0 =>
         /\ active # None => active.id = control.id
         /\ Answered(Loop) => calls[Loop].reply.id = control.id
    /\ Controlled => control # None /\ calls[Loop].reply = control

\* A control is set for an active job or for none, and stays until it is
\* acknowledged.
LEMMA ControlSteps ==
  ASSUME Typed, Claimed, up, live, [Next]_vars
  PROVE  \/ control' = control
         \/ \E s \in Slots : ControlAck(s)
         \/ /\ control = None /\ active' = active
            /\ control'.id = 0 \/ control'.id \in Runs \cup Leased
            /\ calls'[Loop] = calls[Loop] \/ calls'[Loop].phase = "woken"
<1>1. CASE Controller
  BY <1>1 DEF Controller, Serve, Refuse, Poll, Ack, Result, FailReport, PollExpires, LeaseExpires,
              MarkStopped, server
<1>2. CASE Extension
  BY <1>2 DEF Extension, PollLoop, InspectActive, SendPoll, SendControlAck, PollGetsNothing, PollGetsJob,
              PollGetsResume, PollGetsControl, AckAnswered, ControlAckAnswered, TerminalAnswered,
              DispatchOverdue, LoopAt, LoopGets, LoopStep, server
<1>3. CASE Pi
  BY <1>3 DEF Pi, InputEvent, RecordPrompt, AgentSettled, PiStep, server
<1>4. CASE Clients
  <2>1. WakePoll => calls'[Loop] = calls[Loop] \/ calls'[Loop].phase = "woken"
    <3>1. calls \in [Slots -> HttpCall \cup {None}] /\ Loop \in Slots
      BY SlotFacts DEF Typed, CallsTyped
    <3>2. CASE waiter # None /\ waiter = Loop
      <4>1. calls[Loop] \in HttpCall
        BY <3>1, <3>2 DEF Typed, WaiterWaits, InPhase
      <4>2. WakePoll => calls'[Loop] = [calls[Loop] EXCEPT !.phase = "woken"]
        BY <3>1, <3>2 DEF WakePoll
      <4>3. QED BY <4>1, <4>2 DEF HttpCall
    <3>3. QED BY <3>1, <3>2 DEF WakePoll
  <2>2. ASSUME NEW i, SetControl(i), ControllerStep, control' # control
        PROVE  /\ control = None /\ active' = active /\ control'.id = i
               /\ calls'[Loop] = calls[Loop] \/ calls'[Loop].phase = "woken"
    BY <2>1, <2>2 DEF SetControl, ControllerStep, bridge
  <2>3. ASSUME NEW i, Cancel(i), control' # control
        PROVE  SetControl(i) /\ ControllerStep /\ i \in Runs
    BY <2>3, StoreFacts DEF Cancel, Store!Cancel, Runs
  <2>4. ASSUME AbortSession
        PROVE  ControllerStep /\ (SetControl(0) \/ \E i \in Runs \cup Leased : SetControl(i))
    <3>1. Store!ActiveOf(Alias) \subseteq Runs \cup Leased
      BY StoreFacts DEF Store!ActiveOf, Store!Active, Runs, Leased
    <3>2. QED BY <2>4, <3>1 DEF AbortSession
  <2>5. QED BY <1>4, <2>2, <2>3, <2>4 DEF Clients, Submit, StartSession, TypePrompt, PiStep, server
<1>5. CASE Faults
  BY <1>5 DEF Faults, CallFails, OrphanLost, Oversized, PromptLost, Watchdog, Reload, TuiExits, PiStep, server
<1>6. CASE UNCHANGED vars
  BY <1>6 DEF vars, server
<1>7. QED BY <1>1, <1>2, <1>3, <1>4, <1>5, <1>6 DEF Next

\* The jobs that are active after the step are among those before it, or a
\* ready poll, before which none was, has taken one.
LEMMA ActiveJobs ==
  ASSUME IInv, Alone, faults = 0, [Next]_vars
  PROVE  \/ Runs' \cup Leased' \subseteq Runs \cup Leased
         \/ active = None /\ ~Answered(Loop)
<1>1. Typed /\ Claimed /\ StoreMoves
  BY NextMoves DEF IInv, Moves
<1>2. CASE Calm
  <2>1. \A i \in Runs' \cup Leased' : i \in 1..sequence /\ jobs'[i] = jobs[i]
    BY <1>1, <1>2, CalmJob DEF Runs, Leased, Store!Active
  <2>2. QED BY <2>1 DEF Runs, Leased
<1>3. ASSUME NEW s \in Slots, LeasesTo(s) PROVE active = None /\ ~Answered(Loop)
  <2>1. s = Loop
    BY <1>3, NothingActive
  <2>2. QED BY <1>3, <2>1 DEF LeasesTo, IInv, Ready, Answered
<1>4. ASSUME NEW s \in Slots, Acks(s) PROVE Runs' \cup Leased' \subseteq Runs \cup Leased
  <2>1. PICK i \in 1..sequence :
          /\ jobs[i].status = "leased" /\ sequence' = sequence
          /\ \A j \in 1..sequence : j # i => jobs'[j] = jobs[j]
    BY <1>1, <1>4, AcksJob
  <2>2. QED BY <2>1 DEF Runs, Leased
<1>5. QED BY <1>1, <1>2, <1>3, <1>4, CalmSteps

\* What the loop is answered, it is answered by the controller.
LEMMA LoopAnswers ==
  ASSUME IInv, Sole, Prompting, [Next]_vars, faults = 0, NoFault,
         calls'[Loop] # None, calls'[Loop].phase = "answered", calls'[Loop] # calls[Loop]
  PROVE  Rules(Loop, calls'[Loop].reply)
<1>1. ~Reload /\ ~TuiExits /\ ~StartSession
  BY DEF Reload, TuiExits, StartSession, Fault, NoFault, Sole, Lives
<1>2. ~Attends /\ ~Stirs
  BY DEF Attends, Makes, Stirs
<1>3. QED BY <1>1, <1>2, StepKinds DEF Serves, Advancing, Advances

\* A job that the loop is offered is active.
LEMMA OfferedJob ==
  ASSUME IInv, IInv', [Next]_vars, Answered(Loop)', calls'[Loop] # calls[Loop]
  PROVE  calls'[Loop].reply.id \in Runs' \cup Leased'
<1> DEFINE reply == calls'[Loop].reply
<1>1. /\ calls'[Loop] # None /\ calls'[Loop].phase = "answered"
      /\ reply.kind \in {"job", "resume"}
  BY DEF Answered, Loop
<1>2. Answers(calls[Loop], reply)
  BY <1>1, NextMoves, LoopCall DEF IInv, Sent
<1>3. /\ reply.id \in 1..sequence' /\ jobs'[reply.id].leaseId = reply.lease
      /\ reply \in Reply
  BY <1>1, <1>2 DEF Answers
<1>4. reply.lease # 0
  BY <1>1, <1>3 DEF Reply, Control, Ok, Idle, Conflict, TooLarge, Failure, Leases
<1>5. jobs'[reply.id].status \in {"leased", "running"}
  BY <1>3, <1>4 DEF IInv, Typed, StoreTyped, Store!Active
<1>6. QED BY <1>3, <1>5 DEF Runs, Leased

LEMMA TiedStays ==
  ASSUME IInv, IInv', Sole, Sole', Prompting, Tied, [Next]_vars
  PROVE  Tied'
<1> SUFFICES ASSUME faults' = 0 PROVE Tied'
  BY DEF Tied
<1>1. Moves /\ Typed
  BY NextMoves DEF IInv
<1>2. faults = 0 /\ NoFault /\ live /\ up
  BY <1>1, LivesStays DEF Sole, Lives
<1>3. ASSUME active' # None
      PROVE  \/ active # None /\ active'.id = active.id
             \/ Answered(Loop) /\ active'.id = calls[Loop].reply.id
  BY <1>1, <1>3 DEF Moves, ActiveMoves, Continues, Takes
<1>4. ASSUME active # None \/ Answered(Loop)
      PROVE  Runs' \cup Leased' \subseteq Runs \cup Leased
  BY <1>2, <1>4, ActiveJobs DEF Sole
<1>5. ASSUME active' # None PROVE Runs' \cup Leased' \subseteq {active'.id}
  BY <1>2, <1>3, <1>4, <1>5 DEF Tied
<1>6. ASSUME Answered(Loop)' PROVE Runs' \cup Leased' \subseteq {calls'[Loop].reply.id}
  <2>1. CASE calls'[Loop] = calls[Loop]
    <3>1. Answered(Loop)
      BY <1>6, <2>1 DEF Answered
    <3>2. QED BY <1>2, <1>4, <2>1, <3>1 DEF Tied
  <2>2. CASE calls'[Loop] # calls[Loop]
    <3>1. calls'[Loop].reply.id \in Runs' \cup Leased'
      BY <1>6, <2>2, OfferedJob
    <3>2. One(Runs \cup Leased)'
      BY DEF Sole, Alone
    <3>3. QED BY <3>1, <3>2 DEF One
  <2>3. QED BY <2>1, <2>2
<1>7. ASSUME calls'[Loop] # None, calls'[Loop].phase = "answered", calls'[Loop] # calls[Loop]
      PROVE  Rules(Loop, calls'[Loop].reply)
  BY <1>2, <1>7, LoopAnswers
<1>8. ASSUME Controlled' PROVE control' # None /\ calls'[Loop].reply = control'
  <2>1. CASE calls'[Loop] = calls[Loop]
    <3>1. Controlled /\ control # None /\ calls[Loop].reply = control
      BY <1>2, <1>8, <2>1 DEF Controlled, Tied
    <3>2. ASSUME NEW s \in Slots, ControlAck(s) PROVE FALSE
      <4>1. calls[s] # None /\ calls[s].op = "controlAck" /\ calls[s].phase = "sent"
        BY <3>2 DEF ControlAck, Arrived, InPhase
      <4>2. s # Loop
        BY <3>1, <4>1 DEF Controlled
      <4>3. s # Event
        BY <1>1, <4>1 DEF Typed, CallsTyped, CallFits, Event
      <4>4. s[2] \in 0..MaxFaults /\ ~(s[2] > 0)
        BY <1>2, <4>1, SlotFacts DEF IInv, Fresh
      <4>5. s[2] = 0
        BY <4>4, BoundsAssumption
      <4>6. QED BY <4>2, <4>3, <4>5, SlotFacts
    <3>3. control' = control
      BY <1>1, <1>2, <3>1, <3>2, ControlSteps DEF IInv
    <3>4. QED BY <2>1, <3>1, <3>3
  <2>2. CASE calls'[Loop] # calls[Loop]
    BY <1>7, <1>8, <2>2 DEF Controlled, Rules
  <2>3. QED BY <2>1, <2>2
<1>9. ASSUME control' # None, control'.id # 0
      PROVE  /\ active' # None => active'.id = control'.id
             /\ Answered(Loop)' => calls'[Loop].reply.id = control'.id
  <2>1. ASSUME Answered(Loop)' PROVE Answered(Loop) /\ calls'[Loop] = calls[Loop]
    <3>1. calls'[Loop] # calls[Loop] => control' = None
      BY <1>7, <2>1 DEF Answered, Rules
    <3>2. QED BY <1>9, <2>1, <3>1 DEF Answered
  <2>2. CASE control' = control
    BY <1>2, <1>3, <1>9, <2>1, <2>2 DEF Tied
  <2>3. CASE active' = active /\ control'.id \in Runs \cup Leased
    BY <1>2, <2>1, <2>3 DEF Tied
  <2>4. ASSUME NEW s \in Slots, ControlAck(s) PROVE control' \in {None, control}
    BY <2>4 DEF ControlAck
  <2>5. QED BY <1>1, <1>2, <1>9, <2>2, <2>3, <2>4, ControlSteps DEF IInv
<1>10. QED BY <1>5, <1>6, <1>8, <1>9 DEF Tied

(* While nothing was lost or reloaded, an abort that names one job never   *)
(* reaches the extension while it has another one, although handleControl  *)
(* aborts the agent also when its job does not match (index.ts:434).       *)
THEOREM NoStrayAbortHolds == Spec => []NoStrayAbort
<1>1. Init => Tied
  <2>1. Init => 1..sequence = {} /\ calls[Loop] = None /\ active = None /\ control = None
    BY SlotFacts DEF Init, Store!Init
  <2>2. QED BY <2>1 DEF Tied, Runs, Leased, Answered, Controlled
<1>2. IInv /\ IInv' /\ Sole /\ Sole' /\ Prompting /\ Tied /\ [Next]_vars => Tied'
  BY TiedStays
<1>3. Tied => NoStrayAbort
  BY DEF Tied, NoStrayAbort, Controlled, InPhase
<1>4. QED BY <1>1, <1>2, <1>3, Invariant, SoleHolds, PromptingHolds, PTL DEF Spec

-----------------------------------------------------------------------------
(* A job's result is the answer to its own prompt.                         *)

\* Unless a second prompt has ended it, the segment of a job whose prompt is
\* in has no text but the answer to it, and the agent works on nothing else.
Tells(segment, i, astray) ==
  segment = None \/ (segment.user /\ (segment.cut \/ (segment.text \in {None, i} /\ ~astray)))
Unasked(segment) == segment # None /\ ~segment.user => segment.text = None
Own ==
  /\ \A i \in Jobs : Unasked(segments[i])
  /\ faults <= 1 => \A i \in Jobs : prompted[i] > 0 => Tells(segments[i], i, streaming /\ turn # i)

\* What is recorded and what is answered keeps it so.
LEMMA SegmentTells ==
  ASSUME NEW segment \in Segment \cup {None}, Unasked(segment), NEW i \in Jobs
  PROVE  /\ Unasked(H!Marked)
         /\ Unasked(H!WithUser(segment)) /\ Tells(H!WithUser(segment), i, FALSE)
         /\ \A astray \in BOOLEAN :
              Tells(segment, i, astray) => Tells(segment, i, FALSE) /\ Tells(H!WithUser(segment), i, TRUE)
         /\ \A who \in Authors \cup {None}, stop \in {"stop", "error", "aborted"} :
              /\ Unasked(H!WithAnswer(segment, who, stop))
              /\ Tells(segment, i, who # i) => Tells(H!WithAnswer(segment, who, stop), i, who # i)
<1> USE NoneApart DEF Segment, Unasked, Tells
<1>1. Unasked(H!Marked)
  BY DEF H!Marked
<1>2. /\ Unasked(H!WithUser(segment)) /\ Tells(H!WithUser(segment), i, FALSE)
      /\ \A astray \in BOOLEAN :
           Tells(segment, i, astray) => Tells(segment, i, FALSE) /\ Tells(H!WithUser(segment), i, TRUE)
  BY DEF H!WithUser
<1>3. ASSUME NEW who \in Authors \cup {None}, NEW stop \in {"stop", "error", "aborted"}
      PROVE  /\ Unasked(H!WithAnswer(segment, who, stop))
             /\ Tells(segment, i, who # i) => Tells(H!WithAnswer(segment, who, stop), i, who # i)
  BY DEF H!WithAnswer
<1>4. QED BY <1>1, <1>2, <1>3

\* The steps that touch the session's entries.  A job is marked before its
\* prompt enters.
Entries == <<segments, turn, streaming, prompted>>
MarksEarly(i) ==
  /\ segments' = Marking(i) /\ UNCHANGED <<turn, streaming, prompted>>
  /\ faults <= 1 => prompted[i] = 0

LEMMA LoopEntries ==
  ASSUME Typed, Offered, Dropped, PollLoop
  PROVE  UNCHANGED Entries \/ \E i \in Jobs : MarksEarly(i)
<1>1. ASSUME NEW kind \in {"job", "resume"}, LoopGets("poll"), calls[Loop].reply.kind = kind, active = None,
             segments' = MarkUnlessSent(calls[Loop].reply.id)
      PROVE  UNCHANGED Entries \/ \E i \in Jobs : MarksEarly(i)
  <2> DEFINE reply == calls[Loop].reply
             job   == NewActive(reply, kind = "resume")
  <2>1. up /\ UNCHANGED <<turn, streaming, prompted>>
    BY <1>1 DEF LoopGets, LoopStep
  <2>2. /\ job.id = reply.id /\ reply.id \in Jobs /\ job.dispatched = "no" /\ Fit(job)
        /\ job.sent = HasUserIn(segments, job.id)
    BY <1>1, <2>1, TakenFits
  <2> HIDE DEF job
  <2>3. faults <= 1 /\ ~HasUserIn(segments, reply.id) => ~Known(reply.id)
    BY <2>2 DEF Fit
  <2>4. prompted[reply.id] \in Nat
    BY <2>2 DEF Typed, AgentTyped
  <2>5. faults <= 1 /\ ~HasUserIn(segments, reply.id) => prompted[reply.id] = 0
    BY <2>3, <2>4 DEF Known
  <2>6. QED BY <1>1, <2>1, <2>2, <2>5 DEF MarkUnlessSent, HasUserIn, HasUserAfterMarker, MarksEarly, Entries
<1>2. PollGetsJob \/ PollGetsResume => UNCHANGED Entries \/ \E i \in Jobs : MarksEarly(i)
  <2>1. CASE PollGetsResume /\ active # None
    BY <2>1 DEF PollGetsResume, LoopGets, LoopStep, Entries
  <2>2. QED BY <1>1, <2>1 DEF PollGetsJob, PollGetsResume
<1>3. QED BY <1>2 DEF PollLoop, InspectActive, SendPoll, SendControlAck, PollGetsNothing, PollGetsControl,
                      AckAnswered, ControlAckAnswered, TerminalAnswered, LoopAt, LoopGets, LoopStep, agent, Entries

LEMMA EntrySteps ==
  ASSUME Typed, Fitting, Offered, Dropped, [Next]_vars
  PROVE  \/ UNCHANGED Entries
         \/ \E i \in Jobs : MarksEarly(i)
         \/ \E k \in DOMAIN inbox : RecordPrompt(k)
         \/ AgentSettled \/ TuiExits
<1>1. CASE Controller
  BY <1>1 DEF Controller, Serve, Refuse, Poll, Ack, Result, FailReport, ControlAck, Arrived, PollExpires,
              LeaseExpires, MarkStopped, ControllerStep, agent, Entries
<1>2. CASE Extension
  BY <1>2, LoopEntries DEF Extension, TerminalAnswered, DispatchOverdue, agent, Entries
<1>3. ASSUME NEW k \in DOMAIN inbox, InputEvent(k)
      PROVE  UNCHANGED Entries \/ \E i \in Jobs : MarksEarly(i)
  <2> DEFINE marks == active # None /\ injecting = active.id /\ active.dispatched # "no" /\ ~active.sent
  <2>1. UNCHANGED <<turn, streaming, prompted>> /\ segments' = IF marks THEN Marking(active.id) ELSE segments
    BY <1>3 DEF InputEvent
  <2>2. marks => active.id \in Jobs /\ (faults <= 1 => prompted[active.id] = 0)
    BY LoopTypes DEF ActiveJob, Fitting, Fit
  <2>3. QED BY <2>1, <2>2 DEF MarksEarly, Entries
<1>4. CASE Clients
  BY <1>4 DEF Clients, Submit, Cancel, AbortSession, StartSession, TypePrompt, ControllerStep, agent, Entries
<1>5. CASE Faults
  BY <1>5 DEF Faults, CallFails, OrphanLost, Oversized, PromptLost, Watchdog, Reload, ControllerStep, agent, Entries
<1>6. CASE UNCHANGED vars
  BY <1>6 DEF vars, agent, Entries
<1>7. QED BY <1>1, <1>2, <1>3, <1>4, <1>5, <1>6 DEF Next, Pi

LEMMA OwnStays ==
  ASSUME IInv, Prompting, Own, [Next]_vars
  PROVE  Own'
<1>1. /\ Typed /\ segments \in [Jobs -> Segment \cup {None}] /\ turn \in Authors \cup {None}
      /\ streaming \in BOOLEAN /\ prompted \in [Jobs -> Nat] /\ faults \in Nat
      /\ \A i \in Jobs : Unasked(segments[i])
  BY BoundsAssumption DEF IInv, Typed, AgentTyped, SessionTyped, Own
<1>2. faults' <= 1 => faults <= 1
  BY <1>1, FaultsCount, FaultsGrow DEF Grows
<1>3. CASE UNCHANGED Entries
  BY <1>2, <1>3 DEF Own, Entries
<1>4. ASSUME NEW i \in Jobs, MarksEarly(i) PROVE Own'
  <2>1. \A j \in Jobs : segments'[j] = IF j = i THEN H!Marked ELSE segments[j]
    BY <1>1, <1>4 DEF MarksEarly, Marking
  <2>2. Unasked(H!Marked)
    BY <1>1, SegmentTells
  <2>3. UNCHANGED <<turn, streaming, prompted>> /\ (faults <= 1 => prompted[i] = 0)
    BY <1>4 DEF MarksEarly
  <2>4. QED BY <1>1, <1>2, <2>1, <2>2, <2>3 DEF Own
<1>5. ASSUME NEW segs \in AnsweredAtLast \cup AnsweredSoFar, NEW j \in Jobs, streaming \/ segs = segments
      PROVE  /\ segs[j] \in Segment \cup {None} /\ Unasked(segs[j])
             /\ faults <= 1 /\ prompted[j] > 0 => Tells(segs[j], j, streaming /\ turn # j)
  <2>1. CASE segs = segments
    BY <1>1, <2>1 DEF Own
  <2>2. ASSUME streaming, NEW stop \in {"stop", "error", "aborted"}, segs = Answering(turn, stop)
        PROVE  /\ segs[j] \in Segment \cup {None} /\ Unasked(segs[j])
               /\ faults <= 1 /\ prompted[j] > 0 => Tells(segs[j], j, streaming /\ turn # j)
    <3>1. segs[j] = H!WithAnswer(segments[j], turn, stop) /\ segments[j] \in Segment \cup {None}
      BY <1>1, <2>2 DEF Answering
    <3>2. segs[j] \in Segment \cup {None}
      BY <1>1, <3>1, SegmentTypes
    <3>3. /\ Unasked(segs[j])
          /\ Tells(segments[j], j, turn # j) => Tells(segs[j], j, turn # j)
      BY <1>1, <3>1, SegmentTells DEF Tells, Unasked
    <3>4. faults <= 1 /\ prompted[j] > 0 => Tells(segments[j], j, streaming /\ turn # j)
      BY DEF Own
    <3>5. (streaming /\ turn # j) = (turn # j)
      BY <2>2
    <3>6. QED BY <3>2, <3>3, <3>4, <3>5
  <2>3. QED BY <1>5, <2>1, <2>2 DEF AnsweredAtLast, AnsweredSoFar
<1>6. ASSUME NEW k \in DOMAIN inbox, RecordPrompt(k) PROVE Own'
  <2> DEFINE who == inbox[k].who
  <2>1. PICK segs \in AnsweredSoFar : segments' = Recording(segs)
    BY <1>6 DEF RecordPrompt
  <2>2. /\ turn' = who /\ streaming' = TRUE
        /\ prompted' = IF who = Local THEN prompted ELSE [prompted EXCEPT ![who] = @ + 1]
    BY <1>6 DEF RecordPrompt
  <2>3. streaming \/ segs = segments
    BY <2>1 DEF AnsweredSoFar
  <2>4. \A j \in Jobs : segments'[j] = H!WithUser(segs[j])
    BY <2>1 DEF Recording
  <2>5. ASSUME NEW j \in Jobs
        PROVE  /\ Unasked(segments'[j]) /\ Tells(segments'[j], j, FALSE)
               /\ faults <= 1 /\ prompted[j] > 0 => Tells(segments'[j], j, TRUE)
    <3> DEFINE astray == streaming /\ turn # j
    <3>1. /\ segs[j] \in Segment \cup {None} /\ Unasked(segs[j])
          /\ faults <= 1 /\ prompted[j] > 0 => Tells(segs[j], j, astray)
      BY <1>5, <2>3
    <3>2. astray \in BOOLEAN
      OBVIOUS
    <3> HIDE DEF astray
    <3>3. /\ Unasked(H!WithUser(segs[j])) /\ Tells(H!WithUser(segs[j]), j, FALSE)
          /\ Tells(segs[j], j, astray) => Tells(H!WithUser(segs[j]), j, TRUE)
      BY <3>1, <3>2, SegmentTells DEF Tells, Unasked
    <3>4. QED BY <2>4, <3>1, <3>3
  <2>6. ASSUME NEW j \in Jobs, prompted'[j] > 0, j # who PROVE prompted[j] > 0
    BY <1>1, <2>2, <2>6
  <2>7. ASSUME NEW j \in Jobs, faults' <= 1, prompted'[j] > 0
        PROVE  Tells(segments'[j], j, streaming' /\ turn' # j)
    <3>1. CASE j = who
      BY <2>2, <2>5, <3>1 DEF Tells
    <3>2. CASE j # who
      BY <1>2, <2>2, <2>5, <2>6, <2>7, <3>2 DEF Tells
    <3>3. QED BY <3>1, <3>2
  <2>8. QED BY <2>5, <2>7 DEF Own
<1>7. CASE AgentSettled
  <2>1. /\ streaming /\ streaming' = FALSE /\ segments' \in AnsweredAtLast /\ UNCHANGED prompted
    BY <1>7 DEF AgentSettled
  <2>2. ASSUME NEW j \in Jobs
        PROVE  /\ Unasked(segments'[j])
               /\ faults <= 1 /\ prompted[j] > 0 => Tells(segments'[j], j, FALSE)
    BY <1>5, <2>1, <2>2 DEF Tells
  <2>3. QED BY <1>2, <2>1, <2>2 DEF Own, Tells
<1>8. CASE TuiExits
  BY <1>8 DEF TuiExits, Own, Unasked, Tells
<1>9. QED BY <1>1, <1>3, <1>4, <1>6, <1>7, <1>8, EntrySteps DEF Prompting

\* An outcome that is the text of the job's segment, an error or a result
\* that is flagged as interrupted.
Speaks(outcome, segment) ==
  outcome # None /\ outcome.op = "result" /\ ~outcome.interrupted =>
    /\ segment # None /\ segment.user /\ ~segment.cut
    /\ segment.text # None /\ outcome.text = segment.text

LEMMA FinishSpeaks ==
  ASSUME NEW job \in ActiveJob, NEW segment \in Segment \cup {None}
  PROVE  /\ \A code : FailWith(job, code).terminal = FailOf(code) /\ Speaks(FailOf(code), segment)
         /\ Aborted(job).terminal = ResultOf(Nothing, TRUE) /\ Speaks(ResultOf(Nothing, TRUE), segment)
         /\ LET new == Finish(job, H!SegmentResult(segment)).terminal
            IN  new = job.terminal \/ Speaks(new, segment)
<1>1. \A code : FailWith(job, code).terminal = FailOf(code) /\ Speaks(FailOf(code), segment)
  BY DEF FailWith, FailOf, Speaks, ActiveJob
<1>2. Aborted(job).terminal = ResultOf(Nothing, TRUE) /\ Speaks(ResultOf(Nothing, TRUE), segment)
  BY DEF Aborted, ResultOf, Speaks, ActiveJob
<1>3. LET new == Finish(job, H!SegmentResult(segment)).terminal
      IN  new = job.terminal \/ Speaks(new, segment)
  <2> DEFINE h == H!SegmentResult(segment)
             new == Finish(job, h).terminal
  <2>1. \/ h.status \in {"pending", "error"} \/ h.interrupted
        \/ /\ segment # None /\ segment.user /\ ~segment.cut
           /\ segment.text # None /\ h.text = segment.text
    BY DEF H!SegmentResult, H!SegmentHasUser, H!Harvested, H!Pending, Segment
  <2>2. h \in Harvests
    BY SegmentTypes
  <2> HIDE DEF h
  <2>3. \/ new = job.terminal \/ new = ResultOf(Nothing, TRUE) \/ new = FailOf("assistant-error")
        \/ h.status \notin {"pending", "error"} /\ new = ResultOf(h.text, h.interrupted \/ job.interrupted)
    <3> DEFINE set(outcome) == [job EXCEPT !.terminal = outcome]
    <3>1. \A outcome : set(outcome).terminal = outcome
      BY DEF ActiveJob
    <3>2. \/ Finish(job, h) \in {job, set(ResultOf(Nothing, TRUE)), FailWith(job, "assistant-error")}
          \/ /\ h.status \notin {"pending", "error"}
             /\ Finish(job, h) = set(ResultOf(h.text, h.interrupted \/ job.interrupted))
      BY DEF Finish
    <3> HIDE DEF set
    <3>3. QED BY <1>1, <3>1, <3>2
  <2>4. CASE h.status \notin {"pending", "error"} /\ new = ResultOf(h.text, h.interrupted \/ job.interrupted)
    <3> DEFINE flag == h.interrupted \/ job.interrupted
    <3>1. new.text = h.text /\ new.interrupted = flag
      BY <2>4 DEF ResultOf
    <3> HIDE DEF new
    <3>2. ~new.interrupted => /\ segment # None /\ segment.user /\ ~segment.cut
                              /\ segment.text # None /\ new.text = segment.text
      <4>1. CASE h.interrupted
        BY <3>1, <4>1
      <4>2. CASE ~h.interrupted
        BY <2>1, <2>4, <3>1, <4>2
      <4>3. QED BY <4>1, <4>2
    <3>3. Speaks(new, segment)
      BY <3>2 DEF Speaks
    <3>4. QED BY <3>3 DEF new, h
  <2>5. QED BY <1>1, <1>2, <2>3, <2>4 DEF h
<1>4. QED BY <1>1, <1>2, <1>3

\* The outcome of the extension's job stays, or comes from its segment.
Stands(old, new, i) == new = old \/ Speaks(new, segments[i])

LEMMA InspectSpeaks ==
  ASSUME Typed, NEW job \in ActiveJob, Inspect(job)
  PROVE  active'.id = job.id /\ Stands(job.terminal, active'.terminal, job.id)
<1> DEFINE sent == [job EXCEPT !.sent = TRUE]
           harvested == HarvestResult(job.id)
           new == Inspected(job)
<1>1. job # None /\ segments[job.id] \in Segment \cup {None} /\ job.id \in Jobs
  BY NoneApart DEF ActiveJob, Typed, AgentTyped
<1>2. sent \in ActiveJob /\ sent.id = job.id /\ sent.terminal = job.terminal
  BY DEF ActiveJob
<1>3. harvested = H!SegmentResult(segments[job.id])
  BY DEF HarvestResult
<1>4. new \in {job, sent, Finish(sent, harvested), FailWith(sent, "missing-assistant-result"),
               FailWith(job, "dispatch-timeout")}
  BY DEF Inspected
<1> HIDE DEF sent, harvested, new
<1>5. Same(job, new)
  BY InspectedJob DEF new
<1>6. Stands(job.terminal, new.terminal, job.id)
  <2>1. job.id \in Jobs /\ segments[job.id] \in Segment \cup {None}
    BY <1>1
  <2>2. CASE new \in {job, sent}
    BY <1>2, <2>2 DEF Stands
  <2>3. CASE new \in {FailWith(sent, "missing-assistant-result"), FailWith(job, "dispatch-timeout")}
    <3>1. /\ FailWith(sent, "missing-assistant-result").terminal = FailOf("missing-assistant-result")
          /\ FailWith(job, "dispatch-timeout").terminal = FailOf("dispatch-timeout")
      BY <1>2, <2>1, FinishSpeaks
    <3>2. \A code : Speaks(FailOf(code), segments[job.id])
      BY <2>1, FinishSpeaks
    <3>3. QED BY <2>3, <3>1, <3>2 DEF Stands
  <2>4. CASE new = Finish(sent, harvested)
    <3>1. LET outcome == Finish(sent, H!SegmentResult(segments[job.id])).terminal
          IN  outcome = sent.terminal \/ Speaks(outcome, segments[job.id])
      BY <1>2, <2>1, FinishSpeaks
    <3>2. QED BY <1>2, <1>3, <2>4, <3>1 DEF Stands
  <2>5. QED BY <1>4, <2>2, <2>3, <2>4
<1>7. active' \in {job, Dispatched(job), PostedFrom("loop", new)}
  BY <1>1 DEF Inspect, Report, new
<1>8. Dispatched(job).id = job.id /\ Dispatched(job).terminal = job.terminal
  BY DEF Dispatched, ActiveJob
<1>9. Carried(new, PostedFrom("loop", new))
  BY <1>5, CarriedJob DEF Same
<1>10. QED BY <1>5, <1>6, <1>7, <1>8, <1>9 DEF Same, Stands, Carried

LEMMA ReportDecides ==
  ASSUME Typed, NEW slot \in Slots, TerminalAnswered(slot), active' # None
  PROVE  Stands(Outcome(active), active'.terminal, active'.id)
<1>1. active # None => active \in ActiveJob /\ active.terminal = Outcome(active)
  BY LoopTypes DEF Outcome
<1>2. \/ UNCHANGED active
      \/ /\ active # None
         /\ \/ active' = [FailWith(active, "result-too-large") EXCEPT !.posting = "no"]
            \/ active' = [active EXCEPT !.attempts = active.attempts + 1]
            \/ active' = [active EXCEPT !.attempts = active.attempts + 1, !.posting = "no"]
  BY DEF TerminalAnswered, Cleared, PostsFor
<1>3. CASE active # None /\ active' = [FailWith(active, "result-too-large") EXCEPT !.posting = "no"]
  <2>1. segments[active.id] \in Segment \cup {None}
    BY <1>1, <1>3 DEF ActiveJob, Typed, AgentTyped
  <2>2. active'.id = active.id
    BY <1>1, <1>3 DEF FailWith, ActiveJob
  <2>3. active'.terminal = FailOf("result-too-large")
    BY <1>1, <1>3 DEF FailWith, ActiveJob
  <2>4. Speaks(FailOf("result-too-large"), segments[active.id])
    BY <1>1, <1>3, <2>1, FinishSpeaks
  <2>5. QED BY <2>2, <2>3, <2>4 DEF Stands
<1>4. CASE /\ active # None
           /\ active' \in {[active EXCEPT !.attempts = active.attempts + 1],
                          [active EXCEPT !.attempts = active.attempts + 1, !.posting = "no"]}
  BY <1>1, <1>4 DEF Stands, ActiveJob
<1>5. QED BY <1>1, <1>2, <1>3, <1>4 DEF Stands

LEMMA LoopDecides ==
  ASSUME Typed, PollLoop, active' # None
  PROVE  Stands(Outcome(active), active'.terminal, active'.id)
<1>1. /\ active # None => active \in ActiveJob /\ active.terminal = Outcome(active)
      /\ active = None => Outcome(active) = None
  BY LoopTypes DEF Outcome
<1>2. UNCHANGED active => Stands(Outcome(active), active'.terminal, active'.id)
  BY <1>1 DEF Stands
<1>3. ASSUME NEW job, active # None => job = active, active = None => job = None, Inspect(job)
      PROVE  Stands(Outcome(active), active'.terminal, active'.id)
  <2>1. active # None
    BY <1>3 DEF Inspect
  <2>2. QED BY <1>1, <1>3, <2>1, InspectSpeaks
<1>4. CASE InspectActive
  BY <1>3, <1>4 DEF InspectActive
<1>5. CASE PollGetsJob
  BY <1>1, <1>5 DEF PollGetsJob, NewActive, Stands
<1>6. CASE PollGetsResume
  <2> DEFINE job == NewActive(calls[Loop].reply, TRUE)
  <2>1. CASE active = None /\ Inspect(job)
    <3>1. job \in ActiveJob
      BY <1>6, AnsweredJob, TakenJob DEF PollGetsResume, LoopGets
    <3>2. job.terminal = None
      BY DEF NewActive
    <3> HIDE DEF job
    <3>3. QED BY <1>1, <2>1, <3>1, <3>2, InspectSpeaks
  <2>2. QED BY <1>2, <1>6, <2>1 DEF PollGetsResume
<1>7. CASE PollGetsControl
  <2> DEFINE c == calls[Loop].reply
             job == [active EXCEPT !.interrupted = TRUE]
             harvested == HarvestResult(active.id)
  <2>1. PICK next \in {active, job, Finish(job, harvested), Aborted(job)} :
          active' = next \/ active' = PostedFrom("loop", next)
    BY <1>7 DEF PollGetsControl, Report
  <2>2. active = None => active' = active
    BY <1>7 DEF PollGetsControl, Report, CanPost
  <2>3. CASE active # None
    <3>1. /\ job \in ActiveJob /\ job.terminal = active.terminal /\ job.id = active.id
          /\ segments[active.id] \in Segment \cup {None}
      BY <1>1, <2>3 DEF ActiveJob, Typed, AgentTyped
    <3>2. harvested = H!SegmentResult(segments[active.id]) /\ harvested \in Harvests
      BY <3>1, SegmentTypes DEF HarvestResult
    <3> HIDE DEF job, harvested
    <3>3. Finish(job, harvested).id = job.id /\ Aborted(job).id = job.id
      BY <3>1, <3>2, SameJob DEF Same
    <3>8. next \in ActiveJob => active'.id = next.id /\ active'.terminal = next.terminal
      BY <2>1, CarriedJob DEF Carried, Same
    <3>9. active \in ActiveJob /\ Same(job, Finish(job, harvested)) /\ Same(job, Aborted(job))
      BY <1>1, <2>3, <3>1, <3>2, SameJob
    <3>4. CASE next \in {active, job}
      BY <1>1, <2>3, <3>1, <3>4, <3>8, <3>9 DEF Stands
    <3>5. CASE next = Finish(job, harvested)
      <4>1. LET outcome == Finish(job, H!SegmentResult(segments[active.id])).terminal
            IN  outcome = job.terminal \/ Speaks(outcome, segments[active.id])
        BY <3>1, FinishSpeaks
      <4>2. QED BY <1>1, <2>3, <3>1, <3>2, <3>3, <3>5, <3>8, <3>9, <4>1 DEF Stands, Same
    <3>6. CASE next = Aborted(job)
      <4>1. Speaks(next.terminal, segments[active.id])
        BY <3>1, <3>6, FinishSpeaks
      <4>2. QED BY <3>1, <3>3, <3>6, <3>8, <3>9, <4>1 DEF Stands, Same
    <3>7. QED BY <2>1, <3>4, <3>5, <3>6
  <2>4. QED BY <1>2, <2>2, <2>3
<1>8. CASE AckAnswered
  <2> DEFINE job == [active EXCEPT !.acknowledged = TRUE]
  <2>1. Inspect(IF active = None THEN None ELSE job)
    BY <1>8 DEF AckAnswered, Cleared
  <2>2. active # None /\ Inspect(job)
    BY <2>1 DEF Inspect
  <2>3. job \in ActiveJob /\ job.terminal = active.terminal
    BY <1>1, <2>2 DEF ActiveJob
  <2> HIDE DEF job
  <2>4. QED BY <1>1, <2>2, <2>3, InspectSpeaks
<1>9. CASE TerminalAnswered(Loop)
  BY <1>9, SlotFacts, ReportDecides
<1>10. CASE SendPoll \/ SendControlAck \/ PollGetsNothing
  BY <1>2, <1>10 DEF SendPoll, SendControlAck, PollGetsNothing, bridge
<1>11. CASE ControlAckAnswered
  <2>1. active' = PostedFrom("loop", active)
    BY <1>11 DEF ControlAckAnswered, Report
  <2>2. active # None
    BY <2>1 DEF PostedFrom, CanPost
  <2>3. QED BY <1>1, <2>1, <2>2, CarriedJob DEF Carried, Stands
<1>12. QED
  BY <1>4, <1>5, <1>6, <1>7, <1>8, <1>9, <1>10, <1>11, SlotFacts DEF PollLoop

LEMMA NextDecides ==
  ASSUME IInv, [Next]_vars, active' # None
  PROVE  \/ Stands(Outcome(active), active'.terminal, active'.id)
         \/ /\ UNCHANGED <<faults, prompted>>
            /\ Speaks(active'.terminal, segments'[active'.id])
<1>1. /\ Typed
      /\ active # None => active \in ActiveJob /\ active.id \in Jobs /\ active.terminal = Outcome(active)
  BY LoopTypes DEF IInv, Outcome, ActiveJob
<1>2. UNCHANGED active => Stands(Outcome(active), active'.terminal, active'.id)
  BY <1>1 DEF Stands
<1>3. ASSUME active # None, active'.terminal = active.terminal
      PROVE  Stands(Outcome(active), active'.terminal, active'.id)
  BY <1>1, <1>3 DEF Stands
<1>4. CASE Controller
  BY <1>2, <1>4 DEF Controller, Serve, Refuse, Poll, Ack, Result, FailReport, ControlAck, Arrived, PollExpires,
              LeaseExpires, MarkStopped, ControllerStep, bridge
<1>5. CASE PollLoop
  BY <1>1, <1>5, LoopDecides
<1>6. CASE TerminalAnswered(Event)
  BY <1>1, <1>6, SlotFacts, ReportDecides
<1>7. CASE DispatchOverdue
  BY <1>1, <1>3, <1>7 DEF DispatchOverdue, ActiveJob
<1>8. ASSUME NEW k \in DOMAIN inbox, InputEvent(k) \/ RecordPrompt(k)
      PROVE  Stands(Outcome(active), active'.terminal, active'.id)
  <2>1. \/ UNCHANGED active
        \/ /\ active # None
           /\ active' \in {[active EXCEPT !.observed = TRUE], [active EXCEPT !.interrupted = TRUE],
                          [active EXCEPT !.sent = TRUE, !.observed = FALSE]}
    BY <1>8 DEF InputEvent, RecordPrompt
  <2>2. QED BY <1>1, <1>2, <1>3, <2>1 DEF ActiveJob
<1>9. CASE AgentSettled
  <2>1. PICK segs \in AnsweredAtLast :
         LET sent      == active.sent \/ H!SegmentHasUser(segs[active.id])
             job       == [active EXCEPT !.sent = sent]
             harvested == H!SegmentResult(segs[active.id])
             next      == IF sent /\ harvested.status = "pending" /\ ~job.interrupted
                            THEN FailWith(job, "missing-assistant-result")
                            ELSE Finish(job, harvested)
         IN  /\ segments' = segs
             /\ \/ UNCHANGED active
                \/ active # None /\ active' \in {next, PostedFrom("event", next)}
                \/ active # None /\ active' = Dispatched(job)
    BY <1>9 DEF AgentSettled
  <2> DEFINE sent      == active.sent \/ H!SegmentHasUser(segs[active.id])
             job       == [active EXCEPT !.sent = sent]
             harvested == H!SegmentResult(segs[active.id])
  <2>2. /\ segments' = segs /\ UNCHANGED <<faults, prompted>>
        /\ segs \in [Jobs -> Segment \cup {None}]
    BY <1>1, <1>9, <2>1, SegmentsTypes DEF AgentSettled, NoFault
  <2>3. CASE active # None
    <3>1. segs[active.id] \in Segment \cup {None}
      BY <1>1, <2>2, <2>3
    <3>2. sent \in BOOLEAN /\ harvested \in Harvests
      BY <1>1, <2>3, <3>1, SegmentTypes DEF ActiveJob
    <3>3. PICK next \in {active, FailWith(job, "missing-assistant-result"), Finish(job, harvested), Dispatched(job)} :
            active' = next \/ active' = PostedFrom("event", next)
      BY <2>1
    <3> HIDE DEF sent
    <3>4. job \in ActiveJob /\ job.terminal = active.terminal /\ job.id = active.id
      BY <1>1, <2>3, <3>2 DEF ActiveJob
    <3> HIDE DEF job
    <3>5. "missing-assistant-result" \in Codes
      BY DEF Codes
    <3>6. active'.id = active.id /\ active'.terminal = next.terminal
      <4>1. /\ Same(job, FailWith(job, "missing-assistant-result")) /\ Same(job, Finish(job, harvested))
            /\ Same(job, Dispatched(job))
        BY <3>2, <3>4, <3>5, SameJob
      <4>2. next \in ActiveJob /\ next.id = active.id
        BY <1>1, <2>3, <3>3, <3>4, <4>1 DEF Same
      <4>3. QED BY <3>3, <4>2, CarriedJob DEF Carried, Same
    <3>7. CASE next = FailWith(job, "missing-assistant-result")
      <4>1. FailWith(job, "missing-assistant-result").terminal = FailOf("missing-assistant-result")
        BY <3>1, <3>4, FinishSpeaks
      <4>2. Speaks(FailOf("missing-assistant-result"), segs[active.id])
        BY <3>1, <3>4, FinishSpeaks
      <4>3. QED BY <2>2, <3>6, <3>7, <4>1, <4>2
    <3>8. CASE next = Finish(job, harvested)
      <4>1. LET outcome == Finish(job, H!SegmentResult(segs[active.id])).terminal
            IN  outcome = job.terminal \/ Speaks(outcome, segs[active.id])
        BY <3>1, <3>4, FinishSpeaks
      <4>2. active'.terminal = active.terminal \/ Speaks(active'.terminal, segs[active.id])
        BY <3>4, <3>6, <3>8, <4>1
      <4>3. QED BY <1>3, <2>2, <2>3, <3>6, <4>2
    <3>9. CASE next = Dispatched(job)
      <4>1. active'.terminal = active.terminal
        BY <3>4, <3>6, <3>9 DEF Dispatched, ActiveJob
      <4>2. QED BY <1>3, <2>3, <4>1
    <3>11. CASE next = active
      BY <1>3, <2>3, <3>6, <3>11
    <3>10. QED BY <3>3, <3>7, <3>8, <3>9, <3>11
  <2>4. QED BY <1>2, <2>1, <2>3
<1>10. CASE Clients
  <2>1. CASE TypePrompt
    <3>1. UNCHANGED active \/ (active # None /\ active' = [active EXCEPT !.interrupted = TRUE])
      BY <2>1 DEF TypePrompt
    <3>2. QED BY <1>1, <1>2, <1>3, <3>1 DEF ActiveJob
  <2>2. QED BY <1>2, <1>10, <2>1 DEF Clients, Submit, Cancel, AbortSession, StartSession, ControllerStep, bridge
<1>11. CASE Faults
  BY <1>2, <1>11 DEF Faults, CallFails, OrphanLost, Oversized, PromptLost, Watchdog, Reload, TuiExits,
                     ControllerStep, bridge
<1>12. CASE UNCHANGED vars
  BY <1>2, <1>12 DEF vars, bridge
<1>13. QED
  BY <1>4, <1>5, <1>6, <1>7, <1>8, <1>9, <1>10, <1>11, <1>12 DEF Next, Extension, Pi

(* When the extension decides on the result of a job whose own prompt was  *)
(* put to the agent, and does not flag it as interrupted, the text is the  *)
(* answer to that prompt, over one fault (harvestResult, message_end).     *)
THEOREM OwnAnswerHolds == Spec => OwnAnswer
<1>1. Init => Own
  BY DEF Init, Own, Unasked, Tells
<1>2. IInv /\ Prompting /\ Own /\ [Next]_vars => Own'
  BY OwnStays
<1>3. Spec => []Own
  BY <1>1, <1>2, Invariant, PromptingHolds, PTL DEF Spec
<1>4. IInv /\ IInv' /\ Own /\ Own' /\ [Next]_vars =>
        [LET outcome == Outcome(active')
         IN  faults <= 1 /\ outcome # Outcome(active) /\ outcome # None /\ prompted[active'.id] > 0
             => (outcome.op = "result" /\ ~outcome.interrupted => outcome.text = active'.id)]_active
  <2> SUFFICES ASSUME IInv, IInv', Own, Own', [Next]_vars, active' # None, faults <= 1,
                      active'.terminal # Outcome(active), active'.terminal # None, prompted[active'.id] > 0,
                      active'.terminal.op = "result", ~active'.terminal.interrupted
               PROVE  active'.terminal.text = active'.id
    BY DEF Outcome
  <2> DEFINE i == active'.id
             outcome == active'.terminal
  <2>1. i \in Jobs
    BY DEF IInv, Typed, ActiveTyped, ActiveJob
  <2>2. CASE Speaks(outcome, segments[i])
    <3>1. Tells(segments[i], i, streaming /\ turn # i)
      BY <2>1 DEF Own
    <3>2. QED BY <2>2, <3>1 DEF Speaks, Tells
  <2>3. CASE UNCHANGED <<faults, prompted>> /\ Speaks(outcome, segments'[i])
    <3>1. Tells(segments'[i], i, streaming' /\ turn' # i)
      BY <2>1, <2>3 DEF Own
    <3>2. QED BY <2>3, <3>1 DEF Speaks, Tells
  <2>4. QED BY <2>2, <2>3, NextDecides DEF Stands
<1>5. QED BY <1>3, <1>4, Invariant, PTL DEF Spec, OwnAnswer

=============================================================================
