--------------------------- MODULE SubagentProofs ---------------------------
(***************************************************************************)
(* Calls of the subagent tool are well formed and end completely, and the  *)
(* children of a call never write below the same path at once, for any     *)
(* number of calls, tasks, scopes and places.                              *)
(***************************************************************************)
EXTENDS SubagentProps, FiniteSetTheorems, SequenceTheorems, WellFoundedInduction, TLAPS

Child == [state : Procs \cup {"new", "gone"}, result : {"ok", "failed", "aborted"} \cup {None}]
End == [id : Calls, status : Statuses]

Typed ==
  /\ calls \in [Calls -> Execution \cup {None}]
  /\ children = [c \in Calls |-> children[c]]
  /\ running \subseteq Made /\ IsFiniteSet(running)
  /\ finished \in Seq(End) /\ told \subseteq End
  /\ \A e \in ToSet(finished) \cup told : e.id \in Made
  /\ enabled \in BOOLEAN
  /\ \A d \in sent : d.call \in Made

\* The pool of a call: no more active tasks than places, no two of them that
\* overlap, none of them pending as well, and the pending ones in order.
Proper(call) ==
  LET tasks == call.plan.tasks
  IN  /\ call.active \subseteq DOMAIN tasks
      /\ ToSet(call.pending) \subseteq DOMAIN tasks \ call.active
      /\ Cardinality(call.active) <= Limit(call.plan)
      /\ \A i, j \in call.active : i # j => ~ScopesOverlap(tasks[i], tasks[j])
      /\ \A k, l \in DOMAIN call.pending : k < l => call.pending[k] < call.pending[l]

\* A chain that goes on is at one step: those before it went well, and those
\* after it are pending and have not begun.
AtStep(call, kids, m) ==
  /\ call.state = "running" /\ call.active = {m}
  /\ ToSet(call.pending) = (m + 1)..Len(call.plan.tasks)
  /\ \A j \in 1..(m - 1) : kids[j].result = "ok"
  /\ \A j \in (m + 1)..Len(call.plan.tasks) : kids[j].state = "new"

InOrder(call, kids) ==
  \A i \in DOMAIN call.plan.tasks :
    kids[i].state # "new" \/ i \in call.active => \A j \in 1..(i - 1) : kids[j].result = "ok"

\* A call and its children: those that live are active tasks of it.
Healthy(call, kids) ==
  /\ Proper(call) /\ kids \in [DOMAIN call.plan.tasks -> Child]
  /\ \A i \in DOMAIN call.plan.tasks : kids[i].state \in Procs => i \in call.active
  /\ call.state = "ended" => call.active = {}
  /\ call.plan.mode = "chain" =>
       /\ InOrder(call, kids)
       /\ call.state # "ended" => \E m \in DOMAIN call.plan.tasks : AtStep(call, kids, m)

Executions == \A c \in Made : Healthy(calls[c], children[c])

\* The registry has the background jobs that go on and were not cancelled, and
\* an end of a job that was cancelled says so.
Jobs ==
  /\ \A c \in Made :
       c \in running <=> calls[c].background /\ ~calls[c].aborted /\ calls[c].state # "ended"
  /\ \A e \in ToSet(finished) \cup told :
       /\ calls[e.id].background /\ e.id \notin running
       /\ calls[e.id].aborted => e.status = "cancelled"

IInv == Typed /\ Executions /\ Jobs /\ JobsReported

-----------------------------------------------------------------------------
(* A set of natural numbers has a least one.                               *)
LEMMA LeastNumber ==
  ASSUME NEW S \in SUBSET Nat, S # {}
  PROVE  \E m \in S : \A k \in S : m <= k
<1> DEFINE R == {pair \in Nat \X Nat : pair[1] < pair[2]}
<1>1. IsWellFoundedOn(R, Nat)
  BY NatLessThanWellFounded, Zenon DEF OpToRel
<1>2. \A k, m \in Nat : k < m => <<k, m>> \in R
  OBVIOUS
<1> HIDE DEF R
<1>3. PICK m \in S : \A k \in S : ~(<<k, m>> \in R)
  BY <1>1, WFMin
<1>4. ASSUME NEW k \in S PROVE m <= k
  <2>1. ~(k < m)
    BY <1>2, <1>3
  <2>2. QED BY <2>1
<1>5. QED BY <1>4

(* A pool has a place, and not more than MAX_CONCURRENCY.                  *)
LEMMA LimitBounds ==
  ASSUME NEW plan \in Plans
  PROVE  /\ Limit(plan) \in Nat \ {0} /\ Limit(plan) <= Concurrency
         /\ plan.mode = "chain" => Limit(plan) = 1
         /\ plan.mode # "chain" => Limit(plan) <= Len(plan.tasks)
         /\ Len(plan.tasks) \in Nat \ {0} /\ DOMAIN plan.tasks = 1..Len(plan.tasks)
<1>1. Concurrency \in Nat \ {0} /\ plan.tasks \in Seq(ToSet(plan.tasks)) \ {<<>>}
  BY SubagentAssumption
<1>2. Len(plan.tasks) \in Nat \ {0} /\ DOMAIN plan.tasks = 1..Len(plan.tasks)
  BY <1>1, LenProperties, EmptySeq
<1>3. PICK least \in {Concurrency, Len(plan.tasks)} :
        \A k \in {Concurrency, Len(plan.tasks)} : least <= k
  <2>1. CASE Concurrency <= Len(plan.tasks)
    BY <1>1, <1>2, <2>1
  <2>2. CASE ~(Concurrency <= Len(plan.tasks))
    BY <1>1, <1>2, <2>2
  <2>3. QED BY <2>1, <2>2
<1>4. /\ Min({Concurrency, Len(plan.tasks)}) \in {Concurrency, Len(plan.tasks)}
      /\ \A k \in {Concurrency, Len(plan.tasks)} : Min({Concurrency, Len(plan.tasks)}) <= k
  BY <1>3 DEF Min
<1>5. QED BY <1>1, <1>2, <1>4 DEF Limit

\* The function of Filling, as far as the place n of the pending tasks.
Turn(call, before, i) ==
  IF Cardinality(before.active) < Limit(call.plan) /\ ~Blocked(call.plan, before.active, i)
    THEN [before EXCEPT !.active = @ \cup {i}]
    ELSE [before EXCEPT !.pending = Append(@, i)]
Fills(after, call, n) ==
  after = [k \in 0..n |->
             IF k = 0 THEN [call EXCEPT !.pending = <<>>]
             ELSE LET before == after[k - 1]
                      i      == call.pending[k]
                  IN  IF Cardinality(before.active) < Limit(call.plan) /\ ~Blocked(call.plan, before.active, i)
                        THEN [before EXCEPT !.active = @ \cup {i}]
                        ELSE [before EXCEPT !.pending = Append(@, i)]]

LEMMA FillsTurns ==
  ASSUME NEW after, NEW call, NEW n \in Nat, Fills(after, call, n)
  PROVE  \A k \in 0..n : after[k] = IF k = 0 THEN [call EXCEPT !.pending = <<>>]
                                    ELSE Turn(call, after[k - 1], call.pending[k])
<1> DEFINE F(g, k) == IF k = 0 THEN [call EXCEPT !.pending = <<>>]
                                ELSE Turn(call, g[k - 1], call.pending[k])
<1>1. after = [k \in 0..n |-> F(after, k)]
  BY Zenon DEF Fills, Turn
<1> HIDE DEF F
<1>2. \A k \in 0..n : after[k] = F(after, k)
  BY <1>1, Zenon
<1>3. QED BY <1>2, Zenon DEF F

(* There is such a function: by the least place for which there were none. *)
LEMMA FillsExists ==
  ASSUME NEW call, NEW n \in Nat
  PROVE  \E after : Fills(after, call, n)
<1> DEFINE Bad == {m \in Nat : ~\E after : Fills(after, call, m)}
           F(g, k) == IF k = 0 THEN [call EXCEPT !.pending = <<>>]
                                ELSE Turn(call, g[k - 1], call.pending[k])
<1>1. SUFFICES ASSUME Bad # {} PROVE FALSE
  OBVIOUS
<1>2. PICK m \in Bad : \A k \in Bad : m <= k
  <2>1. Bad \in SUBSET Nat
    OBVIOUS
  <2>2. QED BY <1>1, <2>1, LeastNumber
<1>3. \A g, k : Fills(g, call, k) <=> g = [i \in 0..k |-> F(g, i)]
  BY Zenon DEF Fills, Turn
<1>4. CASE m = 0
  <2> DEFINE g == [i \in 0..0 |-> [call EXCEPT !.pending = <<>>]]
  <2>1. g = [i \in 0..0 |-> F(g, i)]
    OBVIOUS
  <2>2. Fills(g, call, 0)
    BY <1>3, <2>1, Zenon
  <2>3. QED BY <1>2, <1>4, <2>2
<1>5. CASE m # 0
  <2>1. PICK g : Fills(g, call, m - 1)
    BY <1>2, <1>5
  <2>2. g = [i \in 0..(m - 1) |-> F(g, i)]
    BY <1>3, <2>1, Zenon
  <2> DEFINE longer == [i \in 0..m |-> IF i = m THEN F(g, m) ELSE g[i]]
  <2>3. \A i \in 0..(m - 1) : longer[i] = g[i]
    BY <1>5
  <2> HIDE DEF F
  <2>4. \A i \in 0..(m - 1) : g[i] = F(g, i)
    BY <2>2, Zenon
  <2>5. \A i \in 0..m : F(longer, i) = F(g, i)
    <3>1. \A i \in 0..m : i # 0 => i - 1 \in 0..(m - 1)
      BY <1>2
    <3>2. \A i \in 0..m : i # 0 => longer[i - 1] = g[i - 1]
      BY <2>3, <3>1, Zenon
    <3>3. TAKE i \in 0..m
    <3>4. CASE i = 0
      BY <3>4 DEF F
    <3>5. CASE i # 0
      <4>1. longer[i - 1] = g[i - 1]
        BY <3>2, <3>5, Zenon
      <4> HIDE DEF longer
      <4>2. QED BY <3>5, <4>1, Zenon DEF F
    <3>6. QED BY <3>4, <3>5
  <2>6. \A i \in 0..m : longer[i] = F(longer, i)
    <3>1. \A i \in 0..m : i = m \/ i \in 0..(m - 1)
      BY <1>2
    <3>2. m \in 0..m /\ longer[m] = F(g, m)
      BY <1>2
    <3>3. QED BY <2>3, <2>4, <2>5, <3>1, <3>2, Zenon
  <2>7. longer = [i \in 0..m |-> F(longer, i)]
    <3> DEFINE right == [i \in 0..m |-> F(longer, i)]
    <3>1. \A i \in 0..m : longer[i] = right[i]
      BY <2>6, Zenon
    <3>2. longer = [i \in 0..m |-> longer[i]]
      BY Zenon
    <3>3. QED BY <3>1, <3>2, Zenon
  <2>8. Fills(longer, call, m)
    BY <1>3, <2>7, Zenon
  <2>9. QED BY <1>2, <2>8
<1>6. QED BY <1>4, <1>5

(* Adding a task to a proper pool, or leaving it pending.                  *)
LEMMA TurnKeeps ==
  ASSUME NEW call \in Execution, NEW before \in Execution, Proper(before),
         before.plan = call.plan, NEW i \in DOMAIN call.plan.tasks,
         i \notin before.active \cup ToSet(before.pending),
         \A j \in ToSet(before.pending) : j < i
  PROVE  LET after == Turn(call, before, i)
         IN  /\ after \in Execution /\ Proper(after)
             /\ after.plan = call.plan /\ after.background = before.background
             /\ after.state = before.state /\ after.aborted = before.aborted
             /\ before.active \subseteq after.active
             /\ after.active \cup ToSet(after.pending)
                  = before.active \cup ToSet(before.pending) \cup {i}
             /\ before.active = {} => i \in after.active
<1> DEFINE plan == call.plan
           after == Turn(call, before, i)
<1>1. /\ plan \in Plans /\ Len(plan.tasks) \in Nat /\ DOMAIN plan.tasks = 1..Len(plan.tasks)
      /\ Limit(plan) \in Nat \ {0}
  BY LimitBounds DEF Execution
<1>2. /\ before.active \subseteq 1..Len(plan.tasks) /\ before.pending \in Seq(Nat)
      /\ Len(before.pending) \in Nat /\ DOMAIN before.pending = 1..Len(before.pending)
  BY <1>1, LenProperties DEF Proper, Execution
<1>3. IsFiniteSet(before.active) /\ Cardinality(before.active) \in Nat
  <2>1. IsFiniteSet(1..Len(plan.tasks))
    BY <1>1, FS_Interval, 1 \in Int, Len(plan.tasks) \in Int
  <2>2. IsFiniteSet(before.active)
    BY <1>2, <2>1, FS_Subset
  <2>3. QED BY <2>2, FS_CardinalityType
<1>4. CASE Cardinality(before.active) < Limit(plan) /\ ~Blocked(plan, before.active, i)
  <2>1. after = [before EXCEPT !.active = before.active \cup {i}]
    BY <1>4 DEF Turn
  <2>2. i \in Nat /\ before.active \cup {i} \in SUBSET Nat
    BY <1>1, <1>2
  <2>3. after \in Execution
    BY <2>1, <2>2 DEF Execution
  <2>4. /\ after.plan = plan /\ after.background = before.background
        /\ after.state = before.state /\ after.aborted = before.aborted
        /\ after.active = before.active \cup {i} /\ after.pending = before.pending
    BY <2>1 DEF Execution
  <2>5. Cardinality(after.active) = Cardinality(before.active) + 1
    BY <1>3, <2>4, FS_AddElement
  <2>6. \A p, q \in after.active : p # q => ~ScopesOverlap(plan.tasks[p], plan.tasks[q])
    <3>1. \A j \in before.active : ~ScopesOverlap(plan.tasks[i], plan.tasks[j])
      BY <1>4 DEF Blocked
    <3>2. \A j \in before.active : ~ScopesOverlap(plan.tasks[j], plan.tasks[i])
      BY <3>1 DEF ScopesOverlap
    <3>3. \A p, q \in before.active : p # q => ~ScopesOverlap(plan.tasks[p], plan.tasks[q])
      BY DEF Proper
    <3>4. QED BY <2>4, <3>1, <3>2, <3>3
  <2>7. Proper(after)
    <3>1. Cardinality(after.active) <= Limit(after.plan)
      BY <1>1, <1>3, <1>4, <2>4, <2>5
    <3>2. after.active \subseteq DOMAIN plan.tasks
      BY <2>4 DEF Proper
    <3>3. ToSet(after.pending) \subseteq DOMAIN plan.tasks \ after.active
      BY <2>4 DEF Proper
    <3>4. \A k, l \in DOMAIN after.pending : k < l => after.pending[k] < after.pending[l]
      BY <2>4 DEF Proper
    <3>5. QED BY <2>4, <2>6, <3>1, <3>2, <3>3, <3>4 DEF Proper
  <2>8. QED BY <2>3, <2>4, <2>7
<1>5. CASE ~(Cardinality(before.active) < Limit(plan) /\ ~Blocked(plan, before.active, i))
  <2> DEFINE longer == Append(before.pending, i)
  <2>1. after = [before EXCEPT !.pending = longer]
    BY <1>5 DEF Turn
  <2>2. /\ longer \in Seq(Nat) /\ Len(longer) = Len(before.pending) + 1
        /\ DOMAIN longer = 1..(Len(before.pending) + 1)
        /\ \A k \in 1..Len(before.pending) : longer[k] = before.pending[k]
        /\ longer[Len(before.pending) + 1] = i
    BY <1>1, <1>2, AppendProperties, LenProperties
  <2> HIDE DEF longer
  <2>3. ToSet(longer) = ToSet(before.pending) \cup {i}
    <3>1. \A k \in 1..(Len(before.pending) + 1) :
             k \in 1..Len(before.pending) \/ k = Len(before.pending) + 1
      BY <1>2
    <3>2. /\ 1..Len(before.pending) \subseteq 1..(Len(before.pending) + 1)
          /\ Len(before.pending) + 1 \in 1..(Len(before.pending) + 1)
      BY <1>2
    <3>3. QED BY <1>2, <2>2, <3>1, <3>2, Zenon DEF ToSet
  <2>4. after \in Execution
    BY <2>1, <2>2 DEF Execution
  <2>5. /\ after.plan = plan /\ after.background = before.background
        /\ after.state = before.state /\ after.aborted = before.aborted
        /\ after.active = before.active /\ after.pending = longer
    BY <2>1 DEF Execution
  <2>6. before.active # {}
    <3>1. SUFFICES ASSUME before.active = {} PROVE FALSE
      OBVIOUS
    <3>2. Cardinality(before.active) = 0
      BY <3>1, FS_EmptySet
    <3>3. QED BY <1>1, <1>5, <3>1, <3>2 DEF Blocked
  <2>7. \A k, l \in DOMAIN longer : k < l => longer[k] < longer[l]
    <3>1. SUFFICES ASSUME NEW k \in DOMAIN longer, NEW l \in DOMAIN longer, k < l
                   PROVE  longer[k] < longer[l]
      OBVIOUS
    <3>2. k \in 1..Len(before.pending)
      BY <1>2, <2>2, <3>1
    <3>3. CASE l = Len(before.pending) + 1
      <4>1. before.pending[k] \in ToSet(before.pending)
        BY <1>2, <3>2 DEF ToSet
      <4>2. before.pending[k] < i
        BY <4>1
      <4>3. QED BY <2>2, <3>2, <3>3, <4>2
    <3>4. CASE l # Len(before.pending) + 1
      <4>1. l \in 1..Len(before.pending)
        BY <1>2, <2>2, <3>4
      <4>2. before.pending[k] < before.pending[l]
        BY <1>2, <3>1, <3>2, <4>1 DEF Proper
      <4>3. QED BY <2>2, <3>2, <4>1, <4>2
    <3>5. QED BY <3>3, <3>4
  <2>8. Proper(after)
    <3>1. ToSet(after.pending) \subseteq DOMAIN plan.tasks \ after.active
      BY <2>3, <2>5 DEF Proper
    <3>2. QED BY <2>5, <2>7, <3>1 DEF Proper
  <2>9. QED BY <2>3, <2>4, <2>5, <2>6, <2>8
<1>6. QED BY <1>4, <1>5

(* A round of the loop keeps the pool proper: the places are not more than *)
(* the limit, no two active tasks overlap, none is lost or started twice,  *)
(* and the first of the pending ones is started when nothing else is.      *)
LEMMA FillingProperties ==
  ASSUME NEW call \in Execution, Proper(call)
  PROVE  LET new == Filling(call)
         IN  /\ new \in Execution /\ Proper(new)
             /\ new.plan = call.plan /\ new.background = call.background
             /\ new.state = call.state /\ new.aborted = call.aborted
             /\ new.active \cup ToSet(new.pending) = call.active \cup ToSet(call.pending)
             /\ call.active \subseteq new.active
             /\ call.active = {} /\ call.pending # <<>> => call.pending[1] \in new.active
<1> DEFINE pend == call.pending
           n == Len(pend)
           after == CHOOSE after : Fills(after, call, n)
<1>1. /\ pend \in Seq(Nat) /\ n \in Nat /\ DOMAIN pend = 1..n
      /\ \A k \in 1..n : pend[k] \in Nat
  BY LenProperties DEF Execution
<1>2. Fills(after, call, n)
  BY <1>1, FillsExists, Zenon
<1>3. Filling(call) = after[n]
  BY Zenon DEF Filling, Fills
<1> HIDE DEF after
<1>4. \A k \in 0..n : after[k] = IF k = 0 THEN [call EXCEPT !.pending = <<>>]
                                 ELSE Turn(call, after[k - 1], pend[k])
  BY <1>1, <1>2, FillsTurns
<1> DEFINE Good(k) ==
             /\ after[k] \in Execution /\ Proper(after[k])
             /\ after[k].plan = call.plan /\ after[k].background = call.background
             /\ after[k].state = call.state /\ after[k].aborted = call.aborted
             /\ after[k].active \cup ToSet(after[k].pending) = call.active \cup {pend[l] : l \in 1..k}
             /\ ToSet(after[k].pending) \subseteq {pend[l] : l \in 1..k}
             /\ call.active \subseteq after[k].active
             /\ call.active = {} /\ k # 0 => pend[1] \in after[k].active
           Bad == {k \in 0..n : ~Good(k)}
<1>5. Good(0)
  <2>1. after[0] = [call EXCEPT !.pending = <<>>]
    BY <1>1, <1>4
  <2>2. <<>> \in Seq(Nat) /\ ToSet(<<>>) = {} /\ DOMAIN <<>> = {}
    BY EmptySeq DEF ToSet
  <2>3. after[0] \in Execution /\ after[0].pending = <<>> /\ after[0].plan = call.plan
        /\ after[0].active = call.active /\ after[0].background = call.background
        /\ after[0].state = call.state /\ after[0].aborted = call.aborted
    BY <2>1, <2>2 DEF Execution
  <2>4. Proper(after[0])
    BY <2>2, <2>3 DEF Proper
  <2>5. {pend[l] : l \in 1..0} = {}
    OBVIOUS
  <2>6. QED BY <2>2, <2>3, <2>4, <2>5
<1>6. ASSUME NEW k \in 1..n, Good(k - 1) PROVE Good(k)
  <2>1. after[k] = Turn(call, after[k - 1], pend[k]) /\ k - 1 \in 0..n
    BY <1>1, <1>4
  <2>2. pend[k] \in DOMAIN call.plan.tasks /\ pend[k] \notin call.active
    BY <1>1 DEF Proper, ToSet
  <2>3. \A l \in 1..(k - 1) : pend[l] < pend[k]
    <3>1. TAKE l \in 1..(k - 1)
    <3>2. l \in DOMAIN pend /\ k \in DOMAIN pend /\ l < k
      BY <1>1
    <3>3. \A p, q \in DOMAIN pend : p < q => pend[p] < pend[q]
      BY Zenon DEF Proper
    <3>4. QED BY <3>2, <3>3, Zenon
  <2>4. \A l \in 1..(k - 1) : pend[l] # pend[k]
    BY <1>1, <2>3
  <2>5. pend[k] \notin {pend[l] : l \in 1..(k - 1)}
    BY <2>4
  <2>6. pend[k] \notin after[k - 1].active \cup ToSet(after[k - 1].pending)
    BY <1>6, <2>2, <2>5
  <2>7. \A j \in ToSet(after[k - 1].pending) : j < pend[k]
    BY <1>6, <2>3
  <2> DEFINE before == after[k - 1]
             now == after[k]
  <2>8. /\ now \in Execution /\ Proper(now)
        /\ now.plan = call.plan /\ now.background = before.background
        /\ now.state = before.state /\ now.aborted = before.aborted
        /\ before.active \subseteq now.active
        /\ now.active \cup ToSet(now.pending) = before.active \cup ToSet(before.pending) \cup {pend[k]}
        /\ before.active = {} => pend[k] \in now.active
    BY <1>6, <2>1, <2>2, <2>6, <2>7, TurnKeeps
  <2>9. {pend[l] : l \in 1..k} = {pend[l] : l \in 1..(k - 1)} \cup {pend[k]}
    <3>1. 1..k = 1..(k - 1) \cup {k}
      OBVIOUS
    <3>2. QED BY <3>1
  <2>10. ToSet(now.pending) \subseteq {pend[l] : l \in 1..k}
    <3>1. ToSet(now.pending) \cap now.active = {}
      BY <2>8 DEF Proper
    <3>2. QED BY <1>6, <2>8, <2>9, <3>1
  <2>11. call.active = {} => pend[1] \in now.active
    <3>1. CASE k = 1
      <4>1. call.active = {} => before.active = {}
        <5>1. {pend[l] : l \in 1..0} = {}
          OBVIOUS
        <5>2. QED BY <1>6, <3>1, <5>1
      <4>2. QED BY <2>8, <3>1, <4>1
    <3>2. CASE k # 1
      BY <1>6, <2>8, <3>2
    <3>3. QED BY <3>1, <3>2
  <2>12. QED BY <1>6, <2>8, <2>9, <2>10, <2>11
<1>7. Bad = {}
  <2>1. SUFFICES ASSUME Bad # {} PROVE FALSE
    OBVIOUS
  <2>2. PICK m \in Bad : \A k \in Bad : m <= k
    <3>1. Bad \in SUBSET Nat
      BY <1>1
    <3>2. QED BY <2>1, <3>1, LeastNumber
  <2>3. m \in 0..n /\ ~Good(m)
    BY <2>2
  <2>4. m # 0
    BY <1>5, <2>3
  <2>5. m \in 1..n /\ m - 1 \in 0..n /\ ~(m <= m - 1)
    BY <1>1, <2>3, <2>4
  <2>6. Good(m - 1)
    <3>1. m - 1 \notin Bad
      BY <2>2, <2>5, Zenon
    <3>2. QED BY <2>5, <3>1, Zenon
  <2>7. QED BY <1>6, <2>3, <2>5, <2>6
<1>8. Good(n)
  <2>1. n \in 0..n
    BY <1>1
  <2>2. n \notin Bad
    BY <1>7, Zenon
  <2>3. QED BY <2>1, <2>2, Zenon
<1>9. {pend[l] : l \in 1..n} = ToSet(pend)
  BY <1>1 DEF ToSet
<1>10. pend # <<>> => n # 0
  BY <1>1, EmptySeq
<1>11. QED BY <1>3, <1>8, <1>9, <1>10

(* The registry forgets finished jobs only.                                *)
LEMMA PrunedJobs ==
  ASSUME NEW run, IsFiniteSet(run), NEW fin \in Seq(End)
  PROVE  /\ Pruned(run, fin).run = run
         /\ Pruned(run, fin).fin \in Seq(End)
         /\ ToSet(Pruned(run, fin).fin) \subseteq ToSet(fin)
<1> DEFINE x == Cardinality(run) + Len(fin) - MaxJobs
           over == Max({0, x})
           k == Min({over, Len(fin)})
<1>1. x \in Int /\ Len(fin) \in Nat /\ DOMAIN fin = 1..Len(fin)
  BY FS_CardinalityType, LenProperties, SubagentAssumption
<1> HIDE DEF x
<1>2. over \in Nat
  <2>1. \E y \in {0, x} : \A z \in {0, x} : y >= z
    <3>1. CASE x >= 0
      BY <1>1, <3>1
    <3>2. CASE ~(x >= 0)
      BY <1>1, <3>2
    <3>3. QED BY <3>1, <3>2
  <2>2. over \in {0, x} /\ \A z \in {0, x} : over >= z
    BY <2>1 DEF Max
  <2>3. QED BY <1>1, <2>2
<1> HIDE DEF over
<1>3. k \in 0..Len(fin)
  <2>1. \E y \in {over, Len(fin)} : \A z \in {over, Len(fin)} : y <= z
    <3>1. CASE over <= Len(fin)
      BY <1>1, <1>2, <3>1
    <3>2. CASE ~(over <= Len(fin))
      BY <1>1, <1>2, <3>2
    <3>3. QED BY <3>1, <3>2
  <2>2. k \in {over, Len(fin)} /\ \A z \in {over, Len(fin)} : k <= z
    BY <2>1 DEF Min
  <2>3. QED BY <1>1, <1>2, <2>2
<1>4. Pruned(run, fin) = [run |-> run, fin |-> SubSeq(fin, k + 1, Len(fin))]
  BY DEF Pruned, over, x
<1> HIDE DEF k
<1> DEFINE s == SubSeq(fin, k + 1, Len(fin))
<1>5. s \in Seq(End) /\ Len(s) = Len(fin) - k /\ \A i \in 1..(Len(fin) - k) : s[i] = fin[k + i]
  <2>1. \A i \in (k + 1)..Len(fin) : fin[i] \in End
    BY <1>1, <1>3, ElementOfSeq
  <2>2. /\ s \in Seq(End)
        /\ Len(s) = IF k + 1 <= Len(fin) THEN Len(fin) - (k + 1) + 1 ELSE 0
        /\ \A i \in 1..(Len(fin) - (k + 1) + 1) : s[i] = fin[(k + 1) + i - 1]
    BY <1>1, <1>3, <2>1, k + 1 \in Int, Len(fin) \in Int, SubSeqProperties
  <2> HIDE DEF s
  <2>3. \A i \in 1..(Len(fin) - k) : s[i] = fin[k + i]
    <3>1. TAKE i \in 1..(Len(fin) - k)
    <3>2. i \in 1..(Len(fin) - (k + 1) + 1) /\ (k + 1) + i - 1 = k + i
      BY <1>1, <1>3
    <3>3. QED BY <2>2, <3>2
  <2>4. Len(s) = Len(fin) - k
    <3>1. CASE k + 1 <= Len(fin)
      BY <1>1, <1>3, <2>2, <3>1
    <3>2. CASE ~(k + 1 <= Len(fin))
      <4>1. Len(fin) \in Nat /\ k \in Nat /\ k <= Len(fin)
        BY <1>1, <1>3
      <4>2. k = Len(fin)
        BY <3>2, <4>1
      <4>3. QED BY <2>2, <3>2, <4>1, <4>2
    <3>3. QED BY <3>1, <3>2
  <2>5. QED BY <2>2, <2>3, <2>4
<1>6. ASSUME NEW i \in DOMAIN s PROVE s[i] \in ToSet(fin)
  <2>1. DOMAIN s = 1..(Len(fin) - k)
    BY <1>5, LenProperties
  <2>2. i \in 1..(Len(fin) - k)
    BY <1>6, <2>1
  <2> HIDE DEF s
  <2>3. k + i \in DOMAIN fin /\ s[i] = fin[k + i]
    BY <1>1, <1>3, <1>5, <2>2
  <2>4. QED BY <2>3 DEF ToSet
<1>7. ToSet(s) \subseteq ToSet(fin)
  BY <1>6, Zenon DEF ToSet
<1>8. QED BY <1>4, <1>5, <1>7

(* Cancelled jobs leave the registry, and all that it says of them is that *)
(* they were cancelled.                                                    *)
LEMMA CancelledJobs ==
  ASSUME Typed, NEW jobs \in SUBSET running
  PROVE  /\ Cancelled(jobs).run = running \ jobs
         /\ Cancelled(jobs).fin \in Seq(End)
         /\ \A e \in ToSet(Cancelled(jobs).fin) :
              e \in ToSet(finished) \/ (e \in End /\ e.id \in jobs /\ e.status = "cancelled")
<1> DEFINE n == Cardinality(jobs)
           ended == [k \in 1..n |-> [id |-> SetToSeq(jobs)[k], status |-> "cancelled"]]
<1>1. IsFiniteSet(running) /\ finished \in Seq(End) /\ running \subseteq Calls
  BY DEF Typed, Made
<1>2. IsFiniteSet(jobs) /\ n \in Nat /\ IsFiniteSet(running \ jobs)
  BY <1>1, FS_Subset, FS_CardinalityType
<1>3. SetToSeq(jobs) \in [1..n -> jobs]
  <2>1. PICK f : f \in Bijection(1..n, jobs)
    BY <1>2, FS_CardinalityType DEF ExistsBijection
  <2>2. f \in [1..n -> jobs] /\ IsInjective(f)
    BY <2>1 DEF Bijection, Injection, IsInjective
  <2>3. QED BY <2>2 DEF SetToSeq
<1>4. \A k \in 1..n : SetToSeq(jobs)[k] \in jobs
  BY <1>3
<1>5. ended \in Seq(End)
  <2>1. \A k \in 1..n : ended[k] \in End
    BY <1>1, <1>4 DEF End, Statuses
  <2>2. QED BY <1>2, <2>1
<1>6. DOMAIN ended = 1..n /\ Len(ended) = n
  BY <1>2
<1>7. \A k \in 1..n : ended[k] \in End /\ ended[k].id \in jobs /\ ended[k].status = "cancelled"
  BY <1>1, <1>4 DEF End, Statuses
<1>8. Cancelled(jobs) = Pruned(running \ jobs, finished \o ended)
  BY DEF Cancelled
<1> HIDE DEF ended
<1>9. finished \o ended \in Seq(End)
  BY <1>1, <1>5, ConcatProperties
<1>10. ASSUME NEW e \in ToSet(finished \o ended)
       PROVE  e \in ToSet(finished) \/ (e \in End /\ e.id \in jobs /\ e.status = "cancelled")
  <2>1. PICK i \in DOMAIN (finished \o ended) : e = (finished \o ended)[i]
    BY <1>10 DEF ToSet
  <2>2. /\ Len(finished) \in Nat /\ DOMAIN finished = 1..Len(finished)
        /\ i \in 1..(Len(finished) + n)
        /\ (finished \o ended)[i] = IF i <= Len(finished) THEN finished[i] ELSE ended[i - Len(finished)]
    BY <1>1, <1>2, <1>5, <1>6, <1>9, <2>1, ConcatProperties, LenProperties
  <2>3. CASE i <= Len(finished)
    BY <2>1, <2>2, <2>3 DEF ToSet
  <2>4. CASE ~(i <= Len(finished))
    <3>1. i - Len(finished) \in 1..n
      BY <1>2, <2>2, <2>4
    <3>2. QED BY <1>7, <2>1, <2>2, <2>4, <3>1
  <2>5. QED BY <2>3, <2>4
<1>11. QED BY <1>2, <1>8, <1>9, <1>10, PrunedJobs

-----------------------------------------------------------------------------
(* What a step makes of a call and its children.                           *)

(* The pool of a chain has one place.                                      *)
LEMMA OneActive ==
  ASSUME NEW call \in Execution, Proper(call), call.plan.mode = "chain", NEW m \in call.active
  PROVE  call.active = {m}
<1>1. call.plan \in Plans
  BY DEF Execution
<1>2. /\ Limit(call.plan) = 1 /\ Len(call.plan.tasks) \in Int
      /\ DOMAIN call.plan.tasks = 1..Len(call.plan.tasks)
  BY <1>1, LimitBounds
<1>3. IsFiniteSet(1..Len(call.plan.tasks))
  BY <1>2, FS_Interval, 1 \in Int
<1>4. IsFiniteSet(call.active) /\ Cardinality(call.active) \in Nat /\ Cardinality(call.active) <= 1
  BY <1>2, <1>3, FS_Subset, FS_CardinalityType DEF Proper
<1>5. /\ IsFiniteSet(call.active \ {m})
      /\ Cardinality(call.active \ {m}) = Cardinality(call.active) - 1
      /\ Cardinality(call.active \ {m}) \in Nat
  BY <1>4, FS_RemoveElement, FS_CardinalityType
<1>6. Cardinality(call.active \ {m}) = 0
  BY <1>4, <1>5
<1>7. call.active \ {m} = {}
  BY <1>5, <1>6, FS_EmptySet
<1>8. QED BY <1>7

(* A new call begins with tasks that do not overlap.                       *)
LEMMA NewHealthy ==
  ASSUME NEW plan \in Plans, NEW background \in BOOLEAN
  PROVE  LET asked == [plan |-> plan, background |-> background, active |-> {},
                       pending |-> [i \in DOMAIN plan.tasks |-> i],
                       state |-> "running", aborted |-> FALSE]
             call  == Filling(asked)
             kids  == [i \in DOMAIN plan.tasks |-> [state |-> "new", result |-> None]]
         IN  /\ call \in Execution /\ Healthy(call, kids)
             /\ call.background = background /\ call.state = "running" /\ ~call.aborted
<1> DEFINE pend == [i \in DOMAIN plan.tasks |-> i]
           asked == [plan |-> plan, background |-> background, active |-> {}, pending |-> pend,
                     state |-> "running", aborted |-> FALSE]
           call == Filling(asked)
           kids == [i \in DOMAIN plan.tasks |-> [state |-> "new", result |-> None]]
           n == Len(plan.tasks)
<1>1. /\ n \in Nat \ {0} /\ DOMAIN plan.tasks = 1..n /\ Limit(plan) \in Nat \ {0}
      /\ plan.mode = "chain" => Limit(plan) = 1
  BY LimitBounds
<1>2. pend \in Seq(Nat) /\ DOMAIN pend = 1..n /\ \A i \in 1..n : pend[i] = i
  <2>1. pend = [i \in 1..n |-> i]
    BY <1>1
  <2>2. QED BY <1>1, <2>1
<1> HIDE DEF pend
<1>3. /\ asked \in Execution /\ asked.plan = plan /\ asked.active = {} /\ asked.pending = pend
      /\ asked.background = background /\ asked.state = "running" /\ asked.aborted = FALSE
  BY <1>2 DEF Execution
<1> HIDE DEF asked
<1>4. ToSet(pend) = 1..n
  BY <1>2 DEF ToSet
<1>5. Proper(asked)
  <2>1. Cardinality({}) = 0
    BY FS_EmptySet
  <2>2. Cardinality(asked.active) <= Limit(asked.plan)
    BY <1>1, <1>3, <2>1
  <2>3. \A k, l \in DOMAIN asked.pending : k < l => asked.pending[k] < asked.pending[l]
    BY <1>2, <1>3
  <2>4. QED BY <1>1, <1>3, <1>4, <2>2, <2>3 DEF Proper
<1>6. /\ call \in Execution /\ Proper(call) /\ call.plan = plan
      /\ call.background = background /\ call.state = "running" /\ call.aborted = FALSE
      /\ call.active \cup ToSet(call.pending) = 1..n
      /\ pend # <<>> => pend[1] \in call.active
  BY <1>3, <1>4, <1>5, FillingProperties
<1> HIDE DEF call
<1>7. /\ kids \in [DOMAIN plan.tasks -> Child]
      /\ \A i \in DOMAIN plan.tasks : kids[i].state = "new"
  BY DEF Child
<1>8. pend[1] = 1 /\ pend # <<>> /\ 1 \in 1..n
  BY <1>1, <1>2
<1>9. ASSUME plan.mode = "chain" PROVE AtStep(call, kids, 1)
  <2>1. call.active = {1}
    BY <1>6, <1>8, <1>9, OneActive
  <2>2. ToSet(call.pending) \cap call.active = {}
    BY <1>6 DEF Proper
  <2>3. ToSet(call.pending) = 2..n
    <3>1. \A i \in 1..n : i # 1 <=> i \in 2..n
      BY <1>1
    <3>2. ToSet(call.pending) = 1..n \ {1}
      BY <1>6, <2>1, <2>2
    <3>3. 1..n \ {1} = 2..n
      BY <1>1
    <3>4. QED BY <3>2, <3>3
  <2>4. 1 + 1 = 2 /\ 1 - 1 = 0 /\ 1..0 = {}
    OBVIOUS
  <2>5. \A j \in 2..n : kids[j].state = "new"
    BY <1>1, <1>7
  <2> HIDE DEF kids
  <2>6. QED BY <1>6, <2>1, <2>3, <2>4, <2>5 DEF AtStep
<1>10. ASSUME plan.mode = "chain" PROVE InOrder(call, kids)
  <2>1. call.active = {1}
    BY <1>6, <1>8, <1>10, OneActive
  <2>2. 1..(1 - 1) = {}
    OBVIOUS
  <2> HIDE DEF kids
  <2>3. QED BY <1>6, <1>7, <2>1, <2>2 DEF InOrder
<1>11. Healthy(call, kids)
  <2> HIDE DEF kids
  <2>1. QED BY <1>1, <1>6, <1>7, <1>8, <1>9, <1>10 DEF Healthy, Procs
<1>12. QED BY <1>6, <1>11 DEF asked, call, pend

(* A child is spawned.                                                     *)
LEMMA SpawnHealthy ==
  ASSUME NEW call \in Execution, NEW kids, Healthy(call, kids), NEW i \in call.active,
         kids[i].state = "new", NEW s \in Procs
  PROVE  Healthy(call, [kids EXCEPT ![i].state = s])
<1> DEFINE now == [kids EXCEPT ![i].state = s]
           tasks == call.plan.tasks
<1>1. i \in DOMAIN tasks /\ kids \in [DOMAIN tasks -> Child]
  BY DEF Healthy, Proper
<1>2. /\ now \in [DOMAIN tasks -> Child] /\ now[i].state = s
      /\ \A j \in DOMAIN tasks : now[j].result = kids[j].result /\ (j # i => now[j] = kids[j])
  BY <1>1 DEF Child, Procs
<1> HIDE DEF now
<1>3. call.plan \in Plans /\ Len(tasks) \in Nat /\ DOMAIN tasks = 1..Len(tasks)
  BY LimitBounds DEF Execution
<1>4. \A j \in DOMAIN tasks : now[j].state \in Procs => j \in call.active
  BY <1>2 DEF Healthy
<1>5. ASSUME call.plan.mode = "chain" PROVE InOrder(call, now)
  <2>1. SUFFICES ASSUME NEW j \in DOMAIN tasks, now[j].state # "new" \/ j \in call.active,
                        NEW k \in 1..(j - 1)
                 PROVE  now[k].result = "ok"
    BY DEF InOrder
  <2>2. kids[j].state # "new" \/ j \in call.active
    BY <1>2, <2>1
  <2>3. kids[k].result = "ok"
    BY <1>5, <2>2 DEF Healthy, InOrder
  <2>4. k \in DOMAIN tasks
    BY <1>3
  <2>5. QED BY <1>2, <2>3, <2>4
<1>6. ASSUME call.plan.mode = "chain", NEW m \in DOMAIN tasks, AtStep(call, kids, m)
      PROVE  AtStep(call, now, m)
  <2>1. m = i
    BY <1>6 DEF AtStep
  <2>2. \A j \in 1..(m - 1) : j \in DOMAIN tasks
    BY <1>3
  <2>3. \A j \in (m + 1)..Len(tasks) : j \in DOMAIN tasks /\ j # i
    BY <1>3, <2>1
  <2>4. QED BY <1>2, <1>6, <2>2, <2>3 DEF AtStep
<1>7. ASSUME call.plan.mode = "chain", call.state # "ended"
      PROVE  \E m \in DOMAIN tasks : AtStep(call, now, m)
  <2>1. PICK m \in DOMAIN tasks : AtStep(call, kids, m)
    BY <1>7 DEF Healthy
  <2>2. QED BY <1>6, <1>7, <2>1
<1>8. Proper(call) /\ (call.state = "ended" => call.active = {})
  BY DEF Healthy
<1>9. Healthy(call, now)
  BY <1>2, <1>4, <1>5, <1>7, <1>8, Zenon DEF Healthy
<1>10. QED BY <1>9 DEF now

(* A call is aborted and its children are told to end.                     *)
LEMMA AbortHealthy ==
  ASSUME NEW call \in Execution, NEW kids, Healthy(call, kids)
  PROVE  LET new == [call EXCEPT !.aborted = TRUE]
             now == [i \in DOMAIN kids |->
                      IF kids[i].state = "running" THEN [kids[i] EXCEPT !.state = "termed"] ELSE kids[i]]
         IN  /\ new \in Execution /\ Healthy(new, now)
             /\ new.plan = call.plan /\ new.background = call.background
             /\ new.state = call.state /\ new.aborted
<1> DEFINE new == [call EXCEPT !.aborted = TRUE]
           now == [i \in DOMAIN kids |->
                    IF kids[i].state = "running" THEN [kids[i] EXCEPT !.state = "termed"] ELSE kids[i]]
           tasks == call.plan.tasks
<1>1. /\ new \in Execution /\ new.plan = call.plan /\ new.active = call.active
      /\ new.pending = call.pending /\ new.state = call.state /\ new.aborted = TRUE
      /\ new.background = call.background
  BY DEF Execution
<1> HIDE DEF new
<1>2. kids \in [DOMAIN tasks -> Child] /\ DOMAIN kids = DOMAIN tasks
  BY DEF Healthy
<1>3. \A i \in DOMAIN tasks : /\ now[i] \in Child /\ now[i].result = kids[i].result
                              /\ now[i].state = "new" <=> kids[i].state = "new"
                              /\ now[i].state \in Procs <=> kids[i].state \in Procs
  BY <1>2 DEF Child, Procs
<1>4. now \in [DOMAIN tasks -> Child]
  BY <1>2, <1>3
<1> HIDE DEF now
<1>5. call.plan \in Plans /\ Len(tasks) \in Nat /\ DOMAIN tasks = 1..Len(tasks)
  BY LimitBounds DEF Execution
<1>6. ASSUME call.plan.mode = "chain" PROVE InOrder(new, now)
  <2>1. \A i \in DOMAIN tasks : \A j \in 1..(i - 1) : j \in DOMAIN tasks
    BY <1>5
  <2>2. InOrder(call, kids)
    BY <1>6 DEF Healthy
  <2>3. QED BY <1>1, <1>3, <2>1, <2>2 DEF InOrder
<1>7. ASSUME NEW m \in DOMAIN tasks, AtStep(call, kids, m) PROVE AtStep(new, now, m)
  <2>1. \A j \in 1..(m - 1) : j \in DOMAIN tasks
    BY <1>5
  <2>2. \A j \in (m + 1)..Len(tasks) : j \in DOMAIN tasks
    BY <1>5
  <2>3. QED BY <1>1, <1>3, <1>7, <2>1, <2>2 DEF AtStep
<1>8. Proper(new)
  BY <1>1 DEF Healthy, Proper
<1>9. Healthy(new, now)
  BY <1>1, <1>3, <1>4, <1>6, <1>7, <1>8 DEF Healthy
<1>10. QED BY <1>1, <1>9 DEF new, now

(* A task leaves the pool.                                                 *)
LEMMA LeavesPool ==
  ASSUME NEW call \in Execution, Proper(call), NEW i \in call.active
  PROVE  LET left == [call EXCEPT !.active = @ \ {i}]
         IN  /\ left \in Execution /\ Proper(left) /\ left.plan = call.plan
             /\ left.background = call.background /\ left.aborted = call.aborted
             /\ left.state = call.state /\ left.pending = call.pending
             /\ left.active = call.active \ {i}
<1> DEFINE left == [call EXCEPT !.active = @ \ {i}]
<1>1. call.active \ {i} \in SUBSET Nat
  BY DEF Execution
<1>2. /\ left \in Execution /\ left.plan = call.plan /\ left.active = call.active \ {i}
      /\ left.background = call.background /\ left.aborted = call.aborted
      /\ left.state = call.state /\ left.pending = call.pending
  BY <1>1 DEF Execution
<1> HIDE DEF left
<1>3. /\ call.plan \in Plans /\ Len(call.plan.tasks) \in Int /\ Limit(call.plan) \in Nat
      /\ DOMAIN call.plan.tasks = 1..Len(call.plan.tasks)
  BY LimitBounds DEF Execution
<1>4. IsFiniteSet(1..Len(call.plan.tasks))
  BY <1>3, FS_Interval, 1 \in Int
<1>5. IsFiniteSet(call.active) /\ Cardinality(call.active) \in Nat
  BY <1>3, <1>4, FS_Subset, FS_CardinalityType DEF Proper
<1>6. Cardinality(left.active) = Cardinality(call.active) - 1
  BY <1>2, <1>5, FS_RemoveElement
<1>7. Cardinality(left.active) <= Limit(left.plan)
  BY <1>2, <1>3, <1>5, <1>6 DEF Proper
<1>8. Proper(left)
  BY <1>2, <1>7 DEF Proper
<1>9. QED BY <1>2, <1>8 DEF left

(* What is pending next in a chain is the step after the one that ended.   *)
LEMMA NextStep ==
  ASSUME NEW call \in Execution, Proper(call), NEW i \in Nat,
         ToSet(call.pending) = (i + 1)..Len(call.plan.tasks), call.pending # <<>>
  PROVE  call.pending[1] = i + 1
<1> DEFINE pend == call.pending
<1>1. pend \in Seq(Nat) /\ Len(pend) \in Nat \ {0} /\ DOMAIN pend = 1..Len(pend)
  BY LenProperties, EmptySeq DEF Execution
<1>2. Len(call.plan.tasks) \in Nat
  BY LimitBounds DEF Execution
<1>3. 1 \in DOMAIN pend /\ pend[1] \in (i + 1)..Len(call.plan.tasks)
  BY <1>1 DEF ToSet
<1>4. i + 1 \in ToSet(pend)
  BY <1>2, <1>3
<1>5. PICK k \in DOMAIN pend : pend[k] = i + 1
  BY <1>4 DEF ToSet
<1>6. CASE k = 1
  BY <1>5, <1>6
<1>7. CASE k # 1
  <2>1. 1 < k
    BY <1>1, <1>7
  <2>2. pend[1] < pend[k]
    BY <1>3, <2>1 DEF Proper
  <2>3. QED BY <1>2, <1>3, <1>5, <2>2
<1>8. QED BY <1>6, <1>7

Going(left) == IF left.active # {} THEN left ELSE [left EXCEPT !.state = "ended"]

(* The promise of a task settles.                                          *)
LEMMA SettleHealthy ==
  ASSUME NEW call \in Execution, NEW kids, Healthy(call, kids), call.state # "ended",
         NEW i \in call.active, NEW result \in {"ok", "failed", "aborted"}
  PROVE  LET left == Settled(call, i, result)
             new  == Going(left)
             now  == [kids EXCEPT ![i] = [state |-> "gone", result |-> result]]
         IN  /\ left \in Execution /\ left.plan = call.plan /\ left.aborted = call.aborted
             /\ left.background = call.background /\ left.state # "ended"
             /\ new \in Execution /\ Healthy(new, now) /\ new.plan = call.plan
             /\ new.aborted = call.aborted /\ new.background = call.background
             /\ new.state = "ended" <=> left.active = {}
<1> DEFINE tasks == call.plan.tasks
           trimmed == [call EXCEPT !.active = @ \ {i}]
           left == Settled(call, i, result)
           new == Going(left)
           now == [kids EXCEPT ![i] = [state |-> "gone", result |-> result]]
<1>1. /\ call.plan \in Plans /\ Len(tasks) \in Nat /\ DOMAIN tasks = 1..Len(tasks)
      /\ i \in DOMAIN tasks /\ Proper(call) /\ kids \in [DOMAIN tasks -> Child]
  BY LimitBounds DEF Execution, Healthy, Proper
<1>2. /\ trimmed \in Execution /\ Proper(trimmed) /\ trimmed.plan = call.plan
      /\ trimmed.background = call.background /\ trimmed.aborted = call.aborted
      /\ trimmed.state = call.state /\ trimmed.pending = call.pending
      /\ trimmed.active = call.active \ {i}
  BY <1>1, LeavesPool
<1>3. /\ now \in [DOMAIN tasks -> Child] /\ now[i].state = "gone" /\ now[i].result = result
      /\ \A j \in DOMAIN tasks : j # i => now[j] = kids[j]
  BY <1>1 DEF Child
<1>4. call.plan.mode = "chain" => AtStep(call, kids, i) /\ call.active = {i}
  <2>1. SUFFICES ASSUME call.plan.mode = "chain" PROVE AtStep(call, kids, i)
    BY DEF AtStep
  <2>2. PICK m \in DOMAIN tasks : AtStep(call, kids, m)
    BY <2>1 DEF Healthy
  <2>3. m = i
    BY <2>2 DEF AtStep
  <2>4. QED BY <2>2, <2>3
\* What is left of the pool: proper, with the other tasks that were active;
\* in a chain it is at the next step or has nothing active.
<1>5. /\ left \in Execution /\ left.plan = call.plan /\ left.aborted = call.aborted
      /\ left.background = call.background /\ left.state # "ended" /\ Proper(left)
      /\ call.active \ {i} \subseteq left.active
      /\ call.plan.mode = "chain" /\ left.active # {} =>
           /\ result = "ok" /\ left.state = "running" /\ left.active = {i + 1}
           /\ ToSet(left.pending) = (i + 2)..Len(tasks)
  <2>1. CASE result = "aborted"
    <3>1. left = [call EXCEPT !.state = "throwing", !.active = call.active \ {i}]
      BY <2>1 DEF Settled
    <3>2. /\ left \in Execution /\ left.plan = call.plan /\ left.aborted = call.aborted
          /\ left.background = call.background /\ left.state = "throwing"
          /\ left.active = trimmed.active /\ left.pending = trimmed.pending
      BY <1>2, <3>1 DEF Execution
    <3> HIDE DEF left, trimmed
    <3>3. Proper(left)
      BY <1>2, <3>2 DEF Proper
    <3>4. QED BY <1>2, <1>4, <3>2, <3>3
  <2>2. CASE result # "aborted" /\ call.state = "throwing"
    <3>1. left = trimmed
      BY <2>2 DEF Settled
    <3>2. call.plan.mode # "chain"
      BY <1>4, <2>2 DEF AtStep
    <3>3. QED BY <1>2, <2>2, <3>1, <3>2
  <2>3. CASE result = "failed" /\ call.state # "throwing" /\ call.plan.mode = "chain"
    <3>1. left = [call EXCEPT !.active = {}, !.pending = <<>>]
      BY <2>3 DEF Settled
    <3>2. <<>> \in Seq(Nat) /\ ToSet(<<>>) = {} /\ DOMAIN <<>> = {}
      BY EmptySeq DEF ToSet
    <3>3. /\ left \in Execution /\ left.plan = call.plan /\ left.aborted = call.aborted
          /\ left.background = call.background /\ left.state = call.state
          /\ left.active = {} /\ left.pending = <<>>
      BY <3>1, <3>2 DEF Execution
    <3>4. Proper(left)
      <4>1. Cardinality({}) = 0 /\ Limit(call.plan) \in Nat
        BY <1>1, FS_EmptySet, LimitBounds
      <4>2. Cardinality(left.active) <= Limit(left.plan)
        BY <3>3, <4>1
      <4> HIDE DEF left
      <4>3. QED BY <3>2, <3>3, <4>2 DEF Proper
    <3>5. QED BY <1>4, <2>3, <3>3, <3>4
  <2>4. CASE result # "aborted" /\ call.state # "throwing"
             /\ ~(result = "failed" /\ call.plan.mode = "chain")
    <3>1. left = Filling(trimmed)
      BY <2>4 DEF Settled
    <3> HIDE DEF trimmed
    <3>2. /\ left \in Execution /\ Proper(left) /\ left.plan = call.plan
          /\ left.background = call.background /\ left.state = call.state
          /\ left.aborted = call.aborted
          /\ left.active \cup ToSet(left.pending) = trimmed.active \cup ToSet(trimmed.pending)
          /\ trimmed.active \subseteq left.active
          /\ trimmed.active = {} /\ trimmed.pending # <<>> => trimmed.pending[1] \in left.active
      BY <1>2, <3>1, FillingProperties
    <3> HIDE DEF left
    <3>3. ASSUME call.plan.mode = "chain", left.active # {}
          PROVE  /\ result = "ok" /\ left.state = "running" /\ left.active = {i + 1}
                 /\ ToSet(left.pending) = (i + 2)..Len(tasks)
      <4>1. /\ call.active = {i} /\ trimmed.active = {} /\ call.state = "running"
            /\ ToSet(trimmed.pending) = (i + 1)..Len(tasks)
        BY <1>2, <1>4, <3>3 DEF AtStep
      <4>2. trimmed.pending # <<>>
        <5>1. CASE trimmed.pending = <<>>
          <6>1. ToSet(trimmed.pending) = {}
            BY <5>1, EmptySeq DEF ToSet
          <6>2. QED BY <3>2, <3>3, <4>1, <6>1
        <5>2. QED BY <5>1
      <4>3. trimmed.pending[1] = i + 1
        BY <1>1, <1>2, <4>1, <4>2, NextStep, i \in Nat
      <4>4. left.active = {i + 1}
        BY <3>2, <3>3, <4>1, <4>2, <4>3, OneActive
      <4>5. ToSet(left.pending) \cap left.active = {}
        BY <3>2 DEF Proper
      <4>6. ToSet(left.pending) = ((i + 1)..Len(tasks)) \ {i + 1}
        BY <3>2, <4>1, <4>4, <4>5
      <4>7. ((i + 1)..Len(tasks)) \ {i + 1} = (i + 2)..Len(tasks)
        BY <1>1
      <4>8. QED BY <2>4, <3>2, <3>3, <4>1, <4>4, <4>6, <4>7
    <3>4. QED BY <1>2, <3>2, <3>3
  <2>5. QED BY <2>1, <2>2, <2>3, <2>4
<1> HIDE DEF left, trimmed, now
<1>6. /\ new \in Execution /\ new.plan = call.plan /\ new.aborted = call.aborted
      /\ new.background = call.background /\ new.active = left.active /\ new.pending = left.pending
      /\ new.state = IF left.active = {} THEN "ended" ELSE left.state
  BY <1>5 DEF Going, Execution
<1> HIDE DEF new
<1>7. Proper(new)
  BY <1>5, <1>6 DEF Proper
<1>8. \A j \in DOMAIN tasks : now[j].state \in Procs => j \in new.active
  <2>1. SUFFICES ASSUME NEW j \in DOMAIN tasks, now[j].state \in Procs PROVE j \in new.active
    OBVIOUS
  <2>2. j # i
    BY <1>3, <2>1 DEF Procs
  <2>3. j \in call.active
    BY <1>3, <2>1, <2>2 DEF Healthy
  <2>4. QED BY <1>5, <1>6, <2>2, <2>3
<1>9. ASSUME call.plan.mode = "chain" PROVE InOrder(new, now)
  <2>1. SUFFICES ASSUME NEW j \in DOMAIN tasks, now[j].state # "new" \/ j \in new.active,
                        NEW k \in 1..(j - 1)
                 PROVE  now[k].result = "ok"
    BY <1>6 DEF InOrder
  <2>2. AtStep(call, kids, i) /\ k \in DOMAIN tasks
    BY <1>1, <1>4, <1>9
  <2>3. \A l \in 1..(i - 1) : now[l].result = "ok"
    BY <1>1, <1>3, <2>2 DEF AtStep
  <2>4. CASE j \in new.active
    <3>1. j = i + 1 /\ result = "ok"
      BY <1>5, <1>6, <1>9, <2>4
    <3>2. k \in 1..(i - 1) \/ k = i
      BY <1>1, <3>1
    <3>3. QED BY <1>3, <2>3, <3>1, <3>2
  <2>5. CASE j = i
    BY <2>3, <2>5
  <2>6. CASE j # i /\ now[j].state # "new"
    <3>1. kids[j].state # "new"
      BY <1>3, <2>6
    <3>2. j \notin (i + 1)..Len(tasks)
      BY <2>2, <3>1 DEF AtStep
    <3>3. k \in 1..(i - 1)
      BY <1>1, <2>6, <3>2
    <3>4. QED BY <2>3, <3>3
  <2>7. QED BY <2>1, <2>4, <2>5, <2>6
<1>10. ASSUME call.plan.mode = "chain", new.state # "ended"
       PROVE  \E m \in DOMAIN tasks : AtStep(new, now, m)
  <2>1. /\ result = "ok" /\ new.state = "running" /\ new.active = {i + 1}
        /\ ToSet(new.pending) = (i + 2)..Len(tasks)
    BY <1>5, <1>6, <1>10
  <2>2. AtStep(call, kids, i) /\ i + 1 \in DOMAIN tasks
    BY <1>4, <1>6, <1>7, <1>10, <2>1 DEF Proper
  <2>3. \A j \in 1..i : now[j].result = "ok"
    <3>1. TAKE j \in 1..i
    <3>2. j \in DOMAIN tasks /\ (j = i \/ j \in 1..(i - 1))
      BY <1>1
    <3>3. QED BY <1>3, <2>1, <2>2, <3>2 DEF AtStep
  <2>4. \A j \in (i + 2)..Len(tasks) : now[j].state = "new"
    <3>1. TAKE j \in (i + 2)..Len(tasks)
    <3>2. j \in DOMAIN tasks /\ j # i /\ j \in (i + 1)..Len(tasks)
      BY <1>1
    <3>3. QED BY <1>3, <2>2, <3>2 DEF AtStep
  <2>5. (i + 1) - 1 = i /\ (i + 1) + 1 = i + 2
    BY <1>1
  <2>6. AtStep(new, now, i + 1)
    BY <1>6, <2>1, <2>3, <2>4, <2>5 DEF AtStep
  <2>7. QED BY <2>2, <2>6
<1>11. new.state = "ended" <=> left.active = {}
  BY <1>5, <1>6
<1>12. Healthy(new, now)
  BY <1>3, <1>6, <1>7, <1>8, <1>9, <1>10, <1>11 DEF Healthy
<1>13. QED BY <1>5, <1>6, <1>11, <1>12 DEF left, new, now

-----------------------------------------------------------------------------
(* The invariant.                                                          *)

(* A call is replaced by another state of it, or made.                     *)
LEMMA Replaced ==
  ASSUME Typed, Executions, NEW c \in Calls, NEW call \in Execution, NEW kids, Healthy(call, kids),
         calls' = [calls EXCEPT ![c] = call], children' = [children EXCEPT ![c] = kids]
  PROVE  /\ calls' \in [Calls -> Execution \cup {None}]
         /\ children' = [d \in Calls |-> children'[d]]
         /\ calls'[c] = call /\ \A d \in Calls : d # c => calls'[d] = calls[d]
         /\ Made' = Made \cup {c} /\ Executions'
<1>1. /\ calls \in [Calls -> Execution \cup {None}] /\ DOMAIN children = Calls
      /\ children = [d \in Calls |-> children[d]]
  BY DEF Typed
<1>2. /\ calls'[c] = call /\ \A d \in Calls : d # c => calls'[d] = calls[d]
      /\ children'[c] = kids /\ \A d \in Calls : d # c => children'[d] = children[d]
      /\ children' = [d \in Calls |-> children'[d]]
      /\ calls' \in [Calls -> Execution \cup {None}]
  BY <1>1
<1>3. call # None
  BY NoneAssumption
<1>4. Made' = Made \cup {c}
  BY <1>2, <1>3 DEF Made
<1>5. Executions'
  <2>1. SUFFICES ASSUME NEW d \in Made' PROVE Healthy(calls'[d], children'[d])
    BY DEF Executions, Healthy, Proper, AtStep, InOrder, Limit, ScopesOverlap, Below
  <2>2. CASE d = c
    BY <1>2, <2>2
  <2>3. CASE d # c
    <3>1. d \in Made /\ d \in Calls
      BY <1>4, <2>3 DEF Made
    <3>2. Healthy(calls[d], children[d])
      BY <3>1 DEF Executions
    <3>3. QED BY <1>2, <2>3, <3>1, <3>2
  <2>4. QED BY <2>2, <2>3
<1>6. QED BY <1>2, <1>4, <1>5

(* Calls are aborted.                                                      *)
LEMMA AllAborted ==
  ASSUME Typed, Executions, NEW set \in SUBSET Made,
         calls' = Aborted(set), children' = Termed(set)
  PROVE  /\ calls' \in [Calls -> Execution \cup {None}]
         /\ children' = [d \in Calls |-> children'[d]]
         /\ Made' = Made /\ Executions'
         /\ \A d \in Made : /\ calls'[d].background = calls[d].background
                            /\ calls'[d].state = calls[d].state
                            /\ calls'[d].aborted <=> (calls[d].aborted \/ d \in set)
<1>1. calls \in [Calls -> Execution \cup {None}] /\ Made \subseteq Calls
  BY DEF Typed, Made
<1>2. /\ calls' = [d \in Calls |-> IF d \in set THEN [calls[d] EXCEPT !.aborted = TRUE] ELSE calls[d]]
      /\ children' = [d \in Calls |-> IF d \notin set THEN children[d]
                       ELSE [i \in DOMAIN children[d] |->
                              IF children[d][i].state = "running"
                              THEN [children[d][i] EXCEPT !.state = "termed"] ELSE children[d][i]]]
  BY DEF Aborted, Termed
<1>3. ASSUME NEW d \in Made
      PROVE  /\ calls'[d] \in Execution /\ Healthy(calls'[d], children'[d])
             /\ calls'[d].background = calls[d].background
             /\ calls'[d].state = calls[d].state
             /\ calls'[d].aborted <=> (calls[d].aborted \/ d \in set)
  <2>1. d \in Calls /\ calls[d] \in Execution /\ Healthy(calls[d], children[d])
    BY <1>1 DEF Made, Executions
  <2>2. CASE d \in set
    <3> DEFINE new == [calls[d] EXCEPT !.aborted = TRUE]
               now == [i \in DOMAIN children[d] |->
                        IF children[d][i].state = "running"
                        THEN [children[d][i] EXCEPT !.state = "termed"] ELSE children[d][i]]
    <3>1. calls'[d] = new /\ children'[d] = now
      BY <1>2, <2>1, <2>2
    <3>2. /\ new \in Execution /\ Healthy(new, now)
          /\ new.background = calls[d].background
          /\ new.state = calls[d].state /\ new.aborted
      BY <2>1, AbortHealthy
    <3>3. new.aborted \in BOOLEAN
      BY <3>2 DEF Execution
    <3> HIDE DEF new, now
    <3>4. QED BY <2>2, <3>1, <3>2, <3>3
  <2>3. CASE d \notin set
    <3>1. calls'[d] = calls[d] /\ children'[d] = children[d]
      BY <1>2, <2>1, <2>3
    <3>2. calls[d].aborted \in BOOLEAN
      BY <2>1 DEF Execution
    <3>3. QED BY <2>1, <2>3, <3>1, <3>2
  <2>4. QED BY <2>2, <2>3
<1>4. Made' = Made
  <2>1. \A d \in Calls : d \notin set => calls'[d] = calls[d]
    BY <1>2
  <2>2. \A d \in set : d \in Calls /\ calls[d] # None /\ calls'[d] # None
    BY <1>1, <1>3, NoneAssumption DEF Made
  <2>3. QED BY <2>1, <2>2 DEF Made
<1>5. calls' \in [Calls -> Execution \cup {None}]
  <2>1. ASSUME NEW d \in Calls PROVE calls'[d] \in Execution \cup {None}
    <3>1. CASE d \in Made
      BY <1>3, <3>1
    <3>2. CASE d \notin Made
      BY <1>1, <1>2, <3>2
    <3>3. QED BY <3>1, <3>2
  <2>2. calls' = [d \in Calls |-> calls'[d]]
    BY <1>2
  <2>3. QED BY <2>1, <2>2
<1>6. children' = [d \in Calls |-> children'[d]]
  BY <1>2
<1>7. Executions'
  BY <1>3, <1>4 DEF Executions, Healthy, Proper, AtStep, InOrder, Limit, ScopesOverlap, Below
<1>8. QED BY <1>3, <1>4, <1>5, <1>6, <1>7

LEMMA InitInvariant == Init => IInv
<1>1. SUFFICES ASSUME Init PROVE IInv
  OBVIOUS
<1>2. Made = {}
  BY <1>1 DEF Init, Made
<1>3. ToSet(<<>>) = {} /\ <<>> \in Seq(End)
  BY EmptySeq DEF ToSet
<1>4. Typed
  BY <1>1, <1>2, <1>3, FS_EmptySet DEF Init, Typed
<1>5. Executions /\ Jobs /\ JobsReported
  BY <1>1, <1>2, <1>3 DEF Init, Executions, Jobs, JobsReported
<1>6. QED BY <1>4, <1>5 DEF IInv

LEMMA CallKeeps ==
  ASSUME IInv, NEW c \in Calls, Call(c)
  PROVE  IInv'
<1>1. Typed /\ Executions /\ Jobs /\ JobsReported
  BY DEF IInv
<1>2. PICK plan \in Plans, background \in BOOLEAN :
       /\ calls' = [calls EXCEPT ![c] =
            Filling([plan |-> plan, background |-> background, active |-> {},
                     pending |-> [i \in DOMAIN plan.tasks |-> i],
                     state |-> "running", aborted |-> FALSE])]
       /\ children' = [children EXCEPT ![c] =
            [i \in DOMAIN plan.tasks |-> [state |-> "new", result |-> None]]]
       /\ IF background THEN Registry(Pruned(running \cup {c}, finished))
          ELSE UNCHANGED <<running, finished>>
  BY DEF Call
<1> DEFINE call == Filling([plan |-> plan, background |-> background, active |-> {},
                            pending |-> [i \in DOMAIN plan.tasks |-> i],
                            state |-> "running", aborted |-> FALSE])
           kids == [i \in DOMAIN plan.tasks |-> [state |-> "new", result |-> None]]
<1>3. /\ call \in Execution /\ Healthy(call, kids) /\ call.background = background
      /\ call.state = "running" /\ ~call.aborted
  BY NewHealthy
<1>4. calls' = [calls EXCEPT ![c] = call] /\ children' = [children EXCEPT ![c] = kids]
  BY <1>2
<1> HIDE DEF call, kids
<1>5. /\ calls' \in [Calls -> Execution \cup {None}]
      /\ children' = [d \in Calls |-> children'[d]]
      /\ calls'[c] = call /\ \A d \in Calls : d # c => calls'[d] = calls[d]
      /\ Made' = Made \cup {c} /\ Executions'
  BY <1>1, <1>3, <1>4, Replaced
<1>6. c \notin Made /\ Made \subseteq Calls
  BY DEF Call, Made
<1>7. UNCHANGED <<told, enabled, sent>>
  BY DEF Call
<1>8. /\ running' = (IF background THEN running \cup {c} ELSE running)
      /\ finished' \in Seq(End) /\ ToSet(finished') \subseteq ToSet(finished)
  <2>1. IsFiniteSet(running \cup {c}) /\ finished \in Seq(End)
    BY <1>1, FS_AddElement DEF Typed
  <2>2. CASE background
    BY <1>2, <2>1, <2>2, PrunedJobs DEF Registry
  <2>3. CASE ~background
    BY <1>2, <2>1, <2>3
  <2>4. QED BY <2>2, <2>3
<1>9. Typed'
  <2>1. IsFiniteSet(running') /\ running' \subseteq Made'
    BY <1>1, <1>5, <1>8, FS_AddElement DEF Typed
  <2>2. \A e \in ToSet(finished') \cup told' : e.id \in Made'
    BY <1>1, <1>5, <1>7, <1>8 DEF Typed
  <2>3. told' \subseteq End /\ enabled' \in BOOLEAN /\ \A d \in sent' : d.call \in Made'
    BY <1>1, <1>5, <1>7 DEF Typed
  <2>4. QED BY <1>5, <1>8, <2>1, <2>2, <2>3 DEF Typed
<1>10. \A d \in Made : d # c /\ calls'[d] = calls[d]
  BY <1>5, <1>6
<1>11. Jobs'
  <2>1. ASSUME NEW d \in Made'
        PROVE  d \in running' <=>
                 calls'[d].background /\ ~calls'[d].aborted /\ calls'[d].state # "ended"
    <3>1. CASE d = c
      <4>1. c \notin running
        BY <1>1, <1>6 DEF Typed
      <4>2. QED BY <1>3, <1>5, <1>8, <3>1, <4>1
    <3>2. CASE d # c
      <4>1. d \in Made /\ (d \in running' <=> d \in running)
        BY <1>5, <1>8, <3>2
      <4>2. QED BY <1>1, <1>10, <4>1 DEF Jobs
    <3>3. QED BY <3>1, <3>2
  <2>2. ASSUME NEW e \in ToSet(finished') \cup told'
        PROVE  /\ calls'[e.id].background /\ e.id \notin running'
               /\ calls'[e.id].aborted => e.status = "cancelled"
    <3>1. e \in ToSet(finished) \cup told /\ e.id \in Made
      BY <1>1, <1>7, <1>8 DEF Typed
    <3>2. e.id # c /\ calls'[e.id] = calls[e.id]
      BY <1>10, <3>1
    <3>3. QED BY <1>1, <1>8, <3>1, <3>2 DEF Jobs
  <2>3. QED BY <2>1, <2>2 DEF Jobs
<1>12. JobsReported'
  <2>1. ASSUME NEW d \in Made', calls'[d].background, calls'[d].state = "ended", enabled'
        PROVE  calls'[d].aborted \/ \E m \in told' : m.id = d /\ m.status # "cancelled"
    <3>1. d \in Made /\ calls'[d] = calls[d]
      BY <1>3, <1>5, <1>10, <2>1
    <3>2. QED BY <1>1, <1>7, <2>1, <3>1 DEF JobsReported
  <2>2. QED BY <2>1 DEF JobsReported
<1>13. QED BY <1>5, <1>9, <1>11, <1>12 DEF IInv

LEMMA SpawnKeeps ==
  ASSUME IInv, NEW c \in Made, NEW i \in Tasks(c), Spawn(c, i)
  PROVE  IInv'
<1>1. Typed /\ Executions /\ Jobs /\ JobsReported
  BY DEF IInv
<1>2. c \in Calls /\ calls[c] \in Execution /\ Healthy(calls[c], children[c])
  BY <1>1 DEF Typed, Made, Executions
<1> DEFINE s == IF calls[c].aborted THEN "termed" ELSE "running"
           kids == [children[c] EXCEPT ![i].state = s]
<1>3. Healthy(calls[c], kids)
  <2>1. i \in calls[c].active /\ children[c][i].state = "new" /\ s \in Procs
    BY DEF Spawn, Procs
  <2> HIDE DEF s
  <2>2. QED BY <1>2, <2>1, SpawnHealthy
<1>4. /\ children' = [children EXCEPT ![c] = kids]
      /\ UNCHANGED <<calls, running, finished, told, enabled, sent>>
  BY <1>1, <1>2 DEF Spawn, Typed
<1> HIDE DEF kids
<1>5. calls' = [calls EXCEPT ![c] = calls[c]]
  BY <1>1, <1>2, <1>4 DEF Typed
<1>6. /\ calls' \in [Calls -> Execution \cup {None}]
      /\ children' = [d \in Calls |-> children'[d]]
      /\ Made' = Made \cup {c} /\ Executions'
  BY <1>1, <1>2, <1>3, <1>4, <1>5, Replaced
<1>7. Made' = Made
  BY <1>6
<1>8. Typed' /\ Jobs' /\ JobsReported'
  BY <1>1, <1>4, <1>6, <1>7 DEF Typed, Jobs, JobsReported
<1>9. QED BY <1>6, <1>8 DEF IInv

LEMMA DeliverKeeps ==
  ASSUME IInv, NEW c \in Made, NEW i \in Tasks(c), Deliver(c, i)
  PROVE  IInv'
<1>1. Typed /\ Executions /\ Jobs /\ JobsReported
  BY DEF IInv
<1>2. /\ sent' = sent \cup {[call |-> c, task |-> i, spool |-> Spool(c, i)]}
      /\ UNCHANGED <<calls, children, running, finished, told, enabled>>
  BY DEF Deliver
<1>3. Made' = Made
  BY <1>2 DEF Made
<1>4. \A d \in sent' : d.call \in Made'
  BY <1>1, <1>2, <1>3 DEF Typed
<1>5. Typed' /\ Jobs' /\ JobsReported'
  BY <1>1, <1>2, <1>3, <1>4 DEF Typed, Jobs, JobsReported
<1>6. Executions'
  <2>1. ASSUME NEW d \in Made PROVE Healthy(calls'[d], children'[d])
    BY <1>1, <1>2 DEF Executions
  <2>2. QED BY <1>3, <2>1 DEF Executions, Healthy, Proper, AtStep, InOrder, Limit, ScopesOverlap, Below
<1>7. QED BY <1>5, <1>6 DEF IInv

\* A task of a call settles: in both ways the call is going on or ends.
LEMMA SettlesKeeps ==
  ASSUME IInv, NEW c \in Made, NEW i \in calls[c].active, NEW result \in {"ok", "failed", "aborted"},
         Settles(c, i, result)
  PROVE  IInv'
<1>1. Typed /\ Executions /\ Jobs /\ JobsReported
  BY DEF IInv
<1>2. c \in Calls /\ calls[c] \in Execution /\ Healthy(calls[c], children[c])
      /\ calls[c].state # "ended"
  BY <1>1 DEF Typed, Made, Executions, Healthy
<1> DEFINE left == Settled(calls[c], i, result)
           call == Going(left)
           kids == [children[c] EXCEPT ![i] = [state |-> "gone", result |-> result]]
<1>3. /\ left \in Execution /\ left.plan = calls[c].plan /\ left.aborted = calls[c].aborted
      /\ left.background = calls[c].background /\ left.state # "ended"
      /\ call \in Execution /\ Healthy(call, kids) /\ call.plan = calls[c].plan
      /\ call.aborted = calls[c].aborted /\ call.background = calls[c].background
      /\ call.state = "ended" <=> left.active = {}
  BY <1>2, SettleHealthy
<1>4. /\ children' = [children EXCEPT ![c] = kids] /\ UNCHANGED <<enabled, sent>>
      /\ Continues(c, left, Status(left, result))
  BY <1>1, <1>2 DEF Settles, Typed
<1> DEFINE status == Status(left, result)
<1>5. status \in Statuses /\ (status = "cancelled" => calls[c].aborted)
  BY <1>3 DEF Status, Statuses
<1> HIDE DEF status, left, kids
<1>6. calls' = [calls EXCEPT ![c] = call]
  BY <1>4 DEF Continues, Going, status
<1>7. IF left.active = {} /\ left.background THEN JobEnds(c, status)
      ELSE UNCHANGED <<running, finished, told>>
  BY <1>4 DEF Continues, status
<1> HIDE DEF call
<1>8. /\ calls' \in [Calls -> Execution \cup {None}]
      /\ children' = [d \in Calls |-> children'[d]]
      /\ calls'[c] = call /\ \A d \in Calls : d # c => calls'[d] = calls[d]
      /\ Made' = Made /\ Executions'
  <2>1. Made \cup {c} = Made
    OBVIOUS
  <2>2. call \in Execution /\ Healthy(call, kids) /\ children' = [children EXCEPT ![c] = kids]
    BY <1>3, <1>4
  <2>3. QED BY <1>1, <1>2, <1>6, <2>1, <2>2, Replaced
<1>9. Made \subseteq Calls /\ finished \in Seq(End) /\ IsFiniteSet(running) /\ running \subseteq Made
  BY <1>1 DEF Made, Typed
<1>10. \A d \in Made : /\ calls'[d].aborted = calls[d].aborted
                       /\ calls'[d].background = calls[d].background
                       /\ d # c => calls'[d].state = calls[d].state
  BY <1>3, <1>8, <1>9
<1>11. CASE left.active = {} /\ left.background
  <2> DEFINE new == [id |-> c, status |-> status]
             fin == IF c \in running THEN Append(finished, new) ELSE finished
  <2>1. /\ running' = running \ {c} /\ finished' = fin
        /\ told' = told \cup IF enabled THEN {[id |-> c, status |-> s] : s \in StatusOf(c, fin)} ELSE {}
    BY <1>7, <1>11 DEF JobEnds
  <2>2. new \in End /\ new.id = c /\ new.status = status
    BY <1>2, <1>5 DEF End
  <2>3. fin \in Seq(End) /\ ToSet(fin) = ToSet(finished) \cup (IF c \in running THEN {new} ELSE {})
    <3>1. CASE c \in running
      <4>1. /\ fin \in Seq(End) /\ Len(fin) = Len(finished) + 1 /\ Len(finished) \in Nat
            /\ DOMAIN finished = 1..Len(finished) /\ DOMAIN fin = 1..(Len(finished) + 1)
            /\ \A k \in 1..Len(finished) : fin[k] = finished[k]
            /\ fin[Len(finished) + 1] = new
        BY <1>9, <2>2, <3>1, AppendProperties, LenProperties
      <4> HIDE DEF fin, new
      <4>2. ToSet(fin) = ToSet(finished) \cup {new}
        <5>1. \A k \in 1..(Len(finished) + 1) : k \in 1..Len(finished) \/ k = Len(finished) + 1
          BY <4>1
        <5>2. 1..Len(finished) \subseteq 1..(Len(finished) + 1)
              /\ Len(finished) + 1 \in 1..(Len(finished) + 1)
          BY <4>1
        <5>3. QED BY <4>1, <5>1, <5>2, Zenon DEF ToSet
      <4>3. QED BY <3>1, <4>1, <4>2
    <3>2. CASE c \notin running
      BY <1>9, <3>2
    <3>3. QED BY <3>1, <3>2
  <2> HIDE DEF fin
  <2>4. c \in running <=> ~calls[c].aborted
    BY <1>1, <1>2, <1>3, <1>11 DEF Jobs
  <2>5. \A e \in ToSet(finished) \cup told : e.id \in Made /\ calls[e.id].background
           /\ e.id \notin running /\ (calls[e.id].aborted => e.status = "cancelled")
    BY <1>1 DEF Typed, Jobs
  <2>6. \A f \in ToSet(fin) :
           /\ f \in End /\ f.id \in Made /\ calls[f.id].background /\ f.id \notin running \ {c}
           /\ calls[f.id].aborted => f.status = "cancelled"
    <3>1. \A f \in ToSet(fin) : f \in End
      BY <1>9, <2>2, <2>3, ElementOfSeq, LenProperties DEF ToSet
    <3>2. c \in Made /\ calls[c].background
      BY <1>3, <1>11
    <3>3. QED BY <2>2, <2>3, <2>4, <2>5, <3>1, <3>2
  <2>7. \A m \in told' :
           /\ m \in End /\ m.id \in Made /\ calls[m.id].background /\ m.id \notin running \ {c}
           /\ calls[m.id].aborted => m.status = "cancelled"
    <3>1. SUFFICES ASSUME NEW m \in told', m \notin told
                   PROVE  /\ m \in End /\ m.id = c
                          /\ calls[c].aborted => m.status = "cancelled"
      <4>1. told \subseteq End
        BY <1>1 DEF Typed
      <4>2. c \in Made /\ calls[c].background
        BY <1>3, <1>11
      <4>3. QED BY <2>5, <3>1, <4>1, <4>2
    <3>2. PICK s \in StatusOf(c, fin) : m = [id |-> c, status |-> s]
      BY <2>1, <3>1
    <3>3. PICK f \in ToSet(fin) : f.id = c /\ f.status = s
      BY <3>2 DEF StatusOf
    <3>4. s \in Statuses /\ (calls[c].aborted => s = "cancelled")
      BY <2>6, <3>3 DEF End
    <3>5. QED BY <1>2, <3>2, <3>4 DEF End
  <2>8. enabled /\ ~calls[c].aborted => [id |-> c, status |-> status] \in told'
    <3>1. SUFFICES ASSUME enabled, ~calls[c].aborted PROVE [id |-> c, status |-> status] \in told'
      OBVIOUS
    <3>2. new \in ToSet(fin)
      BY <2>3, <2>4, <3>1
    <3>3. status \in StatusOf(c, fin)
      BY <2>2, <3>2 DEF StatusOf
    <3>4. QED BY <2>1, <3>1, <3>3
  <2>9. call.state = "ended" /\ calls'[c].state = "ended"
    BY <1>3, <1>8, <1>11
  <2>10. Typed'
    <3>1. IsFiniteSet(running \ {c})
      BY <1>9, FS_RemoveElement
    <3>2. \A e \in ToSet(finished') \cup told' : e.id \in Made'
      BY <1>8, <2>1, <2>6, <2>7
    <3>3. told' \subseteq End /\ finished' \in Seq(End)
      BY <2>1, <2>3, <2>7
    <3>4. enabled' \in BOOLEAN /\ \A d \in sent' : d.call \in Made'
      BY <1>1, <1>4, <1>8 DEF Typed
    <3>5. running' \subseteq Made' /\ IsFiniteSet(running')
      BY <1>8, <1>9, <2>1, <3>1
    <3>6. QED BY <1>8, <3>2, <3>3, <3>4, <3>5 DEF Typed
  <2>11. Jobs'
    <3>1. ASSUME NEW d \in Made
          PROVE  d \in running' <=>
                   calls'[d].background /\ ~calls'[d].aborted /\ calls'[d].state # "ended"
      <4>1. CASE d = c
        BY <2>1, <2>9, <4>1
      <4>2. CASE d # c
        BY <1>1, <1>10, <2>1, <4>2 DEF Jobs
      <4>3. QED BY <4>1, <4>2
    <3>2. ASSUME NEW e \in ToSet(finished') \cup told'
          PROVE  /\ calls'[e.id].background /\ e.id \notin running'
                 /\ calls'[e.id].aborted => e.status = "cancelled"
      BY <1>10, <2>1, <2>6, <2>7
    <3>3. QED BY <1>8, <3>1, <3>2 DEF Jobs
  <2>12. JobsReported'
    <3>1. ASSUME NEW d \in Made, calls'[d].background, calls'[d].state = "ended", enabled'
          PROVE  calls'[d].aborted \/ \E m \in told' : m.id = d /\ m.status # "cancelled"
      <4>1. CASE d = c
        <5>1. CASE calls[c].aborted
          BY <1>10, <4>1, <5>1
        <5>2. CASE ~calls[c].aborted
          <6>1. [id |-> c, status |-> status] \in told'
            BY <1>4, <2>8, <3>1, <5>2
          <6>2. status # "cancelled"
            BY <1>5, <5>2
          <6>3. QED BY <4>1, <6>1, <6>2
        <5>3. QED BY <5>1, <5>2
      <4>2. CASE d # c
        <5>1. calls[d].aborted \/ \E m \in told : m.id = d /\ m.status # "cancelled"
          BY <1>1, <1>4, <1>10, <3>1, <4>2 DEF JobsReported
        <5>2. QED BY <1>10, <2>1, <5>1
      <4>3. QED BY <4>1, <4>2
    <3>2. QED BY <1>8, <3>1 DEF JobsReported
  <2>13. QED BY <1>8, <2>10, <2>11, <2>12 DEF IInv
<1>12. CASE ~(left.active = {} /\ left.background)
  <2>1. UNCHANGED <<running, finished, told>>
    BY <1>7, <1>12
  <2>2. Typed'
    BY <1>1, <1>4, <1>8, <2>1 DEF Typed
  <2>3. Jobs'
    <3>1. calls[c].background => calls'[c].state # "ended"
      BY <1>3, <1>8, <1>12
    <3>2. ASSUME NEW d \in Made
          PROVE  d \in running' <=>
                   calls'[d].background /\ ~calls'[d].aborted /\ calls'[d].state # "ended"
      BY <1>1, <1>2, <1>10, <2>1, <3>1 DEF Jobs
    <3>3. ASSUME NEW e \in ToSet(finished) \cup told
          PROVE  /\ calls'[e.id].background /\ e.id \notin running'
                 /\ calls'[e.id].aborted => e.status = "cancelled"
      BY <1>1, <1>10, <2>1 DEF Jobs, Typed
    <3>4. QED BY <1>8, <2>1, <3>2, <3>3 DEF Jobs
  <2>4. JobsReported'
    <3>1. ASSUME NEW d \in Made, calls'[d].background, calls'[d].state = "ended", enabled'
          PROVE  calls'[d].aborted \/ \E m \in told' : m.id = d /\ m.status # "cancelled"
      <4>1. d # c
        BY <1>3, <1>8, <1>10, <1>12, <3>1
      <4>2. QED BY <1>1, <1>4, <1>10, <2>1, <3>1, <4>1 DEF JobsReported
    <3>2. QED BY <1>8, <3>1 DEF JobsReported
  <2>5. QED BY <1>8, <2>2, <2>3, <2>4 DEF IInv
<1>13. QED BY <1>11, <1>12

\* The jobs in a set are cancelled, or the foreground calls in it aborted.
LEMMA CancelKeeps ==
  ASSUME IInv, NEW set \in SUBSET running,
         running' = Cancelled(set).run, finished' = Cancelled(set).fin,
         calls' = Aborted(set), children' = Termed(set), UNCHANGED <<told, sent>>,
         enabled' \in {enabled, FALSE}
  PROVE  IInv'
<1>1. Typed /\ Executions /\ Jobs /\ JobsReported
  BY DEF IInv
<1>2. running \subseteq Made /\ set \in SUBSET Made /\ Made \subseteq Calls /\ IsFiniteSet(running)
  BY <1>1 DEF Typed, Made
<1>3. /\ running' = running \ set /\ finished' \in Seq(End)
      /\ \A e \in ToSet(finished') :
           e \in ToSet(finished) \/ (e \in End /\ e.id \in set /\ e.status = "cancelled")
  BY <1>1, CancelledJobs
<1>4. /\ calls' \in [Calls -> Execution \cup {None}]
      /\ children' = [d \in Calls |-> children'[d]]
      /\ Made' = Made /\ Executions'
      /\ \A d \in Made : /\ calls'[d].background = calls[d].background
                         /\ calls'[d].state = calls[d].state
                         /\ calls'[d].aborted <=> (calls[d].aborted \/ d \in set)
  BY <1>1, <1>2, AllAborted
<1>5. \A e \in ToSet(finished) \cup told :
        /\ e.id \in Made /\ calls[e.id].background /\ e.id \notin running
        /\ calls[e.id].aborted => e.status = "cancelled"
  BY <1>1 DEF Typed, Jobs
<1>6. \A e \in ToSet(finished') \cup told' :
        /\ e.id \in Made /\ calls'[e.id].background /\ e.id \notin running'
        /\ calls'[e.id].aborted => e.status = "cancelled"
  <2>1. \A d \in set : calls[d].background
    BY <1>1, <1>2 DEF Jobs
  <2>2. QED BY <1>2, <1>3, <1>4, <1>5, <2>1
<1>7. Typed'
  <2>1. IsFiniteSet(running') /\ running' \subseteq Made'
    BY <1>2, <1>3, <1>4, FS_Subset
  <2>2. told' \subseteq End /\ enabled' \in BOOLEAN /\ \A d \in sent' : d.call \in Made'
    BY <1>1, <1>4 DEF Typed
  <2>3. QED BY <1>3, <1>4, <1>6, <2>1, <2>2 DEF Typed
<1>8. Jobs'
  <2>1. ASSUME NEW d \in Made
        PROVE  d \in running' <=>
                 calls'[d].background /\ ~calls'[d].aborted /\ calls'[d].state # "ended"
    BY <1>1, <1>3, <1>4 DEF Jobs
  <2>2. QED BY <1>4, <1>6, <2>1 DEF Jobs
<1>9. JobsReported'
  <2>1. ASSUME NEW d \in Made, calls'[d].background, calls'[d].state = "ended", enabled'
        PROVE  calls'[d].aborted \/ \E m \in told' : m.id = d /\ m.status # "cancelled"
    BY <1>1, <1>4, <2>1 DEF JobsReported
  <2>2. QED BY <1>4, <2>1 DEF JobsReported
<1>10. QED BY <1>4, <1>7, <1>8, <1>9 DEF IInv

LEMMA AbortKeeps ==
  ASSUME IInv, NEW c \in Calls, Abort(c)
  PROVE  IInv'
<1>1. Typed /\ Executions /\ Jobs /\ JobsReported
  BY DEF IInv
<1>2. /\ c \in Made /\ ~calls[c].background /\ calls' = Aborted({c}) /\ children' = Termed({c})
      /\ UNCHANGED <<running, finished, told, enabled, sent>>
  BY DEF Abort
<1>3. /\ calls' \in [Calls -> Execution \cup {None}]
      /\ children' = [d \in Calls |-> children'[d]]
      /\ Made' = Made /\ Executions'
      /\ \A d \in Made : /\ calls'[d].background = calls[d].background
                         /\ calls'[d].state = calls[d].state
                         /\ calls'[d].aborted <=> (calls[d].aborted \/ d \in {c})
  BY <1>1, <1>2, AllAborted
<1>4. Typed'
  BY <1>1, <1>2, <1>3 DEF Typed
<1>5. Jobs'
  <2>1. ASSUME NEW d \in Made
        PROVE  d \in running' <=>
                 calls'[d].background /\ ~calls'[d].aborted /\ calls'[d].state # "ended"
    BY <1>1, <1>2, <1>3 DEF Jobs
  <2>2. ASSUME NEW e \in ToSet(finished) \cup told
        PROVE  /\ calls'[e.id].background /\ e.id \notin running'
               /\ calls'[e.id].aborted => e.status = "cancelled"
    BY <1>1, <1>2, <1>3 DEF Jobs, Typed
  <2>3. QED BY <1>2, <1>3, <2>1, <2>2 DEF Jobs
<1>6. JobsReported'
  <2>1. ASSUME NEW d \in Made, calls'[d].background, calls'[d].state = "ended", enabled'
        PROVE  calls'[d].aborted \/ \E m \in told' : m.id = d /\ m.status # "cancelled"
    BY <1>1, <1>2, <1>3, <2>1 DEF JobsReported
  <2>2. QED BY <1>3, <2>1 DEF JobsReported
<1>7. QED BY <1>3, <1>4, <1>5, <1>6 DEF IInv

LEMMA NextKeeps == IInv /\ [Next]_vars => IInv'
<1>1. SUFFICES ASSUME IInv, [Next]_vars PROVE IInv'
  OBVIOUS
<1>2. ASSUME NEW c \in Calls, Call(c) PROVE IInv'
  BY <1>1, <1>2, CallKeeps
<1>3. ASSUME NEW c \in Calls, Abort(c) PROVE IInv'
  BY <1>1, <1>3, AbortKeeps
<1>4. ASSUME NEW c \in Calls, Cancel(c) PROVE IInv'
  <2>1. {c} \in SUBSET running /\ enabled' \in {enabled, FALSE}
    BY <1>4 DEF Cancel
  <2>2. QED BY <1>1, <1>4, <2>1, CancelKeeps DEF Cancel, Registry
<1>5. ASSUME NEW c \in Made, NEW i \in Tasks(c), Spawn(c, i) PROVE IInv'
  BY <1>1, <1>5, SpawnKeeps
<1>6. ASSUME NEW c \in Made, NEW i \in Tasks(c), SpawnFails(c, i) PROVE IInv'
  <2>1. PICK result \in {"ok", "failed", "aborted"} : Settles(c, i, result)
    BY <1>6 DEF SpawnFails
  <2>2. i \in calls[c].active
    BY <1>6 DEF SpawnFails
  <2>3. QED BY <1>1, <2>1, <2>2, SettlesKeeps
<1>7. ASSUME NEW c \in Made, NEW i \in Tasks(c), Exit(c, i) PROVE IInv'
  <2>1. PICK result \in {"ok", "failed", "aborted"} : Settles(c, i, result)
    BY <1>7 DEF Exit
  <2>2. i \in calls[c].active
    <3>1. children[c][i].state \in Procs
      BY <1>7 DEF Exit, Procs
    <3>2. QED BY <1>1, <3>1 DEF IInv, Executions, Healthy, Tasks
  <2>3. QED BY <1>1, <2>1, <2>2, SettlesKeeps
<1>8. ASSUME NEW c \in Made, NEW i \in Tasks(c), Deliver(c, i) PROVE IInv'
  BY <1>1, <1>8, DeliverKeeps
<1>9. ASSUME Shutdown PROVE IInv'
  <2>1. running \in SUBSET running /\ enabled' \in {enabled, FALSE}
    BY <1>9 DEF Shutdown
  <2>2. QED BY <1>1, <1>9, <2>1, CancelKeeps DEF Shutdown, Registry
<1>10. ASSUME UNCHANGED vars PROVE IInv'
  <2>1. Typed /\ Executions /\ Jobs /\ JobsReported
    BY <1>1 DEF IInv
  <2>2. UNCHANGED <<calls, children, running, finished, told, enabled, sent>>
    BY <1>10 DEF vars
  <2>3. Made' = Made
    BY <2>2 DEF Made
  <2>4. Typed' /\ Jobs' /\ JobsReported'
    BY <2>1, <2>2, <2>3 DEF Typed, Jobs, JobsReported
  <2>5. Executions'
    <3>1. ASSUME NEW d \in Made PROVE Healthy(calls'[d], children'[d])
      BY <2>1, <2>2 DEF Executions
    <3>2. QED BY <2>3, <3>1 DEF Executions, Healthy, Proper, AtStep, InOrder, Limit, ScopesOverlap, Below
  <2>6. QED BY <2>4, <2>5 DEF IInv
<1>11. QED BY <1>1, <1>2, <1>3, <1>4, <1>5, <1>6, <1>7, <1>8, <1>9, <1>10 DEF Next

LEMMA Inductive == Spec => []IInv
<1>1. QED BY InitInvariant, NextKeeps, PTL DEF Spec

-----------------------------------------------------------------------------
(* The theorems.                                                           *)

(* In every state calls and jobs are well formed: no pool has more tasks   *)
(* than MAX_CONCURRENCY, chains go in order, and what was cancelled is     *)
(* reported as that.                                                       *)
THEOREM SubagentsSound == Spec => []CallsSound
<1>1. IInv => CallsSound
  <2>1. SUFFICES ASSUME IInv PROVE CallsSound
    OBVIOUS
  <2>2. Typed /\ Executions /\ Jobs
    BY <2>1 DEF IInv
  <2>3. ASSUME NEW c \in Made
        PROVE  /\ calls[c] \in Execution /\ Healthy(calls[c], children[c])
               /\ Cardinality(calls[c].active) <= Concurrency
    <3>1. calls[c] \in Execution /\ Healthy(calls[c], children[c])
      BY <2>2 DEF Typed, Made, Executions
    <3>2. /\ calls[c].plan \in Plans /\ Limit(calls[c].plan) \in Nat
          /\ Limit(calls[c].plan) <= Concurrency
          /\ Len(calls[c].plan.tasks) \in Int /\ DOMAIN calls[c].plan.tasks = 1..Len(calls[c].plan.tasks)
      BY <3>1, LimitBounds DEF Execution
    <3>3. IsFiniteSet(1..Len(calls[c].plan.tasks))
      BY <3>2, FS_Interval, 1 \in Int
    <3>4. Cardinality(calls[c].active) \in Nat /\ Cardinality(calls[c].active) <= Limit(calls[c].plan)
      BY <3>1, <3>2, <3>3, FS_Subset, FS_CardinalityType DEF Healthy, Proper
    <3>5. Concurrency \in Nat
      BY SubagentAssumption
    <3>6. QED BY <3>1, <3>2, <3>4, <3>5
  <2>4. TypeOK
    <3>1. ASSUME NEW c \in Made
          PROVE  /\ calls[c].state \in {"running", "throwing", "ended"}
                 /\ calls[c].active \subseteq Tasks(c)
                 /\ ToSet(calls[c].pending) \subseteq Tasks(c) \ calls[c].active
                 /\ \A i \in Tasks(c) : children[c][i].state \in Procs \cup {"new", "gone"}
      BY <2>3 DEF Execution, Healthy, Proper, Tasks, Child
    <3>2. ASSUME NEW f \in ToSet(finished) \cup told PROVE f.id \in Made /\ f.status \in Statuses
      <4>1. f \in End
        BY <2>2, ElementOfSeq, LenProperties DEF Typed, ToSet
      <4>2. QED BY <2>2, <4>1 DEF Typed, End
    <3>3. QED BY <2>2, <2>3, <3>1, <3>2 DEF TypeOK, Typed
  <2>5. ChainInOrder
    BY <2>3 DEF ChainInOrder, Healthy, InOrder, Tasks
  <2>6. CancelSticks
    BY <2>2 DEF Jobs, CancelSticks
  <2>7. QED BY <2>4, <2>5, <2>6 DEF CallsSound
<1>2. QED BY <1>1, Inductive, PTL

(* In every state a call that has ended has no child left, and the end of  *)
(* a background job that nobody cancelled has been reported.               *)
THEOREM SubagentsEnd == Spec => []EndsComplete
<1>1. IInv => EndsComplete
  <2>1. SUFFICES ASSUME IInv PROVE EndsComplete
    OBVIOUS
  <2>2. NoChildLeft
    <3>1. ASSUME NEW c \in Made, calls[c].state = "ended" PROVE Living(c) = {}
      <4>1. Healthy(calls[c], children[c])
        BY <2>1 DEF IInv, Executions
      <4>2. QED BY <3>1, <4>1 DEF Healthy, Living, Tasks
    <3>2. QED BY <3>1 DEF NoChildLeft
  <2>3. QED BY <2>1, <2>2 DEF IInv, EndsComplete
<1>2. QED BY <1>1, Inductive, PTL

\* No task may write below "/", which scopesOverlap takes for a path that is
\* below and above nothing.
NoRoot == \A p \in Plans : \A i \in DOMAIN p.tasks : <<>> \notin p.tasks[i]

(* In every state two children of a call that are alive cannot write below *)
(* the same path, unless a scope is the root directory: then the tasks do  *)
(* conflict (scheduler.ts:16).                                             *)
THEOREM SubagentsApart ==
  ASSUME NoRoot
  PROVE  Spec => []CallScopesApart
<1>1. IInv => CallScopesApart
  <2>1. SUFFICES ASSUME IInv, NEW c \in Made, NEW i \in Living(c), NEW j \in Living(c), i # j,
                        NEW p \in Scope(c, i), NEW q \in Scope(c, j)
                 PROVE  ~(IsPrefix(p, q) \/ IsPrefix(q, p))
    BY Zenon DEF CallScopesApart, Conflict
  <2>2. calls[c] \in Execution /\ Healthy(calls[c], children[c])
    BY <2>1 DEF IInv, Typed, Made, Executions
  <2>3. i \in Tasks(c) /\ j \in Tasks(c) /\ i \in calls[c].active /\ j \in calls[c].active
    BY <2>2 DEF Healthy, Living, Tasks
  <2>4. ~ScopesOverlap(Scope(c, i), Scope(c, j))
    BY <2>1, <2>2, <2>3 DEF Healthy, Proper, Scope
  <2>5. p # <<>> /\ q # <<>>
    BY <2>1, <2>2, <2>3, NoRoot DEF NoRoot, Scope, Tasks, Execution
  <2>6. QED BY <2>4, <2>5, Zenon DEF ScopesOverlap, Below
<1>2. QED BY <1>1, Inductive, PTL

=============================================================================
