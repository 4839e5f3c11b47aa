---------------------------- MODULE PluginProofs ----------------------------
(***************************************************************************)
(* The queues, workers and commands of the plugin agree, and an outcome on *)
(* a job is final, for any number of aliases, jobs, commands and faults.   *)
(***************************************************************************)
EXTENDS PluginQueueProps, SequenceTheorems, WellFoundedInduction, TLAPS

Numbers == 1..MaxJobs
Job == [alias : Aliases, input : BOOLEAN, origin : BOOLEAN, cancel : BOOLEAN, aged : BOOLEAN,
        told : Seq(Verdicts)]

Typed ==
  /\ jobs \in Seq(Job) /\ Len(jobs) <= MaxJobs
  /\ ctl \in Seq(Statuses \cup {None}) /\ Len(ctl) = Len(jobs)
  /\ queues \in [Aliases -> Seq(Ids)]
  /\ active \in [Aliases -> Ids \cup {None}]
  /\ workers \in [Aliases -> Worker \cup {None}]
  /\ sweep \subseteq Ids
  /\ cancel \in [alias : Aliases, selected : Nat, tell : SUBSET Ids, target : Ids \cup {None}]
                \cup {None}
  /\ stop \in [Aliases -> (SUBSET Ids) \cup {None}]
  /\ plugin \in {"up", "ending", "ended"}
  /\ posts \subseteq [job : Ids, input : BOOLEAN]

\* Where the jobs are that the user is yet to be told of: with the worker of
\* an alias, a forced stop of it, or a cancel command.
Queued(a)  == ToSet(queues[a])
Expiring(a) == IF workers[a] = None THEN {} ELSE workers[a].tell
Stopped(a) == IF stop[a] = None THEN {} ELSE stop[a]
Cancelling == IF cancel # None /\ cancel.target = None THEN cancel.tell ELSE {}

\* A job is in one of these places at most.
Placed ==
  /\ sweep \cap Cancelling = {}
  /\ \A a \in Aliases :
       /\ IsInjective(queues[a]) /\ Len(queues[a]) <= MaxPerAlias
       /\ Queued(a) \cup Expiring(a) \cup Stopped(a) \subseteq OfAlias(a)
       /\ active[a] \in OfAlias(a) \cup {None}
       /\ active[a] \notin Queued(a)
       /\ Expiring(a) \cap (Queued(a) \cup {active[a]}) = {}
       /\ Stopped(a) \cap (Queued(a) \cup {active[a]} \cup Expiring(a)) = {}
       /\ (sweep \cup Cancelling) \cap
            (Queued(a) \cup {active[a]} \cup Expiring(a) \cup Stopped(a)) = {}

\* The worker of an alias has its active job, and jobs to tell of only where
\* it does so.
Slots ==
  \A a \in Aliases :
    /\ workers[a] = None => (plugin = "up" => active[a] = None)
    /\ workers[a] # None =>
         /\ active[a] = workers[a].job
         /\ workers[a].pc = "start" => workers[a].job = None
         /\ workers[a].pc \notin {"start", "expired"} => workers[a].job # None
         /\ workers[a].pc # "expired" => workers[a].tell = {}

\* The prompt of a job that may yet be submitted is there.
Prompts ==
  /\ SubmitsHaveInput
  /\ \A a \in Aliases :
       /\ \A j \in Queued(a) : jobs[j].input
       /\ workers[a] # None /\ workers[a].pc \in {"expired", "submit", "submitted"}
            /\ workers[a].job # None => jobs[workers[a].job].input

\* Jobs that were taken out of a queue unrun, or wait in one.
Idle == sweep \cup Cancelling \cup UNION {Queued(a) \cup Expiring(a) \cup Stopped(a) : a \in Aliases}

\* The user has not been told of those, nor of an active job; the controller
\* has not heard of them, nor of a job that has expired or was cancelled.
Untold ==
  \A j \in Ids :
    /\ Len(jobs[j].told) <= 1
    /\ j \in Idle => jobs[j].told = <<>>
    /\ \A a \in Aliases : active[a] = j => jobs[j].told = <<>>

Dropped(j) == jobs[j].told = <<"expired">> \/ (plugin = "up" /\ jobs[j].cancel)
Unknown ==
  \A j \in Ids :
    /\ j \in Idle \/ Dropped(j) => ctl[j] = None /\ \A p \in posts : p.job # j
    /\ plugin = "up" /\ jobs[j].cancel => \A a \in Aliases : j \notin Queued(a) \cup {active[a]}

IInv == Typed /\ KnownExact /\ Placed /\ Slots /\ Prompts /\ Untold /\ Unknown

-----------------------------------------------------------------------------
(* A set of natural numbers has a least one.                               *)
LEMMA LeastNumber ==
  ASSUME NEW S \in SUBSET Nat, S # {}
  PROVE  \E m \in S : \A k \in S : m <= k
<1> DEFINE R == {pair \in Nat \X Nat : pair[1] < pair[2]}
<1>1. IsWellFoundedOn(R, Nat)
  BY NatLessThanWellFounded, Zenon DEF OpToRel
<1>2. \A k, m \in Nat : k < m => <<k, m>> \in R
  OBVIOUS
<1> HIDE DEF R
<1>3. PICK m \in S : \A k \in S : ~(<<k, m>> \in R)
  BY <1>1, WFMin
<1>4. ASSUME NEW k \in S PROVE m <= k
  <2>1. ~(k < m)
    BY <1>2, <1>3
  <2>2. QED BY <2>1
<1>5. QED BY <1>4

\* The function of Without, as far as the place n of the queue.
Keeps(kept, q, set, n) ==
  kept = [i \in 0..n |->
            IF i = 0 THEN <<>> ELSE IF q[i] \in set THEN kept[i - 1] ELSE Append(kept[i - 1], q[i])]

(* There is such a function: by the least place for which there were none. *)
LEMMA KeepsExists ==
  ASSUME NEW q, NEW set, NEW n \in Nat
  PROVE  \E kept : Keeps(kept, q, set, n)
<1> DEFINE Bad == {m \in Nat : ~\E kept : Keeps(kept, q, set, m)}
<1>1. SUFFICES ASSUME Bad # {} PROVE FALSE
  OBVIOUS
<1>2. PICK m \in Bad : \A k \in Bad : m <= k
  <2>1. Bad \in SUBSET Nat
    OBVIOUS
  <2>2. QED BY <1>1, <2>1, LeastNumber
<1>3. CASE m = 0
  <2>1. Keeps([i \in 0..0 |-> <<>>], q, set, 0)
    BY DEF Keeps
  <2>2. QED BY <1>2, <1>3, <2>1
<1>4. CASE m # 0
  <2>1. PICK kept : Keeps(kept, q, set, m - 1)
    BY <1>2, <1>4
  <2> DEFINE last == IF q[m] \in set THEN kept[m - 1] ELSE Append(kept[m - 1], q[m])
             longer == [i \in 0..m |-> IF i = m THEN last ELSE kept[i]]
  <2>2. \A i \in 0..(m - 1) : longer[i] = kept[i]
    BY <1>4
  <2>3. \A i \in 0..(m - 1) : kept[i] =
           IF i = 0 THEN <<>> ELSE IF q[i] \in set THEN kept[i - 1] ELSE Append(kept[i - 1], q[i])
    BY <2>1, Zenon DEF Keeps
  <2>4. \A i \in 0..m : longer[i] =
           IF i = 0 THEN <<>>
           ELSE IF q[i] \in set THEN longer[i - 1] ELSE Append(longer[i - 1], q[i])
    <3>1. TAKE i \in 0..m
    <3>2. CASE i = m
      <4>1. longer[m] = last /\ m - 1 \in 0..(m - 1)
        BY <1>4
      <4>2. QED BY <1>4, <2>2, <3>2, <4>1
    <3>3. CASE i # m
      <4>1. i \in 0..(m - 1) /\ (i # 0 => i - 1 \in 0..(m - 1))
        BY <3>1, <3>3
      <4>2. QED BY <2>2, <2>3, <4>1
    <3>4. QED BY <3>2, <3>3
  <2> HIDE DEF last
  <2>5. longer = [i \in 0..m |->
           IF i = 0 THEN <<>>
           ELSE IF q[i] \in set THEN longer[i - 1] ELSE Append(longer[i - 1], q[i])]
    <3> DEFINE right == [i \in 0..m |->
           IF i = 0 THEN <<>>
           ELSE IF q[i] \in set THEN longer[i - 1] ELSE Append(longer[i - 1], q[i])]
    <3>1. \A i \in 0..m : longer[i] = right[i]
      BY <2>4
    <3>2. longer = [i \in 0..m |-> longer[i]]
      BY Zenon
    <3>3. QED BY <3>1, <3>2
  <2>6. Keeps(longer, q, set, m)
    BY <2>5, Zenon DEF Keeps
  <2>7. QED BY <1>2, <2>6
<1>5. QED BY <1>3, <1>4

(* Taking jobs out of a queue leaves the others, each as often as it was.  *)
LEMMA WithoutProperties ==
  ASSUME NEW S, NEW q \in Seq(S), NEW set
  PROVE  /\ Without(q, set) \in Seq(S)
         /\ Len(Without(q, set)) <= Len(q)
         /\ ToSet(Without(q, set)) = ToSet(q) \ set
         /\ IsInjective(q) => IsInjective(Without(q, set))
<1> DEFINE n == Len(q)
           kept == CHOOSE kept : Keeps(kept, q, set, n)
<1>1. n \in Nat /\ DOMAIN q = 1..n /\ \A i \in 1..n : q[i] \in S
  BY LenProperties
<1>2. Keeps(kept, q, set, n)
  BY <1>1, KeepsExists, Zenon
<1>3. Without(q, set) = kept[n]
  BY Zenon DEF Without, Keeps
<1> HIDE DEF kept
<1>4. \A i \in 0..n : kept[i] =
         IF i = 0 THEN <<>> ELSE IF q[i] \in set THEN kept[i - 1] ELSE Append(kept[i - 1], q[i])
  BY <1>2, Zenon DEF Keeps
<1> DEFINE Good(i) == /\ kept[i] \in Seq(S) /\ Len(kept[i]) <= i
                      /\ ToSet(kept[i]) = {q[k] : k \in 1..i} \ set
                      /\ IsInjective(q) => IsInjective(kept[i])
           Bad == {i \in 0..n : ~Good(i)}
<1>5. Bad = {}
  <2>1. SUFFICES ASSUME Bad # {} PROVE FALSE
    OBVIOUS
  <2>2. PICK m \in Bad : \A k \in Bad : m <= k
    <3>1. Bad \in SUBSET Nat
      BY <1>1
    <3>2. QED BY <2>1, <3>1, LeastNumber
  <2>3. m \in 0..n /\ ~Good(m)
    BY <2>2
  <2>4. m # 0
    <3>1. CASE m = 0
      <4>1. kept[0] = <<>>
        BY <1>1, <1>4
      <4>2. Good(0)
        BY <4>1, EmptySeq DEF ToSet, IsInjective
      <4>3. QED BY <2>3, <3>1, <4>2
    <3>2. QED BY <3>1
  <2>5. Good(m - 1) /\ m \in 1..n /\ q[m] \in S
    <3>1. m - 1 \in 0..n /\ m \in 1..n /\ ~(m <= m - 1)
      BY <1>1, <2>3, <2>4
    <3>2. m - 1 \notin Bad
      BY <2>2, <3>1, Zenon
    <3>3. QED BY <1>1, <3>1, <3>2, Zenon
  <2>6. {q[k] : k \in 1..m} = {q[k] : k \in 1..(m - 1)} \cup {q[m]}
    BY <2>5
  <2>7. kept[m] = IF q[m] \in set THEN kept[m - 1] ELSE Append(kept[m - 1], q[m])
    BY <1>4, <2>3, <2>4
  <2>8. CASE q[m] \in set
    BY <2>3, <2>5, <2>6, <2>7, <2>8
  <2>9. CASE q[m] \notin set
    <3> DEFINE s == kept[m - 1]
    <3>1. s \in Seq(S) /\ Len(s) \in Nat /\ DOMAIN s = 1..Len(s)
      BY <2>5, LenProperties
    <3>2. /\ kept[m] \in Seq(S) /\ Len(kept[m]) = Len(s) + 1
          /\ DOMAIN kept[m] = 1..(Len(s) + 1)
          /\ \A i \in 1..Len(s) : kept[m][i] = s[i]
          /\ kept[m][Len(s) + 1] = q[m]
      BY <2>5, <2>7, <2>9, <3>1, AppendProperties, LenProperties
    <3>3. ToSet(kept[m]) = ToSet(s) \cup {q[m]}
      <4>1. \A i \in 1..(Len(s) + 1) : i \in 1..Len(s) \/ i = Len(s) + 1
        BY <3>1
      <4>2. 1..Len(s) \subseteq 1..(Len(s) + 1) /\ Len(s) + 1 \in 1..(Len(s) + 1)
        BY <3>1
      <4>3. QED BY <3>1, <3>2, <4>1, <4>2, Zenon DEF ToSet
    <3>4. ASSUME IsInjective(q) PROVE IsInjective(kept[m])
      <4>1. q[m] \notin {q[k] : k \in 1..(m - 1)}
        BY <1>1, <2>5, <3>4 DEF IsInjective
      <4>2. q[m] \notin ToSet(s) /\ IsInjective(s)
        BY <2>5, <3>4, <4>1
      <4>3. \A i \in 1..Len(s) : s[i] # q[m]
        BY <3>1, <4>2 DEF ToSet
      <4>4. \A i, k \in 1..Len(s) : s[i] = s[k] => i = k
        BY <3>1, <4>2 DEF IsInjective
      <4>5. ASSUME NEW i \in 1..(Len(s) + 1), NEW k \in 1..(Len(s) + 1), kept[m][i] = kept[m][k]
            PROVE  i = k
        <5>1. (i \in 1..Len(s) \/ i = Len(s) + 1) /\ (k \in 1..Len(s) \/ k = Len(s) + 1)
          BY <3>1
        <5>2. QED BY <3>2, <4>3, <4>4, <4>5, <5>1
      <4>6. QED BY <3>2, <4>5 DEF IsInjective
    <3>5. Good(m)
      BY <2>5, <2>6, <2>9, <3>2, <3>3, <3>4
    <3>6. QED BY <2>3, <3>5
  <2>10. QED BY <2>8, <2>9
<1>6. Good(n)
  BY <1>1, <1>5
<1>7. {q[k] : k \in 1..n} = ToSet(q)
  BY <1>1 DEF ToSet
<1>8. QED BY <1>3, <1>6, <1>7

(* What a turn of the loop takes from the front of a queue, and the rest.  *)
LEMMA TurnParts ==
  ASSUME NEW q \in Seq(Ids), IsInjective(q), None \notin Ids
  PROVE  LET n    == Len(Expired(q))
             job  == IF n + 1 <= Len(q) THEN q[n + 1] ELSE None
             rest == SubSeq(q, n + 2, Len(q))
         IN  /\ n \in Nat
             /\ rest \in Seq(Ids) /\ Len(rest) <= Len(q) /\ IsInjective(rest)
             /\ job \in ToSet(q) \cup {None}
             /\ ToSet(q) = ToSet(Expired(q)) \cup ToSet(rest) \cup ({job} \ {None})
             /\ ToSet(Expired(q)) \cap ToSet(rest) = {}
             /\ job \notin ToSet(Expired(q)) \cup ToSet(rest)
<1>1. Len(q) \in Nat /\ DOMAIN q = 1..Len(q) /\ \A i \in 1..Len(q) : q[i] \in Ids
  BY LenProperties
<1>2. PICK n \in 0..Len(q) : Expired(q) = SubSeq(q, 1, n)
  <2> DEFINE fresh == {i \in DOMAIN q : ~jobs[q[i]].aged}
  <2>1. CASE fresh = {}
    <3>1. q = SubSeq(q, 1, Len(q))
      BY SubSeqFull
    <3>2. Expired(q) = q
      BY <2>1 DEF Expired
    <3>3. Len(q) \in 0..Len(q)
      BY <1>1
    <3>4. QED BY <3>1, <3>2, <3>3
  <2>2. CASE fresh # {}
    <3>1. fresh \in SUBSET Nat
      BY <1>1
    <3>2. \E m \in fresh : \A k \in fresh : m <= k
      BY <2>2, <3>1, LeastNumber
    <3>3. Min(fresh) \in fresh
      BY <3>2 DEF Min
    <3>4. Min(fresh) - 1 \in 0..Len(q)
      BY <1>1, <3>3
    <3>5. Expired(q) = SubSeq(q, 1, Min(fresh) - 1)
      BY <2>2 DEF Expired
    <3>6. QED BY <3>4, <3>5
  <2>3. QED BY <2>1, <2>2
<1> DEFINE head == SubSeq(q, 1, n)
           rest == SubSeq(q, n + 2, Len(q))
           job  == IF n + 1 <= Len(q) THEN q[n + 1] ELSE None
<1>3. /\ head \in Seq(Ids) /\ Len(head) = n /\ DOMAIN head = 1..n
      /\ \A i \in 1..n : head[i] = q[i]
  <2>1. /\ head \in Seq(Ids) /\ Len(head) = (IF 1 <= n THEN n - 1 + 1 ELSE 0)
        /\ \A i \in 1..(n - 1 + 1) : head[i] = q[1 + i - 1]
    <3>1. 1 \in Int /\ n \in Int /\ \A i \in 1..n : q[i] \in Ids
      BY <1>1
    <3>2. QED BY <3>1, SubSeqProperties
  <2>2. n - 1 + 1 = n /\ Len(head) = n /\ \A i \in 1..n : 1 + i - 1 = i
    BY <2>1
  <2>3. QED BY <2>1, <2>2, LenProperties
<1> DEFINE m == IF n + 2 <= Len(q) THEN Len(q) - n - 1 ELSE 0
<1>4. /\ rest \in Seq(Ids) /\ Len(rest) = m /\ DOMAIN rest = 1..m
      /\ \A i \in 1..m : rest[i] = q[n + 1 + i]
  <2>1. /\ rest \in Seq(Ids)
        /\ Len(rest) = (IF n + 2 <= Len(q) THEN Len(q) - (n + 2) + 1 ELSE 0)
        /\ \A i \in 1..(Len(q) - (n + 2) + 1) : rest[i] = q[n + 2 + i - 1]
    <3>1. n + 2 \in Int /\ Len(q) \in Int /\ \A i \in (n + 2)..Len(q) : q[i] \in Ids
      BY <1>1
    <3>2. QED BY <3>1, SubSeqProperties
  <2>2. Len(rest) = m /\ \A i \in 1..m : n + 2 + i - 1 = n + 1 + i /\ i \in 1..(Len(q) - (n + 2) + 1)
    BY <1>1, <2>1
  <2>3. QED BY <2>1, <2>2, LenProperties
<1> HIDE DEF head, rest
<1>5. \A i, k \in 1..Len(q) : q[i] = q[k] => i = k
  BY <1>1 DEF IsInjective
<1>6. IsInjective(rest)
  <2>1. \A i \in 1..m : n + 1 + i \in 1..Len(q)
    BY <1>1
  <2>2. ASSUME NEW i \in 1..m, NEW k \in 1..m, rest[i] = rest[k] PROVE i = k
    <3>1. q[n + 1 + i] = q[n + 1 + k]
      BY <1>4, <2>2
    <3>2. n + 1 + i = n + 1 + k
      BY <1>5, <2>1, <3>1
    <3>3. QED BY <1>1, <3>2
  <2>3. QED BY <1>4, <2>2 DEF IsInjective
<1>7. /\ ToSet(head) = {q[i] : i \in 1..n}
      /\ ToSet(rest) = {q[i] : i \in (n + 2)..Len(q)}
  <2>1. ToSet(head) = {q[i] : i \in 1..n}
    BY <1>3 DEF ToSet
  <2>2. \A i \in (n + 2)..Len(q) : i - n - 1 \in 1..m /\ n + 1 + (i - n - 1) = i
    BY <1>1
  <2>3. \A i \in 1..m : n + 1 + i \in (n + 2)..Len(q)
    BY <1>1
  <2>4. ASSUME NEW i \in (n + 2)..Len(q) PROVE q[i] \in ToSet(rest)
    <3>1. rest[i - n - 1] = q[i]
      BY <1>4, <2>2
    <3>2. QED BY <1>4, <2>2, <3>1 DEF ToSet
  <2>5. ASSUME NEW j \in ToSet(rest) PROVE \E i \in (n + 2)..Len(q) : j = q[i]
    BY <1>4, <2>3 DEF ToSet
  <2>6. QED BY <2>1, <2>4, <2>5
<1>8. ToSet(q) = {q[i] : i \in 1..Len(q)}
  BY <1>1 DEF ToSet
<1>9. job \in ToSet(q) \cup {None} /\ (n + 1 > Len(q) => job = None)
  BY <1>1, <1>8
<1>10. ToSet(q) = ToSet(head) \cup ToSet(rest) \cup ({job} \ {None})
  BY <1>1, <1>7, <1>8
<1>11. ToSet(head) \cap ToSet(rest) = {} /\ job \notin ToSet(head) \cup ToSet(rest)
  BY <1>1, <1>5, <1>7
<1>12. Len(rest) <= Len(q)
  <2>1. n \in Nat /\ Len(q) \in Nat
    BY <1>1
  <2>2. m <= Len(q)
    BY <2>1
  <2>3. Len(rest) = m
    BY <1>4
  <2>4. QED BY <2>2, <2>3
<1>13. Expired(q) = head /\ Len(Expired(q)) = n
  BY <1>2, <1>3 DEF head
<1>14. QED BY <1>1, <1>4, <1>6, <1>9, <1>10, <1>11, <1>12, <1>13 DEF rest

-----------------------------------------------------------------------------
(* Jobs and their statuses are numbered alike, and null is none of them.   *)
LEMMA Basics ==
  ASSUME Typed
  PROVE  /\ Len(jobs) \in Nat /\ Ids = 1..Len(jobs) /\ Ids \subseteq Numbers
         /\ None \notin Ids /\ 0 \notin Ids
         /\ jobs \in [Ids -> Job] /\ ctl \in [Ids -> Statuses \cup {None}]
<1>1. /\ jobs \in Seq(Job) /\ Len(jobs) <= MaxJobs
      /\ ctl \in Seq(Statuses \cup {None}) /\ Len(ctl) = Len(jobs)
  BY DEF Typed
<1>2. Len(jobs) \in Nat /\ Ids = 1..Len(jobs) /\ jobs \in [Ids -> Job]
  BY <1>1, LenProperties DEF Ids
<1>3. ctl \in [Ids -> Statuses \cup {None}]
  BY <1>1, <1>2, LenProperties
<1>4. Ids \subseteq Numbers /\ None \notin Ids /\ 0 \notin Ids
  BY <1>1, <1>2, BoundsAssumption, NoneAssumption DEF Numbers
<1>5. QED BY <1>2, <1>3, <1>4

(* A function on numbers from one is a sequence.                           *)
LEMMA FunctionIsSeq ==
  ASSUME NEW S, NEW n \in Nat, NEW f \in [1..n -> S]
  PROVE  f \in Seq(S) /\ Len(f) = n /\ DOMAIN f = 1..n
OBVIOUS

(* Functions stay in their set when a value in its range is put in.        *)
LEMMA PutIn ==
  ASSUME NEW S, NEW T, NEW f \in [S -> T], NEW x \in S, NEW v \in T
  PROVE  [f EXCEPT ![x] = v] \in [S -> T]
OBVIOUS

\* The jobs as they were but for their flags and what was told of them.
SameIds == jobs' \in Seq(Job) /\ Len(jobs') = Len(jobs) /\ Ids' = Ids

LEMMA JobsChange ==
  ASSUME Typed, jobs' \in [Ids -> Job]
  PROVE  SameIds
BY Basics, FunctionIsSeq DEF SameIds, Ids

LEMMA CtlChange ==
  ASSUME Typed, ctl' \in [Ids -> Statuses \cup {None}]
  PROVE  ctl' \in Seq(Statuses \cup {None}) /\ Len(ctl') = Len(jobs)
BY Basics, FunctionIsSeq

(* What happens to a job leaves it a job.                                  *)
LEMMA JobKinds ==
  ASSUME NEW job \in Job
  PROVE  /\ Released(job) \in Job /\ ReleasedAll(job) \in Job
         /\ [Released(job) EXCEPT !.cancel = TRUE] \in Job
         /\ [ReleasedAll(job) EXCEPT !.cancel = TRUE] \in Job
         /\ [job EXCEPT !.aged = TRUE] \in Job
         /\ \A outcome \in Verdicts : Told(job, outcome) \in Job
<1>1. \A outcome \in Verdicts : Append(job.told, outcome) \in Seq(Verdicts)
  BY AppendProperties DEF Job
<1>2. \A outcome \in Verdicts : Told(job, outcome) \in Job
  BY <1>1 DEF Told, Job
<1>3. QED BY <1>2 DEF Released, ReleasedAll, Job

(* And what happens to a worker leaves it a worker.                        *)
LEMMA WorkerKinds ==
  /\ [pc |-> "start", job |-> None, tell |-> {}, attempts |-> 0] \in Worker
  /\ \A j \in Numbers : Working(j) \in Worker
  /\ \A j \in Numbers \cup {None}, set \in SUBSET Numbers :
       [pc |-> "expired", job |-> j, tell |-> set, attempts |-> 0] \in Worker
  /\ \A w \in Worker :
       /\ \A pc \in {"submit", "submitted", "wait"} \cup Settled : [w EXCEPT !.pc = pc] \in Worker
       /\ [w EXCEPT !.pc = "wait", !.attempts = 0] \in Worker
       /\ w.attempts + 1 < MaxRetries =>
            /\ [w EXCEPT !.attempts = @ + 1] \in Worker
            /\ [w EXCEPT !.attempts = @ + 1, !.pc = "submit"] \in Worker
<1>1. MaxRetries \in Nat \ {0} /\ 0 \in 0..(MaxRetries - 1)
  BY BoundsAssumption
<1>2. ASSUME NEW w \in Worker
      PROVE  /\ \A pc \in {"submit", "submitted", "wait"} \cup Settled :
                  [w EXCEPT !.pc = pc] \in Worker
             /\ [w EXCEPT !.pc = "wait", !.attempts = 0] \in Worker
  BY <1>1 DEF Worker
<1>3. ASSUME NEW w \in Worker, w.attempts + 1 < MaxRetries
      PROVE  /\ [w EXCEPT !.attempts = @ + 1] \in Worker
             /\ [w EXCEPT !.attempts = @ + 1, !.pc = "submit"] \in Worker
  <2>1. w.attempts + 1 \in 0..(MaxRetries - 1)
    BY <1>1, <1>3 DEF Worker
  <2>2. QED BY <2>1 DEF Worker
<1>4. QED BY <1>1, <1>2, <1>3 DEF Worker, Working, Numbers

LEMMA TurnTyped ==
  ASSUME Typed, Placed, NEW a \in Aliases, NEW js \in [Ids -> Job], NEW ids, Turn(a, js, ids)
  PROVE  /\ SameIds
         /\ queues' \in [Aliases -> Seq(Ids)] /\ active' \in [Aliases -> Ids \cup {None}]
         /\ workers' \in [Aliases -> Worker \cup {None}]
<1> DEFINE q       == queues[a]
           n       == Len(Expired(q))
           expired == ToSet(Expired(q))
           job     == IF n + 1 <= Len(q) THEN q[n + 1] ELSE None
<1>1. q \in Seq(Ids) /\ IsInjective(q) /\ queues \in [Aliases -> Seq(Ids)]
      /\ active \in [Aliases -> Ids \cup {None}] /\ workers \in [Aliases -> Worker \cup {None}]
  BY DEF Typed, Placed
<1>2. None \notin Ids /\ Ids \subseteq Numbers
  BY Basics
<1>3. /\ SubSeq(q, n + 2, Len(q)) \in Seq(Ids)
      /\ job \in ToSet(q) \cup {None} /\ expired \subseteq ToSet(q)
  BY <1>1, <1>2, TurnParts
<1>4. ToSet(q) \subseteq Ids
  BY <1>1, LenProperties DEF ToSet
<1>5. n + 1 + 1 = n + 2
  <2>1. n \in Nat
    BY <1>1, <1>2, TurnParts
  <2>2. QED BY <2>1
<1>6. /\ queues' = [queues EXCEPT ![a] = SubSeq(q, n + 2, Len(q))]
      /\ active' = [active EXCEPT ![a] = job]
      /\ jobs' = [j \in Ids |-> IF j \in expired THEN Released(js[j]) ELSE js[j]]
      /\ workers' = [workers EXCEPT ![a] =
           IF expired # {} THEN [pc |-> "expired", job |-> job, tell |-> expired, attempts |-> 0]
           ELSE IF job # None THEN Working(job) ELSE None]
  BY <1>5 DEF Turn
<1> HIDE DEF n, expired, job
<1>7. SameIds
  <2>1. \A j \in Ids : js[j] \in Job /\ Released(js[j]) \in Job
    BY JobKinds
  <2>2. QED BY <1>6, <2>1, JobsChange
<1>8. workers' \in [Aliases -> Worker \cup {None}]
  BY <1>1, <1>2, <1>3, <1>4, <1>6, WorkerKinds
<1>9. QED BY <1>1, <1>3, <1>4, <1>6, <1>7, <1>8

LEMMA TypedStays ==
  ASSUME IInv, [Next]_vars
  PROVE  Typed'
<1>t. /\ Typed /\ Placed /\ Slots
      /\ jobs \in [Ids -> Job] /\ ctl \in [Ids -> Statuses \cup {None}]
      /\ queues \in [Aliases -> Seq(Ids)] /\ active \in [Aliases -> Ids \cup {None}]
      /\ workers \in [Aliases -> Worker \cup {None}] /\ sweep \subseteq Ids
      /\ cancel \in [alias : Aliases, selected : Nat, tell : SUBSET Ids, target : Ids \cup {None}]
                    \cup {None}
      /\ stop \in [Aliases -> (SUBSET Ids) \cup {None}] /\ plugin \in {"up", "ending", "ended"}
      /\ posts \subseteq [job : Ids, input : BOOLEAN]
      /\ Ids \subseteq Numbers /\ None \notin Ids /\ \A a \in Aliases : ToSet(queues[a]) \subseteq Ids
  <2>1. Typed /\ Placed /\ Slots
    BY DEF IInv
  <2>2. \A a \in Aliases : ToSet(queues[a]) \subseteq Ids
    BY <2>1, LenProperties DEF Typed, ToSet
  <2>3. QED BY <2>1, <2>2, Basics DEF Typed
<1>s. UNCHANGED jobs => SameIds
  BY <1>t DEF SameIds, Typed, Ids
<1>r. /\ jobs \in Seq(Job) /\ Len(jobs) <= MaxJobs
      /\ ctl \in Seq(Statuses \cup {None}) /\ Len(ctl) = Len(jobs)
  BY <1>t DEF Typed
\* All that is to be shown where no job is added.
<1> DEFINE Rest == /\ ctl' \in Seq(Statuses \cup {None}) /\ Len(ctl') = Len(jobs)
                   /\ queues' \in [Aliases -> Seq(Ids)]
                   /\ active' \in [Aliases -> Ids \cup {None}]
                   /\ workers' \in [Aliases -> Worker \cup {None}]
                   /\ sweep' \subseteq Ids
                   /\ cancel' \in [alias : Aliases, selected : Nat, tell : SUBSET Ids,
                                   target : Ids \cup {None}] \cup {None}
                   /\ stop' \in [Aliases -> (SUBSET Ids) \cup {None}]
                   /\ plugin' \in {"up", "ending", "ended"}
                   /\ posts' \subseteq [job : Ids, input : BOOLEAN]
<1>q. SameIds /\ Rest => Typed'
  BY <1>r DEF SameIds, Typed
<1>k. \A j \in Ids : /\ Released(jobs[j]) \in Job /\ ReleasedAll(jobs[j]) \in Job
                     /\ [Released(jobs[j]) EXCEPT !.cancel = TRUE] \in Job
                     /\ [ReleasedAll(jobs[j]) EXCEPT !.cancel = TRUE] \in Job
                     /\ [jobs[j] EXCEPT !.aged = TRUE] \in Job
                     /\ \A outcome \in Verdicts : Told(jobs[j], outcome) \in Job
                                                  /\ ReleasedAll(Told(jobs[j], outcome)) \in Job
  BY <1>t, JobKinds
<1>j. jobs' \in [Ids -> Job] => SameIds
  BY <1>t, JobsChange
<1>x. ctl' \in [Ids -> Statuses \cup {None}] =>
        ctl' \in Seq(Statuses \cup {None}) /\ Len(ctl') = Len(jobs)
  BY <1>t, CtlChange
<1>w. ASSUME NEW set, Removed(set) PROVE queues' \in [Aliases -> Seq(Ids)]
  BY <1>t, <1>w, WithoutProperties DEF Removed
<1>o. ASSUME NEW set, NEW outcome \in Verdicts, TellAll(set, outcome) PROVE SameIds
  BY <1>t, <1>o, <1>k, JobsChange DEF TellAll
<1>c. ASSUME NEW set, CancelQueued(set) PROVE SameIds
  BY <1>t, <1>c, <1>k, JobsChange DEF CancelQueued
<1>v. Settled \subseteq Verdicts /\ {"expired", "cancelled"} \subseteq Verdicts
  BY DEF Verdicts, Settled
<1>0. CASE UNCHANGED vars
  <2>1. SameIds /\ Rest
    BY <1>0, <1>r, <1>s, <1>t DEF vars, queueVars, remote
  <2>2. QED BY <2>1, <1>q
<1>1. ASSUME NEW a \in Aliases, Enqueue(a) PROVE Typed'
  <2> DEFINE job == [alias |-> a, input |-> TRUE, origin |-> TRUE, cancel |-> FALSE,
                     aged |-> FALSE, told |-> <<>>]
             n == Len(jobs) + 1
  <2>1. job \in Job
    BY DEF Job
  <2>2. jobs' = Append(jobs, job) /\ n <= MaxJobs /\ ctl' = Append(ctl, None)
        /\ queues' = [queues EXCEPT ![a] = Append(@, n)]
    BY <1>1 DEF Enqueue
  <2>3. jobs' \in Seq(Job) /\ Len(jobs') = n /\ n \in Nat
        /\ ctl' \in Seq(Statuses \cup {None}) /\ Len(ctl') = n
    BY <1>r, <2>1, <2>2, AppendProperties, LenProperties
  <2>4. Ids' = 1..n /\ Ids = 1..(n - 1)
    BY <1>r, <2>3, LenProperties DEF Ids
  <2>5. Ids \subseteq Ids' /\ n \in Ids'
    BY <2>3, <2>4
  <2>6. queues' \in [Aliases -> Seq(Ids')]
    <3>1. \A b \in Aliases : queues[b] \in Seq(Ids')
      BY <1>t, <2>5, SeqMonotonic
    <3>2. Append(queues[a], n) \in Seq(Ids')
      BY <2>5, <3>1, AppendProperties
    <3>3. QED BY <1>t, <2>2, <3>1, <3>2
  <2>7. workers' \in [Aliases -> Worker \cup {None}]
    BY <1>1, <1>t, WorkerKinds DEF Enqueue
  <2>8. UNCHANGED <<active, sweep, cancel, stop, plugin, posts>>
    BY <1>1 DEF Enqueue
  <2>9. QED BY <1>t, <2>2, <2>3, <2>5, <2>6, <2>7, <2>8 DEF Typed
<1>2. ASSUME NEW a \in Aliases, Works(a) PROVE Typed'
  <2>1. CASE Starts(a)
    <3>1. Turn(a, jobs, known)
      BY <2>1 DEF Starts
    <3>2. /\ SameIds /\ queues' \in [Aliases -> Seq(Ids)] /\ active' \in [Aliases -> Ids \cup {None}]
          /\ workers' \in [Aliases -> Worker \cup {None}]
      BY <1>t, <3>1, TurnTyped
    <3>3. QED BY <1>r, <1>t, <1>q, <2>1, <3>2 DEF Starts, remote
  <2>2. CASE TellsExpired(a)
    <3>1. SameIds
      BY <1>o, <1>v, <2>2 DEF TellsExpired
    <3>2. workers' \in [Aliases -> Worker \cup {None}]
      BY <1>t, <2>2, WorkerKinds DEF TellsExpired, Slots, AtPc
    <3>3. QED BY <1>r, <1>t, <1>q, <2>2, <3>1, <3>2 DEF TellsExpired, remote
  <2>3. CASE Submits(a) \/ SubmitAnswered(a) \/ WaitAnswered(a) \/ WaitTimesOut(a)
    <3>1. workers[a] \in Worker /\ workers[a].job \in Ids
      BY <1>t, <2>3 DEF Submits, SubmitAnswered, WaitAnswered, WaitTimesOut, AtPc, Slots, Settled
    <3>2. workers' \in [Aliases -> Worker \cup {None}]
      <4>1. \A pc \in {"submit", "submitted", "wait"} \cup Settled :
               Goes(a, pc) => workers' \in [Aliases -> Worker \cup {None}]
        <5>1. SUFFICES ASSUME NEW pc \in {"submit", "submitted", "wait"} \cup Settled, Goes(a, pc)
                       PROVE  workers' \in [Aliases -> Worker \cup {None}]
          OBVIOUS
        <5>2. [workers[a] EXCEPT !.pc = pc] \in Worker \cup {None}
          BY <3>1, WorkerKinds
        <5>3. workers' = [workers EXCEPT ![a] = [workers[a] EXCEPT !.pc = pc]]
          BY <1>t, <5>1 DEF Goes
        <5>4. QED BY <1>t, <5>2, <5>3, PutIn
      <4>2. CASE workers' = [workers EXCEPT ![a].pc = "wait", ![a].attempts = 0]
        <5>1. workers' = [workers EXCEPT ![a] = [workers[a] EXCEPT !.pc = "wait", !.attempts = 0]]
          BY <1>t, <3>1, <4>2
        <5>2. [workers[a] EXCEPT !.pc = "wait", !.attempts = 0] \in Worker \cup {None}
          BY <3>1, WorkerKinds
        <5>3. QED BY <1>t, <5>1, <5>2, PutIn
      <4>3. QED
        BY <2>3, <4>1, <4>2 DEF Submits, SubmitAnswered, WaitAnswered, WaitTimesOut, Settled
    <3>3. SameIds
      <4>1. UNCHANGED jobs \/ jobs' = [jobs EXCEPT ![workers[a].job] = Released(jobs[workers[a].job])]
        BY <2>3 DEF Submits, SubmitAnswered, WaitAnswered, WaitTimesOut, queueVars
      <4>2. Released(jobs[workers[a].job]) \in Job
        BY <1>k, <3>1
      <4>3. QED BY <1>s, <1>j, <1>t, <3>1, <4>1, <4>2, PutIn
    <3>4. ctl' \in Seq(Statuses \cup {None}) /\ Len(ctl') = Len(jobs)
      BY <1>r, <1>t, <2>3, <3>1, CtlChange
         DEF Submits, SubmitAnswered, WaitAnswered, WaitTimesOut, remote, Statuses
    <3>5. posts' \subseteq [job : Ids, input : BOOLEAN]
      BY <1>t, <2>3, <3>1
         DEF Submits, SubmitAnswered, WaitAnswered, WaitTimesOut, remote, Job
    <3>6. UNCHANGED <<queues, active, sweep, cancel, stop, plugin>>
      BY <2>3 DEF Submits, SubmitAnswered, WaitAnswered, WaitTimesOut, queueVars
    <3>7. QED BY <1>t, <1>q, <3>2, <3>3, <3>4, <3>5, <3>6
  <2>4. ASSUME NEW outcome \in Settled, Ends(a, outcome) PROVE Typed'
    <3>1. workers[a].job \in Ids
      BY <1>t, <2>4 DEF Ends, AtPc, Slots, Settled
    <3> DEFINE js == [jobs EXCEPT ![workers[a].job] = ReleasedAll(Told(@, outcome))]
    <3>2. js \in [Ids -> Job]
      BY <1>k, <1>t, <1>v, <3>1
    <3>3. Turn(a, js, known \ {workers[a].job})
      BY <2>4 DEF Ends
    <3>4. /\ SameIds /\ queues' \in [Aliases -> Seq(Ids)] /\ active' \in [Aliases -> Ids \cup {None}]
          /\ workers' \in [Aliases -> Worker \cup {None}]
      BY <1>t, <3>2, <3>3, TurnTyped
    <3>5. QED BY <1>r, <1>t, <1>q, <2>4, <3>4 DEF Ends, remote
  <2>5. QED BY <1>2, <2>1, <2>2, <2>3, <2>4 DEF Works
<1>3. ASSUME NEW a \in Aliases, SubmitFails(a) \/ WaitFails(a) PROVE Typed'
  <2>1. workers' \in [Aliases -> Worker \cup {None}]
    <3>1. workers[a] \in Worker
      BY <1>3, <1>t DEF SubmitFails, WaitFails, AtPc
    <3>2. CASE Goes(a, "failed")
      BY <1>t, <3>1, <3>2, WorkerKinds DEF Goes, Settled
    <3> DEFINE w == workers[a]
    <3>3. CASE w.attempts + 1 < MaxRetries
               /\ workers' = [workers EXCEPT ![a].attempts = @ + 1, ![a].pc = "submit"]
      <4>1. workers' = [workers EXCEPT ![a] = [w EXCEPT !.attempts = @ + 1, !.pc = "submit"]]
        BY <1>t, <3>1, <3>3
      <4>2. [w EXCEPT !.attempts = @ + 1, !.pc = "submit"] \in Worker \cup {None}
        BY <3>1, <3>3, WorkerKinds
      <4>3. QED BY <1>t, <4>1, <4>2, PutIn
    <3>4. CASE w.attempts + 1 < MaxRetries /\ workers' = [workers EXCEPT ![a].attempts = @ + 1]
      <4>1. workers' = [workers EXCEPT ![a] = [w EXCEPT !.attempts = @ + 1]]
        BY <1>t, <3>1, <3>4
      <4>2. [w EXCEPT !.attempts = @ + 1] \in Worker \cup {None}
        BY <3>1, <3>4, WorkerKinds
      <4>3. QED BY <1>t, <4>1, <4>2, PutIn
    <3>5. QED BY <1>3, <3>2, <3>3, <3>4 DEF SubmitFails, WaitFails
  <2>2. posts' \subseteq posts /\ UNCHANGED <<jobs, queues, active, sweep, cancel, stop, plugin, ctl>>
    BY <1>3 DEF SubmitFails, WaitFails, queueVars, remote
  <2>3. QED BY <1>r, <1>s, <1>t, <1>q, <2>1, <2>2
<1>4. ASSUME NEW a \in Aliases, Cancelled(a) PROVE Typed'
  <2>1. workers[a] \in Worker /\ (workers[a].pc \notin {"start", "expired"} => workers[a].job \in Ids)
    BY <1>4, <1>t DEF Cancelled, Slots
  <2>2. SameIds
    <3>1. UNCHANGED jobs \/ (workers[a].job \in Ids
                              /\ jobs' = [jobs EXCEPT ![workers[a].job] =
                                             ReleasedAll(jobs[workers[a].job])])
      BY <1>4, <2>1 DEF Cancelled, queueVars
    <3>2. workers[a].job \in Ids => ReleasedAll(jobs[workers[a].job]) \in Job
      BY <1>k
    <3>3. QED BY <1>j, <1>s, <1>t, <3>1, <3>2, PutIn
  <2>3. active' \in [Aliases -> Ids \cup {None}] /\ workers' \in [Aliases -> Worker \cup {None}]
        /\ UNCHANGED <<queues, sweep, cancel, stop, plugin, posts, ctl>>
    BY <1>4, <1>t DEF Cancelled, queueVars, remote
  <2>4. QED BY <1>r, <1>t, <1>q, <2>2, <2>3
<1>5. ASSUME NEW a \in Aliases, StopCommand(a) \/ StopReturns(a) \/ StopTells(a) PROVE Typed'
  <2>1. SameIds
    BY <1>5, <1>c, <1>o, <1>s, <1>v DEF StopCommand, StopReturns, StopTells, queueVars
  <2>2. ctl' \in Seq(Statuses \cup {None}) /\ Len(ctl') = Len(jobs)
    BY <1>5, <1>r, <1>t, CtlChange DEF StopCommand, StopReturns, StopTells, remote, Statuses, Settled
  <2>3. queues' \in [Aliases -> Seq(Ids)]
    BY <1>5, <1>t, <1>w DEF StopCommand, StopReturns, StopTells, queueVars, CancelQueued
  <2>4. stop' \in [Aliases -> (SUBSET Ids) \cup {None}]
        /\ UNCHANGED <<active, workers, sweep, cancel, plugin, posts>>
    <3>1. \E set \in (SUBSET Ids) \cup {None} : stop' = [stop EXCEPT ![a] = set]
      <4>1. {} \in SUBSET Ids /\ ToSet(queues[a]) \in SUBSET Ids
        BY <1>t
      <4>2. StopCommand(a) => stop' = [stop EXCEPT ![a] = {}]
        BY DEF StopCommand
      <4>3. StopReturns(a) => stop' = [stop EXCEPT ![a] = ToSet(queues[a])]
        BY DEF StopReturns
      <4>4. StopTells(a) => stop' = [stop EXCEPT ![a] = None]
        BY DEF StopTells
      <4>5. QED BY <1>5, <4>1, <4>2, <4>3, <4>4
    <3>2. UNCHANGED <<active, workers, sweep, cancel, plugin, posts>>
      BY <1>5 DEF StopCommand, StopReturns, StopTells, queueVars, remote
    <3>3. QED BY <1>t, <3>1, <3>2, PutIn
  <2>5. QED BY <1>t, <1>q, <2>1, <2>2, <2>3, <2>4
<1>6. ASSUME NEW a \in Aliases, NEW selected \in {All} \cup Ids, CancelCommand(a, selected)
      PROVE  Typed'
  <2>1. SameIds /\ queues' \in [Aliases -> Seq(Ids)]
    BY <1>6, <1>c, <1>w DEF CancelCommand, CancelQueued
  <2>2. selected \in Nat
    BY <1>t, BoundsAssumption DEF All, Numbers
  <2> DEFINE set == IF selected = All THEN ToSet(queues[a]) ELSE ToSet(queues[a]) \cap {selected}
  <2>3. cancel' = [alias |-> a, selected |-> selected, tell |-> set, target |-> None]
        /\ UNCHANGED <<active, workers, sweep, stop, plugin, posts, ctl>>
    BY <1>6 DEF CancelCommand, remote
  <2>4. set \in SUBSET Ids
    BY <1>t
  <2>5. QED BY <1>r, <1>t, <1>q, <2>1, <2>2, <2>3, <2>4
<1>7. CASE CancelTells \/ CancelReaches
  <2>1. SameIds
    BY <1>7, <1>o, <1>s, <1>v DEF CancelTells, CancelReaches, queueVars
  <2>2. ctl' \in Seq(Statuses \cup {None}) /\ Len(ctl') = Len(jobs)
    BY <1>7, <1>r, <1>t, CtlChange DEF CancelTells, CancelReaches, remote, Statuses, Settled
  <2>3. cancel' \in [alias : Aliases, selected : Nat, tell : SUBSET Ids, target : Ids \cup {None}]
                    \cup {None}
        /\ UNCHANGED <<queues, active, workers, sweep, stop, plugin, posts>>
    BY <1>7, <1>t DEF CancelTells, CancelReaches, queueVars, remote
  <2>4. QED BY <1>t, <1>q, <2>1, <2>2, <2>3
<1>8. CASE Sweeps \/ SweepTells
  <2>1. SameIds
    <3>1. ASSUME Sweeps PROVE SameIds
      BY <1>j, <1>k, <1>t, <3>1 DEF Sweeps
    <3>2. ASSUME SweepTells PROVE SameIds
      BY <1>o, <1>v, <3>2 DEF SweepTells
    <3>3. QED BY <1>8, <3>1, <3>2
  <2>2. queues' \in [Aliases -> Seq(Ids)]
    BY <1>8, <1>t, <1>w DEF Sweeps, SweepTells
  <2>3. sweep' \subseteq Ids /\ UNCHANGED <<active, workers, cancel, stop, plugin, posts, ctl>>
    BY <1>8, <1>t DEF Sweeps, SweepTells, Waiting, remote
  <2>4. QED BY <1>r, <1>t, <1>q, <2>1, <2>2, <2>3
<1>9. CASE Terminate \/ Clears
  <2>1. SameIds
    <3>1. ASSUME Clears PROVE SameIds
      BY <1>j, <1>k, <1>t, <3>1 DEF Clears
    <3>2. QED BY <1>9, <1>s, <3>1 DEF Terminate, queueVars
  <2>2. /\ queues' \in [Aliases -> Seq(Ids)] /\ active' \in [Aliases -> Ids \cup {None}]
        /\ sweep' \subseteq Ids /\ plugin' \in {"up", "ending", "ended"}
        /\ UNCHANGED <<workers, cancel, stop, posts, ctl>>
    <3>1. <<>> \in Seq(Ids)
      OBVIOUS
    <3>2. [a \in Aliases |-> <<>>] \in [Aliases -> Seq(Ids)]
          /\ [a \in Aliases |-> None] \in [Aliases -> Ids \cup {None}]
      BY <3>1
    <3>3. CASE Terminate
      BY <1>t, <3>3 DEF Terminate, queueVars, remote
    <3>4. CASE Clears
      BY <1>t, <3>2, <3>4 DEF Clears, remote
    <3>5. QED BY <1>9, <3>3, <3>4
  <2>3. QED BY <1>r, <1>t, <1>q, <2>1, <2>2
<1>10. ASSUME NEW j \in Ids, Ages(j) \/ JobStarts(j) \/ JobSettles(j) PROVE Typed'
  <2>1. SameIds
    <3>1. UNCHANGED jobs \/ jobs' = [jobs EXCEPT ![j] = [jobs[j] EXCEPT !.aged = TRUE]]
      <4>1. ASSUME Ages(j) PROVE jobs' = [jobs EXCEPT ![j] = [jobs[j] EXCEPT !.aged = TRUE]]
        BY <1>t, <4>1 DEF Ages
      <4>2. QED BY <1>10, <4>1 DEF JobStarts, JobSettles, queueVars
    <3>2. [jobs[j] EXCEPT !.aged = TRUE] \in Job
      BY <1>k
    <3>3. [jobs EXCEPT ![j] = [jobs[j] EXCEPT !.aged = TRUE]] \in [Ids -> Job]
      BY <1>t, <3>2, PutIn
    <3>4. QED BY <1>j, <1>s, <3>1, <3>3
  <2>2. ctl' \in Seq(Statuses \cup {None}) /\ Len(ctl') = Len(jobs)
    <3>1. UNCHANGED ctl \/ \E status \in Statuses : ctl' = [ctl EXCEPT ![j] = status]
      BY <1>10 DEF Ages, JobStarts, JobSettles, remote, Statuses, Settled
    <3>2. QED BY <1>r, <1>t, <1>x, <3>1
  <2>3. UNCHANGED <<queues, active, workers, sweep, cancel, stop, plugin, posts>>
    BY <1>10 DEF Ages, JobStarts, JobSettles, queueVars, remote
  <2>4. QED BY <1>t, <1>q, <2>1, <2>2, <2>3
<1>11. ASSUME NEW a \in Aliases, StartCommand(a) PROVE Typed'
  BY <1>11, <1>r, <1>s, <1>t, <1>q DEF StartCommand, queueVars
<1>12. ASSUME NEW p \in posts, LatePost(p) PROVE Typed'
  <2>1. ctl' \in Seq(Statuses \cup {None}) /\ Len(ctl') = Len(jobs)
    BY <1>12, <1>r, <1>t, CtlChange DEF LatePost, Statuses
  <2>2. posts' \subseteq posts /\ UNCHANGED <<jobs, queues, active, workers, sweep, cancel, stop, plugin>>
    BY <1>12 DEF LatePost, queueVars
  <2>3. QED BY <1>s, <1>t, <1>q, <2>1, <2>2
<1>13. QED
  BY <1>0, <1>1, <1>2, <1>3, <1>4, <1>5, <1>6, <1>7, <1>8, <1>9, <1>10, <1>11, <1>12
     DEF Next, Commands, Faults

-----------------------------------------------------------------------------
(* The effect of a turn on an alias: its queue is split into expired jobs, *)
(* the job that is taken and the rest.                                     *)
TurnSplits(a, js, ids, expired) ==
  /\ expired \cup ToSet(queues'[a]) \cup ({active'[a]} \ {None}) = ToSet(queues[a])
  /\ expired \cap ToSet(queues'[a]) = {}
  /\ active'[a] \notin expired \cup ToSet(queues'[a])
  /\ active'[a] \in ToSet(queues[a]) \cup {None}
  /\ IsInjective(queues'[a]) /\ Len(queues'[a]) <= MaxPerAlias
  /\ \A b \in Aliases \ {a} :
       queues'[b] = queues[b] /\ active'[b] = active[b] /\ workers'[b] = workers[b]
  /\ workers'[a] = IF expired # {}
                     THEN [pc |-> "expired", job |-> active'[a], tell |-> expired, attempts |-> 0]
                     ELSE IF active'[a] # None THEN Working(active'[a]) ELSE None
  /\ jobs' = [j \in Ids |-> IF j \in expired THEN Released(js[j]) ELSE js[j]]
  /\ known' = ids \ expired

LEMMA TurnEffect ==
  ASSUME Typed, Placed, NEW a \in Aliases, NEW js, NEW ids, Turn(a, js, ids)
  PROVE  \E expired \in SUBSET Ids : TurnSplits(a, js, ids, expired)
<1> DEFINE q       == queues[a]
           n       == Len(Expired(q))
           expired == ToSet(Expired(q))
           job     == IF n + 1 <= Len(q) THEN q[n + 1] ELSE None
           rest    == SubSeq(q, n + 2, Len(q))
<1>1. q \in Seq(Ids) /\ IsInjective(q) /\ Len(q) <= MaxPerAlias /\ Len(q) \in Nat
      /\ queues \in [Aliases -> Seq(Ids)] /\ None \notin Ids
      /\ active \in [Aliases -> Ids \cup {None}] /\ workers \in [Aliases -> Worker \cup {None}]
  BY Basics DEF Typed, Placed
<1>2. /\ n \in Nat /\ rest \in Seq(Ids) /\ Len(rest) <= Len(q) /\ IsInjective(rest)
      /\ job \in ToSet(q) \cup {None}
      /\ ToSet(q) = expired \cup ToSet(rest) \cup ({job} \ {None})
      /\ expired \cap ToSet(rest) = {} /\ job \notin expired \cup ToSet(rest)
  BY <1>1, TurnParts
<1>3. n + 1 + 1 = n + 2 /\ Len(rest) \in Nat
  BY <1>2, LenProperties
<1>4. /\ queues' = [queues EXCEPT ![a] = rest] /\ active' = [active EXCEPT ![a] = job]
      /\ jobs' = [j \in Ids |-> IF j \in expired THEN Released(js[j]) ELSE js[j]]
      /\ known' = ids \ expired
      /\ workers' = [workers EXCEPT ![a] =
           IF expired # {} THEN [pc |-> "expired", job |-> job, tell |-> expired, attempts |-> 0]
           ELSE IF job # None THEN Working(job) ELSE None]
  BY <1>3 DEF Turn
<1>5. expired \in SUBSET Ids
  <2>1. ToSet(q) \subseteq Ids
    BY <1>1, LenProperties DEF ToSet
  <2>2. QED BY <1>2, <2>1
<1> HIDE DEF n, expired, job, rest
<1>6. /\ queues'[a] = rest /\ active'[a] = job
      /\ \A b \in Aliases \ {a} :
           queues'[b] = queues[b] /\ active'[b] = active[b] /\ workers'[b] = workers[b]
      /\ workers'[a] =
           IF expired # {} THEN [pc |-> "expired", job |-> job, tell |-> expired, attempts |-> 0]
           ELSE IF job # None THEN Working(job) ELSE None
  BY <1>1, <1>4
<1>7. Len(rest) <= MaxPerAlias
  BY <1>1, <1>2, <1>3, BoundsAssumption
<1>8. TurnSplits(a, js, ids, expired)
  BY <1>2, <1>4, <1>6, <1>7 DEF TurnSplits
<1>9. QED BY <1>5, <1>8

\* What every step does to the jobs there are.
Steady ==
  \A j \in Ids : j \in Ids' /\ jobs'[j].alias = jobs[j].alias

LEMMA JobsSteady ==
  ASSUME IInv, [Next]_vars
  PROVE  Steady
<1>t. /\ Typed /\ Placed /\ Slots /\ jobs \in [Ids -> Job] /\ None \notin Ids
      /\ Len(jobs) \in Nat /\ Ids = 1..Len(jobs) /\ workers \in [Aliases -> Worker \cup {None}]
  BY Basics DEF IInv, Typed
<1>s. UNCHANGED jobs => Steady
  BY DEF Steady, Ids
<1>k. \A job \in Job : /\ Released(job).alias = job.alias /\ ReleasedAll(job).alias = job.alias
                       /\ [Released(job) EXCEPT !.cancel = TRUE].alias = job.alias
                       /\ [ReleasedAll(job) EXCEPT !.cancel = TRUE].alias = job.alias
                       /\ [job EXCEPT !.aged = TRUE].alias = job.alias
                       /\ \A outcome : Told(job, outcome).alias = job.alias
                                       /\ ReleasedAll(Told(job, outcome)).alias = job.alias
  BY DEF Job, Released, ReleasedAll, Told
<1>o. ASSUME NEW set, NEW outcome, TellAll(set, outcome) PROVE Steady
  BY <1>t, <1>o, <1>k DEF TellAll, Steady, Ids
<1>c. ASSUME NEW set, CancelQueued(set) PROVE Steady
  BY <1>t, <1>c, <1>k DEF CancelQueued, Steady, Ids
<1>1. ASSUME NEW a \in Aliases, Enqueue(a) PROVE Steady
  <2> DEFINE job == [alias |-> a, input |-> TRUE, origin |-> TRUE, cancel |-> FALSE,
                     aged |-> FALSE, told |-> <<>>]
  <2>1. jobs' = Append(jobs, job) /\ jobs \in Seq(Job) /\ job \in Job
    BY <1>1, <1>t DEF Enqueue, Typed, Job
  <2>2. /\ jobs' \in Seq(Job) /\ Len(jobs') = Len(jobs) + 1
        /\ \A i \in 1..Len(jobs) : jobs'[i] = jobs[i]
    BY <2>1, AppendProperties
  <2>3. Ids' = 1..(Len(jobs) + 1)
    BY <2>2, LenProperties DEF Ids
  <2>4. QED BY <1>t, <2>2, <2>3 DEF Steady
<1>2. ASSUME NEW a \in Aliases, Works(a) PROVE Steady
  <2>1. CASE Starts(a)
    <3>1. \E expired \in SUBSET Ids : TurnSplits(a, jobs, known, expired)
      BY <1>t, <2>1, TurnEffect DEF Starts
    <3>2. QED BY <1>t, <1>k, <3>1 DEF TurnSplits, Steady, Ids
  <2>2. CASE TellsExpired(a)
    BY <1>o, <2>2 DEF TellsExpired
  <2>3. CASE Submits(a) \/ SubmitAnswered(a) \/ WaitAnswered(a) \/ WaitTimesOut(a)
    <3>1. workers[a].job \in DOMAIN jobs => workers[a].job \in Ids
      BY DEF Ids
    <3>2. UNCHANGED jobs \/ jobs' = [jobs EXCEPT ![workers[a].job] = Released(@)]
      BY <2>3 DEF Submits, SubmitAnswered, WaitAnswered, WaitTimesOut, queueVars
    <3>3. QED BY <1>t, <1>k, <1>s, <3>1, <3>2 DEF Steady, Ids
  <2>4. ASSUME NEW outcome \in Settled, Ends(a, outcome) PROVE Steady
    <3> DEFINE j  == workers[a].job
               js == [jobs EXCEPT ![j] = ReleasedAll(Told(@, outcome))]
    <3>1. \E expired \in SUBSET Ids : TurnSplits(a, js, known \ {j}, expired)
      BY <1>t, <2>4, TurnEffect DEF Ends
    <3>2. j \in Ids
      BY <1>t, <2>4 DEF Ends, AtPc, Slots, Settled, Typed
    <3>3. js[j] \in Job /\ \A i \in Ids : js[i] \in Job /\ js[i].alias = jobs[i].alias
      <4>1. ReleasedAll(Told(jobs[j], outcome)) \in Job
        <5>1. outcome \in Verdicts
          BY DEF Verdicts
        <5>2. QED BY <1>t, <3>2, <5>1, JobKinds
      <4>2. QED BY <1>t, <1>k, <3>2, <4>1
    <3> HIDE DEF js
    <3>4. QED BY <1>t, <1>k, <3>1, <3>3 DEF TurnSplits, Steady, Ids
  <2>5. QED BY <1>2, <2>1, <2>2, <2>3, <2>4 DEF Works
<1>3. ASSUME NEW a \in Aliases, Cancelled(a) PROVE Steady
  <2>1. UNCHANGED jobs \/ jobs' = [jobs EXCEPT ![workers[a].job] = ReleasedAll(@)]
    BY <1>3 DEF Cancelled, queueVars
  <2>2. QED BY <1>t, <1>k, <1>s, <2>1 DEF Steady, Ids
<1>4. ASSUME NEW a \in Aliases, StopReturns(a) \/ StopTells(a) PROVE Steady
  BY <1>4, <1>c, <1>o DEF StopReturns, StopTells
<1>5. ASSUME NEW a \in Aliases, NEW selected, CancelCommand(a, selected) PROVE Steady
  BY <1>5, <1>c DEF CancelCommand
<1>6. CASE CancelTells \/ SweepTells
  BY <1>6, <1>o DEF CancelTells, SweepTells
<1>7. CASE Sweeps
  BY <1>7, <1>t, <1>k DEF Sweeps, Steady, Ids
<1>8. CASE Clears
  BY <1>8, <1>t, <1>k DEF Clears, Steady, Ids
<1>9. ASSUME NEW j \in Ids, Ages(j) PROVE Steady
  <2>1. jobs' = [jobs EXCEPT ![j] = [jobs[j] EXCEPT !.aged = TRUE]]
    BY <1>9, <1>t DEF Ages
  <2>2. QED BY <1>t, <1>k, <2>1 DEF Steady, Ids
<1>10. QED
  BY <1>s, <1>1, <1>2, <1>3, <1>4, <1>5, <1>6, <1>7, <1>8, <1>9
     DEF Next, Commands, Faults, vars, queueVars, StopCommand, StartCommand, SubmitFails, WaitFails,
         JobStarts, JobSettles, LatePost, CancelReaches, Terminate

-----------------------------------------------------------------------------
(* What taking jobs out of the queues leaves in them.                      *)
LEMMA RemovedEffect ==
  ASSUME Typed, Placed, NEW set, Removed(set)
  PROVE  /\ \A a \in Aliases : /\ ToSet(queues'[a]) = Queued(a) \ set
                               /\ IsInjective(queues'[a]) /\ Len(queues'[a]) <= MaxPerAlias
         /\ known' = known \ set
<1>1. ASSUME NEW a \in Aliases
      PROVE  /\ ToSet(queues'[a]) = Queued(a) \ set
             /\ IsInjective(queues'[a]) /\ Len(queues'[a]) <= MaxPerAlias
  <2>1. queues[a] \in Seq(Ids) /\ IsInjective(queues[a]) /\ Len(queues[a]) <= MaxPerAlias
    BY DEF Typed, Placed
  <2>2. queues'[a] = Without(queues[a], set)
    BY DEF Removed
  <2>3. /\ Without(queues[a], set) \in Seq(Ids)
        /\ Len(Without(queues[a], set)) <= Len(queues[a])
        /\ ToSet(Without(queues[a], set)) = ToSet(queues[a]) \ set
        /\ IsInjective(Without(queues[a], set))
    BY <2>1, WithoutProperties
  <2>4. Len(Without(queues[a], set)) \in Nat /\ Len(queues[a]) \in Nat
    BY <2>1, <2>3, LenProperties
  <2>5. QED BY <2>1, <2>2, <2>3, <2>4, BoundsAssumption DEF Queued
<1>2. QED BY <1>1 DEF Removed

\* The job n is new, and at the end of the queue of a.
EnqueueAdds(a, n) ==
  /\ n \in Ids' /\ n \notin Ids /\ n # None /\ Ids' = Ids \cup {n}
  /\ jobs'[n] = [alias |-> a, input |-> TRUE, origin |-> TRUE, cancel |-> FALSE,
                 aged |-> FALSE, told |-> <<>>]
  /\ \A j \in Ids : jobs'[j] = jobs[j]
  /\ ctl'[n] = None /\ \A j \in Ids : ctl'[j] = ctl[j]
  /\ Queued(a)' = Queued(a) \cup {n} /\ IsInjective(queues'[a]) /\ Len(queues'[a]) <= MaxPerAlias
  /\ \A b \in Aliases \ {a} : queues'[b] = queues[b] /\ Queued(b)' = Queued(b)
  /\ known' = known \cup {n}
  /\ \A b \in Aliases : Expiring(b)' = Expiring(b)
  /\ UNCHANGED <<active, sweep, cancel, stop, plugin, posts>>

LEMMA EnqueueEffect ==
  ASSUME Typed, Placed, NEW a \in Aliases, Enqueue(a)
  PROVE  EnqueueAdds(a, Len(jobs) + 1)
<1> DEFINE n   == Len(jobs) + 1
           q   == queues[a]
           job == [alias |-> a, input |-> TRUE, origin |-> TRUE, cancel |-> FALSE,
                   aged |-> FALSE, told |-> <<>>]
<1>t. /\ jobs \in Seq(Job) /\ ctl \in Seq(Statuses \cup {None}) /\ Len(ctl) = Len(jobs)
      /\ Ids = 1..Len(jobs) /\ Len(jobs) \in Nat
      /\ queues \in [Aliases -> Seq(Ids)] /\ workers \in [Aliases -> Worker \cup {None}]
      /\ IsInjective(q) /\ job \in Job
  BY Basics DEF Typed, Placed, Job
<1>1. /\ n <= MaxJobs /\ Len(q) < MaxPerAlias /\ jobs' = Append(jobs, job) /\ ctl' = Append(ctl, None)
      /\ queues' = [queues EXCEPT ![a] = Append(q, n)] /\ known' = known \cup {n}
      /\ UNCHANGED <<active, sweep, cancel, stop, plugin, posts>>
  BY DEF Enqueue
<1>2. /\ n \in Ids' /\ n \notin Ids /\ n # None /\ Ids' = Ids \cup {n}
      /\ jobs'[n] = job /\ \A j \in Ids : jobs'[j] = jobs[j]
      /\ ctl'[n] = None /\ \A j \in Ids : ctl'[j] = ctl[j]
  <2>1. /\ jobs' \in Seq(Job) /\ Len(jobs') = n /\ jobs'[n] = job
        /\ \A i \in 1..Len(jobs) : jobs'[i] = jobs[i]
    BY <1>t, <1>1, AppendProperties
  <2>2. ctl'[n] = None /\ \A i \in 1..Len(jobs) : ctl'[i] = ctl[i]
    BY <1>t, <1>1, AppendProperties
  <2>3. Ids' = 1..n
    BY <2>1, LenProperties DEF Ids
  <2>4. n \in 1..n /\ n \notin 1..Len(jobs) /\ 1..n = (1..Len(jobs)) \cup {n}
    BY <1>t
  <2>5. n # None
    BY <1>t, <1>1, NoneAssumption
  <2>6. QED BY <1>t, <2>1, <2>2, <2>3, <2>4, <2>5
<1> HIDE DEF n
<1>3. q \in Seq(Ids) /\ Len(q) \in Nat /\ DOMAIN q = 1..Len(q) /\ \A i \in 1..Len(q) : q[i] \in Ids
  BY <1>t, LenProperties
<1>4. /\ Append(q, n) \in Seq(Ids \cup {n}) /\ Len(Append(q, n)) = Len(q) + 1
      /\ \A i \in 1..Len(q) : Append(q, n)[i] = q[i]
      /\ Append(q, n)[Len(q) + 1] = n
  <2>1. q \in Seq(Ids \cup {n})
    BY <1>3, SeqMonotonic
  <2>2. QED BY <2>1, AppendProperties
<1>5. DOMAIN Append(q, n) = 1..(Len(q) + 1)
  BY <1>4, LenProperties
<1>6. /\ \A i \in 1..(Len(q) + 1) : i \in 1..Len(q) \/ i = Len(q) + 1
      /\ 1..Len(q) \subseteq 1..(Len(q) + 1) /\ Len(q) + 1 \in 1..(Len(q) + 1)
  BY <1>3
<1>7. ToSet(Append(q, n)) = ToSet(q) \cup {n}
  BY <1>3, <1>4, <1>5, <1>6, Zenon DEF ToSet
<1>8. IsInjective(Append(q, n))
  <2>1. ASSUME NEW i \in 1..(Len(q) + 1), NEW k \in 1..(Len(q) + 1),
               Append(q, n)[i] = Append(q, n)[k]
        PROVE  i = k
    <3>1. \A l, m \in 1..Len(q) : q[l] = q[m] => l = m
      BY <1>t, <1>3 DEF IsInjective
    <3>2. \A l \in 1..Len(q) : q[l] # n
      BY <1>2, <1>3
    <3>3. QED BY <1>4, <1>6, <2>1, <3>1, <3>2
  <2>2. QED BY <1>5, <2>1 DEF IsInjective
<1>9. queues'[a] = Append(q, n) /\ \A b \in Aliases \ {a} : queues'[b] = queues[b]
  BY <1>t, <1>1
<1>10. Len(q) + 1 <= MaxPerAlias
  BY <1>1, <1>3, BoundsAssumption
<1>11. Queued(a)' = Queued(a) \cup {n} /\ \A b \in Aliases \ {a} : Queued(b)' = Queued(b)
  BY <1>7, <1>9 DEF Queued
<1>12. \A b \in Aliases : Expiring(b)' = Expiring(b)
  <2> DEFINE fresh == [pc |-> "start", job |-> None, tell |-> {}, attempts |-> 0]
  <2>1. UNCHANGED workers \/ (workers[a] = None /\ workers' = [workers EXCEPT ![a] = fresh])
    BY DEF Enqueue
  <2>2. ASSUME workers[a] = None, workers' = [workers EXCEPT ![a] = fresh]
        PROVE  \A b \in Aliases : Expiring(b)' = Expiring(b)
    <3>1. workers'[a] = fresh /\ \A b \in Aliases \ {a} : workers'[b] = workers[b]
      BY <1>t, <2>2
    <3>2. Expiring(a)' = {} /\ Expiring(a) = {}
      BY <2>2, <3>1 DEF Expiring
    <3>3. QED BY <3>1, <3>2 DEF Expiring
  <2>3. QED BY <2>1, <2>2 DEF Expiring
<1>13. EnqueueAdds(a, n)
  BY <1>1, <1>2, <1>4, <1>8, <1>9, <1>10, <1>11, <1>12 DEF EnqueueAdds
<1>14. QED BY <1>13 DEF n

LEMMA PlacedStays ==
  ASSUME IInv, [Next]_vars
  PROVE  Placed'
<1>t. /\ Typed /\ Slots /\ Placed /\ None \notin Ids /\ Steady
      /\ queues \in [Aliases -> Seq(Ids)] /\ active \in [Aliases -> Ids \cup {None}]
      /\ workers \in [Aliases -> Worker \cup {None}] /\ sweep \subseteq Ids
      /\ stop \in [Aliases -> (SUBSET Ids) \cup {None}]
  BY Basics, JobsSteady DEF IInv, Typed
<1>p. /\ sweep \cap Cancelling = {}
      /\ \A a \in Aliases :
           /\ IsInjective(queues[a]) /\ Len(queues[a]) <= MaxPerAlias
           /\ Queued(a) \cup Expiring(a) \cup Stopped(a) \subseteq OfAlias(a)
           /\ active[a] \in OfAlias(a) \cup {None} /\ active[a] \notin Queued(a)
           /\ Expiring(a) \cap (Queued(a) \cup {active[a]}) = {}
           /\ Stopped(a) \cap (Queued(a) \cup {active[a]} \cup Expiring(a)) = {}
           /\ (sweep \cup Cancelling) \cap
                (Queued(a) \cup {active[a]} \cup Expiring(a) \cup Stopped(a)) = {}
  BY <1>t DEF Placed
<1>o. /\ \A a \in Aliases : OfAlias(a) \subseteq OfAlias(a)' /\ OfAlias(a) \subseteq Ids
      /\ \A a, b \in Aliases : a # b => OfAlias(a) \cap OfAlias(b) = {}
  BY <1>t DEF Steady, OfAlias
\* None of the places gains a job.
<1>q. ASSUME sweep' \subseteq sweep, Cancelling' \subseteq Cancelling,
             \A a \in Aliases :
               /\ IsInjective(queues'[a]) /\ Len(queues'[a]) <= MaxPerAlias
               /\ Queued(a)' \subseteq Queued(a) /\ Expiring(a)' \subseteq Expiring(a)
               /\ Stopped(a)' \subseteq Stopped(a) /\ active'[a] \in {active[a], None}
      PROVE  Placed'
  <2>1. None \notin sweep \cup Cancelling /\ \A a \in Aliases : None \notin OfAlias(a)
    BY <1>t, <1>o DEF Cancelling, Typed
  <2>2. QED BY <1>p, <1>o, <1>q, <2>1 DEF Placed
<1>w. UNCHANGED workers => \A a \in Aliases : Expiring(a)' = Expiring(a)
  BY DEF Expiring
<1>n. ASSUME NEW a \in Aliases, workers[a] \in Worker, workers[a] # None,
             \/ \E pc : workers' = [workers EXCEPT ![a].pc = pc]
             \/ workers' = [workers EXCEPT ![a].pc = "wait", ![a].attempts = 0]
             \/ workers' = [workers EXCEPT ![a].attempts = @ + 1]
             \/ workers' = [workers EXCEPT ![a].attempts = @ + 1, ![a].pc = "submit"]
      PROVE  \A b \in Aliases : Expiring(b)' \subseteq Expiring(b)
  <2>1. workers'[a].tell = workers[a].tell /\ \A b \in Aliases \ {a} : workers'[b] = workers[b]
    BY <1>t, <1>n DEF Worker
  <2>2. QED BY <1>n, <2>1 DEF Expiring
<1>s. UNCHANGED stop => \A a \in Aliases : Stopped(a)' = Stopped(a)
  BY DEF Stopped
<1>c. UNCHANGED cancel => Cancelling' = Cancelling
  BY DEF Cancelling
<1>u. UNCHANGED queues => \A a \in Aliases : Queued(a)' = Queued(a)
  BY DEF Queued
<1>e. Cancelling \subseteq Ids /\ \A a \in Aliases : Queued(a)' = ToSet(queues'[a])
  BY <1>t DEF Cancelling, Typed, Queued
<1>0. CASE UNCHANGED vars
  BY <1>0, <1>p, <1>q, <1>w, <1>s, <1>c, <1>u DEF vars, queueVars
<1>1. ASSUME NEW a \in Aliases, Enqueue(a) PROVE Placed'
  <2> DEFINE n == Len(jobs) + 1
  <2>1. EnqueueAdds(a, n)
    BY <1>1, <1>t, EnqueueEffect
  <2> HIDE DEF n
  <2>2. n \in OfAlias(a)' /\ \A b \in Aliases : n \notin OfAlias(b)
    BY <2>1 DEF EnqueueAdds, OfAlias
  <2>3. Cancelling' = Cancelling /\ sweep' = sweep
        /\ \A b \in Aliases : Stopped(b)' = Stopped(b) /\ active'[b] = active[b]
    BY <1>s, <1>c, <2>1 DEF EnqueueAdds
  <2>4. n # None /\ n \notin sweep \cup Cancelling
    BY <1>t, <1>e, <2>1 DEF EnqueueAdds
  <2>5. \A b \in Aliases : IsInjective(queues'[b]) /\ Len(queues'[b]) <= MaxPerAlias
    BY <1>p, <2>1 DEF EnqueueAdds
  <2>6. /\ Queued(a)' = Queued(a) \cup {n} /\ \A b \in Aliases \ {a} : Queued(b)' = Queued(b)
        /\ \A b \in Aliases : Expiring(b)' = Expiring(b)
    BY <2>1 DEF EnqueueAdds
  <2>7. QED BY <1>p, <1>o, <2>2, <2>3, <2>4, <2>5, <2>6 DEF Placed
<1>2. ASSUME NEW a \in Aliases, Works(a) PROVE Placed'
  <2>1. ASSUME NEW js, NEW ids, NEW expired \in SUBSET Ids, TurnSplits(a, js, ids, expired),
               Expiring(a) = {}, UNCHANGED <<sweep, cancel, stop>>
        PROVE  Placed'
    <3>1. /\ expired \cup Queued(a)' \cup ({active'[a]} \ {None}) = Queued(a)
          /\ expired \cap Queued(a)' = {} /\ active'[a] \notin expired \cup Queued(a)'
          /\ active'[a] \in Queued(a) \cup {None}
          /\ IsInjective(queues'[a]) /\ Len(queues'[a]) <= MaxPerAlias
          /\ \A b \in Aliases \ {a} : queues'[b] = queues[b] /\ active'[b] = active[b]
                                       /\ workers'[b] = workers[b]
      BY <1>e, <2>1 DEF TurnSplits, Queued
    <3>2. Expiring(a)' \subseteq expired
      BY <2>1 DEF TurnSplits, Expiring, Working
    <3>3. \A b \in Aliases \ {a} : Queued(b)' = Queued(b) /\ Expiring(b)' = Expiring(b)
      BY <1>e, <3>1 DEF Queued, Expiring
    <3>4. Cancelling' = Cancelling /\ sweep' = sweep /\ \A b \in Aliases : Stopped(b)' = Stopped(b)
      BY <1>s, <1>c, <2>1
    <3>5. None \notin sweep \cup Cancelling /\ \A b \in Aliases : None \notin OfAlias(b)
      BY <1>t, <1>e, <1>o
    <3>6. QED BY <1>p, <1>o, <3>1, <3>2, <3>3, <3>4, <3>5 DEF Placed
  <2>2. CASE Starts(a)
    <3>1. \E expired \in SUBSET Ids : TurnSplits(a, jobs, known, expired)
      BY <1>t, <2>2, TurnEffect DEF Starts
    <3>2. Expiring(a) = {} /\ UNCHANGED <<sweep, cancel, stop>>
      BY <1>t, <2>2 DEF Starts, Slots, AtPc, Expiring
    <3>3. QED BY <2>1, <3>1, <3>2
  <2>3. ASSUME NEW outcome \in Settled, Ends(a, outcome) PROVE Placed'
    <3> DEFINE j  == workers[a].job
               js == [jobs EXCEPT ![j] = ReleasedAll(Told(@, outcome))]
    <3>1. \E expired \in SUBSET Ids : TurnSplits(a, js, known \ {j}, expired)
      BY <1>t, <2>3, TurnEffect DEF Ends
    <3>2. Expiring(a) = {} /\ UNCHANGED <<sweep, cancel, stop>>
      BY <1>t, <2>3 DEF Ends, Slots, AtPc, Expiring, Settled
    <3>3. QED BY <2>1, <3>1, <3>2
  <2>4. CASE TellsExpired(a)
    <3>1. UNCHANGED <<queues, active, sweep, cancel, stop>>
      BY <2>4 DEF TellsExpired
    <3>2. \A b \in Aliases : Expiring(b)' \subseteq Expiring(b)
      BY <1>t, <2>4 DEF TellsExpired, Expiring, Working
    <3>3. QED BY <1>p, <1>q, <1>s, <1>c, <1>u, <3>1, <3>2
  <2>5. CASE Submits(a) \/ SubmitAnswered(a) \/ WaitAnswered(a) \/ WaitTimesOut(a)
    <3>1. UNCHANGED <<queues, active, sweep, cancel, stop>>
      BY <2>5 DEF Submits, SubmitAnswered, WaitAnswered, WaitTimesOut, queueVars
    <3>2. \A b \in Aliases : Expiring(b)' \subseteq Expiring(b)
      <4>1. workers[a] \in Worker /\ workers[a] # None
        BY <1>t, <2>5 DEF Submits, SubmitAnswered, WaitAnswered, WaitTimesOut, AtPc
      <4>2. \/ \E pc : workers' = [workers EXCEPT ![a].pc = pc]
            \/ workers' = [workers EXCEPT ![a].pc = "wait", ![a].attempts = 0]
        BY <2>5 DEF Submits, SubmitAnswered, WaitAnswered, WaitTimesOut, Goes
      <4>3. QED BY <1>n, <4>1, <4>2
    <3>3. QED BY <1>p, <1>q, <1>s, <1>c, <1>u, <3>1, <3>2
  <2>6. QED BY <1>2, <2>2, <2>3, <2>4, <2>5 DEF Works
<1>3. ASSUME NEW a \in Aliases, SubmitFails(a) \/ WaitFails(a) PROVE Placed'
  <2>1. UNCHANGED <<queues, active, sweep, cancel, stop>>
    BY <1>3 DEF SubmitFails, WaitFails, queueVars
  <2>2. \A b \in Aliases : Expiring(b)' \subseteq Expiring(b)
    <3>1. workers[a] \in Worker /\ workers[a] # None
      BY <1>t, <1>3 DEF SubmitFails, WaitFails, AtPc
    <3>2. \/ \E pc : workers' = [workers EXCEPT ![a].pc = pc]
          \/ workers' = [workers EXCEPT ![a].attempts = @ + 1]
          \/ workers' = [workers EXCEPT ![a].attempts = @ + 1, ![a].pc = "submit"]
      BY <1>3 DEF SubmitFails, WaitFails, Goes
    <3>3. QED BY <1>n, <3>1, <3>2
  <2>3. QED BY <1>p, <1>q, <1>s, <1>c, <1>u, <2>1, <2>2
<1>4. ASSUME NEW a \in Aliases, Cancelled(a) PROVE Placed'
  <2>1. UNCHANGED <<queues, sweep, cancel, stop>> /\ \A b \in Aliases : active'[b] \in {active[b], None}
    BY <1>4, <1>t DEF Cancelled, queueVars
  <2>2. \A b \in Aliases : Expiring(b)' \subseteq Expiring(b)
    BY <1>t, <1>4 DEF Cancelled, Expiring
  <2>3. QED BY <1>p, <1>q, <1>s, <1>c, <1>u, <2>1, <2>2
<1>5. ASSUME NEW a \in Aliases, StopCommand(a) PROVE Placed'
  <2>1. \A b \in Aliases : Stopped(b)' = Stopped(b)
    BY <1>5, <1>t DEF StopCommand, Stopped
  <2>2. QED BY <1>5, <1>p, <1>q, <1>w, <1>c, <1>u, <2>1 DEF StopCommand, queueVars
<1>6. ASSUME NEW a \in Aliases, StopReturns(a) PROVE Placed'
  <2>1. /\ Removed(Queued(a)) /\ stop' = [stop EXCEPT ![a] = Queued(a)]
        /\ UNCHANGED <<active, workers, sweep, cancel>>
    BY <1>6 DEF StopReturns, CancelQueued, Queued
  <2>2. \A b \in Aliases : /\ Queued(b)' = Queued(b) \ Queued(a)
                           /\ IsInjective(queues'[b]) /\ Len(queues'[b]) <= MaxPerAlias
    BY <1>t, <1>e, <2>1, RemovedEffect
  <2>3. Stopped(a)' \subseteq Queued(a) /\ \A b \in Aliases \ {a} : Stopped(b)' = Stopped(b)
    BY <1>t, <2>1 DEF Stopped
  <2>4. Cancelling' = Cancelling /\ \A b \in Aliases : Expiring(b)' = Expiring(b)
    BY <1>w, <1>c, <2>1
  <2>5. QED BY <1>p, <1>o, <2>1, <2>2, <2>3, <2>4 DEF Placed
<1>7. ASSUME NEW a \in Aliases, StopTells(a) PROVE Placed'
  <2>1. \A b \in Aliases : Stopped(b)' \subseteq Stopped(b)
    BY <1>7, <1>t DEF StopTells, Stopped
  <2>2. QED BY <1>7, <1>p, <1>q, <1>w, <1>c, <1>u, <2>1 DEF StopTells
<1>8. ASSUME NEW a \in Aliases, NEW selected \in {All} \cup Ids, CancelCommand(a, selected)
      PROVE  Placed'
  <2> DEFINE set == IF selected = All THEN ToSet(queues[a]) ELSE ToSet(queues[a]) \cap {selected}
  <2>1. /\ Removed(set) /\ UNCHANGED <<active, workers, sweep, stop>>
        /\ cancel' = [alias |-> a, selected |-> selected, tell |-> set, target |-> None]
    BY <1>8 DEF CancelCommand, CancelQueued
  <2>2. set \subseteq Queued(a)
    BY DEF Queued
  <2>3. \A b \in Aliases : /\ Queued(b)' = Queued(b) \ set
                           /\ IsInjective(queues'[b]) /\ Len(queues'[b]) <= MaxPerAlias
    BY <1>t, <1>e, <2>1, RemovedEffect
  <2> HIDE DEF set
  <2>4. Cancelling' \subseteq set
    BY <2>1 DEF Cancelling
  <2>5. \A b \in Aliases : Expiring(b)' = Expiring(b) /\ Stopped(b)' = Stopped(b)
    BY <1>w, <1>s, <2>1
  <2>6. Cancelling = {}
    BY <1>8 DEF CancelCommand, Cancelling
  <2>7. None \notin Queued(a)
    BY <1>t, <1>p, <1>o
  <2>8. QED BY <1>p, <1>o, <2>1, <2>2, <2>3, <2>4, <2>5, <2>6, <2>7 DEF Placed
<1>9. CASE CancelTells \/ CancelReaches
  <2>1. Cancelling' = {}
    <3>1. cancel' = None \/ (cancel # None /\ cancel' = [cancel EXCEPT !.target = active[cancel.alias]]
                             /\ active[cancel.alias] # None)
      BY <1>9 DEF CancelTells, CancelReaches
    <3>2. QED BY <1>t, <3>1 DEF Cancelling, Typed
  <2>2. UNCHANGED <<queues, active, workers, sweep, stop>>
    BY <1>9 DEF CancelTells, CancelReaches, queueVars
  <2>3. QED BY <1>p, <1>q, <1>w, <1>s, <1>u, <2>1, <2>2
<1>10. CASE Sweeps
  <2> DEFINE old == {j \in Waiting : jobs[j].aged}
  <2>1. Removed(old) /\ sweep' = old /\ sweep = {} /\ UNCHANGED <<active, workers, cancel, stop>>
    BY <1>10 DEF Sweeps
  <2>2. \A j \in old : \E a \in Aliases : j \in Queued(a)
    BY DEF Waiting, Queued
  <2> HIDE DEF old
  <2>3. \A b \in Aliases : /\ Queued(b)' = Queued(b) \ old
                           /\ IsInjective(queues'[b]) /\ Len(queues'[b]) <= MaxPerAlias
    BY <1>t, <1>e, <2>1, RemovedEffect
  <2>4. /\ Cancelling' = Cancelling
        /\ \A b \in Aliases : Expiring(b)' = Expiring(b) /\ Stopped(b)' = Stopped(b)
    BY <1>w, <1>s, <1>c, <2>1
  <2>5. ASSUME NEW j \in old
        PROVE  /\ j \notin Cancelling'
               /\ \A b \in Aliases : j \notin Queued(b)' \cup {active'[b]} \cup Expiring(b)' \cup Stopped(b)'
    <3>1. PICK a \in Aliases : j \in Queued(a)
      BY <2>2
    <3>2. \A b \in Aliases : b # a => j \notin OfAlias(b)
      BY <1>p, <1>o, <3>1
    <3>3. j # None
      BY <1>t, <1>p, <1>o, <3>1
    <3>4. QED BY <1>p, <2>1, <2>3, <2>4, <3>1, <3>2, <3>3
  <2>6. QED BY <1>p, <1>o, <2>1, <2>3, <2>4, <2>5 DEF Placed
<1>11. CASE SweepTells \/ Terminate
  BY <1>11, <1>p, <1>q, <1>w, <1>s, <1>c, <1>u DEF SweepTells, Terminate, queueVars
<1>12. CASE Clears
  <2>1. \A a \in Aliases : queues'[a] = <<>> /\ active'[a] = None
    BY <1>12 DEF Clears
  <2>2. ToSet(<<>>) = {} /\ IsInjective(<<>>) /\ Len(<<>>) <= MaxPerAlias
    BY BoundsAssumption DEF ToSet, IsInjective
  <2>3. QED BY <1>12, <1>e, <1>q, <1>w, <1>s, <1>c, <2>1, <2>2 DEF Clears
<1>13. CASE \/ \E j \in Ids : Ages(j) \/ JobStarts(j) \/ JobSettles(j)
            \/ \E a \in Aliases : StartCommand(a)
            \/ \E p \in posts : LatePost(p)
  <2>1. UNCHANGED <<queues, active, workers, sweep, cancel, stop>>
    BY <1>13 DEF Ages, JobStarts, JobSettles, StartCommand, LatePost, queueVars
  <2>2. QED BY <1>p, <1>q, <1>w, <1>s, <1>c, <1>u, <2>1
<1>14. QED
  BY <1>0, <1>1, <1>2, <1>3, <1>4, <1>5, <1>6, <1>7, <1>8, <1>9, <1>10, <1>11, <1>12, <1>13
     DEF Next, Commands, Faults

(* A job waits in one queue, is active for one alias, and not both.        *)
LEMMA Apart ==
  ASSUME Typed, Placed
  PROVE  /\ \A a, b \in Aliases : a # b => Queued(a) \cap Queued(b) = {}
         /\ \A a, b \in Aliases : active[a] # None /\ active[a] = active[b] => a = b
         /\ \A a, b \in Aliases : active[a] \notin Queued(b)
         /\ \A a, b \in Aliases : Expiring(a) \cap Queued(b) = {} /\ active[b] \notin Expiring(a)
         /\ \A a, b \in Aliases : Stopped(a) \cap Queued(b) = {} /\ active[b] \notin Stopped(a)
         /\ \A a \in Aliases : active[a] \notin sweep \cup Cancelling
         /\ \A a \in Aliases : Queued(a) \cup Expiring(a) \cup Stopped(a) \subseteq Ids
         /\ Cancelling \subseteq Ids
<1>1. /\ \A a \in Aliases : OfAlias(a) \subseteq Ids
      /\ \A a, b \in Aliases : a # b => OfAlias(a) \cap OfAlias(b) = {}
  BY DEF OfAlias
<1>2. None \notin Ids
  BY Basics
<1>3. Cancelling \subseteq Ids
  BY DEF Typed, Cancelling
<1>4. QED BY <1>1, <1>2, <1>3 DEF Placed

LEMMA KnownStays ==
  ASSUME IInv, [Next]_vars
  PROVE  KnownExact'
<1>t. /\ Typed /\ Slots /\ Placed /\ None \notin Ids
      /\ queues \in [Aliases -> Seq(Ids)] /\ active \in [Aliases -> Ids \cup {None}]
      /\ workers \in [Aliases -> Worker \cup {None}]
  BY Basics DEF IInv, Typed
<1>k. \A j : j \in known <=> \/ \E b \in Aliases : j \in Queued(b)
                             \/ j # None /\ \E b \in Aliases : j = active[b]
  <2>1. known = Waiting \cup ({active[a] : a \in Aliases} \ {None})
    BY DEF IInv, KnownExact
  <2>2. \A j : j \in Waiting <=> \E b \in Aliases : j \in Queued(b)
    BY DEF Waiting, Queued
  <2>3. QED BY <2>1, <2>2
<1>g. ASSUME \A j : j \in known' <=> \/ \E b \in Aliases : j \in Queued(b)'
                                     \/ j # None /\ \E b \in Aliases : j = active'[b]
      PROVE  KnownExact'
  <2>1. \A j : j \in Waiting' <=> \E b \in Aliases : j \in Queued(b)'
    BY DEF Waiting, Queued
  <2>2. known' = Waiting' \cup ({active'[a] : a \in Aliases} \ {None})
    BY <1>g, <2>1
  <2>3. QED BY <2>2 DEF KnownExact
<1>a. /\ \A a, b \in Aliases : a # b => Queued(a) \cap Queued(b) = {}
      /\ \A a, b \in Aliases : active[a] # None /\ active[a] = active[b] => a = b
      /\ \A a, b \in Aliases : active[a] \notin Queued(b)
      /\ \A a \in Aliases : Queued(a) \subseteq Ids
  BY <1>t, Apart
<1>u. UNCHANGED <<queues, active, known>> => KnownExact'
  BY <1>k, <1>g DEF Queued
<1>r. ASSUME NEW set, Removed(set), UNCHANGED active,
             \A j \in set : \E a \in Aliases : j \in Queued(a)
      PROVE  KnownExact'
  <2>1. /\ \A a \in Aliases : Queued(a)' = Queued(a) \ set
        /\ known' = known \ set
    BY <1>t, <1>r, RemovedEffect DEF Queued
  <2>2. \A b \in Aliases : active[b] \notin set
    BY <1>a, <1>r
  <2>3. QED BY <1>k, <1>g, <1>r, <2>1, <2>2
<1>1. ASSUME NEW a \in Aliases, Enqueue(a) PROVE KnownExact'
  <2> DEFINE n == Len(jobs) + 1
  <2>1. EnqueueAdds(a, n)
    BY <1>1, <1>t, EnqueueEffect
  <2> HIDE DEF n
  <2>2. /\ known' = known \cup {n} /\ active' = active /\ Queued(a)' = Queued(a) \cup {n}
        /\ \A b \in Aliases \ {a} : Queued(b)' = Queued(b)
    BY <2>1 DEF EnqueueAdds
  <2>3. QED BY <1>k, <1>g, <2>2
<1>2. ASSUME NEW a \in Aliases, NEW js, NEW ids, NEW expired, TurnSplits(a, js, ids, expired),
             ids = known \ {active[a]}
      PROVE  KnownExact'
  <2>1. /\ expired \cup Queued(a)' \cup ({active'[a]} \ {None}) = Queued(a)
        /\ expired \cap Queued(a)' = {} /\ active'[a] \notin expired \cup Queued(a)'
        /\ active'[a] \in Queued(a) \cup {None}
        /\ \A b \in Aliases \ {a} : Queued(b)' = Queued(b) /\ active'[b] = active[b]
        /\ known' = ids \ expired
    BY <1>2 DEF TurnSplits, Queued
  <2>2. ASSUME NEW j
        PROVE  j \in known' <=> \/ \E b \in Aliases : j \in Queued(b)'
                                \/ j # None /\ \E b \in Aliases : j = active'[b]
    <3>1. j \in known <=> \/ \E b \in Aliases : j \in Queued(b)
                          \/ j # None /\ \E b \in Aliases : j = active[b]
      BY <1>k, Zenon
    <3>2. CASE j \in Queued(a)
      <4>1. j \in known /\ j # None /\ \A b \in Aliases : j # active[b]
        BY <1>a, <1>t, <3>1, <3>2
      <4>2. j \in known' <=> j \notin expired
        BY <1>2, <2>1, <4>1
      <4>3. (\E b \in Aliases : j \in Queued(b)') <=> j \in Queued(a)'
        BY <1>a, <2>1, <3>2
      <4>4. (\E b \in Aliases : j = active'[b]) <=> j = active'[a]
        BY <2>1, <4>1
      <4>5. j \notin expired <=> j \in Queued(a)' \/ j = active'[a]
        BY <2>1, <3>2, <4>1
      <4>6. QED BY <4>1, <4>2, <4>3, <4>4, <4>5
    <3>3. CASE j \notin Queued(a)
      <4>1. j \notin expired /\ j \notin Queued(a)' /\ (j = active'[a] => j = None)
        BY <2>1, <3>3
      <4>2. CASE j = active[a]
        BY <1>a, <1>2, <2>1, <3>1, <4>1, <4>2
      <4>3. CASE j # active[a]
        BY <1>a, <1>2, <2>1, <3>1, <3>3, <4>1, <4>3
      <4>4. QED BY <4>2, <4>3
    <3>4. QED BY <3>2, <3>3
  <2>3. QED BY <1>g, <2>2
<1>3. ASSUME NEW a \in Aliases, Works(a) PROVE KnownExact'
  <2>1. CASE Starts(a)
    <3>1. \E expired \in SUBSET Ids : TurnSplits(a, jobs, known, expired)
      BY <1>t, <2>1, TurnEffect DEF Starts
    <3>2. active[a] = None
      BY <1>t, <2>1 DEF Starts, AtPc, Slots
    <3>3. None \notin known
      BY <1>t, <1>k, <1>a
    <3>4. QED BY <1>2, <3>1, <3>2, <3>3
  <2>2. ASSUME NEW outcome \in Settled, Ends(a, outcome) PROVE KnownExact'
    <3> DEFINE j  == workers[a].job
               js == [jobs EXCEPT ![j] = ReleasedAll(Told(@, outcome))]
    <3>1. \E expired \in SUBSET Ids : TurnSplits(a, js, known \ {j}, expired)
      BY <1>t, <2>2, TurnEffect DEF Ends
    <3>2. active[a] = j
      BY <1>t, <2>2 DEF Ends, AtPc, Slots
    <3>3. QED BY <1>2, <3>1, <3>2
  <2>3. CASE \/ Submits(a) \/ SubmitAnswered(a) \/ WaitAnswered(a) \/ WaitTimesOut(a)
             \/ TellsExpired(a)
    <3>1. UNCHANGED <<queues, active, known>>
      BY <2>3 DEF Submits, SubmitAnswered, WaitAnswered, WaitTimesOut, TellsExpired, queueVars
    <3>2. QED BY <1>u, <3>1
  <2>4. QED BY <1>3, <2>1, <2>2, <2>3 DEF Works
<1>4. ASSUME NEW a \in Aliases, Cancelled(a) PROVE KnownExact'
  <2>1. CASE UNCHANGED queueVars
    BY <1>u, <2>1 DEF queueVars
  <2>2. CASE active' = [active EXCEPT ![a] = None] /\ known' = known \ {workers[a].job} /\ UNCHANGED queues
    <3>1. active[a] = workers[a].job
      BY <1>4, <1>t DEF Cancelled, Slots
    <3>2. /\ active'[a] = None /\ \A b \in Aliases \ {a} : active'[b] = active[b]
          /\ \A b \in Aliases : Queued(b)' = Queued(b)
      BY <1>t, <2>2 DEF Queued
    <3>3. ASSUME NEW j
          PROVE  j \in known' <=> \/ \E b \in Aliases : j \in Queued(b)'
                                  \/ j # None /\ \E b \in Aliases : j = active'[b]
      <4>1. j \in known <=> \/ \E b \in Aliases : j \in Queued(b)
                            \/ j # None /\ \E b \in Aliases : j = active[b]
        BY <1>k, Zenon
      <4>2. CASE j = active[a]
        BY <1>a, <2>2, <3>1, <3>2, <4>1, <4>2
      <4>3. CASE j # active[a]
        BY <1>a, <2>2, <3>1, <3>2, <4>1, <4>3
      <4>4. QED BY <4>2, <4>3
    <3>4. QED BY <1>g, <3>3
  <2>3. QED BY <1>4, <2>1, <2>2 DEF Cancelled
<1>5. ASSUME NEW a \in Aliases, StopReturns(a) PROVE KnownExact'
  BY <1>5, <1>r DEF StopReturns, CancelQueued, Queued
<1>6. ASSUME NEW a \in Aliases, NEW selected, CancelCommand(a, selected) PROVE KnownExact'
  <2> DEFINE set == IF selected = All THEN ToSet(queues[a]) ELSE ToSet(queues[a]) \cap {selected}
  <2>1. Removed(set) /\ UNCHANGED active
    BY <1>6 DEF CancelCommand, CancelQueued
  <2>2. set \subseteq Queued(a)
    BY DEF Queued
  <2>3. QED BY <1>r, <2>1, <2>2
<1>7. CASE Sweeps
  <2> DEFINE old == {j \in Waiting : jobs[j].aged}
  <2>1. Removed(old) /\ UNCHANGED active
    BY <1>7 DEF Sweeps
  <2>2. \A j \in old : \E a \in Aliases : j \in Queued(a)
    BY DEF Waiting, Queued
  <2>3. QED BY <1>r, <2>1, <2>2
<1>8. CASE Clears
  <2>1. \A a \in Aliases : queues'[a] = <<>> /\ active'[a] = None
    BY <1>8 DEF Clears
  <2>2. known' = {} /\ \A a \in Aliases : Queued(a)' = {}
    BY <1>8, <2>1 DEF Clears, Queued, ToSet
  <2>3. QED BY <1>g, <2>1, <2>2
<1>9. CASE \/ UNCHANGED vars
           \/ \E a \in Aliases : SubmitFails(a) \/ WaitFails(a) \/ StopCommand(a) \/ StartCommand(a)
                                 \/ StopTells(a)
           \/ \E j \in Ids : Ages(j) \/ JobStarts(j) \/ JobSettles(j)
           \/ \E p \in posts : LatePost(p)
           \/ SweepTells \/ CancelTells \/ CancelReaches \/ Terminate
  <2>1. UNCHANGED <<queues, active, known>>
    BY <1>9 DEF vars, SubmitFails, WaitFails, StopCommand, StartCommand, StopTells, Ages, JobStarts,
                JobSettles, LatePost, SweepTells, CancelTells, CancelReaches, Terminate, queueVars
  <2>2. QED BY <1>u, <2>1
<1>10. QED
  BY <1>1, <1>3, <1>4, <1>5, <1>6, <1>7, <1>8, <1>9 DEF Next, Commands, Faults

-----------------------------------------------------------------------------
(* From one call to the next a worker keeps its job.                       *)
LEMMA CallsGoOn ==
  ASSUME workers \in [Aliases -> Worker \cup {None}], NEW a \in Aliases, workers[a] \in Worker,
         \/ \E pc \in {"submit", "submitted", "wait"} \cup Settled :
              workers' = [workers EXCEPT ![a].pc = pc]
         \/ workers' = [workers EXCEPT ![a].pc = "wait", ![a].attempts = 0]
         \/ /\ workers[a].attempts + 1 < MaxRetries
            /\ \/ workers' = [workers EXCEPT ![a].attempts = @ + 1]
               \/ workers' = [workers EXCEPT ![a].attempts = @ + 1, ![a].pc = "submit"]
  PROVE  \E w \in Worker : /\ workers' = [workers EXCEPT ![a] = w]
                           /\ w.job = workers[a].job /\ w.tell = workers[a].tell
                           /\ w.pc \in {workers[a].pc, "submit", "submitted", "wait"} \cup Settled
<1> DEFINE w == workers[a]
           Stays(v) == /\ workers' = [workers EXCEPT ![a] = v]
                       /\ v.job = w.job /\ v.tell = w.tell
                       /\ v.pc \in {w.pc, "submit", "submitted", "wait"} \cup Settled
           v1(pc) == [w EXCEPT !.pc = pc]
           v2 == [w EXCEPT !.pc = "wait", !.attempts = 0]
           v3 == [w EXCEPT !.attempts = @ + 1]
           v4 == [w EXCEPT !.attempts = @ + 1, !.pc = "submit"]
<1>1. ASSUME NEW pc \in {"submit", "submitted", "wait"} \cup Settled,
             workers' = [workers EXCEPT ![a].pc = pc]
      PROVE  \E v \in Worker : Stays(v)
  <2>1. v1(pc) \in Worker
    BY WorkerKinds
  <2>2. Stays(v1(pc))
    BY <1>1 DEF Worker
  <2>3. QED BY <2>1, <2>2
<1>2. ASSUME workers' = [workers EXCEPT ![a].pc = "wait", ![a].attempts = 0]
      PROVE  \E v \in Worker : Stays(v)
  <2>1. v2 \in Worker
    BY WorkerKinds
  <2>2. Stays(v2)
    BY <1>2 DEF Worker
  <2>3. QED BY <2>1, <2>2
<1>3. ASSUME w.attempts + 1 < MaxRetries, workers' = [workers EXCEPT ![a].attempts = @ + 1]
      PROVE  \E v \in Worker : Stays(v)
  <2>1. v3 \in Worker
    BY <1>3, WorkerKinds
  <2>2. Stays(v3)
    BY <1>3 DEF Worker
  <2>3. QED BY <2>1, <2>2
<1>4. ASSUME w.attempts + 1 < MaxRetries,
             workers' = [workers EXCEPT ![a].attempts = @ + 1, ![a].pc = "submit"]
      PROVE  \E v \in Worker : Stays(v)
  <2>1. v4 \in Worker
    BY <1>4, WorkerKinds
  <2>2. Stays(v4)
    BY <1>4 DEF Worker
  <2>3. QED BY <2>1, <2>2
<1>5. QED BY <1>1, <1>2, <1>3, <1>4

(* The worker of an alias goes on with its active job.                     *)
LEMMA SlotsStays ==
  ASSUME IInv, [Next]_vars
  PROVE  Slots'
<1>t. /\ Typed /\ Slots /\ Placed /\ active \in [Aliases -> Ids \cup {None}] /\ None \notin Ids
      /\ workers \in [Aliases -> Worker \cup {None}] /\ Ids \subseteq Numbers
  BY Basics DEF IInv, Typed
\* Nothing happens to the workers of other aliases.
<1> DEFINE Slot(b) ==
      /\ workers'[b] = None => (plugin' = "up" => active'[b] = None)
      /\ workers'[b] # None =>
           /\ active'[b] = workers'[b].job
           /\ workers'[b].pc = "start" => workers'[b].job = None
           /\ workers'[b].pc \notin {"start", "expired"} => workers'[b].job # None
           /\ workers'[b].pc # "expired" => workers'[b].tell = {}
<1>o. ASSUME plugin' = "up" => plugin = "up", NEW b \in Aliases,
             workers'[b] = workers[b], active'[b] = active[b]
      PROVE  Slot(b)
  BY <1>t, <1>o DEF Slots
<1>g. (\A b \in Aliases : Slot(b)) => Slots'
  BY DEF Slots
<1>u. ASSUME UNCHANGED <<workers, active>>, plugin' = "up" => plugin = "up" PROVE Slots'
  BY <1>u, <1>o, <1>g
\* A worker goes on with its job from one of the calls to another.
<1>n. ASSUME NEW a \in Aliases, workers[a] # None, workers[a] \in Worker,
             UNCHANGED <<active, plugin>>, workers[a].pc \in {"submit", "submitted", "wait"},
             NEW w \in Worker, workers' = [workers EXCEPT ![a] = w],
             w.job = workers[a].job, w.tell = workers[a].tell,
             w.pc \in {workers[a].pc, "submit", "submitted", "wait"} \cup Settled
      PROVE  Slots'
  <2>1. workers'[a] = w /\ w # None /\ \A b \in Aliases \ {a} : workers'[b] = workers[b]
    BY <1>t, <1>n, NoneAssumption
  <2>2. active[a] = workers[a].job /\ workers[a].job # None /\ workers[a].tell = {}
    BY <1>t, <1>n DEF Slots
  <2>3. w.pc \notin {"start", "expired"}
    BY <1>n DEF Settled
  <2>4. Slot(a)
    BY <1>n, <2>1, <2>2, <2>3
  <2>5. QED BY <1>n, <1>o, <1>g, <2>1, <2>4
<1>1. ASSUME NEW a \in Aliases, Enqueue(a) PROVE Slots'
  <2>1. UNCHANGED workers \/ (plugin = "up" /\ workers[a] = None /\ workers' = [workers EXCEPT ![a] =
            [pc |-> "start", job |-> None, tell |-> {}, attempts |-> 0]])
    BY <1>1 DEF Enqueue
  <2>2. UNCHANGED <<active, plugin>>
    BY <1>1 DEF Enqueue
  <2>3. QED BY <1>t, <2>1, <2>2 DEF Slots
<1>2. ASSUME NEW a \in Aliases, NEW js, NEW ids, NEW expired \in SUBSET Ids,
             TurnSplits(a, js, ids, expired), UNCHANGED plugin
      PROVE  Slots'
  <2> DEFINE J == active'[a]
             w == [pc |-> "expired", job |-> J, tell |-> expired, attempts |-> 0]
  <2>1. /\ workers'[a] = IF expired # {} THEN w ELSE IF J # None THEN Working(J) ELSE None
        /\ \A b \in Aliases \ {a} : active'[b] = active[b] /\ workers'[b] = workers[b]
        /\ J \in ToSet(queues[a]) \cup {None}
    BY <1>2 DEF TurnSplits
  <2>2. J \in Numbers \cup {None} /\ expired \in SUBSET Numbers
    <3>1. ToSet(queues[a]) \subseteq Ids
      BY <1>t, Apart DEF Queued
    <3>2. QED BY <1>t, <2>1, <3>1
  <2> HIDE DEF J
  <2>3. w # None /\ (J # None => Working(J) # None)
    BY <2>2, WorkerKinds, NoneAssumption
  <2>4. CASE expired # {}
    <3>1. Slot(a)
      BY <2>1, <2>3, <2>4 DEF J
    <3>2. QED BY <1>2, <1>o, <1>g, <2>1, <3>1
  <2>5. CASE expired = {} /\ J # None
    <3>1. Slot(a)
      BY <2>1, <2>3, <2>5 DEF J, Working
    <3>2. QED BY <1>2, <1>o, <1>g, <2>1, <3>1
  <2>6. CASE expired = {} /\ J = None
    <3>1. Slot(a)
      BY <2>1, <2>6 DEF J
    <3>2. QED BY <1>2, <1>o, <1>g, <2>1, <3>1
  <2>7. QED BY <2>4, <2>5, <2>6
<1>3. ASSUME NEW a \in Aliases, Works(a) PROVE Slots'
  <2>1. CASE Starts(a)
    <3>1. \E expired \in SUBSET Ids : TurnSplits(a, jobs, known, expired)
      BY <1>t, <2>1, TurnEffect DEF Starts
    <3>2. QED BY <1>2, <2>1, <3>1 DEF Starts
  <2>2. ASSUME NEW outcome \in Settled, Ends(a, outcome) PROVE Slots'
    <3> DEFINE j  == workers[a].job
               js == [jobs EXCEPT ![j] = ReleasedAll(Told(@, outcome))]
    <3>1. \E expired \in SUBSET Ids : TurnSplits(a, js, known \ {j}, expired)
      BY <1>t, <2>2, TurnEffect DEF Ends
    <3>2. QED BY <1>2, <2>2, <3>1 DEF Ends
  <2>3. CASE TellsExpired(a)
    <3> DEFINE J == workers[a].job
    <3>1. workers[a] # None /\ workers[a] \in Worker /\ active[a] = J /\ UNCHANGED <<active, plugin>>
      BY <1>t, <2>3 DEF TellsExpired, AtPc, Slots
    <3>2. workers'[a] = (IF J = None THEN None ELSE Working(J))
          /\ \A b \in Aliases \ {a} : workers'[b] = workers[b]
      BY <1>t, <2>3 DEF TellsExpired
    <3>3. J # None => Working(J) # None
      <4>1. J \in Numbers \cup {None}
        BY <3>1 DEF Worker, Numbers
      <4>2. QED BY <4>1, WorkerKinds, NoneAssumption
    <3>4. Slot(a)
      BY <3>1, <3>2, <3>3 DEF Working
    <3>5. QED BY <1>o, <1>g, <3>1, <3>2, <3>4
  <2>4. CASE Submits(a) \/ SubmitAnswered(a) \/ WaitAnswered(a) \/ WaitTimesOut(a)
    <3>1. workers[a] # None /\ workers[a] \in Worker /\ UNCHANGED <<active, plugin>>
          /\ workers[a].pc \in {"submit", "submitted", "wait"}
      BY <1>t, <2>4 DEF Submits, SubmitAnswered, WaitAnswered, WaitTimesOut, AtPc, queueVars
    <3>2. \/ \E pc \in {"submitted", "wait"} \cup Settled : workers' = [workers EXCEPT ![a].pc = pc]
          \/ workers' = [workers EXCEPT ![a].pc = "wait", ![a].attempts = 0]
      BY <2>4 DEF Submits, SubmitAnswered, WaitAnswered, WaitTimesOut, Goes, Settled
    <3>3. \E w \in Worker : /\ workers' = [workers EXCEPT ![a] = w]
                            /\ w.job = workers[a].job /\ w.tell = workers[a].tell
                            /\ w.pc \in {workers[a].pc, "submit", "submitted", "wait"} \cup Settled
      BY <1>t, <3>1, <3>2, CallsGoOn
    <3>4. QED BY <1>n, <3>1, <3>3
  <2>5. QED BY <1>3, <2>1, <2>2, <2>3, <2>4 DEF Works
<1>4. ASSUME NEW a \in Aliases, SubmitFails(a) \/ WaitFails(a) PROVE Slots'
  <2>1. workers[a] # None /\ workers[a] \in Worker /\ UNCHANGED <<active, plugin>>
        /\ workers[a].pc \in {"submit", "submitted", "wait"}
    BY <1>t, <1>4 DEF SubmitFails, WaitFails, AtPc, queueVars
  <2>2. \/ workers' = [workers EXCEPT ![a].pc = "failed"]
        \/ /\ workers[a].attempts + 1 < MaxRetries
           /\ \/ workers' = [workers EXCEPT ![a].attempts = @ + 1]
              \/ workers' = [workers EXCEPT ![a].attempts = @ + 1, ![a].pc = "submit"]
    BY <1>4 DEF SubmitFails, WaitFails, Goes
  <2>3. \E w \in Worker : /\ workers' = [workers EXCEPT ![a] = w]
                          /\ w.job = workers[a].job /\ w.tell = workers[a].tell
                          /\ w.pc \in {workers[a].pc, "submit", "submitted", "wait"} \cup Settled
    BY <1>t, <2>1, <2>2, CallsGoOn DEF Settled
  <2>4. QED BY <1>n, <2>1, <2>3
<1>5. ASSUME NEW a \in Aliases, Cancelled(a) PROVE Slots'
  <2>1. plugin' = "ending" /\ workers'[a] = None
        /\ \A b \in Aliases \ {a} : workers'[b] = workers[b] /\ active'[b] = active[b]
    BY <1>5, <1>t DEF Cancelled, queueVars
  <2>2. QED BY <1>o, <1>g, <2>1
<1>6. CASE Clears
  BY <1>6, <1>g DEF Clears
<1>7. CASE \/ UNCHANGED vars
           \/ \E a \in Aliases : StopCommand(a) \/ StartCommand(a) \/ StopReturns(a) \/ StopTells(a)
           \/ \E a \in Aliases, selected \in {All} \cup Ids : CancelCommand(a, selected)
           \/ \E j \in Ids : Ages(j) \/ JobStarts(j) \/ JobSettles(j)
           \/ \E p \in posts : LatePost(p)
           \/ Sweeps \/ SweepTells \/ CancelTells \/ CancelReaches \/ Terminate
  <2>1. UNCHANGED <<workers, active>> /\ (plugin' = "up" => plugin = "up")
    BY <1>7 DEF vars, StopCommand, StartCommand, StopReturns, StopTells, CancelCommand, Ages,
                JobStarts, JobSettles, LatePost, Sweeps, SweepTells, CancelTells, CancelReaches,
                Terminate, queueVars
  <2>2. QED BY <1>u, <2>1
<1>8. QED
  BY <1>1, <1>3, <1>4, <1>5, <1>6, <1>7 DEF Next, Commands, Faults

-----------------------------------------------------------------------------
(* Jobs that wait or were taken out of a queue unrun, by the place.        *)
LEMMA IdlePlaces ==
  /\ \A j : j \in Idle <=> \/ j \in sweep \/ j \in Cancelling
                           \/ \E a \in Aliases : j \in Queued(a) \/ j \in Expiring(a) \/ j \in Stopped(a)
  /\ \A j : j \in Idle' <=> \/ j \in sweep' \/ j \in Cancelling'
                            \/ \E a \in Aliases : j \in Queued(a)' \/ j \in Expiring(a)' \/ j \in Stopped(a)'
BY DEF Idle

\* No job comes into a queue or to those that are to be told of, and none
\* becomes active that did not wait.
Drains ==
  /\ Idle' \subseteq Idle /\ Ids' = Ids
  /\ \A a \in Aliases : Queued(a)' \subseteq Queued(a)
                        /\ active'[a] \in {active[a], None} \cup Queued(a)
  /\ plugin' = "up" => plugin = "up"

LEMMA OthersDrain ==
  ASSUME IInv, [Next]_vars, \A a \in Aliases : ~Enqueue(a)
  PROVE  Drains
<1>t. /\ Typed /\ Slots /\ Placed /\ None \notin Ids
      /\ queues \in [Aliases -> Seq(Ids)] /\ active \in [Aliases -> Ids \cup {None}]
      /\ workers \in [Aliases -> Worker \cup {None}]
      /\ stop \in [Aliases -> (SUBSET Ids) \cup {None}]
  BY Basics DEF IInv, Typed
<1>w. UNCHANGED workers => \A a \in Aliases : Expiring(a)' = Expiring(a)
  BY DEF Expiring
<1>s. UNCHANGED stop => \A a \in Aliases : Stopped(a)' = Stopped(a)
  BY DEF Stopped
<1>c. UNCHANGED cancel => Cancelling' = Cancelling
  BY DEF Cancelling
<1>u. UNCHANGED queues => \A a \in Aliases : Queued(a)' = Queued(a)
  BY DEF Queued
<1>i. Ids' = Ids
  <2>1. UNCHANGED jobs => Ids' = Ids
    BY DEF Ids
  <2>2. ASSUME NEW f, jobs' = [j \in Ids |-> f[j]] PROVE Ids' = Ids
    BY <2>2 DEF Ids
  <2>3. ASSUME NEW f, NEW i, jobs' = [jobs EXCEPT ![i] = f] PROVE Ids' = Ids
    BY <1>t, <2>3 DEF Typed, Ids
  <2>4. ASSUME NEW a \in Aliases, NEW js, NEW ids, Turn(a, js, ids) PROVE Ids' = Ids
    BY <2>4 DEF Turn, Ids
  <2>5. ASSUME NEW set, NEW outcome, TellAll(set, outcome) \/ CancelQueued(set) PROVE Ids' = Ids
    BY <2>5 DEF TellAll, CancelQueued, Ids
  <2>6. Sweeps \/ Clears => Ids' = Ids
    BY DEF Sweeps, Clears, Ids
  <2>7. ASSUME NEW a \in Aliases, Works(a) \/ Cancelled(a) \/ StopReturns(a) \/ StopTells(a)
        PROVE  Ids' = Ids
    <3>1. Starts(a) \/ (\E outcome \in Settled : Ends(a, outcome)) => Ids' = Ids
      BY <2>4 DEF Starts, Ends
    <3>2. TellsExpired(a) \/ StopReturns(a) \/ StopTells(a) => Ids' = Ids
      BY <2>5 DEF TellsExpired, StopReturns, StopTells
    <3>3. Submits(a) \/ SubmitAnswered(a) \/ WaitAnswered(a) \/ WaitTimesOut(a) => Ids' = Ids
      BY <2>1, <2>3 DEF Submits, SubmitAnswered, WaitAnswered, WaitTimesOut, queueVars
    <3>4. Cancelled(a) => Ids' = Ids
      BY <2>1, <2>3 DEF Cancelled, queueVars
    <3>5. QED BY <2>7, <3>1, <3>2, <3>3, <3>4 DEF Works
  <2>8. ASSUME NEW j \in Ids, Ages(j) PROVE Ids' = Ids
    <3>1. jobs' = [jobs EXCEPT ![j] = [jobs[j] EXCEPT !.aged = TRUE]]
      BY <1>t, <2>8 DEF Ages, Typed, Ids
    <3>2. QED BY <2>3, <3>1
  <2>9. (\E a \in Aliases, selected \in {All} \cup Ids : CancelCommand(a, selected))
        \/ CancelTells \/ SweepTells => Ids' = Ids
    BY <2>5 DEF CancelCommand, CancelTells, SweepTells
  <2>10. CASE \/ UNCHANGED vars
              \/ \E a \in Aliases : SubmitFails(a) \/ WaitFails(a) \/ StopCommand(a) \/ StartCommand(a)
              \/ \E j \in Ids : JobStarts(j) \/ JobSettles(j)
              \/ \E p \in posts : LatePost(p)
              \/ CancelReaches \/ Terminate
    BY <2>1, <2>10 DEF vars, SubmitFails, WaitFails, StopCommand, StartCommand, JobStarts, JobSettles,
                       LatePost, CancelReaches, Terminate, queueVars
  <2>11. QED BY <2>6, <2>7, <2>8, <2>9, <2>10 DEF Next, Commands, Faults
<1>g. ASSUME sweep' \subseteq Idle, Cancelling' \subseteq Idle,
             \A a \in Aliases : /\ Queued(a)' \subseteq Queued(a)
                                /\ Expiring(a)' \subseteq Idle /\ Stopped(a)' \subseteq Idle
                                /\ active'[a] \in {active[a], None} \cup Queued(a),
             plugin' = "up" => plugin = "up"
      PROVE  Drains
  BY <1>i, <1>g, IdlePlaces DEF Drains
<1>p. /\ sweep \subseteq Idle /\ Cancelling \subseteq Idle
      /\ \A a \in Aliases : Queued(a) \subseteq Idle /\ Expiring(a) \subseteq Idle /\ Stopped(a) \subseteq Idle
  BY IdlePlaces
<1>1. ASSUME NEW a \in Aliases, NEW js, NEW ids, NEW expired, TurnSplits(a, js, ids, expired),
             UNCHANGED <<sweep, cancel, stop, plugin>>
      PROVE  Drains
  <2>1. /\ expired \subseteq Queued(a) /\ Queued(a)' \subseteq Queued(a)
        /\ active'[a] \in {None} \cup Queued(a)
        /\ \A b \in Aliases \ {a} : queues'[b] = queues[b] /\ active'[b] = active[b]
                                     /\ workers'[b] = workers[b]
    BY <1>1 DEF TurnSplits, Queued
  <2>2. Expiring(a)' \subseteq expired
    BY <1>1 DEF TurnSplits, Expiring, Working
  <2>3. \A b \in Aliases \ {a} : Queued(b)' = Queued(b) /\ Expiring(b)' = Expiring(b)
    BY <2>1 DEF Queued, Expiring
  <2>4. QED BY <1>1, <1>g, <1>p, <1>s, <1>c, <2>1, <2>2, <2>3
<1>2. ASSUME NEW a \in Aliases, workers[a] \in Worker,
             \/ \E pc \in {"submit", "submitted", "wait"} \cup Settled :
                  workers' = [workers EXCEPT ![a].pc = pc]
             \/ workers' = [workers EXCEPT ![a].pc = "wait", ![a].attempts = 0]
             \/ /\ workers[a].attempts + 1 < MaxRetries
                /\ \/ workers' = [workers EXCEPT ![a].attempts = @ + 1]
                   \/ workers' = [workers EXCEPT ![a].attempts = @ + 1, ![a].pc = "submit"],
             workers[a] # None, UNCHANGED <<queues, active, sweep, cancel, stop, plugin>>
      PROVE  Drains
  <2>1. PICK w \in Worker : workers' = [workers EXCEPT ![a] = w] /\ w.tell = workers[a].tell
    BY <1>t, <1>2, CallsGoOn
  <2>2. Expiring(a)' \subseteq Expiring(a) /\ \A b \in Aliases \ {a} : Expiring(b)' = Expiring(b)
    BY <1>t, <1>2, <2>1 DEF Expiring
  <2>3. QED BY <1>2, <1>g, <1>p, <1>s, <1>c, <1>u, <2>2
<1>3. ASSUME NEW a \in Aliases, Works(a) PROVE Drains
  <2>1. CASE Starts(a)
    <3>1. \E expired \in SUBSET Ids : TurnSplits(a, jobs, known, expired)
      BY <1>t, <2>1, TurnEffect DEF Starts
    <3>2. QED BY <1>1, <2>1, <3>1 DEF Starts
  <2>2. ASSUME NEW outcome \in Settled, Ends(a, outcome) PROVE Drains
    <3> DEFINE j  == workers[a].job
               js == [jobs EXCEPT ![j] = ReleasedAll(Told(@, outcome))]
    <3>1. \E expired \in SUBSET Ids : TurnSplits(a, js, known \ {j}, expired)
      BY <1>t, <2>2, TurnEffect DEF Ends
    <3>2. QED BY <1>1, <2>2, <3>1 DEF Ends
  <2>3. CASE TellsExpired(a)
    <3>1. \A b \in Aliases : Expiring(b)' \subseteq Expiring(b)
      BY <1>t, <2>3 DEF TellsExpired, Expiring, Working
    <3>2. UNCHANGED <<queues, active, sweep, cancel, stop, plugin>>
      BY <2>3 DEF TellsExpired
    <3>3. QED BY <1>g, <1>p, <1>s, <1>c, <1>u, <3>1, <3>2
  <2>4. CASE Submits(a) \/ SubmitAnswered(a) \/ WaitAnswered(a) \/ WaitTimesOut(a)
    <3>1. workers[a] # None /\ workers[a] \in Worker
          /\ UNCHANGED <<queues, active, sweep, cancel, stop, plugin>>
      BY <1>t, <2>4 DEF Submits, SubmitAnswered, WaitAnswered, WaitTimesOut, AtPc, queueVars
    <3>2. \/ \E pc \in {"submit", "submitted", "wait"} \cup Settled :
               workers' = [workers EXCEPT ![a].pc = pc]
          \/ workers' = [workers EXCEPT ![a].pc = "wait", ![a].attempts = 0]
      BY <2>4 DEF Submits, SubmitAnswered, WaitAnswered, WaitTimesOut, Goes, Settled
    <3>3. QED BY <1>2, <3>1, <3>2
  <2>5. QED BY <1>3, <2>1, <2>2, <2>3, <2>4 DEF Works
<1>4. ASSUME NEW a \in Aliases, SubmitFails(a) \/ WaitFails(a) PROVE Drains
  <2>1. workers[a] # None /\ workers[a] \in Worker
        /\ UNCHANGED <<queues, active, sweep, cancel, stop, plugin>>
    BY <1>t, <1>4 DEF SubmitFails, WaitFails, AtPc, queueVars
  <2>2. \/ workers' = [workers EXCEPT ![a].pc = "failed"]
        \/ /\ workers[a].attempts + 1 < MaxRetries
           /\ \/ workers' = [workers EXCEPT ![a].attempts = @ + 1]
              \/ workers' = [workers EXCEPT ![a].attempts = @ + 1, ![a].pc = "submit"]
    BY <1>4 DEF SubmitFails, WaitFails, Goes
  <2>3. QED BY <1>2, <2>1, <2>2 DEF Settled
<1>5. ASSUME NEW a \in Aliases, Cancelled(a) PROVE Drains
  <2>1. UNCHANGED <<queues, sweep, cancel, stop, plugin>>
        /\ \A b \in Aliases : active'[b] \in {active[b], None}
    BY <1>5, <1>t DEF Cancelled, queueVars
  <2>2. \A b \in Aliases : Expiring(b)' \subseteq Expiring(b)
    BY <1>5, <1>t DEF Cancelled, Expiring
  <2>3. QED BY <1>g, <1>p, <1>s, <1>c, <1>u, <2>1, <2>2
<1>6. ASSUME NEW a \in Aliases, StopCommand(a) \/ StopTells(a) PROVE Drains
  <2>1. UNCHANGED <<queues, active, workers, sweep, cancel, plugin>>
    BY <1>6 DEF StopCommand, StopTells, queueVars
  <2>2. \A b \in Aliases : Stopped(b)' \subseteq Stopped(b)
    BY <1>6, <1>t DEF StopCommand, StopTells, Stopped
  <2>3. QED BY <1>g, <1>p, <1>w, <1>c, <1>u, <2>1, <2>2
<1>7. ASSUME NEW a \in Aliases, StopReturns(a) PROVE Drains
  <2>1. /\ Removed(Queued(a)) /\ stop' = [stop EXCEPT ![a] = Queued(a)]
        /\ UNCHANGED <<active, workers, sweep, cancel, plugin>>
    BY <1>7 DEF StopReturns, CancelQueued, Queued
  <2>2. \A b \in Aliases : Queued(b)' \subseteq Queued(b)
    BY <1>t, <2>1, RemovedEffect DEF Queued
  <2>3. Stopped(a)' \subseteq Queued(a) /\ \A b \in Aliases \ {a} : Stopped(b)' = Stopped(b)
    BY <1>t, <2>1 DEF Stopped
  <2>4. QED BY <1>g, <1>p, <1>w, <1>c, <2>1, <2>2, <2>3
<1>8. ASSUME NEW a \in Aliases, NEW selected \in {All} \cup Ids, CancelCommand(a, selected)
      PROVE  Drains
  <2> DEFINE set == IF selected = All THEN ToSet(queues[a]) ELSE ToSet(queues[a]) \cap {selected}
  <2>1. /\ Removed(set) /\ UNCHANGED <<active, workers, sweep, stop, plugin>>
        /\ cancel' = [alias |-> a, selected |-> selected, tell |-> set, target |-> None]
    BY <1>8 DEF CancelCommand, CancelQueued
  <2>2. set \subseteq Queued(a)
    BY DEF Queued
  <2> HIDE DEF set
  <2>3. \A b \in Aliases : Queued(b)' \subseteq Queued(b)
    BY <1>t, <2>1, RemovedEffect DEF Queued
  <2>4. Cancelling' \subseteq set
    BY <2>1 DEF Cancelling
  <2>5. QED BY <1>g, <1>p, <1>w, <1>s, <2>1, <2>2, <2>3, <2>4
<1>9. CASE CancelTells \/ CancelReaches
  <2>1. Cancelling' = {}
    <3>1. cancel' = None \/ (cancel # None /\ cancel' = [cancel EXCEPT !.target = active[cancel.alias]]
                             /\ active[cancel.alias] # None)
      BY <1>9 DEF CancelTells, CancelReaches
    <3>2. QED BY <1>t, <3>1 DEF Cancelling, Typed
  <2>2. UNCHANGED <<queues, active, workers, sweep, stop, plugin>>
    BY <1>9 DEF CancelTells, CancelReaches, queueVars
  <2>3. QED BY <1>g, <1>p, <1>w, <1>s, <1>u, <2>1, <2>2
<1>10. CASE Sweeps
  <2> DEFINE old == {j \in Waiting : jobs[j].aged}
  <2>1. Removed(old) /\ sweep' = old /\ UNCHANGED <<active, workers, cancel, stop, plugin>>
    BY <1>10 DEF Sweeps
  <2>2. old \subseteq Idle
    BY <1>p DEF Waiting, Queued
  <2> HIDE DEF old
  <2>3. \A b \in Aliases : Queued(b)' \subseteq Queued(b)
    BY <1>t, <2>1, RemovedEffect DEF Queued
  <2>4. QED BY <1>g, <1>p, <1>w, <1>s, <1>c, <2>1, <2>2, <2>3
<1>11. CASE SweepTells \/ Terminate
  BY <1>11, <1>g, <1>p, <1>w, <1>s, <1>c, <1>u DEF SweepTells, Terminate, queueVars
<1>12. CASE Clears
  <2>1. \A a \in Aliases : queues'[a] = <<>> /\ active'[a] = None
    BY <1>12 DEF Clears
  <2>2. plugin' = "ended" /\ \A a \in Aliases : Queued(a)' = {}
    BY <1>12, <2>1 DEF Clears, Queued, ToSet
  <2>3. QED BY <1>12, <1>g, <1>p, <1>w, <1>s, <1>c, <2>1, <2>2 DEF Clears
<1>13. CASE \/ UNCHANGED vars
            \/ \E j \in Ids : Ages(j) \/ JobStarts(j) \/ JobSettles(j)
            \/ \E a \in Aliases : StartCommand(a)
            \/ \E p \in posts : LatePost(p)
  <2>1. UNCHANGED <<queues, active, workers, sweep, cancel, stop, plugin>>
    BY <1>13 DEF vars, Ages, JobStarts, JobSettles, StartCommand, LatePost, queueVars
  <2>2. QED BY <1>g, <1>p, <1>w, <1>s, <1>c, <1>u, <2>1
<1>14. QED
  BY <1>3, <1>4, <1>5, <1>6, <1>7, <1>8, <1>9, <1>10, <1>11, <1>12, <1>13
     DEF Next, Commands, Faults

-----------------------------------------------------------------------------
\* What a step may do to a job: tell of it once and for all, cancel it only
\* in a queue, and have the controller hear of it only when it is active.
Proper(j) ==
  /\ \/ jobs'[j].told = jobs[j].told
     \/ /\ jobs[j].told = <<>> /\ j \notin Idle' /\ \A a \in Aliases : active'[a] # j
        /\ \E outcome \in Verdicts : /\ jobs'[j].told = <<outcome>>
                                     /\ outcome = "expired" => j \in Idle
  /\ jobs'[j].cancel =>
       \/ jobs[j].cancel \/ plugin' # "up"
       \/ j \in Idle /\ \A a \in Aliases : j \notin Queued(a)' \cup {active'[a]}
  /\ ctl'[j] # ctl[j] => ctl[j] # None \/ \E p \in posts : p.job = j
  /\ \A p \in posts' :
       p.job = j => p \in posts \/ (plugin = "up" /\ \E a \in Aliases : active[a] = j)

(* Such steps keep what the user has been told final.                      *)
LEMMA ProperIsFinal ==
  ASSUME IInv, Drains, \A j \in Ids : Proper(j)
  PROVE  Untold' /\ Unknown'
<1>t. /\ Typed /\ Placed /\ Untold /\ Unknown /\ Ids' = Ids /\ Idle' \subseteq Idle
      /\ \A a \in Aliases : Queued(a)' \subseteq Queued(a)
                            /\ active'[a] \in {active[a], None} \cup Queued(a)
      /\ plugin' = "up" => plugin = "up"
      /\ None \notin Ids
  BY Basics DEF IInv, Drains
<1>a. /\ \A a, b \in Aliases : active[a] \notin Queued(b)
      /\ \A a \in Aliases : active[a] \notin Idle \/ active[a] = None
  <2>1. Typed /\ Placed
    BY <1>t
  <2>2. QED BY <2>1, Apart, IdlePlaces
<1>q. \A a \in Aliases : Queued(a) \subseteq Idle
  BY IdlePlaces
<1>1. SUFFICES ASSUME NEW j \in Ids
      PROVE  /\ Len(jobs'[j].told) <= 1
             /\ j \in Idle' => jobs'[j].told = <<>>
             /\ \A a \in Aliases : active'[a] = j => jobs'[j].told = <<>>
             /\ j \in Idle' \/ Dropped(j)' => ctl'[j] = None /\ \A p \in posts' : p.job # j
             /\ plugin' = "up" /\ jobs'[j].cancel =>
                  \A a \in Aliases : j \notin Queued(a)' \cup {active'[a]}
  BY <1>t DEF Untold, Unknown
<1>j. Proper(j) /\ j # None
  BY <1>t
<1>u. /\ Len(jobs[j].told) <= 1
      /\ j \in Idle => jobs[j].told = <<>>
      /\ \A a \in Aliases : active[a] = j => jobs[j].told = <<>>
      /\ j \in Idle \/ Dropped(j) => ctl[j] = None /\ \A p \in posts : p.job # j
      /\ plugin = "up" /\ jobs[j].cancel => \A a \in Aliases : j \notin Queued(a) \cup {active[a]}
  BY <1>t DEF Untold, Unknown
<1>2. Len(jobs'[j].told) <= 1 /\ (j \in Idle' => jobs'[j].told = <<>>)
  <2>1. \A outcome : Len(<<outcome>>) <= 1
    OBVIOUS
  <2>2. Len(jobs'[j].told) <= 1
    BY <1>j, <1>u, <2>1 DEF Proper
  <2>3. j \in Idle' => jobs'[j].told = <<>>
    BY <1>t, <1>j, <1>u DEF Proper
  <2>4. QED BY <2>2, <2>3
<1>3. ASSUME NEW a \in Aliases, active'[a] = j PROVE jobs'[j].told = <<>>
  BY <1>t, <1>q, <1>j, <1>u, <1>3 DEF Proper
<1>4. ASSUME plugin' = "up", jobs'[j].cancel, NEW a \in Aliases
      PROVE  j \notin Queued(a)' \cup {active'[a]}
  BY <1>t, <1>j, <1>u, <1>4 DEF Proper
<1>5. ASSUME j \in Idle' \/ Dropped(j)'
      PROVE  ctl'[j] = None /\ \A p \in posts' : p.job # j
  <2>1. j \in Idle \/ Dropped(j)
    <3>1. CASE j \in Idle'
      BY <1>t, <3>1
    <3>2. CASE jobs'[j].told = <<"expired">>
      <4>1. ASSUME NEW outcome, <<outcome>> = <<"expired">> PROVE outcome = "expired"
        BY <4>1
      <4>2. QED BY <1>j, <3>2, <4>1 DEF Proper, Dropped
    <3>3. CASE plugin' = "up" /\ jobs'[j].cancel
      BY <1>t, <1>j, <3>3 DEF Proper, Dropped
    <3>4. QED BY <1>5, <3>1, <3>2, <3>3 DEF Dropped
  <2>2. ctl[j] = None /\ \A p \in posts : p.job # j
    BY <1>u, <2>1
  <2>3. ctl'[j] = None
    BY <1>j, <2>2 DEF Proper
  <2>4. ASSUME plugin = "up", NEW a \in Aliases, active[a] = j PROVE FALSE
    <3>1. j \notin Idle /\ jobs[j].told = <<>> /\ ~jobs[j].cancel
      BY <1>a, <1>j, <1>u, <2>4
    <3>2. ~Dropped(j)
      BY <3>1 DEF Dropped
    <3>3. QED BY <2>1, <3>1, <3>2
  <2>5. QED BY <1>j, <2>2, <2>3, <2>4 DEF Proper
<1>6. QED BY <1>2, <1>3, <1>4, <1>5

LEMMA JobFields ==
  ASSUME NEW job \in Job
  PROVE  /\ Released(job).told = job.told /\ Released(job).cancel = job.cancel
         /\ ReleasedAll(job).told = job.told /\ ReleasedAll(job).cancel = job.cancel
         /\ [Released(job) EXCEPT !.cancel = TRUE].told = job.told
         /\ [ReleasedAll(job) EXCEPT !.cancel = TRUE].told = job.told
         /\ [job EXCEPT !.aged = TRUE].told = job.told
         /\ [job EXCEPT !.aged = TRUE].cancel = job.cancel
         /\ [job EXCEPT !.aged = TRUE].input = job.input
         /\ \A outcome \in Verdicts :
              /\ Told(job, outcome).cancel = job.cancel /\ Told(job, outcome).input = job.input
              /\ job.told = <<>> => Told(job, outcome).told \in {<<>>, <<outcome>>}
<1>1. \A outcome : Append(<<>>, outcome) = <<outcome>>
  OBVIOUS
<1>2. QED BY <1>1 DEF Job, Released, ReleasedAll, Told

LEMMA StepsProper ==
  ASSUME IInv, [Next]_vars, Drains
  PROVE  \A j \in Ids : Proper(j)
<1>t. /\ Typed /\ Slots /\ Placed /\ Untold /\ None \notin Ids
      /\ jobs \in [Ids -> Job] /\ ctl \in [Ids -> Statuses \cup {None}]
      /\ queues \in [Aliases -> Seq(Ids)] /\ active \in [Aliases -> Ids \cup {None}]
      /\ workers \in [Aliases -> Worker \cup {None}]
      /\ stop \in [Aliases -> (SUBSET Ids) \cup {None}]
      /\ plugin' = "up" => plugin = "up"
  BY Basics DEF IInv, Typed, Drains
<1>d. /\ Idle' \subseteq Idle
      /\ \A a \in Aliases : Queued(a)' \subseteq Queued(a)
                            /\ active'[a] \in {active[a], None} \cup Queued(a)
  BY DEF Drains
<1>p. /\ sweep \subseteq Idle /\ Cancelling \subseteq Idle
      /\ \A a \in Aliases : Queued(a) \subseteq Idle /\ Expiring(a) \subseteq Idle /\ Stopped(a) \subseteq Idle
      /\ \A a \in Aliases : active[a] \notin Idle \/ active[a] = None
  <2>1. Typed /\ Placed
    BY <1>t
  <2>2. QED BY <2>1, Apart, IdlePlaces
\* The places are apart.
<1>m. /\ sweep \cap Cancelling = {}
      /\ \A a \in Aliases : (sweep \cup Cancelling) \cap
                               (Queued(a) \cup Expiring(a) \cup Stopped(a)) = {}
      /\ \A a, b \in Aliases :
           /\ Expiring(a) \cap (Queued(b) \cup Stopped(b)) = {} /\ Stopped(a) \cap Queued(b) = {}
           /\ a # b => Expiring(a) \cap Expiring(b) = {} /\ Stopped(a) \cap Stopped(b) = {}
  <2>1. \A a, b \in Aliases : a # b => OfAlias(a) \cap OfAlias(b) = {}
    BY DEF OfAlias
  <2>2. QED BY <1>t, <2>1 DEF Placed
<1>k. \A j \in Ids : jobs[j] \in Job
  BY <1>t
\* Jobs of which nobody is told, and that nobody cancels.
<1> DEFINE Quiet(j) == jobs'[j].told = jobs[j].told /\ jobs'[j].cancel = jobs[j].cancel
           Unheard  == UNCHANGED <<posts, ctl>>
<1>u. Unheard /\ (\A j \in Ids : Quiet(j)) => \A j \in Ids : Proper(j)
  BY DEF Proper
<1>j. UNCHANGED jobs => \A j \in Ids : Quiet(j)
  OBVIOUS
\* Those that are told of were not told of before, and leave their place.
<1>o. ASSUME NEW set \in SUBSET Idle, NEW outcome \in Verdicts, TellAll(set, outcome), Unheard,
             set \cap Idle' = {}, UNCHANGED active
      PROVE  \A j \in Ids : Proper(j)
  <2>1. TAKE j \in Ids
  <2>2. jobs[j] \in Job /\ jobs'[j] = IF j \in set THEN Told(jobs[j], outcome) ELSE jobs[j]
    BY <1>k, <1>o DEF TellAll
  <2>3. CASE j \in set
    <3>1. /\ jobs[j].told = <<>> /\ j \in Idle /\ j \notin Idle'
          /\ \A a \in Aliases : active'[a] # j
      BY <1>t, <1>p, <1>o, <2>3 DEF Untold
    <3>2. jobs'[j].cancel = jobs[j].cancel /\ jobs'[j].told \in {<<>>, <<outcome>>}
      BY <2>2, <2>3, <3>1, JobFields
    <3>3. QED BY <1>o, <3>1, <3>2 DEF Proper
  <2>4. CASE j \notin set
    BY <1>o, <2>2, <2>4 DEF Proper
  <2>5. QED BY <2>3, <2>4
<1>v. Settled \subseteq Verdicts /\ {"expired", "cancelled"} \subseteq Verdicts /\ "expired" \notin Settled
  BY DEF Verdicts, Settled
\* Those that are cancelled wait in a queue, and leave it.
<1>c. ASSUME NEW set, CancelQueued(set), Unheard, UNCHANGED active,
             \A j \in set : \E a \in Aliases : j \in Queued(a)
      PROVE  \A j \in Ids : Proper(j)
  <2>1. TAKE j \in Ids
  <2>2. jobs[j] \in Job
        /\ jobs'[j] = IF j \in set THEN [Released(jobs[j]) EXCEPT !.cancel = TRUE] ELSE jobs[j]
    BY <1>k, <1>c DEF CancelQueued
  <2>3. CASE j \in set
    <3>1. \A a \in Aliases : j \notin Queued(a)'
      BY <1>t, <1>c, <2>3, RemovedEffect DEF CancelQueued, Queued
    <3>2. j \in Idle /\ \A a \in Aliases : active'[a] # j
      BY <1>t, <1>p, <1>c, <2>3
    <3>3. jobs'[j].told = jobs[j].told
      BY <2>2, <2>3, JobFields
    <3>4. QED BY <1>c, <3>1, <3>2, <3>3 DEF Proper
  <2>4. CASE j \notin set
    BY <1>c, <2>2, <2>4 DEF Proper
  <2>5. QED BY <2>3, <2>4
\* The controller changes what it has, or hears of a job that was sent to it.
<1>h. ASSUME \A j \in Ids : Quiet(j), posts' \subseteq posts,
             \A j \in Ids : ctl'[j] = ctl[j] \/ ctl[j] # None \/ \E p \in posts : p.job = j
      PROVE  \A j \in Ids : Proper(j)
  BY <1>h DEF Proper
<1>0. CASE UNCHANGED vars
  BY <1>0, <1>j, <1>u DEF vars, queueVars, remote
<1>1. ASSUME NEW a \in Aliases, Works(a) PROVE \A j \in Ids : Proper(j)
  <2>1. CASE Starts(a)
    <3>1. \E expired \in SUBSET Ids : TurnSplits(a, jobs, known, expired)
      BY <1>t, <2>1, TurnEffect DEF Starts
    <3>2. \A j \in Ids : Quiet(j)
      BY <1>k, <3>1, JobFields DEF TurnSplits
    <3>3. QED BY <1>u, <2>1, <3>2 DEF Starts, remote
  <2>2. ASSUME NEW outcome \in Settled, Ends(a, outcome) PROVE \A j \in Ids : Proper(j)
    <3> DEFINE j  == workers[a].job
               js == [jobs EXCEPT ![j] = ReleasedAll(Told(@, outcome))]
    <3>1. \E expired \in SUBSET Ids : TurnSplits(a, js, known \ {j}, expired)
      BY <1>t, <2>2, TurnEffect DEF Ends
    <3>2. j \in Ids /\ active[a] = j /\ Unheard
      BY <1>t, <2>2 DEF Ends, AtPc, Slots, Settled, remote
    <3>3. j \notin Idle' /\ \A b \in Aliases : active'[b] # j
      <4>1. \A b \in Aliases : b # a => active[b] # j
        BY <1>t, <3>2, Apart
      <4>2. \A b \in Aliases : b # a => active'[b] = active[b]
        BY <3>1 DEF TurnSplits
      <4>3. active'[a] \in Queued(a) \cup {None}
        BY <3>1 DEF TurnSplits, Queued
      <4>4. QED BY <1>t, <1>d, <1>p, <3>2, <4>1, <4>2, <4>3
    <3>4. \A i \in Ids \ {j} : js[i] = jobs[i]
      BY <1>t
    <3>5. /\ js[j] = ReleasedAll(Told(jobs[j], outcome)) /\ Told(jobs[j], outcome) \in Job
          /\ js[j] \in Job
      BY <1>t, <1>v, <1>k, <3>2, JobKinds
    <3>6. js[j].told \in {<<>>, <<outcome>>} /\ js[j].cancel = jobs[j].cancel
      <4>1. jobs[j].told = <<>>
        BY <1>t, <3>2 DEF Untold
      <4>2. /\ Told(jobs[j], outcome).told \in {<<>>, <<outcome>>}
            /\ Told(jobs[j], outcome).cancel = jobs[j].cancel
        BY <1>k, <1>v, <3>2, <4>1, JobFields
      <4>3. QED BY <3>5, <4>2, JobFields
    <3> HIDE DEF js
    <3>7. \A i \in Ids : jobs'[i].told = js[i].told /\ jobs'[i].cancel = js[i].cancel
      BY <1>k, <3>1, <3>4, <3>5, JobFields DEF TurnSplits
    <3>8. jobs[j].told = <<>>
      BY <1>t, <3>2 DEF Untold
    <3>9. Proper(j)
      BY <1>v, <3>2, <3>3, <3>6, <3>7, <3>8 DEF Proper
    <3>10. \A i \in Ids \ {j} : Quiet(i)
      BY <3>4, <3>7
    <3>11. \A i \in Ids \ {j} : Proper(i)
      BY <3>2, <3>10 DEF Proper
    <3>12. QED BY <3>9, <3>11
  <2>3. CASE TellsExpired(a)
    <3>1. workers[a] # None /\ Expiring(a) = workers[a].tell
      BY <2>3 DEF TellsExpired, AtPc, Expiring
    <3>2. Expiring(a)' = {} /\ UNCHANGED <<queues, active, sweep, cancel, stop>>
      BY <1>t, <2>3 DEF TellsExpired, Expiring, Working
    <3>3. \A b \in Aliases \ {a} : Expiring(b)' = Expiring(b)
      BY <1>t, <2>3 DEF TellsExpired, Expiring
    <3>4. Expiring(a) \cap Idle' = {}
      <4>1. \A b \in Aliases : Queued(b)' = Queued(b) /\ Stopped(b)' = Stopped(b)
        BY <3>2 DEF Queued, Stopped
      <4>2. Cancelling' = Cancelling
        BY <3>2 DEF Cancelling
      <4>3. QED BY <1>m, <3>2, <3>3, <4>1, <4>2, IdlePlaces
    <3>5. TellAll(Expiring(a), "expired") /\ Unheard
      BY <2>3, <3>1 DEF TellsExpired, remote
    <3>6. QED BY <1>o, <1>p, <1>v, <3>2, <3>4, <3>5
  <2>4. CASE Submits(a) \/ SubmitAnswered(a) \/ WaitAnswered(a) \/ WaitTimesOut(a)
    <3>1. workers[a] \in Worker /\ workers[a].job \in Ids /\ plugin = "up" /\ active[a] = workers[a].job
      BY <1>t, <2>4 DEF Submits, SubmitAnswered, WaitAnswered, WaitTimesOut, AtPc, Slots, Settled
    <3>2. \A j \in Ids : Quiet(j)
      <4>1. UNCHANGED jobs \/ jobs' = [jobs EXCEPT ![workers[a].job] = Released(@)]
        BY <2>4 DEF Submits, SubmitAnswered, WaitAnswered, WaitTimesOut, queueVars
      <4>2. QED BY <1>t, <1>k, <3>1, <4>1, JobFields
    <3>3. CASE Submits(a)
      <4>1. /\ posts' = posts \cup {[job |-> workers[a].job, input |-> jobs[workers[a].job].input]}
            /\ UNCHANGED ctl
        BY <3>3 DEF Submits
      <4>2. QED BY <3>1, <3>2, <4>1 DEF Proper
    <3>4. CASE SubmitAnswered(a)
      <4>1. posts' \subseteq posts /\ \E p \in posts : p.job = workers[a].job
        BY <3>4 DEF SubmitAnswered, PostOf
      <4>2. \A j \in Ids : j # workers[a].job => ctl'[j] = ctl[j]
        BY <1>t, <3>4 DEF SubmitAnswered
      <4>3. QED BY <1>h, <3>2, <4>1, <4>2
    <3>5. CASE WaitAnswered(a) \/ WaitTimesOut(a)
      BY <1>u, <3>2, <3>5 DEF WaitAnswered, WaitTimesOut, remote
    <3>6. QED BY <2>4, <3>3, <3>4, <3>5
  <2>5. QED BY <1>1, <2>1, <2>2, <2>3, <2>4 DEF Works
<1>2. ASSUME NEW a \in Aliases, SubmitFails(a) \/ WaitFails(a) PROVE \A j \in Ids : Proper(j)
  <2>1. posts' \subseteq posts /\ UNCHANGED <<jobs, ctl>>
    BY <1>2 DEF SubmitFails, WaitFails, queueVars, remote
  <2>2. QED BY <1>j, <1>h, <2>1
<1>3. ASSUME NEW a \in Aliases, Cancelled(a) PROVE \A j \in Ids : Proper(j)
  <2>1. UNCHANGED jobs \/ jobs' = [jobs EXCEPT ![workers[a].job] = ReleasedAll(@)]
    BY <1>3 DEF Cancelled, queueVars
  <2>2. \A j \in Ids : Quiet(j)
    BY <1>t, <1>k, <2>1, JobFields
  <2>3. QED BY <1>3, <1>u, <2>2 DEF Cancelled, remote
<1>4. ASSUME NEW a \in Aliases, StopCommand(a) PROVE \A j \in Ids : Proper(j)
  <2>1. UNCHANGED <<jobs, posts>>
        /\ \A j \in Ids : ctl'[j] = ctl[j] \/ ctl[j] \in {"queued", "running"}
    BY <1>4 DEF StopCommand, queueVars
  <2>2. QED BY <1>j, <1>h, <2>1, NoneAssumption DEF Statuses
<1>5. ASSUME NEW a \in Aliases, StopReturns(a) PROVE \A j \in Ids : Proper(j)
  <2>1. CancelQueued(Queued(a)) /\ Unheard /\ UNCHANGED active
    BY <1>5 DEF StopReturns, Queued
  <2>2. QED BY <1>c, <2>1
<1>6. ASSUME NEW a \in Aliases, StopTells(a) PROVE \A j \in Ids : Proper(j)
  <2>1. /\ TellAll(Stopped(a), "cancelled") /\ Unheard
        /\ UNCHANGED <<queues, active, workers, sweep, cancel>>
    BY <1>6 DEF StopTells, Stopped, remote
  <2>2. Stopped(a)' = {} /\ \A b \in Aliases \ {a} : Stopped(b)' = Stopped(b)
    BY <1>6, <1>t DEF StopTells, Stopped
  <2>3. Stopped(a) \cap Idle' = {}
    <3>1. \A b \in Aliases : Queued(b)' = Queued(b) /\ Expiring(b)' = Expiring(b)
      BY <2>1 DEF Queued, Expiring
    <3>2. Cancelling' = Cancelling
      BY <2>1 DEF Cancelling
    <3>3. QED BY <1>m, <2>1, <2>2, <3>1, <3>2, IdlePlaces
  <2>4. QED BY <1>o, <1>p, <1>v, <2>1, <2>3
<1>7. ASSUME NEW a \in Aliases, NEW selected \in {All} \cup Ids, CancelCommand(a, selected)
      PROVE  \A j \in Ids : Proper(j)
  <2> DEFINE set == IF selected = All THEN ToSet(queues[a]) ELSE ToSet(queues[a]) \cap {selected}
  <2>1. CancelQueued(set) /\ Unheard /\ UNCHANGED active
    BY <1>7 DEF CancelCommand, remote
  <2>2. set \subseteq Queued(a)
    BY DEF Queued
  <2>3. QED BY <1>c, <2>1, <2>2
<1>8. CASE CancelTells
  <2>1. /\ TellAll(Cancelling, "cancelled") /\ Unheard
        /\ UNCHANGED <<queues, active, workers, sweep, stop>>
    BY <1>8 DEF CancelTells, Cancelling, remote
  <2>2. Cancelling' = {}
    BY <1>8, <1>t DEF CancelTells, Cancelling, Typed
  <2>3. Cancelling \cap Idle' = {}
    <3>1. \A b \in Aliases : /\ Queued(b)' = Queued(b) /\ Expiring(b)' = Expiring(b)
                             /\ Stopped(b)' = Stopped(b)
      BY <2>1 DEF Queued, Expiring, Stopped
    <3>2. QED BY <1>m, <2>1, <2>2, <3>1, IdlePlaces
  <2>4. QED BY <1>o, <1>p, <1>v, <2>1, <2>3
<1>9. CASE CancelReaches
  <2>1. UNCHANGED <<jobs, posts>>
        /\ \A j \in Ids : ctl'[j] = ctl[j] \/ ctl[j] \in {"queued", "running"}
    BY <1>9, <1>t DEF CancelReaches, queueVars
  <2>2. QED BY <1>j, <1>h, <2>1, NoneAssumption DEF Statuses
<1>10. CASE Sweeps
  <2>1. Unheard /\ \A j \in Ids : jobs'[j] \in {jobs[j], Released(jobs[j])}
    BY <1>10 DEF Sweeps, remote
  <2>2. \A j \in Ids : Quiet(j)
    BY <1>k, <2>1, JobFields
  <2>3. QED BY <1>u, <2>1, <2>2
<1>11. CASE SweepTells
  <2>1. /\ TellAll(sweep, "expired") /\ Unheard /\ sweep' = {}
        /\ UNCHANGED <<queues, active, workers, cancel, stop>>
    BY <1>11 DEF SweepTells, remote
  <2>2. sweep \cap Idle' = {}
    <3>1. \A b \in Aliases : /\ Queued(b)' = Queued(b) /\ Expiring(b)' = Expiring(b)
                             /\ Stopped(b)' = Stopped(b)
      BY <2>1 DEF Queued, Expiring, Stopped
    <3>2. Cancelling' = Cancelling
      BY <2>1 DEF Cancelling
    <3>3. QED BY <1>m, <2>1, <3>1, <3>2, IdlePlaces
  <2>3. QED BY <1>o, <1>p, <1>v, <2>1, <2>2
<1>12. CASE Clears
  <2>1. /\ Unheard /\ plugin' = "ended"
        /\ \A j \in Ids : jobs'[j] \in {jobs[j], [ReleasedAll(jobs[j]) EXCEPT !.cancel = TRUE]}
    BY <1>12 DEF Clears, remote
  <2>2. \A j \in Ids : jobs'[j].told = jobs[j].told
    BY <1>k, <2>1, JobFields
  <2>3. QED BY <2>1, <2>2 DEF Proper
<1>13. ASSUME NEW j \in Ids, Ages(j) PROVE \A i \in Ids : Proper(i)
  <2>1. Unheard /\ jobs' = [jobs EXCEPT ![j] = [jobs[j] EXCEPT !.aged = TRUE]]
    BY <1>13, <1>t DEF Ages, remote
  <2>2. \A i \in Ids : Quiet(i)
    BY <1>t, <1>k, <2>1, JobFields
  <2>3. QED BY <1>u, <2>1, <2>2
<1>14. ASSUME NEW j \in Ids, JobStarts(j) \/ JobSettles(j) PROVE \A i \in Ids : Proper(i)
  <2>1. UNCHANGED <<jobs, posts>>
        /\ \A i \in Ids : ctl'[i] = ctl[i] \/ ctl[i] \in {"queued", "running"}
    BY <1>14, <1>t DEF JobStarts, JobSettles, queueVars
  <2>2. QED BY <1>j, <1>h, <2>1, NoneAssumption DEF Statuses
<1>15. ASSUME NEW p \in posts, LatePost(p) PROVE \A i \in Ids : Proper(i)
  <2>1. UNCHANGED jobs /\ posts' \subseteq posts
        /\ \A i \in Ids : ctl'[i] = ctl[i] \/ i = p.job
    BY <1>15, <1>t DEF LatePost, queueVars
  <2>2. QED BY <1>15, <1>j, <1>h, <2>1
<1>16. CASE Terminate \/ \E a \in Aliases : StartCommand(a)
  BY <1>16, <1>j, <1>u DEF Terminate, StartCommand, queueVars, remote
<1>17. ASSUME NEW a \in Aliases, Enqueue(a) PROVE FALSE
  <2>1. EnqueueAdds(a, Len(jobs) + 1)
    BY <1>17, <1>t, EnqueueEffect
  <2>2. QED BY <2>1 DEF EnqueueAdds, Drains
<1>18. QED
  BY <1>0, <1>1, <1>2, <1>3, <1>4, <1>5, <1>6, <1>7, <1>8, <1>9, <1>10, <1>11, <1>12, <1>13,
     <1>14, <1>15, <1>16, <1>17 DEF Next, Commands, Faults

\* A worker that may yet submit its job.
Early(w) == w # None /\ w.pc \in {"expired", "submit", "submitted"} /\ w.job # None

LEMMA PromptsStays ==
  ASSUME IInv, [Next]_vars
  PROVE  Prompts'
<1>t. /\ Typed /\ Slots /\ Placed /\ None \notin Ids
      /\ jobs \in [Ids -> Job] /\ queues \in [Aliases -> Seq(Ids)]
      /\ active \in [Aliases -> Ids \cup {None}] /\ workers \in [Aliases -> Worker \cup {None}]
  BY Basics DEF IInv, Typed
<1>i. /\ \A p \in posts : p.input
      /\ \A a \in Aliases : /\ \A j \in Queued(a) : jobs[j].input
                            /\ Early(workers[a]) => jobs[workers[a].job].input
  BY DEF IInv, Prompts, SubmitsHaveInput, Early
<1>a. /\ \A a, b \in Aliases : a # b => Queued(a) \cap Queued(b) = {}
      /\ \A a, b \in Aliases : active[a] # None /\ active[a] = active[b] => a = b
      /\ \A a, b \in Aliases : active[a] \notin Queued(b)
      /\ \A a \in Aliases : Queued(a) \subseteq Ids
      /\ \A a \in Aliases : Early(workers[a]) => workers[a].job = active[a] /\ active[a] \in Ids
  <2>1. \A a \in Aliases : Early(workers[a]) => workers[a].job = active[a] /\ active[a] \in Ids
    BY <1>t DEF Slots, Early
  <2>2. QED BY <1>t, <2>1, Apart
<1>k. \A job \in Job : \A outcome \in Verdicts : Told(job, outcome).input = job.input
  BY JobFields
\* The prompt of a job is only dropped when it does not wait and its worker
\* is past the submission.
<1> DEFINE Kept(j) == \/ jobs'[j].input = jobs[j].input
                      \/ \A a \in Aliases : /\ j \notin Queued(a)'
                                            /\ Early(workers'[a]) => workers'[a].job # j
           Same == \A j \in Ids : jobs'[j].input = jobs[j].input
<1>g. ASSUME \A j \in Ids : Kept(j),
             \A a \in Aliases :
               /\ Queued(a)' \subseteq Queued(a)
               /\ Early(workers'[a]) => \/ Early(workers[a]) /\ workers'[a].job = workers[a].job
                                        \/ workers'[a].job \in Queued(a),
             \A p \in posts' : p \in posts \/ p.input
      PROVE  Prompts'
  <2>1. \A p \in posts' : p.input
    BY <1>i, <1>g
  <2>2. ASSUME NEW a \in Aliases, NEW j \in Queued(a)' PROVE jobs'[j].input
    <3>1. j \in Queued(a) /\ j \in Ids
      BY <1>a, <1>g, <2>2
    <3>2. QED BY <1>i, <1>g, <2>2, <3>1
  <2>3. ASSUME NEW a \in Aliases, Early(workers'[a]) PROVE jobs'[workers'[a].job].input
    <3>1. workers'[a].job \in Ids /\ jobs[workers'[a].job].input
      BY <1>a, <1>i, <1>g, <2>3
    <3>2. QED BY <1>g, <2>3, <3>1
  <2>4. QED BY <2>1, <2>2, <2>3 DEF Prompts, SubmitsHaveInput, Early
<1>u. ASSUME Same, UNCHANGED <<queues, workers>>, posts' \subseteq posts PROVE Prompts'
  BY <1>u, <1>g DEF Queued
<1>o. ASSUME NEW set, NEW outcome \in Verdicts, TellAll(set, outcome) PROVE Same
  BY <1>t, <1>k, <1>o DEF TellAll
<1>v. Settled \subseteq Verdicts /\ {"expired", "cancelled"} \subseteq Verdicts
  BY DEF Verdicts, Settled
\* Jobs that are taken out of the queues.
<1>r. ASSUME NEW set, Removed(set), UNCHANGED <<workers, posts>>,
             \A j \in set : \E a \in Aliases : j \in Queued(a),
             \A j \in Ids \ set : jobs'[j] = jobs[j]
      PROVE  Prompts'
  <2>1. \A a \in Aliases : Queued(a)' = Queued(a) \ set
    BY <1>t, <1>r, RemovedEffect DEF Queued
  <2>2. \A j \in set, a \in Aliases : Early(workers[a]) => workers[a].job # j
    BY <1>a, <1>r
  <2>3. \A j \in Ids : Kept(j)
    BY <1>r, <2>1, <2>2
  <2>4. QED BY <1>g, <1>r, <2>1, <2>3
<1>0. CASE UNCHANGED vars
  BY <1>0, <1>u DEF vars, queueVars, remote
<1>1. ASSUME NEW a \in Aliases, Enqueue(a) PROVE Prompts'
  <2> DEFINE n == Len(jobs) + 1
  <2>1. EnqueueAdds(a, n)
    BY <1>1, <1>t, EnqueueEffect
  <2> HIDE DEF n
  <2>2. /\ jobs'[n].input /\ \A j \in Ids : jobs'[j] = jobs[j]
        /\ Queued(a)' = Queued(a) \cup {n} /\ UNCHANGED posts
        /\ \A b \in Aliases \ {a} : Queued(b)' = Queued(b)
    BY <2>1 DEF EnqueueAdds
  <2>3. \A b \in Aliases : Early(workers'[b]) => Early(workers[b]) /\ workers'[b] = workers[b]
    <3>1. UNCHANGED workers \/ workers' = [workers EXCEPT ![a] =
              [pc |-> "start", job |-> None, tell |-> {}, attempts |-> 0]]
      BY <1>1 DEF Enqueue
    <3>2. ~Early([pc |-> "start", job |-> None, tell |-> {}, attempts |-> 0])
      BY DEF Early
    <3>3. QED BY <1>t, <3>1, <3>2
  <2>4. \A b \in Aliases : \A j \in Queued(b)' : jobs'[j].input
    BY <1>i, <1>a, <2>2
  <2>5. \A b \in Aliases : Early(workers'[b]) => jobs'[workers'[b].job].input
    BY <1>i, <1>a, <2>2, <2>3
  <2>6. QED BY <1>i, <2>2, <2>4, <2>5 DEF Prompts, SubmitsHaveInput, Early
<1>2. ASSUME NEW a \in Aliases, NEW js, NEW ids, NEW expired, TurnSplits(a, js, ids, expired),
             \A j \in Ids : j # active[a] => js[j] = jobs[j], UNCHANGED posts
      PROVE  Prompts'
  <2>1. /\ expired \cup Queued(a)' \cup ({active'[a]} \ {None}) = Queued(a)
        /\ expired \cap Queued(a)' = {} /\ active'[a] \notin expired
        /\ \A b \in Aliases \ {a} : queues'[b] = queues[b] /\ active'[b] = active[b]
                                     /\ workers'[b] = workers[b]
        /\ jobs' = [j \in Ids |-> IF j \in expired THEN Released(js[j]) ELSE js[j]]
    BY <1>2 DEF TurnSplits, Queued
  <2>2. \A b \in Aliases \ {a} : Queued(b)' = Queued(b)
    BY <2>1 DEF Queued
  <2>3. Early(workers'[a]) => workers'[a].job = active'[a] /\ active'[a] \in Queued(a)
    <3>1. workers'[a] # None => workers'[a].job = active'[a]
      BY <1>2 DEF TurnSplits, Working
    <3>2. QED BY <2>1, <3>1 DEF Early
  <2>4. ASSUME NEW j \in Ids PROVE Kept(j)
    <3>1. CASE j \in expired
      <4>1. \A b \in Aliases : j \notin Queued(b)'
        BY <1>a, <2>1, <2>2, <3>1
      <4>2. \A b \in Aliases : Early(workers'[b]) => workers'[b].job # j
        BY <1>a, <2>1, <2>3, <3>1
      <4>3. QED BY <4>1, <4>2
    <3>2. CASE j = active[a]
      <4>1. \A b \in Aliases : j \notin Queued(b)'
        BY <1>a, <2>1, <2>2, <3>2
      <4>2. \A b \in Aliases : Early(workers'[b]) => workers'[b].job # j
        BY <1>a, <1>t, <2>1, <2>3, <3>2
      <4>3. QED BY <4>1, <4>2
    <3>3. CASE j \notin expired /\ j # active[a]
      BY <1>2, <2>1, <3>3
    <3>4. QED BY <3>1, <3>2, <3>3
  <2>5. ASSUME NEW b \in Aliases
        PROVE  /\ Queued(b)' \subseteq Queued(b)
               /\ Early(workers'[b]) => \/ Early(workers[b]) /\ workers'[b].job = workers[b].job
                                        \/ workers'[b].job \in Queued(b)
    BY <2>1, <2>2, <2>3
  <2>6. QED BY <1>2, <1>g, <2>4, <2>5
<1>3. ASSUME NEW a \in Aliases, Works(a) PROVE Prompts'
  <2>1. CASE Starts(a)
    <3>1. \E expired \in SUBSET Ids : TurnSplits(a, jobs, known, expired)
      BY <1>t, <2>1, TurnEffect DEF Starts
    <3>2. QED BY <1>2, <2>1, <3>1 DEF Starts, remote
  <2>2. ASSUME NEW outcome \in Settled, Ends(a, outcome) PROVE Prompts'
    <3> DEFINE j  == workers[a].job
               js == [jobs EXCEPT ![j] = ReleasedAll(Told(@, outcome))]
    <3>1. \E expired \in SUBSET Ids : TurnSplits(a, js, known \ {j}, expired)
      BY <1>t, <2>2, TurnEffect DEF Ends
    <3>2. active[a] = j /\ UNCHANGED posts
      BY <1>t, <2>2 DEF Ends, AtPc, Slots, remote
    <3>3. \A i \in Ids : i # active[a] => js[i] = jobs[i]
      BY <1>t, <3>2
    <3>4. QED BY <1>2, <3>1, <3>2, <3>3
  <2>3. CASE TellsExpired(a)
    <3>1. Same /\ UNCHANGED <<queues, posts>>
      BY <1>o, <1>v, <2>3 DEF TellsExpired, remote
    <3>2. \A b \in Aliases : Early(workers'[b]) => Early(workers[b]) /\ workers'[b].job = workers[b].job
      BY <1>t, <2>3 DEF TellsExpired, AtPc, Early, Working
    <3>3. QED BY <1>g, <3>1, <3>2 DEF Queued
  <2>4. CASE Submits(a)
    <3>1. Early(workers[a]) /\ workers[a] \in Worker
      BY <1>t, <2>4 DEF Submits, AtPc, Slots, Early
    <3>2. /\ posts' = posts \cup {[job |-> workers[a].job, input |-> jobs[workers[a].job].input]}
          /\ workers' = [workers EXCEPT ![a].pc = "submitted"] /\ UNCHANGED <<jobs, queues>>
      BY <2>4 DEF Submits, Goes, queueVars
    <3>3. \A b \in Aliases : Early(workers'[b]) => Early(workers[b]) /\ workers'[b].job = workers[b].job
      <4>1. workers'[a].job = workers[a].job /\ \A b \in Aliases \ {a} : workers'[b] = workers[b]
        BY <1>t, <3>1, <3>2 DEF Worker
      <4>2. QED BY <3>1, <4>1
    <3>4. \A p \in posts' : p \in posts \/ p.input
      BY <1>i, <3>1, <3>2
    <3>5. QED BY <1>g, <3>2, <3>3, <3>4 DEF Queued
  <2>5. CASE SubmitAnswered(a)
    <3>1. Early(workers[a]) /\ workers[a] \in Worker /\ workers[a].job \in Ids /\ UNCHANGED queues
          /\ posts' \subseteq posts
      BY <1>t, <1>a, <2>5 DEF SubmitAnswered, AtPc, Slots, Early
    <3>2. /\ workers'[a].pc \in {"wait", "failed"} /\ \A b \in Aliases \ {a} : workers'[b] = workers[b]
      BY <1>t, <2>5, <3>1 DEF SubmitAnswered, Goes, Worker
    <3>3. ~Early(workers'[a])
      BY <3>2 DEF Early
    <3>4. UNCHANGED jobs \/ jobs' = [jobs EXCEPT ![workers[a].job] = Released(@)]
      BY <2>5 DEF SubmitAnswered
    <3>5. \A b \in Aliases : b # a => (Early(workers[b]) => workers[b].job # workers[a].job)
      BY <1>a, <1>t, <3>1
    <3>6. \A b \in Aliases : workers[a].job \notin Queued(b)
      BY <1>a, <3>1
    <3>7. \A b \in Aliases : Queued(b)' = Queued(b)
      BY <3>1 DEF Queued
    <3>8. ASSUME NEW j \in Ids PROVE Kept(j)
      <4>1. CASE j = workers[a].job
        BY <3>2, <3>3, <3>5, <3>6, <3>7, <4>1
      <4>2. CASE j # workers[a].job
        BY <1>t, <3>4, <4>2
      <4>3. QED BY <4>1, <4>2
    <3>9. QED BY <1>g, <3>1, <3>2, <3>3, <3>7, <3>8
  <2>6. CASE WaitAnswered(a) \/ WaitTimesOut(a)
    <3>1. workers[a] \in Worker /\ UNCHANGED <<jobs, queues, posts>>
      BY <1>t, <2>6 DEF WaitAnswered, WaitTimesOut, AtPc, queueVars, remote
    <3>2. \E pc \in Settled : workers' = [workers EXCEPT ![a].pc = pc]
      BY <2>6 DEF WaitAnswered, WaitTimesOut, Goes, Settled
    <3>3. /\ workers'[a].pc \in Settled /\ \A b \in Aliases \ {a} : workers'[b] = workers[b]
      BY <1>t, <3>1, <3>2 DEF Worker
    <3>4. ~Early(workers'[a])
      BY <3>3 DEF Early, Settled
    <3>5. QED BY <1>g, <3>1, <3>3, <3>4 DEF Queued
  <2>7. QED BY <1>3, <2>1, <2>2, <2>3, <2>4, <2>5, <2>6 DEF Works
<1>4. ASSUME NEW a \in Aliases, SubmitFails(a) PROVE Prompts'
  <2>1. Early(workers[a]) /\ workers[a] \in Worker /\ UNCHANGED <<jobs, queues>> /\ posts' \subseteq posts
    BY <1>t, <1>4 DEF SubmitFails, AtPc, Slots, Early, queueVars
  <2>2. workers'[a].job = workers[a].job /\ \A b \in Aliases \ {a} : workers'[b] = workers[b]
    BY <1>t, <1>4, <2>1 DEF SubmitFails, Goes, Worker
  <2>3. QED BY <1>g, <2>1, <2>2 DEF Queued
<1>5. ASSUME NEW a \in Aliases, WaitFails(a) PROVE Prompts'
  <2>1. workers[a] \in Worker /\ workers[a].pc = "wait" /\ UNCHANGED <<jobs, queues, posts>>
    BY <1>t, <1>5 DEF WaitFails, AtPc, queueVars, remote
  <2>2. workers'[a].pc \in {"wait", "failed"} /\ \A b \in Aliases \ {a} : workers'[b] = workers[b]
    BY <1>t, <1>5, <2>1 DEF WaitFails, Goes, Worker
  <2>3. ~Early(workers'[a])
    BY <2>2 DEF Early
  <2>4. QED BY <1>g, <2>1, <2>2, <2>3 DEF Queued
<1>6. ASSUME NEW a \in Aliases, Cancelled(a) PROVE Prompts'
  <2>1. workers'[a] = None /\ \A b \in Aliases \ {a} : workers'[b] = workers[b]
    BY <1>6, <1>t DEF Cancelled
  <2>2. ~Early(workers'[a]) /\ UNCHANGED <<queues, posts>>
    BY <1>6, <2>1 DEF Early, Cancelled, queueVars, remote
  <2>3. CASE UNCHANGED jobs
    BY <1>g, <2>1, <2>2, <2>3 DEF Queued
  <2>4. CASE workers[a].pc \notin {"start", "expired"}
             /\ jobs' = [jobs EXCEPT ![workers[a].job] = ReleasedAll(@)]
    <3>1. workers[a].job = active[a] /\ active[a] # None
      BY <1>6, <1>t, <2>4 DEF Cancelled, Slots
    <3>2. \A b \in Aliases : b # a => (Early(workers[b]) => workers[b].job # active[a])
      BY <1>a, <1>t, <3>1
    <3>3. \A b \in Aliases : Queued(b)' = Queued(b) /\ active[a] \notin Queued(b)
      BY <1>a, <2>2 DEF Queued
    <3>4. ASSUME NEW j \in Ids PROVE Kept(j)
      <4>1. CASE j = active[a]
        BY <2>1, <2>2, <3>2, <3>3, <4>1
      <4>2. CASE j # active[a]
        BY <1>t, <2>4, <3>1, <4>2
      <4>3. QED BY <4>1, <4>2
    <3>5. QED BY <1>g, <2>1, <2>2, <3>3, <3>4
  <2>5. QED BY <1>6, <2>3, <2>4 DEF Cancelled, queueVars
<1>7. ASSUME NEW a \in Aliases, StopReturns(a) PROVE Prompts'
  <2>1. Removed(Queued(a)) /\ UNCHANGED <<workers, posts>>
        /\ \A j \in Ids \ Queued(a) : jobs'[j] = jobs[j]
    BY <1>7 DEF StopReturns, CancelQueued, Queued
  <2>2. QED BY <1>r, <2>1
<1>8. ASSUME NEW a \in Aliases, NEW selected \in {All} \cup Ids, CancelCommand(a, selected)
      PROVE  Prompts'
  <2> DEFINE set == IF selected = All THEN ToSet(queues[a]) ELSE ToSet(queues[a]) \cap {selected}
  <2>1. Removed(set) /\ UNCHANGED <<workers, posts>> /\ \A j \in Ids \ set : jobs'[j] = jobs[j]
    BY <1>8 DEF CancelCommand, CancelQueued, remote
  <2>2. set \subseteq Queued(a)
    BY DEF Queued
  <2>3. QED BY <1>r, <2>1, <2>2
<1>9. CASE Sweeps
  <2> DEFINE old == {j \in Waiting : jobs[j].aged}
  <2>1. Removed(old) /\ UNCHANGED <<workers, posts>> /\ \A j \in Ids \ old : jobs'[j] = jobs[j]
    BY <1>9 DEF Sweeps, remote
  <2>2. \A j \in old : \E a \in Aliases : j \in Queued(a)
    BY DEF Waiting, Queued
  <2>3. QED BY <1>r, <2>1, <2>2
<1>10. CASE Clears
  <2>1. \A a \in Aliases : queues'[a] = <<>> /\ workers'[a] = None
    BY <1>10 DEF Clears
  <2>2. \A a \in Aliases : Queued(a)' = {} /\ ~Early(workers'[a])
    BY <2>1 DEF Queued, ToSet, Early
  <2>3. QED BY <1>10, <1>g, <2>2 DEF Clears, remote
<1>11. CASE (\E a \in Aliases : StopTells(a)) \/ CancelTells \/ SweepTells
  <2>1. Same
    BY <1>11, <1>o, <1>v DEF StopTells, CancelTells, SweepTells
  <2>2. UNCHANGED <<queues, workers, posts>>
    BY <1>11 DEF StopTells, CancelTells, SweepTells, remote
  <2>3. QED BY <1>u, <2>1, <2>2
<1>12. ASSUME NEW j \in Ids, Ages(j) PROVE Prompts'
  <2>1. UNCHANGED <<queues, workers, posts>> /\ jobs' = [jobs EXCEPT ![j] = [jobs[j] EXCEPT !.aged = TRUE]]
    BY <1>12, <1>t DEF Ages, remote
  <2>2. Same
    BY <1>t, <2>1, JobFields
  <2>3. QED BY <1>u, <2>1, <2>2
<1>13. CASE \/ \E a \in Aliases : StopCommand(a) \/ StartCommand(a)
            \/ \E j \in Ids : JobStarts(j) \/ JobSettles(j)
            \/ \E p \in posts : LatePost(p)
            \/ CancelReaches \/ Terminate
  <2>1. UNCHANGED <<jobs, queues, workers>> /\ posts' \subseteq posts
    BY <1>13 DEF StopCommand, StartCommand, JobStarts, JobSettles, LatePost, CancelReaches, Terminate,
                 queueVars, remote
  <2>2. QED BY <1>u, <2>1
<1>14. QED
  BY <1>0, <1>1, <1>3, <1>4, <1>5, <1>6, <1>7, <1>8, <1>9, <1>10, <1>11, <1>12, <1>13
     DEF Next, Commands, Faults

(* A job that is queued is new to everybody.                               *)
LEMMA NewIsFinal ==
  ASSUME IInv, NEW a \in Aliases, Enqueue(a)
  PROVE  Untold' /\ Unknown'
<1>t. /\ Typed /\ Placed /\ Untold /\ Unknown /\ posts \subseteq [job : Ids, input : BOOLEAN]
      /\ active \in [Aliases -> Ids \cup {None}]
  BY DEF IInv, Typed
<1> DEFINE n == Len(jobs) + 1
<1>1. EnqueueAdds(a, n)
  BY <1>t, EnqueueEffect
<1> HIDE DEF n
<1>2. /\ n \notin Ids /\ n # None /\ Ids' = Ids \cup {n}
      /\ jobs'[n].told = <<>> /\ ~jobs'[n].cancel /\ ctl'[n] = None
      /\ \A j \in Ids : jobs'[j] = jobs[j] /\ ctl'[j] = ctl[j]
      /\ UNCHANGED <<active, sweep, cancel, stop, plugin, posts>>
      /\ Queued(a)' = Queued(a) \cup {n} /\ \A b \in Aliases \ {a} : Queued(b)' = Queued(b)
      /\ \A b \in Aliases : Expiring(b)' = Expiring(b)
  BY <1>1 DEF EnqueueAdds
<1>3. Cancelling' = Cancelling /\ \A b \in Aliases : Stopped(b)' = Stopped(b)
  BY <1>2 DEF Cancelling, Stopped
<1>4. \A j \in Ids : j \in Idle' => j \in Idle
  BY <1>2, <1>3, IdlePlaces
<1>5. ASSUME NEW j \in Ids
      PROVE  /\ Len(jobs'[j].told) <= 1 /\ (j \in Idle' => jobs'[j].told = <<>>)
             /\ \A b \in Aliases : active'[b] = j => jobs'[j].told = <<>>
             /\ j \in Idle' \/ Dropped(j)' => ctl'[j] = None /\ \A p \in posts' : p.job # j
             /\ plugin' = "up" /\ jobs'[j].cancel =>
                  \A b \in Aliases : j \notin Queued(b)' \cup {active'[b]}
  BY <1>t, <1>2, <1>4 DEF Untold, Unknown, Dropped
<1>6. /\ Len(jobs'[n].told) <= 1 /\ jobs'[n].told = <<>>
      /\ ctl'[n] = None /\ \A p \in posts' : p.job # n
  BY <1>t, <1>2
<1>7. QED BY <1>2, <1>5, <1>6 DEF Untold, Unknown

-----------------------------------------------------------------------------
LEMMA Initially == Init => IInv
<1>1. SUFFICES ASSUME Init PROVE IInv
  OBVIOUS
<1>2. Ids = {} /\ \A a \in Aliases : Queued(a) = {} /\ Expiring(a) = {} /\ Stopped(a) = {}
  BY <1>1 DEF Init, Ids, Queued, Expiring, Stopped, ToSet
<1>3. Cancelling = {} /\ Waiting = {}
  BY <1>1 DEF Init, Cancelling, Waiting, ToSet
<1>4. Typed
  BY <1>1, <1>2, BoundsAssumption DEF Init, Typed
<1>5. KnownExact
  BY <1>1, <1>3 DEF Init, KnownExact
<1>6. Placed
  BY <1>1, <1>2, <1>3, BoundsAssumption DEF Init, Placed, IsInjective
<1>7. Slots /\ Prompts
  BY <1>1, <1>2 DEF Init, Slots, Prompts, SubmitsHaveInput
<1>8. Untold /\ Unknown
  BY <1>2 DEF Untold, Unknown
<1>9. QED BY <1>4, <1>5, <1>6, <1>7, <1>8 DEF IInv

LEMMA Inductive == IInv /\ [Next]_vars => IInv'
<1>1. SUFFICES ASSUME IInv, [Next]_vars PROVE IInv'
  OBVIOUS
<1>2. Typed' /\ Placed' /\ KnownExact' /\ Slots' /\ Prompts'
  BY <1>1, TypedStays, PlacedStays, KnownStays, SlotsStays, PromptsStays
<1>3. Untold' /\ Unknown'
  <2>1. CASE \E a \in Aliases : Enqueue(a)
    BY <1>1, <2>1, NewIsFinal
  <2>2. CASE \A a \in Aliases : ~Enqueue(a)
    <3>1. Drains
      BY <1>1, <2>2, OthersDrain
    <3>2. QED BY <1>1, <3>1, StepsProper, ProperIsFinal
  <2>3. QED BY <2>1, <2>2
<1>4. QED BY <1>2, <1>3 DEF IInv

(* The queues, the ids that are taken, the workers and their calls agree:  *)
(* the slot of an alias is not leaked (main.py:472), and every submission  *)
(* has its prompt.                                                         *)
THEOREM PluginSound == Spec => []QueuesSound
<1>1. IInv => QueuesSound
  <2>1. SUFFICES ASSUME IInv PROVE QueuesSound
    OBVIOUS
  <2>2. Typed /\ Placed /\ Slots /\ Prompts /\ KnownExact
    BY <2>1 DEF IInv
  <2>3. TypeOK
    <3>1. /\ plugin \in {"up", "ending", "ended"} /\ Len(jobs) <= MaxJobs /\ Len(ctl) = Len(jobs)
          /\ sweep \subseteq Ids /\ posts \subseteq [job : Ids, input : BOOLEAN]
      BY <2>2 DEF Typed
    <3>2. \A j \in Ids : jobs[j].alias \in Aliases /\ ToSet(jobs[j].told) \subseteq Verdicts
      <4>1. TAKE j \in Ids
      <4>2. jobs[j].alias \in Aliases /\ jobs[j].told \in Seq(Verdicts)
        BY <2>2, Basics DEF Job
      <4>3. QED BY <4>2, LenProperties DEF ToSet
    <3>3. ASSUME NEW a \in Aliases
          PROVE  /\ ToSet(queues[a]) \subseteq OfAlias(a) \ {active[a]}
                 /\ IsInjective(queues[a]) /\ Len(queues[a]) <= MaxPerAlias
                 /\ active[a] \in OfAlias(a) \cup {None}
      BY <2>2 DEF Placed, Queued
    <3>4. ASSUME NEW a \in Aliases, workers[a] # None
          PROVE  workers[a].tell \subseteq Ids /\ workers[a].attempts < MaxRetries
      <4>1. workers[a] \in Worker
        BY <2>2, <3>4 DEF Typed
      <4>2. workers[a].tell \subseteq Ids
        BY <2>2, <3>4 DEF Placed, Expiring, OfAlias
      <4>3. workers[a].attempts < MaxRetries
        BY <4>1, BoundsAssumption DEF Worker
      <4>4. QED BY <4>2, <4>3
    <3>5. known \subseteq Ids
      <4>1. active \in [Aliases -> Ids \cup {None}]
        BY <2>2 DEF Typed
      <4>2. Waiting \subseteq Ids
        BY <2>2, Apart DEF Waiting, Queued
      <4>3. QED BY <2>2, <4>1, <4>2 DEF KnownExact
    <3>6. QED BY <3>1, <3>2, <3>3, <3>4, <3>5 DEF TypeOK
  <2>4. ActiveHasWorker /\ SubmitsHaveInput
    BY <2>2 DEF Slots, ActiveHasWorker, Prompts
  <2>5. QED BY <2>2, <2>3, <2>4 DEF QueuesSound
<1>2. QED BY <1>1, Initially, Inductive, PTL DEF Spec

(* What the user is told of a job is final: at most one outcome, and a job *)
(* that expired or was cancelled in its queue never comes to the           *)
(* controller, whatever the worker, the sweeper and the commands do.       *)
THEOREM PluginVerdicts == Spec => []VerdictsFinal
<1>1. IInv => VerdictsFinal
  <2>1. SUFFICES ASSUME IInv PROVE VerdictsFinal
    OBVIOUS
  <2>2. Typed /\ Placed /\ Untold /\ Unknown
    BY <2>1 DEF IInv
  <2>3. \A j : j \in Waiting => j \in Idle
    BY IdlePlaces DEF Waiting, Queued
  <2>4. QED BY <2>2, <2>3 DEF VerdictsFinal, OneVerdict, DroppedNeverRuns, Untold, Unknown, Dropped
<1>2. QED BY <1>1, Initially, Inductive, PTL DEF Spec

=============================================================================
