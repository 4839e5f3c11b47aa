--------------------------- MODULE JobStoreProofs ---------------------------
(***************************************************************************)
(* Proofs about the job store, for any requests, aliases, prompts, results *)
(* and codes, any queue limit and ttl, and any bounds.                     *)
(***************************************************************************)
EXTENDS JobStoreProps, TLAPS

-----------------------------------------------------------------------------
(* What the updates make of a well-formed job.                             *)

(* Whatever settles, leases or requeues a job keeps it well formed: the    *)
(* record operators of registry.mjs:420-546.                               *)
LEMMA UpdatesKeepType ==
  ASSUME TypeOK, NEW job \in Job
  PROVE  /\ \A l \in 0..leaseCount : AsLeased(job, l) \in Job
         /\ AsQueued(job) \in Job
         /\ [job EXCEPT !.status = "running", !.updatedAt = now] \in Job
         /\ \A t \in Results, b \in BOOLEAN : AsCompleted(job, t, b) \in Job
         /\ \A c \in Codes : AsFailed(job, c) \in Job
         /\ AsCancelled(job) \in Job
<1>1. now \in 0..now /\ 0 \in 0..leaseCount /\ Statuses = {"queued"} \cup Active \cup Terminal
  BY DEF TypeOK, Statuses
<1>2. {"queued", "leased", "running", "completed", "failed", "cancelled"} \subseteq Statuses
  BY DEF Statuses, Active, Terminal
<1>3. \A l \in 0..leaseCount : AsLeased(job, l) \in Job
  BY <1>1, <1>2 DEF AsLeased, Job
<1>4. AsQueued(job) \in Job
  BY <1>1, <1>2 DEF AsQueued, Job
<1>5. [job EXCEPT !.status = "running", !.updatedAt = now] \in Job
  BY <1>1, <1>2 DEF Job
<1>6. \A s \in Terminal : Settled(job, s) \in Job
  BY <1>1 DEF Settled, Job
<1>7. \A t \in Results, b \in BOOLEAN : AsCompleted(job, t, b) \in Job
  BY <1>6 DEF AsCompleted, Terminal, Job
<1>8. \A c \in Codes : AsFailed(job, c) \in Job
  BY <1>6 DEF AsFailed, Terminal, Job
<1>9. AsCancelled(job) \in Job
  BY <1>6 DEF AsCancelled, Terminal
<1>10. QED
  BY <1>3, <1>4, <1>5, <1>7, <1>8, <1>9

(* The type of a job only grows with the clock and the lease counter.      *)
LEMMA JobTypeGrows ==
  ASSUME TypeOK, now' \in Nat, leaseCount' \in Nat,
         now <= now', leaseCount <= leaseCount',
         NEW job \in Job
  PROVE  job \in Job'
BY DEF TypeOK, Job

-----------------------------------------------------------------------------
(* Every step keeps TypeOK.  Prune needs the index to be exact: otherwise a *)
(* requestId could be left pointing at a job it deleted.                   *)
LEMMA TypeStep == TypeOK /\ IndexExact /\ [Next]_vars => TypeOK'
<1> SUFFICES ASSUME TypeOK, IndexExact, [Next]_vars PROVE TypeOK'
  OBVIOUS
<1> USE LimitsAssumption
<1>1. ASSUME NEW r \in Requests, NEW a \in Aliases, NEW x \in Inputs, Submit(r, a, x)
      PROVE  TypeOK'
  <2>1. sequence' = sequence + 1 /\ sequence' \in 0..MaxSequence /\ Ids' = Ids \cup {sequence'}
    BY <1>1 DEF Submit, TypeOK, Ids
  <2>2. NewJob(r, a, x) \in Job
    BY <1>1 DEF NewJob, Job, TypeOK, Statuses
  <2>3. Job' = Job
    BY <1>1 DEF Submit, Job
  <2>4. jobs' \in [Ids' -> Job']
    BY <1>1, <2>1, <2>2, <2>3 DEF Submit, TypeOK, Ids
  <2>5. requestIds' \in [DOMAIN requestIds' -> Ids'] /\ DOMAIN requestIds' \subseteq Requests
    BY <1>1, <2>1 DEF Submit, TypeOK, Ids
  <2>6. QED
    BY <1>1, <2>1, <2>4, <2>5 DEF Submit, TypeOK, Ids
<1>2. ASSUME NEW a \in Aliases, LeaseNext(a)
      PROVE  TypeOK'
  <2>1. PICK i \in Ids : jobs' = [jobs EXCEPT ![i] = AsLeased(@, leaseCount')]
    BY <1>2 DEF LeaseNext, Queued
  <2>2. leaseCount' \in Nat /\ leaseCount' = leaseCount + 1 /\ now' = now
    BY <1>2 DEF LeaseNext, TypeOK
  <2>3. \A job \in Job : job \in Job'
    BY <2>2, JobTypeGrows DEF TypeOK
  <2>4. AsLeased(jobs[i], leaseCount') \in Job'
    <3>1. jobs[i] \in Job'
      BY <2>3 DEF TypeOK
    <3>2. now \in 0..now' /\ leaseCount' \in 0..leaseCount' /\ "leased" \in Statuses
      BY <2>2 DEF TypeOK, Statuses, Active
    <3>3. QED
      BY <3>1, <3>2 DEF AsLeased, Job
  <2>5. Ids' = Ids /\ jobs' \in [Ids -> Job']
    BY <2>1, <2>3, <2>4 DEF TypeOK, Ids
  <2>6. QED
    BY <1>2, <2>2, <2>5 DEF LeaseNext, TypeOK
<1>3. ASSUME NEW i \in Ids, NEW job \in Job, jobs' = [jobs EXCEPT ![i] = job],
             UNCHANGED <<requestIds, sequence, leaseCount, now>>
      PROVE  TypeOK'
  <2>1. Ids' = Ids /\ Job' = Job
    BY <1>3 DEF Ids, Job, TypeOK
  <2>2. QED
    BY <1>3, <2>1 DEF TypeOK, Ids
<1>4. ASSUME NEW i \in Ids, NEW l \in 1..leaseCount, Acknowledge(i, l)
      PROVE  TypeOK'
  BY <1>3, <1>4, UpdatesKeepType DEF Acknowledge, TypeOK
<1>5. ASSUME NEW i \in Ids, NEW l \in 1..leaseCount, NEW t \in Results, NEW b \in BOOLEAN,
             Complete(i, l, t, b)
      PROVE  TypeOK'
  BY <1>3, <1>5, UpdatesKeepType DEF Complete, TypeOK
<1>6. ASSUME NEW i \in Ids, NEW l \in 0..leaseCount, NEW c \in Codes, Fail(i, c, l)
      PROVE  TypeOK'
  BY <1>3, <1>6, UpdatesKeepType DEF Fail, TypeOK
<1>7. ASSUME NEW i \in Ids, Cancel(i)
      PROVE  TypeOK'
  BY <1>3, <1>7, UpdatesKeepType DEF Cancel, TypeOK
<1>8. ASSUME NEW a \in Aliases, NEW b \in BOOLEAN, CancelAlias(a, b)
      PROVE  TypeOK'
  <2>1. \A i \in Ids : jobs[i] \in Job /\ AsCancelled(jobs[i]) \in Job
    BY UpdatesKeepType DEF TypeOK
  <2>2. Job' = Job
    BY <1>8 DEF CancelAlias, Job
  <2>3. Ids' = Ids /\ jobs' \in [Ids -> Job]
    BY <1>8, <2>1 DEF CancelAlias, Updated, Ids
  <2>4. QED
    BY <1>8, <2>2, <2>3 DEF CancelAlias, TypeOK
<1>9. ASSUME NEW i \in Ids, NEW l \in 1..leaseCount, RequeueLease(i, l)
      PROVE  TypeOK'
  BY <1>3, <1>9, UpdatesKeepType DEF RequeueLease, TypeOK
<1>10. ASSUME NEW a \in Aliases, RequeueLeases(a)
      PROVE  TypeOK'
  <2>1. \A i \in Ids : jobs[i] \in Job /\ AsQueued(jobs[i]) \in Job
    BY UpdatesKeepType DEF TypeOK
  <2>2. Job' = Job
    BY <1>10 DEF RequeueLeases, Job
  <2>3. Ids' = Ids /\ jobs' \in [Ids -> Job]
    BY <1>10, <2>1 DEF RequeueLeases, Updated, Ids
  <2>4. QED
    BY <1>10, <2>2, <2>3 DEF RequeueLeases, TypeOK
<1>11. CASE Prune
  <2>1. \A i \in Ids : jobs[i] \in Job /\ AsCancelled(jobs[i]) \in Job
    BY UpdatesKeepType DEF TypeOK
  <2>2. Job' = Job
    BY <1>11 DEF Prune, Job
  <2>3. Ids' = Ids \ Expired /\ jobs' \in [Ids' -> Job]
    BY <1>11, <2>1 DEF Prune, Ids
  <2>4. requestIds' \in [DOMAIN requestIds' -> Ids'] /\ DOMAIN requestIds' \subseteq Requests
    <3>1. ASSUME NEW r \in DOMAIN requestIds, requestIds[r] \in Expired
          PROVE  r \in {jobs[i].requestId : i \in Expired}
      BY <3>1 DEF IndexExact
    <3>2. \A r \in DOMAIN requestIds' : requestIds[r] \in Ids'
      BY <1>11, <2>3, <3>1 DEF Prune, TypeOK
    <3>3. QED
      BY <1>11, <3>2 DEF Prune, TypeOK
  <2>5. QED
    BY <1>11, <2>2, <2>3, <2>4 DEF Prune, TypeOK
<1>12. CASE Tick
  <2>1. now' \in Nat /\ now <= now' /\ leaseCount' = leaseCount
    BY <1>12 DEF Tick, TypeOK
  <2>2. \A job \in Job : job \in Job'
    BY <2>1, JobTypeGrows DEF TypeOK
  <2>3. QED
    BY <1>12, <2>1, <2>2 DEF Tick, TypeOK, Ids
<1>13. CASE UNCHANGED vars
  BY <1>13 DEF vars, TypeOK, Job, Ids
<1>14. QED
  BY <1>1, <1>2, <1>4, <1>5, <1>6, <1>7, <1>8, <1>9, <1>10, <1>11, <1>12, <1>13 DEF Next

-----------------------------------------------------------------------------
(* What a step makes of a job that was in the store and stays there.       *)

Lease(i) ==
  /\ jobs[i].status = "queued"
  /\ leaseCount' = leaseCount + 1
  /\ jobs' = [jobs EXCEPT ![i] = AsLeased(@, leaseCount')]
  /\ IsOldest(i, Queued(jobs[i].alias))

Start(i) ==
  /\ jobs[i].status = "leased"
  /\ jobs'[i] = [jobs[i] EXCEPT !.status = "running", !.updatedAt = now]

Requeue(i) == jobs[i].status = "leased" /\ jobs'[i] = AsQueued(jobs[i])

Decide(i) ==
  /\ jobs[i].status \notin Terminal
  /\ \/ /\ jobs[i].status = "running"
        /\ \E t \in Results, b \in BOOLEAN : jobs'[i] = AsCompleted(jobs[i], t, b)
     \/ \E c \in Codes : jobs'[i] = AsFailed(jobs[i], c)
     \/ jobs'[i] = AsCancelled(jobs[i])

Change(i) == jobs'[i] = jobs[i] \/ Lease(i) \/ Start(i) \/ Requeue(i) \/ Decide(i)

(* Every step that is not a submission changes each remaining job in one   *)
(* of these ways, takes in no job, and removes only settled ones, with     *)
(* their requests.                                                         *)
OldJobs ==
  /\ sequence' = sequence
  /\ Ids' \subseteq Ids
  /\ Ids \ Ids' \subseteq SettledIds
  /\ jobs' = [i \in Ids' |-> jobs'[i]]
  /\ requestIds' = [r \in DOMAIN requestIds \ {jobs[i].requestId : i \in Ids \ Ids'} |-> requestIds[r]]
  /\ leaseCount' \in {leaseCount, leaseCount + 1}
  /\ \A i \in Ids' : Change(i)

LEMMA StepShape ==
  ASSUME TypeOK, [Next]_vars
  PROVE  \/ \E r \in Requests, a \in Aliases, x \in Inputs : Submit(r, a, x)
         \/ OldJobs
<1>1. ASSUME NEW i \in Ids, NEW job, jobs' = [jobs EXCEPT ![i] = job], Change(i),
             leaseCount' \in {leaseCount, leaseCount + 1}, UNCHANGED <<requestIds, sequence>>
      PROVE  OldJobs
  <2>1. Ids' = Ids /\ jobs' = [j \in Ids' |-> jobs'[j]]
    BY <1>1 DEF Ids, TypeOK
  <2>2. \A j \in Ids : Change(j)
    BY <1>1 DEF Change, Ids, TypeOK
  <2>3. requestIds' = [r \in DOMAIN requestIds \ {jobs[j].requestId : j \in {}} |-> requestIds[r]]
    BY <1>1 DEF TypeOK
  <2>4. QED
    BY <1>1, <2>1, <2>2, <2>3 DEF OldJobs
<1>2. ASSUME Ids' = Ids, jobs' = [j \in Ids' |-> jobs'[j]],
             \A i \in Ids : Change(i), UNCHANGED <<requestIds, sequence, leaseCount>>
      PROVE  OldJobs
  <2>1. requestIds' = [r \in DOMAIN requestIds \ {jobs[j].requestId : j \in {}} |-> requestIds[r]]
    BY <1>2 DEF TypeOK
  <2>2. QED
    BY <1>2, <2>1 DEF OldJobs
<1>3. ASSUME NEW a \in Aliases, LeaseNext(a)
      PROVE  OldJobs
  <2>1. PICK i \in Queued(a) : /\ IsOldest(i, Queued(a))
                               /\ jobs' = [jobs EXCEPT ![i] = AsLeased(@, leaseCount')]
    BY <1>3 DEF LeaseNext
  <2>2. i \in Ids /\ jobs[i].status = "queued" /\ jobs[i].alias = a
    BY DEF Queued
  <2>3. Lease(i)
    BY <1>3, <2>1, <2>2 DEF Lease, LeaseNext
  <2>4. QED
    BY <1>1, <1>3, <2>1, <2>2, <2>3 DEF LeaseNext, Change
<1>4. ASSUME NEW i \in Ids, NEW l \in 1..leaseCount, Acknowledge(i, l)
      PROVE  OldJobs
  <2>1. Start(i)
    BY <1>4 DEF Acknowledge, Start, Ids, TypeOK
  <2>2. QED
    BY <1>1, <1>4, <2>1 DEF Acknowledge, Change
<1>5. ASSUME NEW i \in Ids, NEW l \in 1..leaseCount, NEW t \in Results, NEW b \in BOOLEAN,
             Complete(i, l, t, b)
      PROVE  OldJobs
  <2>1. Decide(i)
    BY <1>5 DEF Complete, Decide, Terminal, Ids, TypeOK
  <2>2. QED
    BY <1>1, <1>5, <2>1 DEF Complete, Change
<1>6. ASSUME NEW i \in Ids, NEW l \in 0..leaseCount, NEW c \in Codes, Fail(i, c, l)
      PROVE  OldJobs
  <2>1. Decide(i)
    BY <1>6 DEF Fail, Decide, Ids, TypeOK
  <2>2. QED
    BY <1>1, <1>6, <2>1 DEF Fail, Change
<1>7. ASSUME NEW i \in Ids, Cancel(i)
      PROVE  OldJobs
  <2>1. Decide(i)
    BY <1>7 DEF Cancel, Decide, Ids, TypeOK
  <2>2. QED
    BY <1>1, <1>7, <2>1 DEF Cancel, Change
<1>8. ASSUME NEW a \in Aliases, NEW b \in BOOLEAN, CancelAlias(a, b)
      PROVE  OldJobs
  <2>1. Ids' = Ids /\ jobs' = [j \in Ids' |-> jobs'[j]]
    BY <1>8 DEF CancelAlias, Updated, Ids
  <2>2. \A i \in Ids : Change(i)
    BY <1>8 DEF CancelAlias, Updated, Change, Decide, Unsettled, Queued, Terminal
  <2>3. QED
    BY <1>2, <1>8, <2>1, <2>2 DEF CancelAlias
<1>9. ASSUME NEW i \in Ids, NEW l \in 1..leaseCount, RequeueLease(i, l)
      PROVE  OldJobs
  <2>1. Requeue(i)
    BY <1>9 DEF RequeueLease, Requeue, Ids, TypeOK
  <2>2. QED
    BY <1>1, <1>9, <2>1 DEF RequeueLease, Change
<1>10. ASSUME NEW a \in Aliases, RequeueLeases(a)
       PROVE  OldJobs
  <2>1. Ids' = Ids /\ jobs' = [j \in Ids' |-> jobs'[j]]
    BY <1>10 DEF RequeueLeases, Updated, Ids
  <2>2. \A i \in Ids : Change(i)
    BY <1>10 DEF RequeueLeases, Updated, Change, Requeue, Leased
  <2>3. QED
    BY <1>2, <1>10, <2>1, <2>2 DEF RequeueLeases
<1>11. CASE Prune
  <2>1. Ids' = Ids \ Expired /\ jobs' = [j \in Ids' |-> jobs'[j]]
    BY <1>11 DEF Prune, Ids
  <2>2. Expired = Ids \ Ids' /\ Expired \subseteq SettledIds
    BY <2>1 DEF Expired, SettledIds
  <2>3. \A i \in Ids' : Change(i)
    BY <1>11, <2>1 DEF Prune, Overdue, Change, Decide, Terminal
  <2>4. QED
    BY <1>11, <2>1, <2>2, <2>3 DEF Prune, OldJobs
<1>12. CASE Tick \/ UNCHANGED vars
  <2>1. UNCHANGED <<jobs, requestIds, sequence, leaseCount>> /\ Ids' = Ids
    BY <1>12 DEF Tick, vars, Ids
  <2>2. QED
    BY <1>2, <2>1 DEF Change, TypeOK
<1>13. QED
  BY <1>3, <1>4, <1>5, <1>6, <1>7, <1>8, <1>9, <1>10, <1>11, <1>12 DEF Next

-----------------------------------------------------------------------------
(* The inductive invariant.  The conjuncts are what the runs check; they   *)
(* lean on TypeOK, and TypeOK on the exactness of the index.               *)
IInv ==
  /\ TypeOK
  /\ IndexExact
  /\ LeasesExclusive
  /\ InputHeldUntilSettled
  /\ OutcomeMatchesStatus

(* Nothing changes who submitted a job and what.                           *)
LEMMA ChangeKeepsOrigin ==
  ASSUME TypeOK, NEW i \in Ids \cap Ids', Change(i)
  PROVE  /\ jobs'[i].requestId = jobs[i].requestId
         /\ jobs'[i].alias = jobs[i].alias
         /\ jobs'[i].payloadHash = jobs[i].payloadHash
         /\ jobs'[i].createdAt = jobs[i].createdAt
<1>1. jobs[i] \in Job
  BY DEF TypeOK
<1>2. CASE Lease(i)
  <2>1. jobs'[i] = AsLeased(jobs[i], leaseCount')
    BY <1>2 DEF Lease, TypeOK, Ids
  <2>2. QED
    BY <1>1, <2>1 DEF AsLeased, Job
<1>3. CASE jobs'[i] = jobs[i] \/ Start(i) \/ Requeue(i)
  BY <1>1, <1>3 DEF Start, Requeue, AsQueued, Job
<1>4. CASE Decide(i)
  <2>1. CASE \E t \in Results, b \in BOOLEAN : jobs'[i] = AsCompleted(jobs[i], t, b)
    BY <1>1, <2>1 DEF AsCompleted, Settled, Job
  <2>2. CASE \E c \in Codes : jobs'[i] = AsFailed(jobs[i], c)
    BY <1>1, <2>2 DEF AsFailed, Settled, Job
  <2>3. CASE jobs'[i] = AsCancelled(jobs[i])
    BY <1>1, <2>3 DEF AsCancelled, Settled, Job
  <2>4. QED
    BY <1>4, <2>1, <2>2, <2>3 DEF Decide
<1>5. QED
  BY <1>2, <1>3, <1>4 DEF Change

(* What a submission leaves behind.                                        *)
LEMMA SubmitShape ==
  ASSUME TypeOK, NEW r \in Requests, NEW a \in Aliases, NEW x \in Inputs, Submit(r, a, x)
  PROVE  /\ Ids' = Ids \cup {sequence + 1}
         /\ sequence + 1 \notin Ids
         /\ jobs'[sequence + 1] = NewJob(r, a, x)
         /\ \A i \in Ids : jobs'[i] = jobs[i]
         /\ r \notin DOMAIN requestIds
         /\ DOMAIN requestIds' = DOMAIN requestIds \cup {r}
         /\ requestIds'[r] = sequence + 1
         /\ \A q \in DOMAIN requestIds : requestIds'[q] = requestIds[q]
         /\ leaseCount' = leaseCount
BY DEF Submit, TypeOK, Ids

LEMMA IndexStep == TypeOK /\ IndexExact /\ [Next]_vars => IndexExact'
<1> SUFFICES ASSUME TypeOK, IndexExact, [Next]_vars PROVE IndexExact'
  OBVIOUS
<1>1. ASSUME NEW r \in Requests, NEW a \in Aliases, NEW x \in Inputs, Submit(r, a, x)
      PROVE  IndexExact'
  <2> DEFINE n == sequence + 1
  <2>1. /\ Ids' = Ids \cup {n}
        /\ jobs'[n].requestId = r
        /\ \A i \in Ids : jobs'[i] = jobs[i]
        /\ r \notin DOMAIN requestIds
        /\ DOMAIN requestIds' = DOMAIN requestIds \cup {r}
        /\ requestIds'[r] = n
        /\ \A q \in DOMAIN requestIds : requestIds'[q] = requestIds[q]
    <3>1. NewJob(r, a, x).requestId = r
      BY DEF NewJob
    <3>2. QED
      BY <1>1, <3>1, SubmitShape
  <2>2. \A q \in DOMAIN requestIds : requestIds[q] \in Ids
    BY DEF TypeOK
  <2> HIDE DEF n
  <2>3. \A q \in DOMAIN requestIds' : jobs'[requestIds'[q]].requestId = q
    BY <2>1, <2>2 DEF IndexExact
  <2>4. \A i \in Ids' : /\ jobs'[i].requestId \in DOMAIN requestIds'
                        /\ requestIds'[jobs'[i].requestId] = i
    BY <2>1 DEF IndexExact
  <2>5. QED
    BY <2>3, <2>4 DEF IndexExact
<1>2. CASE OldJobs
  <2>1. \A i \in Ids' : i \in Ids /\ jobs'[i].requestId = jobs[i].requestId
    BY <1>2, ChangeKeepsOrigin DEF OldJobs
  <2>2. \A q \in DOMAIN requestIds : requestIds[q] \in Ids
    BY DEF TypeOK
  <2>3. ASSUME NEW q \in DOMAIN requestIds'
        PROVE  /\ q \in DOMAIN requestIds /\ requestIds'[q] = requestIds[q]
               /\ requestIds[q] \in Ids'
    <3>1. q \in DOMAIN requestIds /\ requestIds'[q] = requestIds[q]
          /\ q \notin {jobs[i].requestId : i \in Ids \ Ids'}
      BY <1>2, <2>3 DEF OldJobs
    <3>2. jobs[requestIds[q]].requestId = q
      BY <3>1 DEF IndexExact
    <3>3. QED
      BY <2>2, <3>1, <3>2
  <2>4. ASSUME NEW i \in Ids'
        PROVE  jobs'[i].requestId \in DOMAIN requestIds' /\ requestIds'[jobs'[i].requestId] = i
    <3>1. i \in Ids /\ jobs'[i].requestId = jobs[i].requestId
      BY <2>1
    <3>2. jobs[i].requestId \in DOMAIN requestIds /\ requestIds[jobs[i].requestId] = i
      BY <3>1 DEF IndexExact
    <3>3. ASSUME NEW j \in Ids \ Ids' PROVE jobs[j].requestId # jobs[i].requestId
      BY <3>1, <3>2 DEF IndexExact
    <3>4. QED
      BY <1>2, <3>1, <3>2, <3>3 DEF OldJobs
  <2>5. QED
    BY <2>1, <2>3, <2>4 DEF IndexExact
<1>3. QED
  BY <1>1, <1>2, StepShape

LEMMA LeaseStep == TypeOK /\ LeasesExclusive /\ [Next]_vars => LeasesExclusive'
<1> SUFFICES ASSUME TypeOK, LeasesExclusive, [Next]_vars PROVE LeasesExclusive'
  OBVIOUS
<1>1. ASSUME NEW r \in Requests, NEW a \in Aliases, NEW x \in Inputs, Submit(r, a, x)
      PROVE  LeasesExclusive'
  <2>1. NewJob(r, a, x).status \notin Active /\ NewJob(r, a, x).leaseId = 0
    BY DEF NewJob, Active
  <2>2. \A i \in Ids' : \/ i \in Ids /\ jobs'[i] = jobs[i]
                        \/ jobs'[i].status \notin Active /\ jobs'[i].leaseId = 0
    BY <1>1, <2>1, SubmitShape
  <2>3. QED
    BY <2>2 DEF LeasesExclusive
<1>2. ASSUME OldJobs, NEW k \in Ids', Lease(k)
      PROVE  LeasesExclusive'
  <2>1. Ids' = Ids /\ \A i \in Ids : i # k => jobs'[i] = jobs[i]
    BY <1>2 DEF Lease, Ids, TypeOK
  <2>2. jobs'[k].status = "leased" /\ jobs'[k].leaseId = leaseCount + 1
    <3>1. jobs'[k] = AsLeased(jobs[k], leaseCount + 1) /\ jobs[k] \in Job
      BY <1>2, <2>1 DEF Lease, TypeOK, Ids
    <3>2. QED
      BY <3>1 DEF AsLeased, Job
  <2>3. leaseCount \in Nat /\ \A i \in Ids : jobs[i].leaseId \in 0..leaseCount
    BY DEF TypeOK, Job
  <2>4. QED
    BY <2>1, <2>2, <2>3 DEF LeasesExclusive, Active
<1>3. ASSUME OldJobs, \A i \in Ids' : ~Lease(i)
      PROVE  LeasesExclusive'
  <2>1. ASSUME NEW i \in Ids'
        PROVE  /\ i \in Ids
               /\ \/ /\ jobs'[i].status \in Active
                     /\ jobs[i].status \in Active
                     /\ jobs'[i].leaseId = jobs[i].leaseId
                  \/ jobs'[i].status \notin Active /\ jobs'[i].leaseId = 0
    <3>1. i \in Ids /\ (jobs'[i] = jobs[i] \/ Start(i) \/ Requeue(i) \/ Decide(i))
      BY <1>3 DEF OldJobs, Change
    <3>2. jobs[i] \in Job
      BY <3>1 DEF TypeOK
    <3>3. CASE jobs'[i] = jobs[i]
      BY <3>1, <3>3 DEF LeasesExclusive
    <3>4. CASE Start(i)
      BY <3>1, <3>2, <3>4 DEF Start, Active, Job
    <3>5. CASE Requeue(i)
      BY <3>1, <3>2, <3>5 DEF Requeue, AsQueued, Active, Job
    <3>6. CASE Decide(i)
      BY <3>1, <3>2, <3>6 DEF Decide, AsCompleted, AsFailed, AsCancelled, Settled, Active, Job
    <3>7. QED
      BY <3>1, <3>3, <3>4, <3>5, <3>6
  <2>2. QED
    BY <2>1 DEF LeasesExclusive
<1>4. QED
  BY <1>1, <1>2, <1>3, StepShape

(* What a client can read of a job, and what a TUI still needs of it, as   *)
(* facts about one job.                                                    *)
HoldsInput(job) ==
  /\ job.payloadHash[1] = job.alias
  /\ job.input = IF job.status \in Terminal THEN None ELSE job.payloadHash[2]

ShowsOutcome(job) ==
  /\ job.resultText # None <=> job.status = "completed"
  /\ job.errorCode # None <=> job.status = "failed"
  /\ job.interrupted => job.status = "completed"

LEMMA ChangeKeepsJobFacts ==
  ASSUME TypeOK, NEW i \in Ids \cap Ids', Change(i), HoldsInput(jobs[i]), ShowsOutcome(jobs[i])
  PROVE  HoldsInput(jobs'[i]) /\ ShowsOutcome(jobs'[i])
<1> DEFINE old == jobs[i]
<1>1. old \in Job
  BY DEF TypeOK
<1>2. HoldsInput(old) /\ ShowsOutcome(old)
  OBVIOUS
<1>3. CASE Lease(i)
  <2>1. jobs'[i] = AsLeased(old, leaseCount') /\ old.status = "queued"
    BY <1>3 DEF Lease, TypeOK, Ids
  <2> HIDE DEF old
  <2>2. QED
    BY <1>1, <1>2, <2>1 DEF AsLeased, HoldsInput, ShowsOutcome, Terminal, Job
<1>4. CASE jobs'[i] = jobs[i]
  BY <1>4
<1>5. CASE Start(i)
  <2>1. jobs'[i] = [old EXCEPT !.status = "running", !.updatedAt = now] /\ old.status = "leased"
    BY <1>5 DEF Start
  <2> HIDE DEF old
  <2>2. QED
    BY <1>1, <1>2, <2>1 DEF HoldsInput, ShowsOutcome, Terminal, Job
<1>6. CASE Requeue(i)
  <2>1. jobs'[i] = AsQueued(old) /\ old.status = "leased"
    BY <1>6 DEF Requeue
  <2> HIDE DEF old
  <2>2. QED
    BY <1>1, <1>2, <2>1 DEF AsQueued, HoldsInput, ShowsOutcome, Terminal, Job
<1>7. CASE Decide(i)
  <2>1. old.status \notin Terminal
    BY <1>7 DEF Decide
  <2>2. old.resultText = None /\ old.errorCode = None /\ ~old.interrupted
    <3> HIDE DEF old
    <3>1. QED
      BY <1>1, <1>2, <2>1 DEF ShowsOutcome, Terminal, Job
  <2>3. ASSUME NEW t \in Results, NEW b \in BOOLEAN, jobs'[i] = AsCompleted(old, t, b)
        PROVE  HoldsInput(jobs'[i]) /\ ShowsOutcome(jobs'[i])
    <3> HIDE DEF old
    <3>1. t # None
      BY NoneAssumption
    <3>2. QED
      BY <1>1, <1>2, <2>1, <2>2, <2>3, <3>1
         DEF AsCompleted, Settled, HoldsInput, ShowsOutcome, Terminal, Job
  <2>4. ASSUME NEW c \in Codes, jobs'[i] = AsFailed(old, c)
        PROVE  HoldsInput(jobs'[i]) /\ ShowsOutcome(jobs'[i])
    <3> HIDE DEF old
    <3>1. c # None
      BY NoneAssumption
    <3>2. QED
      BY <1>1, <1>2, <2>1, <2>2, <2>4, <3>1
         DEF AsFailed, Settled, HoldsInput, ShowsOutcome, Terminal, Job
  <2>5. ASSUME jobs'[i] = AsCancelled(old)
        PROVE  HoldsInput(jobs'[i]) /\ ShowsOutcome(jobs'[i])
    <3> HIDE DEF old
    <3>1. QED
      BY <1>1, <1>2, <2>1, <2>2, <2>5
         DEF AsCancelled, Settled, HoldsInput, ShowsOutcome, Terminal, Job
  <2>6. QED
    BY <1>7, <2>3, <2>4, <2>5 DEF Decide
<1>8. QED
  BY <1>3, <1>4, <1>5, <1>6, <1>7 DEF Change

LEMMA JobFactsStep ==
  TypeOK /\ InputHeldUntilSettled /\ OutcomeMatchesStatus /\ [Next]_vars
    => (InputHeldUntilSettled /\ OutcomeMatchesStatus)'
<1> SUFFICES ASSUME TypeOK, InputHeldUntilSettled, OutcomeMatchesStatus, [Next]_vars
             PROVE  (InputHeldUntilSettled /\ OutcomeMatchesStatus)'
  OBVIOUS
<1>1. \A i \in Ids : HoldsInput(jobs[i]) /\ ShowsOutcome(jobs[i])
  BY DEF InputHeldUntilSettled, OutcomeMatchesStatus, HoldsInput, ShowsOutcome
<1>2. ASSUME \A i \in Ids' : HoldsInput(jobs'[i]) /\ ShowsOutcome(jobs'[i])
      PROVE  (InputHeldUntilSettled /\ OutcomeMatchesStatus)'
  BY <1>2 DEF InputHeldUntilSettled, OutcomeMatchesStatus, HoldsInput, ShowsOutcome
<1>3. ASSUME NEW r \in Requests, NEW a \in Aliases, NEW x \in Inputs, Submit(r, a, x)
      PROVE  \A i \in Ids' : HoldsInput(jobs'[i]) /\ ShowsOutcome(jobs'[i])
  <2>1. HoldsInput(NewJob(r, a, x)) /\ ShowsOutcome(NewJob(r, a, x))
    BY DEF NewJob, HoldsInput, ShowsOutcome, Terminal
  <2>2. \A i \in Ids' : jobs'[i] = NewJob(r, a, x) \/ (i \in Ids /\ jobs'[i] = jobs[i])
    BY <1>3, SubmitShape
  <2>3. QED
    BY <1>1, <2>1, <2>2
<1>4. ASSUME OldJobs
      PROVE  \A i \in Ids' : HoldsInput(jobs'[i]) /\ ShowsOutcome(jobs'[i])
  BY <1>1, <1>4, ChangeKeepsJobFacts DEF OldJobs
<1>5. QED
  BY <1>2, <1>3, <1>4, StepShape

-----------------------------------------------------------------------------
(* Every state of the store satisfies the inductive invariant.             *)
THEOREM StoreInvariant == Spec => []IInv
<1>1. Init => IInv
  BY LimitsAssumption
     DEF Init, IInv, TypeOK, IndexExact, LeasesExclusive, InputHeldUntilSettled,
         OutcomeMatchesStatus, Ids
<1>2. IInv /\ [Next]_vars => IInv'
  BY TypeStep, IndexStep, LeaseStep, JobFactsStep DEF IInv
<1>3. QED
  BY <1>1, <1>2, PTL DEF Spec

(* Type correctness of the job store.                                      *)
THEOREM StoreTypeCorrect == Spec => []TypeOK
BY StoreInvariant, PTL DEF IInv

(* A retried submission can never make a second job: the two maps of the   *)
(* store stay inverse to each other.                                       *)
THEOREM StoreIndexExact == Spec => []IndexExact
BY StoreInvariant, PTL DEF IInv

(* An answer that carries a lease reaches the one job it was leased for.   *)
THEOREM StoreLeasesExclusive == Spec => []LeasesExclusive
BY StoreInvariant, PTL DEF IInv

(* A job that can still be run holds its prompt, a settled one does not.   *)
THEOREM StoreInputHeld == Spec => []InputHeldUntilSettled
BY StoreInvariant, PTL DEF IInv

(* What a client reads of a job agrees with its status.                    *)
THEOREM StoreOutcomes == Spec => []OutcomeMatchesStatus
BY StoreInvariant, PTL DEF IInv

(* A job and its verdict agree, through every settlement.                  *)
THEOREM StoreSettled == Spec => []SettledProperly
BY StoreInputHeld, StoreOutcomes, PTL DEF SettledProperly

(* No job is leased past an older waiting job of its alias.                *)
THEOREM StoreLeasesInOrder == Spec => LeasedInOrder
<1>1. ASSUME TypeOK, [Next]_vars, NEW i \in Ids \cap DOMAIN jobs',
             jobs[i].status = "queued", jobs'[i].status = "leased",
             NEW j \in Ids, j < i, jobs[j].alias = jobs[i].alias
      PROVE  jobs[j].status # "queued"
  <2>1. jobs[i] \in Job /\ i \in Int /\ j \in Int
    BY <1>1 DEF TypeOK
  <2>2. ~\E r \in Requests, a \in Aliases, x \in Inputs : Submit(r, a, x)
    BY <1>1, SubmitShape
  <2>3. Change(i)
    BY <1>1, <2>2, StepShape DEF OldJobs, Ids
  <2>4. Lease(i)
    <3>1. jobs'[i] # jobs[i] /\ ~Start(i) /\ ~Requeue(i)
      BY <1>1 DEF Start, Requeue
    <3>2. ~Decide(i)
      BY <1>1, <2>1 DEF Decide, AsCompleted, AsFailed, AsCancelled, Settled, Job
    <3>3. QED
      BY <2>3, <3>1, <3>2 DEF Change
  <2>5. QED
    BY <1>1, <2>1, <2>4 DEF Lease, IsOldest, Queued
<1>2. TypeOK /\ [Next]_vars =>
        [\A i \in Ids \cap DOMAIN jobs' :
           jobs[i].status = "queued" /\ jobs'[i].status = "leased" =>
             \A j \in Ids : j < i /\ jobs[j].alias = jobs[i].alias => jobs[j].status # "queued"]_vars
  BY <1>1
<1>3. QED
  BY <1>2, StoreTypeCorrect, PTL DEF Spec, LeasedInOrder

-----------------------------------------------------------------------------
(* The store implements the job life cycle.                                *)

(* A settled job that stays in the store does not change.                  *)
LEMMA SettledStays ==
  ASSUME OldJobs, NEW i \in SettledIds, i \in Ids'
  PROVE  jobs'[i] = jobs[i]
<1>1. jobs[i].status \in Terminal /\ Change(i)
  BY DEF SettledIds, OldJobs
<1>2. QED
  BY <1>1 DEF Change, Lease, Start, Requeue, Decide, Terminal

THEOREM StoreLifecycle == Spec => Lifecycle
<1>1. Init => Life!Init
  BY DEF Init, Life!Init, SettledIds, Ids
<1>2. ASSUME TypeOK, TypeOK', [Next]_vars
      PROVE  [Life!Next]_(Life!vars)
  <2> USE LimitsAssumption
  <2>1. ASSUME NEW r \in Requests, NEW a \in Aliases, NEW x \in Inputs, Submit(r, a, x)
        PROVE  Life!Accept(sequence + 1) /\ sequence + 1 \in 1..MaxSequence
    <3>1. sequence' = sequence + 1 /\ sequence \in Nat /\ sequence + 1 \in 1..MaxSequence
      BY <1>2, <2>1 DEF Submit, TypeOK
    <3>2. Ids' = Ids \cup {sequence + 1} /\ sequence + 1 \notin Ids
          /\ \A i \in Ids : jobs'[i] = jobs[i]
      BY <1>2, <2>1, SubmitShape
    <3>3. jobs'[sequence + 1].status = "queued"
      <4>1. jobs'[sequence + 1] = NewJob(r, a, x)
        BY <1>2, <2>1, SubmitShape
      <4>2. QED
        BY <4>1 DEF NewJob
    <3>4. SettledIds' = SettledIds
      <4>1. \A i : i \in SettledIds' <=> i \in Ids' /\ jobs'[i].status \in Terminal
        BY DEF SettledIds
      <4>2. \A i : i \in SettledIds <=> i \in Ids /\ jobs[i].status \in Terminal
        BY DEF SettledIds
      <4>3. jobs'[sequence + 1].status \notin Terminal
        BY <3>3 DEF Terminal
      <4>4. \A i : i \in SettledIds' <=> i \in SettledIds
        BY <3>2, <4>1, <4>2, <4>3
      <4>5. QED
        BY <4>4, SetExtensionality
    <3>5. [i \in SettledIds' |-> VerdictOf(jobs'[i])] = [i \in SettledIds |-> VerdictOf(jobs[i])]
      BY <3>2, <3>4 DEF SettledIds
    <3>6. 1..sequence' = (1..sequence) \cup {sequence + 1} /\ sequence + 1 \notin 1..sequence
      BY <3>1
    <3>7. (1..sequence') \ Ids' = (1..sequence) \ Ids
      BY <3>2, <3>6
    <3>8. QED
      BY <3>1, <3>5, <3>6, <3>7 DEF Life!Accept
  <2>2. CASE OldJobs
    <3> DEFINE verdict == [i \in SettledIds |-> VerdictOf(jobs[i])]
               forgotten == (1..sequence) \ Ids
    <3>1. sequence' = sequence /\ Ids' \subseteq Ids /\ Ids \ Ids' \subseteq SettledIds
          /\ Ids \subseteq 1..sequence
      BY <1>2, <2>2 DEF OldJobs, TypeOK
    <3>2. \A i \in SettledIds : i \in Ids' => i \in SettledIds' /\ jobs'[i] = jobs[i]
      BY <2>2, SettledStays DEF SettledIds
    <3>3. SettledIds \subseteq Ids /\ SettledIds' \subseteq Ids'
      BY DEF SettledIds
    <3>4. verdict' = [i \in SettledIds' |-> VerdictOf(jobs'[i])]
          /\ DOMAIN verdict = SettledIds /\ DOMAIN verdict' = SettledIds'
      BY DEF VerdictOf
    <3>5. ASSUME NEW i \in SettledIds'
          PROVE  verdict'[i] \in VerdictSet
      <4>1. jobs'[i] \in Job' /\ jobs'[i].status \in Terminal
        BY <1>2, <3>3 DEF TypeOK, SettledIds
      <4>2. VerdictOf(jobs'[i]) \in VerdictSet
        BY <4>1 DEF VerdictOf, VerdictSet, Job
      <4>3. QED
        BY <3>4, <4>2
    <3>6. Life!Settle
      <4>1. (1..sequence)' = 1..sequence
        BY <3>1
      <4>2. forgotten \subseteq forgotten' /\ forgotten' \subseteq forgotten \cup SettledIds
        BY <3>1
      <4>3. SettledIds' \subseteq (1..sequence) \ forgotten' /\ SettledIds \cap forgotten = {}
        BY <1>2, <3>1, <3>3
      <4>4. SettledIds' \subseteq (SettledIds \cup ((1..sequence) \ (SettledIds \cup forgotten))) \ forgotten'
        BY <3>1, <3>3, <4>3
      <4>5. \A i \in SettledIds \ forgotten' : i \in SettledIds' /\ verdict'[i] = verdict[i]
        BY <3>1, <3>2, <3>3, <3>4
      <4>6. QED
        BY <3>4, <3>5, <4>1, <4>2, <4>4, <4>5 DEF Life!Settle, Life!Decided, Life!Open
    <3>7. QED
      BY <3>6 DEF Life!Next
  <2>3. QED
    BY <1>2, <2>1, <2>2, StepShape DEF Life!Next
<1>3. QED
  BY <1>1, <1>2, StoreTypeCorrect, PTL DEF Spec, Lifecycle, Life!Spec

=============================================================================
