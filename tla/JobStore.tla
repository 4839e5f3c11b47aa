------------------------------ MODULE JobStore ------------------------------
(***************************************************************************)
(* The in-memory job store of the controller (controller/registry.mjs,     *)
(* class JobStore).  Every job submitted over POST /v1/jobs lives here     *)
(* until a prune forgets it.                                               *)
(*                                                                         *)
(* The store runs on the event loop of one Node process and none of its    *)
(* methods awaits, so each method is one atomic action.  A method that     *)
(* throws a RegistryError, or returns what it found, changes nothing: it   *)
(* is the action not being enabled.                                        *)
(*                                                                         *)
(* A job's id is a fresh UUID and its sequence a fresh number, both given  *)
(* by submit, so the model names a job by its sequence.  A leaseId is a    *)
(* fresh random secret: leaseCount numbers the ones handed out, and 0 is   *)
(* the absent property.                                                    *)
(***************************************************************************)
EXTENDS Integers, FiniteSets

CONSTANTS
  Requests,         \* requestIds the clients use
  Aliases,          \* session aliases
  Inputs,           \* prompts: a text with its images, after validation
  Results,          \* result texts
  Codes,            \* error codes
  None,             \* null, and the released input of a settled job
  MaxJobsPerAlias,  \* limit on the queued jobs of one alias
  TtlMs,            \* how long an unserved or a settled job is kept
  MaxSequence,      \* bound: jobs ever accepted
  MaxLeases,        \* bound: leases ever handed out
  MaxTime           \* bound: the clock stops here

ASSUME LimitsAssumption ==
  /\ MaxJobsPerAlias \in Nat
  /\ TtlMs \in Nat
  /\ MaxSequence \in Nat
  /\ MaxLeases \in Nat
  /\ MaxTime \in Nat

ASSUME NoneAssumption == None \notin Inputs \cup Results \cup Codes

VARIABLES
  jobs,        \* Map id -> job, the ids being sequence numbers
  requestIds,  \* Map requestId -> id
  sequence,    \* the last sequence number given
  leaseCount,  \* the last leaseId given
  now          \* Date.now(), in units that make TtlMs small

vars == <<jobs, requestIds, sequence, leaseCount, now>>

Terminal == {"completed", "failed", "cancelled"}
Active   == {"leased", "running"}
Statuses == {"queued"} \cup Active \cup Terminal

Ids == DOMAIN jobs

Queued(alias)   == {i \in Ids : jobs[i].alias = alias /\ jobs[i].status = "queued"}
ActiveOf(alias) == {i \in Ids : jobs[i].alias = alias /\ jobs[i].status \in Active}
Leased(alias)   == {i \in Ids : jobs[i].alias = alias /\ jobs[i].status = "leased"}
Unsettled(alias) == {i \in Ids : jobs[i].alias = alias /\ jobs[i].status \notin Terminal}

\* sort(by sequence)[0]: i is the oldest member of S.
IsOldest(i, S) == i \in S /\ \A j \in S : i <= j

-----------------------------------------------------------------------------
(* What the methods write into a job.                                      *)

NewJob(requestId, alias, input) ==
  [requestId |-> requestId, alias |-> alias, input |-> input,
   payloadHash |-> <<alias, input>>, status |-> "queued", leaseId |-> 0,
   createdAt |-> now, updatedAt |-> now,
   resultText |-> None, interrupted |-> FALSE, errorCode |-> None]

AsLeased(job, leaseId) ==
  [job EXCEPT !.status = "leased", !.leaseId = leaseId, !.updatedAt = now]

\* Mutation of AsQueued: a requeued job keeps its lease.
AsQueuedLeased(job) == [job EXCEPT !.status = "queued", !.updatedAt = now]

AsQueued(job) ==
  [job EXCEPT !.status = "queued", !.leaseId = 0, !.updatedAt = now]

\* Mutation of Settled: the prompt is kept.
SettledUnreleased(job, status) ==
  [job EXCEPT !.status = status, !.leaseId = 0, !.updatedAt = now]

\* The tail common to complete, fail and cancel: the lease is deleted and
\* releaseInput drops the prompt.
Settled(job, status) ==
  [job EXCEPT !.status = status, !.leaseId = 0, !.updatedAt = now, !.input = None]

AsCompleted(job, text, interrupted) ==
  [Settled(job, "completed") EXCEPT !.resultText = text, !.interrupted = interrupted]

AsFailed(job, code) == [Settled(job, "failed") EXCEPT !.errorCode = code]

AsCancelled(job) == Settled(job, "cancelled")

\* The store with f applied to the jobs of S.
Updated(S, f(_)) == [i \in Ids |-> IF i \in S THEN f(jobs[i]) ELSE jobs[i]]

-----------------------------------------------------------------------------
Init ==
  /\ jobs = [i \in {} |-> None]
  /\ requestIds = [r \in {} |-> 0]
  /\ sequence = 0
  /\ leaseCount = 0
  /\ now = 0

\* Mutation of Submit: the index is not looked at, the newest job wins.
SubmitUnchecked(requestId, alias, input) ==
  /\ Cardinality(Queued(alias)) < MaxJobsPerAlias
  /\ sequence < MaxSequence
  /\ sequence' = sequence + 1
  /\ jobs' = [i \in Ids \cup {sequence'} |->
                IF i = sequence' THEN NewJob(requestId, alias, input) ELSE jobs[i]]
  /\ requestIds' = [r \in DOMAIN requestIds \cup {requestId} |->
                      IF r = requestId THEN sequence' ELSE requestIds[r]]
  /\ UNCHANGED <<leaseCount, now>>

\* submit: a requestId that is still indexed never makes a second job (the
\* same payload gets the existing job back, another one request-conflict),
\* and a full alias queue refuses the job (queue-full).
Submit(requestId, alias, input) ==
  /\ requestId \notin DOMAIN requestIds
  /\ Cardinality(Queued(alias)) < MaxJobsPerAlias
  /\ sequence < MaxSequence
  /\ sequence' = sequence + 1
  /\ jobs' = [i \in Ids \cup {sequence'} |->
                IF i = sequence' THEN NewJob(requestId, alias, input) ELSE jobs[i]]
  /\ requestIds' = [r \in DOMAIN requestIds \cup {requestId} |->
                      IF r = requestId THEN sequence' ELSE requestIds[r]]
  /\ UNCHANGED <<leaseCount, now>>

\* Mutation of LeaseNext: the jobs are not sorted.
LeaseNextUnsorted(alias) ==
  /\ leaseCount < MaxLeases
  /\ leaseCount' = leaseCount + 1
  /\ \E i \in Queued(alias) : jobs' = [jobs EXCEPT ![i] = AsLeased(@, leaseCount')]
  /\ UNCHANGED <<requestIds, sequence, now>>

\* leaseNext: the oldest queued job of the alias, under a fresh lease.
LeaseNext(alias) ==
  /\ leaseCount < MaxLeases
  /\ leaseCount' = leaseCount + 1
  /\ \E i \in Queued(alias) :
       /\ IsOldest(i, Queued(alias))
       /\ jobs' = [jobs EXCEPT ![i] = AsLeased(@, leaseCount')]
  /\ UNCHANGED <<requestIds, sequence, now>>

\* acknowledge: leased -> running for the lease that was handed out.  The
\* second acknowledgement of a running lease is accepted and changes nothing.
Acknowledge(i, leaseId) ==
  /\ i \in Ids
  /\ jobs[i].status = "leased"
  /\ jobs[i].leaseId = leaseId
  /\ jobs' = [jobs EXCEPT ![i].status = "running", ![i].updatedAt = now]
  /\ UNCHANGED <<requestIds, sequence, leaseCount, now>>

\* complete: only the running lease.
Complete(i, leaseId, text, interrupted) ==
  /\ i \in Ids
  /\ jobs[i].status = "running"
  /\ jobs[i].leaseId = leaseId
  /\ jobs' = [jobs EXCEPT ![i] = AsCompleted(@, text, interrupted)]
  /\ UNCHANGED <<requestIds, sequence, leaseCount, now>>

\* fail: an active job only by its lease, a queued one by anybody, a settled
\* one never.
Fail(i, code, leaseId) ==
  /\ i \in Ids
  /\ jobs[i].status \in Active => jobs[i].leaseId = leaseId
  /\ jobs[i].status \notin Terminal
  /\ jobs' = [jobs EXCEPT ![i] = AsFailed(@, code)]
  /\ UNCHANGED <<requestIds, sequence, leaseCount, now>>

\* Mutation of Cancel: a settled job is cancelled too.
CancelSettled(i) ==
  /\ i \in Ids
  /\ jobs' = [jobs EXCEPT ![i] = AsCancelled(@)]
  /\ UNCHANGED <<requestIds, sequence, leaseCount, now>>

\* cancel: whatever is not settled yet, its lease included.
Cancel(i) ==
  /\ i \in Ids
  /\ jobs[i].status \notin Terminal
  /\ jobs' = [jobs EXCEPT ![i] = AsCancelled(@)]
  /\ UNCHANGED <<requestIds, sequence, leaseCount, now>>

\* cancelAlias: the queued jobs of an alias, with includeActive the active
\* ones too.
CancelAlias(alias, includeActive) ==
  /\ jobs' = Updated(IF includeActive THEN Unsettled(alias) ELSE Queued(alias), AsCancelled)
  /\ UNCHANGED <<requestIds, sequence, leaseCount, now>>

\* requeueLease: the acknowledgement timer of one lease.
RequeueLease(i, leaseId) ==
  /\ i \in Ids
  /\ jobs[i].status = "leased"
  /\ jobs[i].leaseId = leaseId
  /\ jobs' = [jobs EXCEPT ![i] = AsQueued(@)]
  /\ UNCHANGED <<requestIds, sequence, leaseCount, now>>

\* requeueLeases: the session of the alias stopped.
RequeueLeases(alias) ==
  /\ jobs' = Updated(Leased(alias), AsQueued)
  /\ UNCHANGED <<requestIds, sequence, leaseCount, now>>

\* prune: a job queued for more than the ttl is cancelled, and a job settled
\* for more than the ttl is forgotten with its requestId.  The two loops run
\* in this order; what the first one cancels was updated now and stays.
Overdue == {i \in Ids : jobs[i].status = "queued" /\ now - jobs[i].createdAt > TtlMs}
Expired == {i \in Ids : jobs[i].status \in Terminal /\ now - jobs[i].updatedAt > TtlMs}

\* Mutation of Prune: the requestId of a forgotten job stays indexed.
PruneUnindexed ==
  /\ jobs' = [i \in Ids \ Expired |-> IF i \in Overdue THEN AsCancelled(jobs[i]) ELSE jobs[i]]
  /\ UNCHANGED <<requestIds, sequence, leaseCount, now>>

Prune ==
  /\ jobs' = [i \in Ids \ Expired |-> IF i \in Overdue THEN AsCancelled(jobs[i]) ELSE jobs[i]]
  /\ requestIds' = [r \in DOMAIN requestIds \ {jobs[i].requestId : i \in Expired} |-> requestIds[r]]
  /\ UNCHANGED <<sequence, leaseCount, now>>

\* The clock.
Tick ==
  /\ now < MaxTime
  /\ now' = now + 1
  /\ UNCHANGED <<jobs, requestIds, sequence, leaseCount>>

Next ==
  \/ \E r \in Requests, a \in Aliases, x \in Inputs : Submit(r, a, x)
  \/ \E a \in Aliases : LeaseNext(a)
  \/ \E i \in Ids, l \in 1..leaseCount : Acknowledge(i, l)
  \/ \E i \in Ids, l \in 1..leaseCount, t \in Results, b \in BOOLEAN : Complete(i, l, t, b)
  \/ \E i \in Ids, l \in 0..leaseCount, c \in Codes : Fail(i, c, l)
  \/ \E i \in Ids : Cancel(i)
  \/ \E a \in Aliases, b \in BOOLEAN : CancelAlias(a, b)
  \/ \E i \in Ids, l \in 1..leaseCount : RequeueLease(i, l)
  \/ \E a \in Aliases : RequeueLeases(a)
  \/ Prune
  \/ Tick

Spec == Init /\ [][Next]_vars

=============================================================================
