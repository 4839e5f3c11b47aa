--------------------------- MODULE JobStoreProps ---------------------------
(***************************************************************************)
(* The properties of the job store.                                        *)
(***************************************************************************)
EXTENDS JobStore

\* A function of one of the shapes the store's maps have.
Job ==
  [requestId : Requests, alias : Aliases, input : Inputs \cup {None},
   payloadHash : Aliases \X Inputs, status : Statuses, leaseId : 0..leaseCount,
   createdAt : 0..now, updatedAt : 0..now,
   resultText : Results \cup {None}, interrupted : BOOLEAN,
   errorCode : Codes \cup {None}]

(* Type invariant: the maps hold well-formed entries, ids never exceed the *)
(* sequence counter and leases never the lease counter.                    *)
TypeOK ==
  /\ sequence \in 0..MaxSequence
  /\ leaseCount \in Nat
  /\ now \in Nat
  /\ Ids \subseteq 1..sequence
  /\ jobs \in [Ids -> Job]
  /\ DOMAIN requestIds \subseteq Requests
  /\ requestIds \in [DOMAIN requestIds -> Ids]

(* The two maps of the store are inverse to each other: an indexed request *)
(* leads to its own job, and every job in the store can be found by its    *)
(* requestId.  So a client that retries a submission whose answer was lost *)
(* cannot make a second job (submit, prune: registry.mjs:369, :564).       *)
IndexExact ==
  /\ \A r \in DOMAIN requestIds : jobs[requestIds[r]].requestId = r
  /\ \A i \in Ids :
       /\ jobs[i].requestId \in DOMAIN requestIds
       /\ requestIds[jobs[i].requestId] = i

(* A lease names one active job, and a job that is not active has none: an *)
(* answer that carries an old lease can never reach another job, nor the   *)
(* same job leased again (leaseNext, requeueLease, acknowledge, complete). *)
LeasesExclusive ==
  /\ \A i \in Ids : (jobs[i].status \in Active) <=> (jobs[i].leaseId # 0)
  /\ \A i, j \in Ids :
       jobs[i].status \in Active /\ jobs[i].leaseId = jobs[j].leaseId => i = j

(* A job that may still be handed to a TUI holds the very prompt that was  *)
(* hashed at submission, through any number of leases and requeues; a      *)
(* settled one holds no prompt (releaseInput: registry.mjs:312).           *)
InputHeldUntilSettled ==
  \A i \in Ids :
    /\ jobs[i].payloadHash[1] = jobs[i].alias
    /\ jobs[i].input = IF jobs[i].status \in Terminal THEN None ELSE jobs[i].payloadHash[2]

(* What the client reads agrees with the status: a result exactly when     *)
(* completed, an error code exactly when failed, interrupted only with a   *)
(* result.                                                                 *)
OutcomeMatchesStatus ==
  \A i \in Ids :
    /\ jobs[i].resultText # None <=> jobs[i].status = "completed"
    /\ jobs[i].errorCode # None <=> jobs[i].status = "failed"
    /\ jobs[i].interrupted => jobs[i].status = "completed"

(* A job and its verdict agree: what it holds of its prompt and what it    *)
(* says of its outcome belong to its status.                               *)
SettledProperly == InputHeldUntilSettled /\ OutcomeMatchesStatus

(* A job is never leased while an older job of its alias is waiting, even  *)
(* when that one was leased before and came back (leaseNext sorts by       *)
(* sequence, requeueLease keeps the sequence).                             *)
LeasedInOrder ==
  [][\A i \in Ids \cap DOMAIN jobs' :
       jobs[i].status = "queued" /\ jobs'[i].status = "leased" =>
         \A j \in Ids : j < i /\ jobs[j].alias = jobs[i].alias => jobs[j].status # "queued"]_vars

-----------------------------------------------------------------------------
(* The store implements the job life cycle: jobs are the sequence numbers, *)
(* a settled job's verdict is what publicJob shows of it, and what prune   *)
(* deleted is forgotten.                                                   *)

SettledIds == {i \in Ids : jobs[i].status \in Terminal}

VerdictOf(job) ==
  [status |-> job.status, text |-> job.resultText,
   interrupted |-> job.interrupted, code |-> job.errorCode]

VerdictSet ==
  [status : Terminal, text : Results \cup {None}, interrupted : BOOLEAN,
   code : Codes \cup {None}]

Life == INSTANCE JobLifecycle WITH
  Numbers <- 1..MaxSequence,
  Verdicts <- VerdictSet,
  accepted <- 1..sequence,
  verdict <- [i \in SettledIds |-> VerdictOf(jobs[i])],
  forgotten <- (1..sequence) \ Ids

(* Every step of the store is a step of the life cycle or leaves it alone: *)
(* no late answer, retry, cancel or requeue decides a job twice, changes a *)
(* verdict on record or forgets a job that was never decided.              *)
Lifecycle == Life!Spec

=============================================================================
