--------------------------- MODULE SubagentProps ---------------------------
(***************************************************************************)
(* The properties of subagent calls and background jobs.                   *)
(***************************************************************************)
EXTENDS SubagentRuns

Statuses == {"completed", "failed", "cancelled"}

\* What the overlap of two scopes means: a file that both may write.
Conflict(left, right) == \E p \in left, q \in right : IsPrefix(p, q) \/ IsPrefix(q, p)

Living(c) == {i \in Tasks(c) : children[c][i].state \in Procs}

(* Type invariant: a pool keeps its limit, a task is pending or active or  *)
(* neither, and the registry its size unless running jobs fill it.         *)
TypeOK ==
  /\ \A c \in Made :
       /\ calls[c].state \in {"running", "throwing", "ended"}
       /\ calls[c].active \subseteq Tasks(c) /\ Cardinality(calls[c].active) <= Concurrency
       /\ ToSet(calls[c].pending) \subseteq Tasks(c) \ calls[c].active
       /\ \A i \in Tasks(c) : children[c][i].state \in Procs \cup {"new", "gone"}
  /\ running \subseteq Made /\ enabled \in BOOLEAN /\ \A d \in sent : d.call \in Made
  /\ \A f \in ToSet(finished) \cup told : f.id \in Made /\ f.status \in Statuses

(* Two children of a call never write below the same root at once          *)
(* (mapWithScopedConcurrency).                                             *)
CallScopesApart ==
  \A c \in Made : \A i, j \in Living(c) : i # j => ~Conflict(Scope(c, i), Scope(c, j))

(* Parallelism buys no race: no two children at all write below the same   *)
(* root at once, those of different calls and jobs included (README.md:86).*)
ScopesApart ==
  \A c, d \in Made : \A i \in Living(c), j \in Living(d) :
    <<c, i>> # <<d, j>> => ~Conflict(Scope(c, i), Scope(d, j))

(* A call gives no result, and a job no end, while a child of it is alive: *)
(* what comes next would find files that still change.                     *)
NoChildLeft ==
  \A c \in Made : calls[c].state = "ended" => Living(c) = {}

(* A step of a chain starts when all steps before it went well.            *)
ChainInOrder ==
  \A c \in Made : calls[c].plan.mode = "chain" =>
    \A i \in Tasks(c) : children[c][i].state # "new" \/ i \in calls[c].active
      => \A j \in 1..(i - 1) : children[c][j].result = "ok"

(* A background job that ended is reported to the main session with the    *)
(* status it has, unless the session is shut down; one that was cancelled  *)
(* may have been forgotten before its children were gone.                  *)
JobsReported ==
  \A c \in Made : calls[c].background /\ calls[c].state = "ended" /\ enabled =>
    \/ calls[c].aborted
    \/ \E m \in told : m.id = c /\ m.status # "cancelled"

(* What a call ends with is complete: no child of it is left and, if it is *)
(* a background job, its end is reported.                                  *)
EndsComplete == NoChildLeft /\ JobsReported

(* A job that was cancelled is never reported as anything else, however    *)
(* its children end (jobs.test.ts:25).                                     *)
CancelSticks ==
  \A m \in told : calls[m.id].aborted => m.status = "cancelled"

(* Calls and jobs are well formed, chains go in order and what a user      *)
(* cancelled stays cancelled.                                              *)
CallsSound == TypeOK /\ ChainInOrder /\ CancelSticks

(* Every call ends, whatever its tasks overlap with and however they end;  *)
(* an aborted one as well (its children end when they are told to).        *)
CallsEnd ==
  \A c \in Calls : calls[c] # None ~> calls[c] # None /\ calls[c].state = "ended"

(* When a job is cancelled its children end and its scopes are free again  *)
(* (subagent/index.ts:910).                                                *)
CancelReleases ==
  \A c \in Calls :
    calls[c] # None /\ calls[c].background /\ calls[c].aborted ~> calls[c] # None /\ Living(c) = {}

(* What a child delivers is written where its call looks for deliveries,   *)
(* and so comes to the main session (README.md:94).                        *)
DeliveriesArrive == \A d \in sent : d.spool = d.call

=============================================================================
