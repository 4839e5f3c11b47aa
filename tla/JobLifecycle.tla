---------------------------- MODULE JobLifecycle ----------------------------
(***************************************************************************)
(* What the controller promises its client about a job, whatever happens   *)
(* between the controller and the TUI: a job is accepted once, it is       *)
(* decided at most once, and its verdict stands unchanged until the job is *)
(* forgotten, which only a decided job can be.  An accepted number is      *)
(* never accepted again.                                                   *)
(***************************************************************************)
EXTENDS Integers

CONSTANTS Numbers,   \* names of jobs
          Verdicts   \* how a job can end

VARIABLES accepted,  \* the jobs ever accepted
          verdict,   \* the verdicts on record, a function of decided jobs
          forgotten  \* the jobs no longer on record

vars == <<accepted, verdict, forgotten>>

Decided == DOMAIN verdict
Open    == accepted \ (Decided \cup forgotten)

TypeOK ==
  /\ accepted \subseteq Numbers
  /\ verdict \in [Decided -> Verdicts]
  /\ Decided \subseteq accepted
  /\ forgotten \subseteq accepted
  /\ Decided \cap forgotten = {}

Init == accepted = {} /\ verdict = [n \in {} |-> 0] /\ forgotten = {}

\* A new job is taken in.
Accept(n) ==
  /\ n \notin accepted
  /\ accepted' = accepted \cup {n}
  /\ UNCHANGED verdict /\ UNCHANGED forgotten

\* Some open jobs are decided and some decided ones forgotten, in one step
\* (a prune does both); no verdict on record changes.
Settle ==
  /\ accepted' = accepted
  /\ forgotten \subseteq forgotten'
  /\ forgotten' \subseteq forgotten \cup Decided
  /\ DOMAIN verdict' \subseteq (Decided \cup Open) \ forgotten'
  /\ \A n \in Decided \ forgotten' : n \in DOMAIN verdict' /\ verdict'[n] = verdict[n]
  /\ verdict' = [n \in DOMAIN verdict' |-> verdict'[n]]
  /\ \A n \in DOMAIN verdict' : verdict'[n] \in Verdicts

Next == (\E n \in Numbers : Accept(n)) \/ Settle

Spec == Init /\ [][Next]_vars

=============================================================================
