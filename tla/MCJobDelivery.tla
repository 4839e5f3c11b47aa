--------------------------- MODULE MCJobDelivery ---------------------------
(***************************************************************************)
(* JobDelivery with one request per job and one prompt: a requestId is     *)
(* used at most once here, since nothing is pruned.  The configurations    *)
(* differ in how many jobs, faults, aborts and local prompts there are.    *)
(***************************************************************************)
EXTENDS JobDeliveryProps, TLC

CONSTANTS r1, r2

MCRequests == IF MaxSequence = 1 THEN {r1} ELSE {r1, r2}

Interchangeable == Permutations(MCRequests)

=============================================================================
