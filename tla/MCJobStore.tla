----------------------------- MODULE MCJobStore -----------------------------
(***************************************************************************)
(* JobStore with two requests, two aliases and two prompts.  Requests,     *)
(* aliases and prompts are interchangeable.                                *)
(***************************************************************************)
EXTENDS JobStoreProps, TLC

CONSTANTS r1, r2, a1, a2, x1, x2

MCRequests == {r1, r2}
MCAliases == {a1, a2}
MCInputs == {x1, x2}

Interchangeable ==
  Permutations(MCRequests) \cup Permutations(MCAliases) \cup Permutations(MCInputs)

=============================================================================
