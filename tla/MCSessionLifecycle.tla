------------------------- MODULE MCSessionLifecycle -------------------------
(***************************************************************************)
(* Instances of SessionLifecycle for TLC.                                  *)
(***************************************************************************)
EXTENDS SessionLifecycleProps, TLC

CONSTANTS a1, a2, s1, s2

OneAlias   == {a1}
TwoAliases == {a1, a2}
OneStop    == {s1}
TwoStops   == {s1, s2}

\* Safety properties only.
Symmetric == Permutations(Aliases) \cup Permutations(Requests)

=============================================================================
