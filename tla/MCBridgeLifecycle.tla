------------------------- MODULE MCBridgeLifecycle -------------------------
(***************************************************************************)
(* Instances of BridgeLifecycle for TLC.                                   *)
(***************************************************************************)
EXTENDS BridgeLifecycleProps, TLC

CONSTANTS w1, w2, b1, b2

TwoWrappers  == {w1, w2}
TwoPids      == {b1, b2}
TwoSymmetry  == Permutations(TwoWrappers) \cup Permutations(TwoPids)

\* Everything, everything but what LastCloses excepts, and the world in which
\* OursTracked is kept with a status command.
Disturbed   == {BridgeFeatures, BridgeFeatures \ {"status"},
                BridgeFeatures \ {"interrupt", "hang"}}
\* Kipsels that are killed and bridges that are started by hand.
Undisturbed == {{"die", "external"}}

=============================================================================
