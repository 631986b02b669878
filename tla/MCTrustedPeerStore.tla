------------------------- MODULE MCTrustedPeerStore -------------------------
(* Values of the constants of TrustedPeerStore for TLC.                    *)
EXTENDS TrustedPeerStore, TLC

MCSymmetry == Permutations(Processes) \cup Permutations(Identities)
=============================================================================
