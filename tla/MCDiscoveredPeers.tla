-------------------------- MODULE MCDiscoveredPeers --------------------------
(* Values of the constants of DiscoveredPeers for TLC.                     *)
EXTENDS DiscoveredPeers, TLC

MCSymmetry == Permutations(Peers)
=============================================================================
