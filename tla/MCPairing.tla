------------------------------ MODULE MCPairing ------------------------------
(* Values of the constants of Pairing for TLC.                             *)
EXTENDS Pairing, TLC

\* A frame whose rejection reason no release knows.
AnyId == CHOOSE i \in AttemptIds : TRUE
MCDamaged == {<<1, 3, AnyId, 7>>}
MCSymmetry == Permutations(Responders)
=============================================================================
