---------------------------- MODULE PeerRegister ----------------------------
(***************************************************************************)
(* What discovery state promises its caller, whatever the order in which   *)
(* observations and removals reach it: for each advertisement key the      *)
(* newest input wins, a removal wins against an observation of the same    *)
(* time, and only what is already gone is ever forgotten.                  *)
(***************************************************************************)
EXTENDS Integers

CONSTANTS Keys, Peers, Times, NoPeer

VARIABLE newest     \* the winning input for each key; peer NoPeer is a removal

Nothing == [at |-> -1, peer |-> NoPeer]

Init == newest = [k \in Keys |-> Nothing]

\* The winner of what is known and one more input.
Merge(old, input) ==
    IF \/ input.at > old.at
       \/ input.at = old.at /\ (old.peer # NoPeer \/ input.peer = NoPeer)
      THEN input ELSE old

\* The same input reaches the keys in reached; those in forgotten, all gone by
\* then, are dropped.
Learn(reached, input, forgotten) ==
    LET merged == [k \in Keys |-> IF k \in reached THEN Merge(newest[k], input)
                                                   ELSE newest[k]]
    IN /\ \A k \in forgotten : merged[k].peer = NoPeer
       /\ newest' = [k \in Keys |-> IF k \in forgotten THEN Nothing ELSE merged[k]]

\* One advertisement is observed, or any number of them are withdrawn.
Next ==
    \E t \in Times, forgotten \in SUBSET Keys :
        \/ \E k \in Keys, p \in Peers : Learn({k}, [at |-> t, peer |-> p], forgotten)
        \/ \E gone \in SUBSET Keys : Learn(gone, [at |-> t, peer |-> NoPeer], forgotten)

Spec == Init /\ [][Next]_newest
=============================================================================
