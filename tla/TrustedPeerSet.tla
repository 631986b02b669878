--------------------------- MODULE TrustedPeerSet ---------------------------
(***************************************************************************)
(* What the trusted-peer store promises its users: a set of records with   *)
(* distinct identities, changed by whole, atomic puts and removals of one  *)
(* identity and by nothing else.  No update is lost, and nothing comes     *)
(* back that was not put again.                                            *)
(***************************************************************************)
CONSTANTS Identities, Labels

VARIABLE trusted

Init == trusted \in {{}} \cup {{[id |-> i, label |-> l]} : i \in Identities, l \in Labels}

Put(i, l) == trusted' = {r \in trusted : r.id # i} \cup {[id |-> i, label |-> l]}

Forget(i) == trusted' = {r \in trusted : r.id # i}

Next == \E i \in Identities : Forget(i) \/ \E l \in Labels : Put(i, l)

Spec == Init /\ [][Next]_trusted
=============================================================================
