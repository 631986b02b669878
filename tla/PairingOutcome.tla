--------------------------- MODULE PairingOutcome ---------------------------
(***************************************************************************)
(* What the pairing-request phase promises, without frames, clocks or      *)
(* states: an attempt is begun once, users on the other side give          *)
(* verdicts on it, and the initiator either learns one of those verdicts   *)
(* or ends without one.  What it learned never changes.                    *)
(***************************************************************************)
CONSTANTS AttemptIds, Verdicts

VARIABLES
    outcome,    \* [AttemptIds -> "none", "open", "ended" or a verdict]
    verdicts    \* the pairs <<attempt, verdict>> given so far

vars == <<outcome, verdicts>>

Init == outcome = [i \in AttemptIds |-> "none"] /\ verdicts = {}

Begin(i) ==
    /\ outcome[i] = "none"
    /\ outcome' = [outcome EXCEPT ![i] = "open"]
    /\ UNCHANGED verdicts

Give(i, v) ==
    /\ outcome[i] # "none"
    /\ verdicts' = verdicts \cup {<<i, v>>}
    /\ UNCHANGED outcome

Learn(i, v) ==
    /\ outcome[i] = "open" /\ <<i, v>> \in verdicts
    /\ outcome' = [outcome EXCEPT ![i] = v]
    /\ UNCHANGED verdicts

End(i) ==
    /\ outcome[i] = "open"
    /\ outcome' = [outcome EXCEPT ![i] = "ended"]
    /\ UNCHANGED verdicts

Next ==
    \E i \in AttemptIds :
        \/ Begin(i) \/ End(i)
        \/ \E v \in Verdicts : Give(i, v) \/ Learn(i, v)

Spec == Init /\ [][Next]_vars
=============================================================================
