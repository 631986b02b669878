----------------------------- MODULE MCDiscover -----------------------------
(* Values of the constants of Discover for TLC.                            *)
EXTENDS Discover

\* A valid resolution of a key with metadata txt.
Valid(k, txt) == Resolved(k, 1, {Endpoint("fe80::1", 1)}, txt)

\* Valid resolutions and an incompatible one of every key, and removals.
MCRawEvents ==
    {Valid(k, txt) : k \in Keys, txt \in {"m", "n", "incompatible"}}
        \cup {Gone(k) : k \in Keys \cup {BadName}}

\* Two valid resolutions of one key and one of every other, one removal, and one
\* resolution refused.
MCFewEvents ==
    {Valid(k, "m") : k \in Keys}
        \cup {Valid(1, "n"), Gone(1), Valid(1, "incompatible")}
=============================================================================
