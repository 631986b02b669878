--------------------------- MODULE DiscoveredPeers ---------------------------
(***************************************************************************)
(* The advisory state of discovered peers (discovered_peers.rs): one       *)
(* record per advertisement key, visible or a tombstone, fed with browser  *)
(* events at times the caller chooses and may choose out of order.         *)
(*                                                                         *)
(* A peer snapshot is one opaque value; keys are integers because eviction *)
(* orders them.                                                            *)
(***************************************************************************)
EXTENDS Integers, FiniteSets

CONSTANTS
    Keys,                       \* TransientDiscoveryKey
    Peers,                      \* DiscoveredPeer snapshots, compared for equality only
    NoPeer,
    MaxTime,                    \* bound of the caller's timeline
    Windows,                    \* stale_after values
    MAX_RETAINED_TOMBSTONES,
    TOMBSTONE_RETENTION

Times == 0..MaxTime

ASSUME DiscoveryAssumption ==
    /\ Keys \subseteq Int /\ IsFiniteSet(Keys)
    /\ NoPeer \notin Peers
    /\ MaxTime \in Nat /\ Windows \subseteq Nat
    /\ MAX_RETAINED_TOMBSTONES \in Nat /\ TOMBSTONE_RETENTION \in Nat

VARIABLES
    records,        \* PeerRecord of every key
    visible_count,
    mirror          \* history: the keys a caller shows who only follows the transitions

vars == <<records, visible_count, mirror>>

Unknown == [kind |-> "unknown", at |-> -1, peer |-> NoPeer, seen |-> -1]
Tombstone(t) == [kind |-> "tombstone", at |-> t, peer |-> NoPeer, seen |-> -1]
Visible(p, t) == [kind |-> "visible", at |-> t, peer |-> p, seen |-> t]

Init ==
    /\ records = [k \in Keys |-> Unknown]
    /\ visible_count = 0
    /\ mirror = {}

VisibleKeys(recs) == {k \in Keys : recs[k].kind = "visible"}
Tombstones(recs) == {k \in Keys : recs[k].kind = "tombstone"}

-----------------------------------------------------------------------------
(* prune_tombstones.                                                       *)

\* A tombstone past the retention horizon at time now.
Outlived(r, now) == r.kind = "tombstone" /\ now - r.at > TOMBSTONE_RETENTION

\* The order of (last_transition_at, key) in which the excess is evicted.
EvictedBefore(recs, j, k) ==
    recs[j].at < recs[k].at \/ (recs[j].at = recs[k].at /\ j < k)

\* Mutant: no tombstone is ever evicted.
KeepsAll(recs, kept) == kept = Tombstones(recs)

\* Everything is kept up to the limit; beyond it, the newest.
KeepsNewest(recs, kept) ==
    LET tombs == Tombstones(recs) IN
    IF Cardinality(tombs) <= MAX_RETAINED_TOMBSTONES
      THEN kept = tombs
      ELSE /\ Cardinality(kept) = MAX_RETAINED_TOMBSTONES
           /\ \A k \in kept, j \in tombs \ kept : EvictedBefore(recs, j, k)

Retained(recs, now) == [k \in Keys |-> IF Outlived(recs[k], now) THEN Unknown ELSE recs[k]]

Keeping(recs, kept) ==
    [k \in Keys |-> IF k \in Tombstones(recs) \ kept THEN Unknown ELSE recs[k]]

\* What prune_tombstones(now) leaves of recs (one result: the order is total).
Pruned(recs, now) ==
    LET left == Retained(recs, now) IN
    {Keeping(left, kept) : kept \in {K \in SUBSET Tombstones(left) : KeepsNewest(left, K)}}

-----------------------------------------------------------------------------
(* The operations.  Their results are the transitions the caller is given. *)

\* What a caller shows who is told of key k: from Appeared to Removed.  The other
\* transitions, and the reasons of a Noop, "AlreadyAbsent" and "Stale", change
\* nothing.
Follows(shown, k, told) ==
    IF told = "Appeared" THEN shown \cup {k}
    ELSE IF told = "Removed" THEN shown \ {k}
    ELSE shown

\* Mutant: an observation as old as the removal it meets brings the peer back.
ObservedOnTie(r, p, t) ==
    CASE r.kind = "unknown"                      -> "Appeared"
      [] r.kind # "unknown" /\ t < r.at          -> "Stale"
      [] r.kind = "tombstone" /\ t >= r.at       -> "Appeared"
      [] r.kind = "visible" /\ t >= r.at         -> IF r.peer = p THEN "Refreshed" ELSE "Updated"

\* Mutant: a changed snapshot counts as a new appearance.
ObservedAgain(r, p, t) ==
    CASE r.kind = "unknown"                      -> "Appeared"
      [] r.kind # "unknown" /\ t < r.at          -> "Stale"
      [] r.kind = "tombstone" /\ t = r.at        -> "Stale"
      [] r.kind = "tombstone" /\ t > r.at        -> "Appeared"
      [] r.kind = "visible" /\ t >= r.at         -> IF r.peer = p THEN "Refreshed" ELSE "Appeared"

\* The transition observe returns for a peer seen at time t.
Observed(r, p, t) ==
    CASE r.kind = "unknown"                      -> "Appeared"
      [] r.kind # "unknown" /\ t < r.at          -> "Stale"
      [] r.kind = "tombstone" /\ t = r.at        -> "Stale"
      [] r.kind = "tombstone" /\ t > r.at        -> "Appeared"
      [] r.kind = "visible" /\ t >= r.at         -> IF r.peer = p THEN "Refreshed" ELSE "Updated"

\* Mutant: a removal as old as the observation it meets hides the peer untold.
RemovedByUntoldOnTie(r, t) ==
    CASE r.kind = "unknown"                      -> "AlreadyAbsent"
      [] r.kind # "unknown" /\ t < r.at          -> "Stale"
      [] r.kind = "visible" /\ t > r.at          -> "Removed"
      [] r.kind = "visible" /\ t = r.at          -> "AlreadyAbsent"
      [] r.kind = "tombstone" /\ t >= r.at       -> "AlreadyAbsent"

\* The transition remove returns.
RemovedBy(r, t) ==
    CASE r.kind = "unknown"                      -> "AlreadyAbsent"
      [] r.kind # "unknown" /\ t < r.at          -> "Stale"
      [] r.kind = "visible" /\ t >= r.at         -> "Removed"
      [] r.kind = "tombstone" /\ t >= r.at       -> "AlreadyAbsent"

\* Mutant: a refresh moves last_seen_at and leaves last_transition_at behind.
ObserveKeepsTime(k, p, t) ==
    \E recs \in Pruned(records, t) :
        LET told == Observed(recs[k], p, t) IN
        /\ records' = IF told = "Stale" THEN recs
                      ELSE IF told = "Refreshed" THEN [recs EXCEPT ![k].seen = t]
                      ELSE [recs EXCEPT ![k] = Visible(p, t)]
        /\ visible_count' = IF told = "Appeared" THEN visible_count + 1 ELSE visible_count
        /\ mirror' = Follows(mirror, k, told)

\* apply of Added, Updated or Refreshed: prune_tombstones, then observe.
Observe(k, p, t) ==
    \E recs \in Pruned(records, t) :
        LET told == Observed(recs[k], p, t) IN
        /\ records' = IF told = "Stale" THEN recs ELSE [recs EXCEPT ![k] = Visible(p, t)]
        /\ visible_count' = IF told = "Appeared" THEN visible_count + 1 ELSE visible_count
        /\ mirror' = Follows(mirror, k, told)

\* apply of Removed: prune_tombstones, remove, prune_tombstones.
Remove(k, t) ==
    \E recs \in Pruned(records, t) :
        LET told == RemovedBy(recs[k], t)
            left == IF told = "Stale" THEN recs ELSE [recs EXCEPT ![k] = Tombstone(t)]
        IN /\ records' \in Pruned(left, t)
           /\ visible_count' = IF told = "Removed" THEN visible_count - 1 ELSE visible_count
           /\ mirror' = Follows(mirror, k, told)

\* apply of Error: Rejected.
RejectError == UNCHANGED vars

\* The filter of expire.
IsStale(r, now, stale_after) ==
    r.kind = "visible" /\ now >= r.seen /\ now - r.seen >= stale_after

\* expire: prune_tombstones, a tombstone at now for every stale peer,
\* prune_tombstones.
Expire(now, stale_after) ==
    \E recs \in Pruned(records, now) :
        LET expired == {k \in Keys : IsStale(recs[k], now, stale_after)} IN
        /\ records' \in Pruned([k \in Keys |-> IF k \in expired THEN Tombstone(now)
                                                                ELSE recs[k]], now)
        /\ visible_count' = visible_count - Cardinality(expired)
        /\ mirror' = mirror \ expired

Next ==
    \/ \E k \in Keys, p \in Peers, t \in Times : Observe(k, p, t)
    \/ \E k \in Keys, t \in Times : Remove(k, t)
    \/ \E now \in Times, stale_after \in Windows : Expire(now, stale_after)
    \/ RejectError

Spec == Init /\ [][Next]_vars

-----------------------------------------------------------------------------
(* Properties.                                                             *)

PeerRecord == {Unknown} \cup {Tombstone(t) : t \in Times}
                        \cup {Visible(p, t) : p \in Peers, t \in Times}

\* Every record is unknown, a tombstone, or visible and last changed when it was
\* last seen: every observation that counts sets both times.
TypeOK ==
    /\ records \in [Keys -> PeerRecord]
    /\ visible_count \in Int
    /\ mirror \subseteq Keys

\* len() is the number of peers get and iter show, after any sequence of inputs
\* in any order of times: the counter kept beside the map never drifts, and
\* never goes below zero.
CountMatchesVisible == visible_count = Cardinality(VisibleKeys(records))

\* A caller who only follows the returned transitions, adding a key on Appeared
\* and dropping it on Removed, shows exactly the visible peers.
TransitionsTellAll == mirror = VisibleKeys(records)

\* The tombstones never outgrow their limit, however many keys come and go.
TombstonesBounded == Cardinality(Tombstones(records)) <= MAX_RETAINED_TOMBSTONES

\* The inductive invariant behind the theorems of DiscoveredPeersProofs.
IInv == TypeOK /\ TombstonesBounded /\ TransitionsTellAll /\ CountMatchesVisible

Register == INSTANCE PeerRegister WITH
    newest <- [k \in Keys |-> [at |-> records[k].at, peer |-> records[k].peer]]

\* For every key still remembered the newest input wins, whatever the order in
\* which inputs came: no late observation undoes a newer removal or expiry, no
\* late removal hides a newer observation, and pruning forgets only the gone.
ImplementsRegister == Register!Spec
=============================================================================
