----------------------- MODULE DiscoveredPeersProofs -----------------------
(***************************************************************************)
(* Theorems about DiscoveredPeers, for every set of keys and peers, every  *)
(* limit and retention horizon, and inputs in any order of times.          *)
(***************************************************************************)
EXTENDS DiscoveredPeers, FiniteSetTheorems, TLAPS

\* A tombstone may have become unknown; nothing else changed.
OnlyForgets(old, new) ==
    \A k \in Keys : \/ new[k] = old[k]
                    \/ old[k].kind = "tombstone" /\ new[k] = Unknown

\* The fields of the three kinds of record.
LEMMA RecordFields ==
  ASSUME NEW r \in PeerRecord
  PROVE  /\ r.kind \in {"unknown", "tombstone", "visible"}
         /\ r.kind = "unknown" => r.at = -1 /\ r.peer = NoPeer
         /\ r.kind = "tombstone" => r.at \in Times /\ r.peer = NoPeer
         /\ r.kind = "visible" => r.at \in Times /\ r.peer \in Peers /\ r.seen = r.at
         /\ r.kind = "unknown" <=> r = Unknown
<1>1. CASE r = Unknown
  BY <1>1 DEF Unknown
<1>2. CASE \E t \in Times : r = Tombstone(t)
  BY <1>2 DEF Tombstone, Unknown
<1>3. CASE \E p \in Peers, t \in Times : r = Visible(p, t)
  BY <1>3 DEF Visible, Unknown
<1> QED BY <1>1, <1>2, <1>3 DEF PeerRecord

\* Sets of keys are finite.
LEMMA KeySets ==
  ASSUME NEW S \in SUBSET Keys
  PROVE  IsFiniteSet(S) /\ Cardinality(S) \in Nat
BY FS_Subset, FS_CardinalityType, DiscoveryAssumption

\* prune_tombstones forgets tombstones only, and leaves at most the limit.
LEMMA PruneForgets ==
  ASSUME NEW recs, recs \in [Keys -> PeerRecord], NEW now \in Times, NEW new \in Pruned(recs, now)
  PROVE  /\ new \in [Keys -> PeerRecord]
         /\ OnlyForgets(recs, new)
         /\ VisibleKeys(new) = VisibleKeys(recs)
         /\ Cardinality(Tombstones(new)) <= MAX_RETAINED_TOMBSTONES
<1> DEFINE left == Retained(recs, now)
<1>1. PICK kept \in SUBSET Tombstones(left) : KeepsNewest(left, kept) /\ new = Keeping(left, kept)
  BY DEF Pruned
<1>2. \A k \in Keys : left[k] = recs[k] \/ (recs[k].kind = "tombstone" /\ left[k] = Unknown)
  BY DEF Retained, Outlived
<1>3. \A k \in Keys : new[k] = left[k] \/ (left[k].kind = "tombstone" /\ new[k] = Unknown)
  BY <1>1 DEF Keeping, Tombstones
<1>4. OnlyForgets(recs, new)
  BY <1>2, <1>3 DEF OnlyForgets, Unknown
<1>5. new \in [Keys -> PeerRecord]
  <2>1. \A k \in Keys : new[k] \in PeerRecord
    BY <1>4 DEF OnlyForgets, PeerRecord
  <2>2. new = [k \in Keys |-> new[k]]
    BY <1>1 DEF Keeping
  <2> QED BY <2>1, <2>2
<1>6. VisibleKeys(new) = VisibleKeys(recs)
  BY <1>4 DEF OnlyForgets, VisibleKeys, Unknown
<1>7. Tombstones(new) \subseteq kept
  BY <1>1 DEF Keeping, Tombstones, Unknown
<1>8. Cardinality(kept) <= MAX_RETAINED_TOMBSTONES
  BY <1>1, DiscoveryAssumption DEF KeepsNewest
<1>9. kept \in SUBSET Keys
  BY DEF Tombstones
<1>10. Cardinality(Tombstones(new)) <= MAX_RETAINED_TOMBSTONES
  <2>1. IsFiniteSet(kept) /\ Cardinality(kept) \in Nat
    BY <1>9, KeySets
  <2>2. Cardinality(Tombstones(new)) <= Cardinality(kept) /\ Cardinality(Tombstones(new)) \in Nat
    BY <2>1, <1>7, FS_Subset, FS_CardinalityType
  <2> QED BY <2>1, <2>2, <1>8, DiscoveryAssumption
<1> QED BY <1>4, <1>5, <1>6, <1>10

\* Within the limit, prune_tombstones forgets only what the horizon outlived.
LEMMA PruneWithinLimit ==
  ASSUME NEW recs, recs \in [Keys -> PeerRecord], NEW now \in Times, NEW new \in Pruned(recs, now),
         Cardinality(Tombstones(recs)) <= MAX_RETAINED_TOMBSTONES
  PROVE  \A k \in Keys : new[k] = recs[k] \/ (Outlived(recs[k], now) /\ new[k] = Unknown)
<1> DEFINE left == Retained(recs, now)
<1>1. PICK kept \in SUBSET Tombstones(left) : KeepsNewest(left, kept) /\ new = Keeping(left, kept)
  BY DEF Pruned
<1>2. Tombstones(left) \subseteq Tombstones(recs) /\ Tombstones(recs) \in SUBSET Keys
  BY DEF Tombstones, Retained, Unknown
<1>3. Cardinality(Tombstones(left)) <= MAX_RETAINED_TOMBSTONES
  <2>1. IsFiniteSet(Tombstones(recs)) /\ Cardinality(Tombstones(recs)) \in Nat
    BY <1>2, KeySets
  <2>2. /\ Cardinality(Tombstones(left)) <= Cardinality(Tombstones(recs))
        /\ Cardinality(Tombstones(left)) \in Nat
    BY <2>1, <1>2, FS_Subset, FS_CardinalityType
  <2> QED BY <2>1, <2>2, DiscoveryAssumption
<1>4. kept = Tombstones(left)
  BY <1>1, <1>3 DEF KeepsNewest
<1>5. \A k \in Keys : new[k] = left[k]
  BY <1>1, <1>4 DEF Keeping
<1> QED BY <1>5 DEF Retained

-----------------------------------------------------------------------------
(* The invariants.                                                         *)

\* The parts of the invariant that speak of records, of any records.
Bounded(recs) == Cardinality(Tombstones(recs)) <= MAX_RETAINED_TOMBSTONES

\* One key becomes visible: the visible set grows by it, the tombstones do not.
LEMMA Shows ==
  ASSUME NEW recs \in [Keys -> PeerRecord], NEW k \in Keys, NEW p \in Peers, NEW t \in Times,
         NEW new, new = [recs EXCEPT ![k] = Visible(p, t)]
  PROVE  /\ new \in [Keys -> PeerRecord]
         /\ VisibleKeys(new) = VisibleKeys(recs) \cup {k}
         /\ Tombstones(new) \subseteq Tombstones(recs)
<1>1. Visible(p, t) \in PeerRecord /\ Visible(p, t).kind = "visible"
  BY DEF PeerRecord, Visible
<1>2. \A j \in Keys : new[j] = IF j = k THEN Visible(p, t) ELSE recs[j]
  OBVIOUS
<1> QED BY <1>1, <1>2 DEF VisibleKeys, Tombstones

\* A set of keys becomes tombstones: the visible set shrinks by it.
LEMMA Buries ==
  ASSUME NEW recs \in [Keys -> PeerRecord], NEW S \in SUBSET Keys, NEW t \in Times,
         NEW new, new = [k \in Keys |-> IF k \in S THEN Tombstone(t) ELSE recs[k]]
  PROVE  /\ new \in [Keys -> PeerRecord]
         /\ VisibleKeys(new) = VisibleKeys(recs) \ S
<1>1. Tombstone(t) \in PeerRecord /\ Tombstone(t).kind = "tombstone"
  BY DEF PeerRecord, Tombstone
<1> QED BY <1>1 DEF VisibleKeys

\* Counting the visible keys: one more, one fewer, a set fewer.
LEMMA Counting ==
  ASSUME NEW recs
  PROVE  /\ IsFiniteSet(VisibleKeys(recs)) /\ Cardinality(VisibleKeys(recs)) \in Nat
         /\ \A k : Cardinality(VisibleKeys(recs) \cup {k}) =
              IF k \in VisibleKeys(recs) THEN Cardinality(VisibleKeys(recs))
                                        ELSE Cardinality(VisibleKeys(recs)) + 1
         /\ \A S \in SUBSET VisibleKeys(recs) :
              Cardinality(VisibleKeys(recs) \ S) = Cardinality(VisibleKeys(recs)) - Cardinality(S)
<1>1. IsFiniteSet(VisibleKeys(recs)) /\ Cardinality(VisibleKeys(recs)) \in Nat
  BY KeySets DEF VisibleKeys
<1>2. ASSUME NEW k
      PROVE  Cardinality(VisibleKeys(recs) \cup {k}) =
              IF k \in VisibleKeys(recs) THEN Cardinality(VisibleKeys(recs))
                                        ELSE Cardinality(VisibleKeys(recs)) + 1
  BY <1>1, FS_AddElement
<1>3. ASSUME NEW S \in SUBSET VisibleKeys(recs)
      PROVE  Cardinality(VisibleKeys(recs) \ S) = Cardinality(VisibleKeys(recs)) - Cardinality(S)
  <2>1. VisibleKeys(recs) \cap S = S
    OBVIOUS
  <2> QED BY <1>1, <2>1, FS_Difference
<1> QED BY <1>1, <1>2, <1>3

\* What pruning leaves of the records of a state that satisfies the invariant.
LEMMA PrunedRecords ==
  ASSUME IInv, NEW t \in Times, NEW recs \in Pruned(records, t)
  PROVE  /\ recs \in [Keys -> PeerRecord]
         /\ VisibleKeys(recs) = VisibleKeys(records)
         /\ Bounded(recs)
         /\ \A k \in Keys : recs[k] = records[k] \/ (Outlived(records[k], t) /\ recs[k] = Unknown)
BY PruneForgets, PruneWithinLimit DEF IInv, TypeOK, TombstonesBounded, Bounded

\* observe keeps every part of the invariant.
LEMMA ObserveKeeps ==
  ASSUME IInv, NEW k \in Keys, NEW p \in Peers, NEW t \in Times, Observe(k, p, t)
  PROVE  IInv'
<1>1. PICK recs \in Pruned(records, t) :
        /\ records' = IF Observed(recs[k], p, t) = "Stale" THEN recs
                      ELSE [recs EXCEPT ![k] = Visible(p, t)]
        /\ visible_count' = IF Observed(recs[k], p, t) = "Appeared"
                              THEN visible_count + 1 ELSE visible_count
        /\ mirror' = Follows(mirror, k, Observed(recs[k], p, t))
  BY DEF Observe
<1>2. /\ recs \in [Keys -> PeerRecord] /\ VisibleKeys(recs) = VisibleKeys(records)
      /\ Bounded(recs)
  BY PrunedRecords
<1>3. mirror = VisibleKeys(recs) /\ visible_count = Cardinality(VisibleKeys(recs))
  BY <1>2 DEF IInv, TransitionsTellAll, CountMatchesVisible
<1>4. visible_count \in Nat /\ VisibleKeys(recs) \subseteq Keys
  BY <1>3, Counting DEF VisibleKeys
<1>5. CASE Observed(recs[k], p, t) = "Stale"
  <2>1. records' = recs /\ mirror' = mirror /\ visible_count' = visible_count
    BY <1>1, <1>5 DEF Follows
  <2> QED BY <2>1, <1>2, <1>3, <1>4 DEF IInv, TypeOK, TombstonesBounded, Bounded,
             TransitionsTellAll, CountMatchesVisible
<1>6. CASE Observed(recs[k], p, t) # "Stale"
  <2>1. records' = [recs EXCEPT ![k] = Visible(p, t)]
    BY <1>1, <1>6
  <2>2. /\ records' \in [Keys -> PeerRecord]
        /\ VisibleKeys(records') = VisibleKeys(recs) \cup {k}
        /\ Tombstones(records') \subseteq Tombstones(recs)
    <3> DEFINE new == [recs EXCEPT ![k] = Visible(p, t)]
    <3>1. /\ new \in [Keys -> PeerRecord]
          /\ VisibleKeys(new) = VisibleKeys(recs) \cup {k}
          /\ Tombstones(new) \subseteq Tombstones(recs)
      BY <1>2, Shows
    <3>2. records' = new
      BY <2>1
    <3> HIDE DEF new
    <3> QED BY <3>1, <3>2
  <2>3. Bounded(records')
    <3>1. Tombstones(recs) \in SUBSET Keys
      BY DEF Tombstones
    <3>2. /\ IsFiniteSet(Tombstones(recs)) /\ Cardinality(Tombstones(recs)) \in Nat
      BY <3>1, KeySets
    <3>3. /\ Cardinality(Tombstones(records')) <= Cardinality(Tombstones(recs))
          /\ Cardinality(Tombstones(records')) \in Nat
      BY <3>2, <2>2, FS_Subset, FS_CardinalityType
    <3> QED BY <3>2, <3>3, <1>2, DiscoveryAssumption DEF Bounded
  <2>4. Observed(recs[k], p, t) = "Appeared" <=> k \notin VisibleKeys(recs)
    BY <1>2, <1>6, RecordFields DEF Observed, VisibleKeys, Times
  <2>5. mirror' = VisibleKeys(records')
    <3>1. Observed(recs[k], p, t) # "Removed"
      BY <1>2, <1>6, RecordFields DEF Observed, Times
    <3> QED BY <3>1, <1>1, <1>3, <2>2, <2>4 DEF Follows
  <2>6. visible_count' = Cardinality(VisibleKeys(records')) /\ visible_count' \in Int
    <3>1. Cardinality(VisibleKeys(recs) \cup {k}) =
            IF k \in VisibleKeys(recs) THEN visible_count ELSE visible_count + 1
      BY <1>3, Counting
    <3>2. visible_count' = IF k \in VisibleKeys(recs) THEN visible_count ELSE visible_count + 1
      BY <1>1, <2>4
    <3> QED BY <3>1, <3>2, <2>2, <1>4
  <2>7. mirror' \subseteq Keys
    BY <2>5 DEF VisibleKeys
  <2> QED BY <2>2, <2>3, <2>5, <2>6, <2>7 DEF IInv, TypeOK, TombstonesBounded, Bounded,
             TransitionsTellAll, CountMatchesVisible
<1> QED BY <1>5, <1>6

\* What remove and expire share: a set of visible keys is buried, then pruned.
LEMMA BuryKeeps ==
  ASSUME IInv, NEW t \in Times, NEW recs \in Pruned(records, t),
         NEW S \in SUBSET Keys, NEW gone \in SUBSET VisibleKeys(recs),
         VisibleKeys(recs) \cap S = gone,
         NEW left, left = [k \in Keys |-> IF k \in S THEN Tombstone(t) ELSE recs[k]],
         records' \in Pruned(left, t),
         visible_count' = visible_count - Cardinality(gone),
         mirror' = mirror \ gone
  PROVE  IInv'
<1>1. recs \in [Keys -> PeerRecord] /\ VisibleKeys(recs) = VisibleKeys(records)
  BY PrunedRecords
<1>2. left \in [Keys -> PeerRecord] /\ VisibleKeys(left) = VisibleKeys(recs) \ gone
  BY <1>1, Buries
<1>3. /\ records' \in [Keys -> PeerRecord] /\ VisibleKeys(records') = VisibleKeys(left)
      /\ Bounded(records')
  BY <1>2, PruneForgets DEF Bounded
<1>4. mirror' = VisibleKeys(records') /\ mirror' \subseteq Keys
  BY <1>1, <1>2, <1>3 DEF IInv, TransitionsTellAll, VisibleKeys
<1>5. visible_count = Cardinality(VisibleKeys(recs))
  BY <1>1 DEF IInv, CountMatchesVisible
<1>6. visible_count' = Cardinality(VisibleKeys(records'))
  BY <1>2, <1>3, <1>5, Counting
<1>7. visible_count' \in Int
  BY <1>6, Counting
<1> QED BY <1>3, <1>4, <1>6, <1>7 DEF IInv, TypeOK, TombstonesBounded, Bounded,
           TransitionsTellAll, CountMatchesVisible

\* remove of a key buries it, unless the removal is stale.
LEMMA RemoveKeeps ==
  ASSUME IInv, NEW k \in Keys, NEW t \in Times, Remove(k, t)
  PROVE  IInv'
<1>1. PICK recs \in Pruned(records, t) :
        /\ records' \in Pruned(IF RemovedBy(recs[k], t) = "Stale" THEN recs
                               ELSE [recs EXCEPT ![k] = Tombstone(t)], t)
        /\ visible_count' = IF RemovedBy(recs[k], t) = "Removed"
                              THEN visible_count - 1 ELSE visible_count
        /\ mirror' = Follows(mirror, k, RemovedBy(recs[k], t))
  BY DEF Remove
<1>2. recs \in [Keys -> PeerRecord]
  BY PrunedRecords
<1>3. visible_count \in Int
  BY DEF IInv, TypeOK
<1>4. Cardinality({}) = 0 /\ Cardinality({k}) = 1
  BY FS_EmptySet, FS_Singleton
<1>5. CASE RemovedBy(recs[k], t) = "Stale"
  <2>1. recs = [j \in Keys |-> IF j \in {} THEN Tombstone(t) ELSE recs[j]]
    BY <1>2
  <2>2. records' \in Pruned(recs, t) /\ visible_count' = visible_count - Cardinality({})
          /\ mirror' = mirror \ {}
    BY <1>1, <1>3, <1>4, <1>5 DEF Follows
  <2>3. VisibleKeys(recs) \cap {} = {} /\ {} \in SUBSET Keys /\ {} \in SUBSET VisibleKeys(recs)
    OBVIOUS
  <2> QED BY <2>1, <2>2, <2>3, BuryKeeps
<1>6. CASE RemovedBy(recs[k], t) # "Stale"
  <2> DEFINE left == [j \in Keys |-> IF j \in {k} THEN Tombstone(t) ELSE recs[j]]
  <2>1. left = [recs EXCEPT ![k] = Tombstone(t)]
    BY <1>2
  <2>2. records' \in Pruned(left, t)
    BY <1>1, <1>6, <2>1
  <2>3. RemovedBy(recs[k], t) = "Removed" <=> k \in VisibleKeys(recs)
    BY <1>2, <1>6, RecordFields DEF RemovedBy, VisibleKeys, Times
  <2>4. CASE k \in VisibleKeys(recs)
    <3>1. visible_count' = visible_count - Cardinality({k}) /\ mirror' = mirror \ {k}
      BY <1>1, <1>4, <2>3, <2>4 DEF Follows
    <3>2. VisibleKeys(recs) \cap {k} = {k} /\ {k} \in SUBSET Keys /\ {k} \in SUBSET VisibleKeys(recs)
      BY <2>4
    <3> HIDE DEF left
    <3> QED BY <2>2, <3>1, <3>2, BuryKeeps DEF left
  <2>5. CASE k \notin VisibleKeys(recs)
    <3>1. visible_count' = visible_count - Cardinality({}) /\ mirror' = mirror \ {}
      <4>1. RemovedBy(recs[k], t) \notin {"Appeared", "Removed"}
        BY <1>2, <2>3, <2>5, RecordFields DEF RemovedBy, Times
      <4> QED BY <4>1, <1>1, <1>3, <1>4 DEF Follows
    <3>2. VisibleKeys(recs) \cap {k} = {} /\ {k} \in SUBSET Keys /\ {} \in SUBSET VisibleKeys(recs)
      BY <2>5
    <3> HIDE DEF left
    <3> QED BY <2>2, <3>1, <3>2, BuryKeeps DEF left
  <2> QED BY <2>4, <2>5
<1> QED BY <1>5, <1>6

\* expire buries every stale peer.
LEMMA ExpireKeeps ==
  ASSUME IInv, NEW now \in Times, NEW w \in Windows, Expire(now, w)
  PROVE  IInv'
<1>1. PICK recs \in Pruned(records, now) :
        LET expired == {k \in Keys : IsStale(recs[k], now, w)} IN
        /\ records' \in Pruned([k \in Keys |-> IF k \in expired THEN Tombstone(now)
                                                                ELSE recs[k]], now)
        /\ visible_count' = visible_count - Cardinality(expired)
        /\ mirror' = mirror \ expired
  BY DEF Expire
<1> DEFINE expired == {k \in Keys : IsStale(recs[k], now, w)}
<1>2. expired \in SUBSET Keys /\ expired \in SUBSET VisibleKeys(recs)
        /\ VisibleKeys(recs) \cap expired = expired
  BY DEF IsStale, VisibleKeys
<1>3. /\ records' \in Pruned([k \in Keys |-> IF k \in expired THEN Tombstone(now)
                                                              ELSE recs[k]], now)
      /\ visible_count' = visible_count - Cardinality(expired)
      /\ mirror' = mirror \ expired
  BY <1>1
<1> HIDE DEF expired
<1> QED BY <1>2, <1>3, BuryKeeps

-----------------------------------------------------------------------------
(* What one operation shows, for a caller that composes it with others.    *)

\* Every record is as old as it was, as the operation, or forgotten.
AgesAt(t) == \A k \in Keys : records'[k].at \in {-1, t, records[k].at}

\* What is visible of the keys in S was visible before, unchanged.
ShownBefore(S) == \A k \in S : records'[k].kind = "visible" => records'[k] = records[k]

\* observe at the latest time shows the peer observed, and no other new one.
LEMMA ObserveShows ==
  ASSUME IInv, NEW k \in Keys, NEW p \in Peers, NEW t \in Times, Observe(k, p, t),
         records[k].at <= t
  PROVE  /\ AgesAt(t) /\ ShownBefore(Keys \ {k})
         /\ records'[k].kind = "visible" => records'[k].peer = p
<1>1. PICK recs \in Pruned(records, t) :
        records' = IF Observed(recs[k], p, t) = "Stale" THEN recs
                   ELSE [recs EXCEPT ![k] = Visible(p, t)]
  BY DEF Observe
<1>2. /\ recs \in [Keys -> PeerRecord]
      /\ \A j \in Keys : recs[j] = records[j] \/ recs[j] = Unknown
  BY PrunedRecords
<1>3. CASE Observed(recs[k], p, t) = "Stale"
  <2>1. recs[k].kind # "visible"
    BY <1>2, <1>3, RecordFields DEF Observed, Times, Unknown
  <2> QED BY <1>1, <1>2, <1>3, <2>1 DEF AgesAt, ShownBefore, Unknown
<1>4. CASE Observed(recs[k], p, t) # "Stale"
  <2>1. \A j \in Keys : records'[j] = IF j = k THEN Visible(p, t) ELSE recs[j]
    BY <1>1, <1>2, <1>4
  <2> QED BY <1>2, <2>1 DEF AgesAt, ShownBefore, Unknown, Visible
<1> QED BY <1>3, <1>4

\* Burying keys and pruning shows nothing new, and none of them.
LEMMA BuryShows ==
  ASSUME IInv, NEW t \in Times, NEW recs \in Pruned(records, t), NEW S \in SUBSET Keys,
         records' \in Pruned([k \in Keys |-> IF k \in S THEN Tombstone(t) ELSE recs[k]], t)
  PROVE  AgesAt(t) /\ ShownBefore(Keys) /\ \A k \in S : records'[k].kind # "visible"
<1> DEFINE left == [k \in Keys |-> IF k \in S THEN Tombstone(t) ELSE recs[k]]
<1>1. /\ recs \in [Keys -> PeerRecord]
      /\ \A j \in Keys : recs[j] = records[j] \/ recs[j] = Unknown
  BY PrunedRecords
<1>2. left \in [Keys -> PeerRecord]
  BY <1>1, Buries
<1>3. OnlyForgets(left, records')
  BY <1>2, PruneForgets
<1>4. \A k \in Keys : records'[k] = left[k] \/ records'[k] = Unknown
  BY <1>3 DEF OnlyForgets
<1>5. \A k \in Keys : left[k] = IF k \in S THEN Tombstone(t) ELSE recs[k]
  OBVIOUS
<1> HIDE DEF left
<1> QED BY <1>1, <1>4, <1>5 DEF AgesAt, ShownBefore, Unknown, Tombstone

\* remove at the latest time hides the key, and shows nothing new.
LEMMA RemoveShows ==
  ASSUME IInv, NEW k \in Keys, NEW t \in Times, Remove(k, t), records[k].at <= t
  PROVE  AgesAt(t) /\ ShownBefore(Keys) /\ records'[k].kind # "visible"
<1>1. PICK recs \in Pruned(records, t) :
        records' \in Pruned(IF RemovedBy(recs[k], t) = "Stale" THEN recs
                            ELSE [recs EXCEPT ![k] = Tombstone(t)], t)
  BY DEF Remove
<1>2. /\ recs \in [Keys -> PeerRecord]
      /\ \A j \in Keys : recs[j] = records[j] \/ recs[j] = Unknown
  BY PrunedRecords
<1>3. RemovedBy(recs[k], t) # "Stale"
  BY <1>2, RecordFields DEF RemovedBy, Times, Unknown, IInv, TypeOK
<1>4. [recs EXCEPT ![k] = Tombstone(t)] = [j \in Keys |-> IF j \in {k} THEN Tombstone(t) ELSE recs[j]]
  BY <1>2
<1>5. records' \in Pruned([j \in Keys |-> IF j \in {k} THEN Tombstone(t) ELSE recs[j]], t)
  BY <1>1, <1>3, <1>4
<1> QED BY <1>5, BuryShows

\* expire shows nothing new.
LEMMA ExpireShows ==
  ASSUME IInv, NEW now \in Times, NEW w \in Windows, Expire(now, w)
  PROVE  AgesAt(now) /\ ShownBefore(Keys)
<1>1. PICK recs \in Pruned(records, now) :
        records' \in Pruned([k \in Keys |-> IF k \in {j \in Keys : IsStale(recs[j], now, w)}
                                              THEN Tombstone(now) ELSE recs[k]], now)
  BY DEF Expire
<1>2. {j \in Keys : IsStale(recs[j], now, w)} \in SUBSET Keys
  OBVIOUS
<1> QED BY <1>1, <1>2, BuryShows

\* Nothing is known at first.
LEMMA InitKeeps ==
  ASSUME Init
  PROVE  IInv
<1>1. records \in [Keys -> PeerRecord]
  BY DEF Init, PeerRecord
<1>2. VisibleKeys(records) = {} /\ Tombstones(records) = {}
  BY DEF Init, VisibleKeys, Tombstones, Unknown
<1>3. Cardinality({}) = 0 /\ 0 <= MAX_RETAINED_TOMBSTONES /\ 0 \in Int
  BY FS_EmptySet, DiscoveryAssumption
<1>4. visible_count = 0 /\ mirror = {}
  BY DEF Init
<1>5. TypeOK /\ TransitionsTellAll /\ CountMatchesVisible
  BY <1>1, <1>2, <1>3, <1>4 DEF TypeOK, TransitionsTellAll, CountMatchesVisible
<1>6. TombstonesBounded
  BY <1>2, <1>3 DEF TombstonesBounded
<1> QED BY <1>5, <1>6 DEF IInv

\* Whatever the order of the inputs, the counter, the transitions and the limit
\* on tombstones stay true to the records.
THEOREM Inductive == Spec => []IInv
<1>1. Init => IInv
  BY InitKeeps
<1>2. IInv /\ [Next]_vars => IInv'
  <2> SUFFICES ASSUME IInv, [Next]_vars PROVE IInv'
    OBVIOUS
  <2>1. CASE UNCHANGED vars
    BY <2>1 DEF vars, IInv, TypeOK, TombstonesBounded, TransitionsTellAll, CountMatchesVisible
  <2>2. CASE RejectError
    BY <2>1, <2>2 DEF RejectError
  <2> QED BY <2>1, <2>2, ObserveKeeps, RemoveKeeps, ExpireKeeps DEF Next
<1> QED BY <1>1, <1>2, PTL DEF Spec

\* The type invariant holds in every reachable state.
THEOREM TypeCorrect == Spec => []TypeOK
<1>1. IInv => TypeOK
  BY DEF IInv
<1> QED BY <1>1, Inductive, PTL

\* len() always tells the number of visible peers.
THEOREM CountIsRight == Spec => []CountMatchesVisible
<1>1. IInv => CountMatchesVisible
  BY DEF IInv
<1> QED BY <1>1, Inductive, PTL

\* The transitions alone tell a caller which peers are visible.
THEOREM TransitionsSuffice == Spec => []TransitionsTellAll
<1>1. IInv => TransitionsTellAll
  BY DEF IInv
<1> QED BY <1>1, Inductive, PTL

\* Absent keys never take more than their bounded share of memory.
THEOREM TombstonesStayBounded == Spec => []TombstonesBounded
<1>1. IInv => TombstonesBounded
  BY DEF IInv
<1> QED BY <1>1, Inductive, PTL

-----------------------------------------------------------------------------
(* The refinement.                                                         *)

\* What the register shows for a record.
Shown(r) == [at |-> r.at, peer |-> r.peer]

\* A record pruned by its horizon loses to any input at that time, as it would
\* have had it been kept.
LEMMA PrunedMerges ==
  ASSUME NEW r \in PeerRecord, NEW q \in PeerRecord, NEW t \in Times,
         q = r \/ (Outlived(r, t) /\ q = Unknown),
         NEW p \in Peers \cup {NoPeer}
  PROVE  Register!Merge(Shown(r), [at |-> t, peer |-> p])
           = Register!Merge(Shown(q), [at |-> t, peer |-> p])
<1>1. CASE q = r
  BY <1>1
<1>2. CASE Outlived(r, t) /\ q = Unknown
  <2>1. r.at \in Times /\ t > r.at /\ q.at = -1
    BY <1>2, RecordFields, DiscoveryAssumption DEF Outlived, Times, Unknown
  <2> QED BY <2>1 DEF Register!Merge, Shown, Times
<1> QED BY <1>1, <1>2

\* An observation merges as observe decides.
LEMMA ObservationMerges ==
  ASSUME NEW q \in PeerRecord, NEW t \in Times, NEW p \in Peers
  PROVE  Register!Merge(Shown(q), [at |-> t, peer |-> p])
           = IF Observed(q, p, t) = "Stale" THEN Shown(q) ELSE [at |-> t, peer |-> p]
BY RecordFields, DiscoveryAssumption DEF Register!Merge, Shown, Observed, Times

\* A removal merges as remove decides.
LEMMA RemovalMerges ==
  ASSUME NEW q \in PeerRecord, NEW t \in Times
  PROVE  Register!Merge(Shown(q), [at |-> t, peer |-> NoPeer])
           = IF RemovedBy(q, t) = "Stale" THEN Shown(q) ELSE [at |-> t, peer |-> NoPeer]
BY RecordFields, DiscoveryAssumption DEF Register!Merge, Shown, RemovedBy, Times

\* A step that merges one input into the keys reached, and then only forgets
\* what is gone, is a step of the register.
LEMMA LearnStep ==
  ASSUME records \in [Keys -> PeerRecord], records' \in [Keys -> PeerRecord],
         NEW t \in Times, NEW p \in Peers \cup {NoPeer}, NEW reached \in SUBSET Keys,
         p = NoPeer \/ \E k \in Keys : reached = {k},
         \A k \in Keys :
            LET merged == IF k \in reached
                            THEN Register!Merge(Shown(records[k]), [at |-> t, peer |-> p])
                            ELSE Shown(records[k])
            IN \/ Shown(records'[k]) = merged
               \/ merged.peer = NoPeer /\ records'[k] = Unknown
  PROVE  Register!Next
<1> DEFINE input == [at |-> t, peer |-> p]
           merged(k) == IF k \in reached THEN Register!Merge(Shown(records[k]), input)
                                         ELSE Shown(records[k])
           forgotten == {k \in Keys : merged(k).peer = NoPeer /\ records'[k] = Unknown}
<1>1. \A k \in forgotten : Shown(records'[k]) = Register!Nothing
  BY DEF Shown, Unknown, Register!Nothing
<1>2. \A k \in Keys \ forgotten : Shown(records'[k]) = merged(k)
  OBVIOUS
<1>3. PICK F \in SUBSET Keys : F = forgotten
  OBVIOUS
<1> HIDE DEF forgotten
<1>4. Register!Learn(reached, input, F)
  BY <1>1, <1>2, <1>3 DEF Register!Learn, Shown, forgotten
<1>5. CASE p = NoPeer
  <2>1. Register!Learn(reached, [at |-> t, peer |-> NoPeer], F)
    BY <1>4, <1>5
  <2>2. \E gone \in SUBSET Keys : Register!Learn(gone, [at |-> t, peer |-> NoPeer], F)
    BY <2>1
  <2> QED BY <2>2 DEF Register!Next
<1>6. CASE p # NoPeer
  <2>1. PICK k \in Keys : reached = {k}
    BY <1>6
  <2>2. Register!Learn({k}, [at |-> t, peer |-> p], F) /\ p \in Peers
    BY <1>4, <1>6, <2>1
  <2>3. \E j \in Keys, q \in Peers : Register!Learn({j}, [at |-> t, peer |-> q], F)
    BY <2>2
  <2> QED BY <2>3 DEF Register!Next
<1> QED BY <1>5, <1>6

\* observe is a step of the register.
LEMMA ObserveRefines ==
  ASSUME IInv, IInv', NEW k \in Keys, NEW p \in Peers, NEW t \in Times, Observe(k, p, t)
  PROVE  Register!Next
<1>1. PICK recs \in Pruned(records, t) :
        records' = IF Observed(recs[k], p, t) = "Stale" THEN recs
                   ELSE [recs EXCEPT ![k] = Visible(p, t)]
  BY DEF Observe
<1>2. /\ recs \in [Keys -> PeerRecord]
      /\ \A j \in Keys : recs[j] = records[j] \/ (Outlived(records[j], t) /\ recs[j] = Unknown)
  BY PrunedRecords
<1>3. records \in [Keys -> PeerRecord] /\ records' \in [Keys -> PeerRecord]
  BY DEF IInv, TypeOK
<1>4. Shown(records'[k]) = Register!Merge(Shown(records[k]), [at |-> t, peer |-> p])
  <2>1. Register!Merge(Shown(records[k]), [at |-> t, peer |-> p])
          = IF Observed(recs[k], p, t) = "Stale" THEN Shown(recs[k]) ELSE [at |-> t, peer |-> p]
    BY <1>2, <1>3, PrunedMerges, ObservationMerges
  <2>2. Shown(Visible(p, t)) = [at |-> t, peer |-> p]
    BY DEF Shown, Visible
  <2> QED BY <1>1, <1>2, <2>1, <2>2
<1>5. \A j \in Keys \ {k} :
        \/ Shown(records'[j]) = Shown(records[j])
        \/ Shown(records[j]).peer = NoPeer /\ records'[j] = Unknown
  <2>1. \A j \in Keys \ {k} : records'[j] = recs[j]
    BY <1>1, <1>2
  <2> QED BY <2>1, <1>2, <1>3, RecordFields DEF Outlived, Shown
<1>6. \A j \in Keys :
        LET merged == IF j \in {k} THEN Register!Merge(Shown(records[j]), [at |-> t, peer |-> p])
                                   ELSE Shown(records[j])
        IN \/ Shown(records'[j]) = merged
           \/ merged.peer = NoPeer /\ records'[j] = Unknown
  BY <1>4, <1>5
<1> QED BY <1>3, <1>6, LearnStep

\* Keys buried together, then pruned: a removal that reaches all of them.
LEMMA BuryRefines ==
  ASSUME IInv, IInv', NEW t \in Times, NEW recs \in Pruned(records, t), NEW S \in SUBSET Keys,
         \A k \in S : RemovedBy(recs[k], t) # "Stale",
         records' \in Pruned([k \in Keys |-> IF k \in S THEN Tombstone(t) ELSE recs[k]], t)
  PROVE  Register!Next
<1> DEFINE left == [k \in Keys |-> IF k \in S THEN Tombstone(t) ELSE recs[k]]
<1>1. /\ recs \in [Keys -> PeerRecord]
      /\ \A j \in Keys : recs[j] = records[j] \/ (Outlived(records[j], t) /\ recs[j] = Unknown)
  BY PrunedRecords
<1>2. left \in [Keys -> PeerRecord]
  BY <1>1, Buries
<1>3. OnlyForgets(left, records')
  BY <1>2, PruneForgets
<1>4. records \in [Keys -> PeerRecord] /\ records' \in [Keys -> PeerRecord]
  BY DEF IInv, TypeOK
<1>5. ASSUME NEW k \in S
      PROVE  LET merged == Register!Merge(Shown(records[k]), [at |-> t, peer |-> NoPeer])
             IN merged.peer = NoPeer /\ (Shown(records'[k]) = merged \/ records'[k] = Unknown)
  <2>1. Register!Merge(Shown(records[k]), [at |-> t, peer |-> NoPeer]) = [at |-> t, peer |-> NoPeer]
    BY <1>1, <1>4, PrunedMerges, RemovalMerges
  <2>2. left[k] = Tombstone(t)
    OBVIOUS
  <2>3. Shown(Tombstone(t)) = [at |-> t, peer |-> NoPeer]
    BY DEF Shown, Tombstone
  <2> HIDE DEF left
  <2> QED BY <1>3, <2>1, <2>2, <2>3 DEF OnlyForgets
<1>6. ASSUME NEW k \in Keys \ S
      PROVE  \/ Shown(records'[k]) = Shown(records[k])
             \/ Shown(records[k]).peer = NoPeer /\ records'[k] = Unknown
  <2>1. records'[k] = recs[k] \/ (recs[k].kind = "tombstone" /\ records'[k] = Unknown)
    BY <1>3 DEF OnlyForgets
  <2> QED BY <2>1, <1>1, <1>4, RecordFields DEF Outlived, Shown
<1>7. \A k \in Keys :
        LET merged == IF k \in S THEN Register!Merge(Shown(records[k]), [at |-> t, peer |-> NoPeer])
                                 ELSE Shown(records[k])
        IN \/ Shown(records'[k]) = merged
           \/ merged.peer = NoPeer /\ records'[k] = Unknown
  BY <1>5, <1>6
<1> QED BY <1>4, <1>7, LearnStep

\* remove is a step of the register.
LEMMA RemoveRefines ==
  ASSUME IInv, IInv', NEW k \in Keys, NEW t \in Times, Remove(k, t)
  PROVE  Register!Next
<1>1. PICK recs \in Pruned(records, t) :
        records' \in Pruned(IF RemovedBy(recs[k], t) = "Stale" THEN recs
                            ELSE [recs EXCEPT ![k] = Tombstone(t)], t)
  BY DEF Remove
<1>2. recs \in [Keys -> PeerRecord]
  BY PrunedRecords
<1>3. CASE RemovedBy(recs[k], t) = "Stale"
  <2>1. recs = [j \in Keys |-> IF j \in {} THEN Tombstone(t) ELSE recs[j]]
    BY <1>2
  <2>2. records' \in Pruned([j \in Keys |-> IF j \in {} THEN Tombstone(t) ELSE recs[j]], t)
    BY <1>1, <1>3, <2>1
  <2>3. {} \in SUBSET Keys /\ \A j \in {} : RemovedBy(recs[j], t) # "Stale"
    OBVIOUS
  <2> QED BY <2>2, <2>3, BuryRefines
<1>4. CASE RemovedBy(recs[k], t) # "Stale"
  <2>1. [recs EXCEPT ![k] = Tombstone(t)]
          = [j \in Keys |-> IF j \in {k} THEN Tombstone(t) ELSE recs[j]]
    BY <1>2
  <2>2. records' \in Pruned([j \in Keys |-> IF j \in {k} THEN Tombstone(t) ELSE recs[j]], t)
    BY <1>1, <1>4, <2>1
  <2>3. {k} \in SUBSET Keys /\ \A j \in {k} : RemovedBy(recs[j], t) # "Stale"
    BY <1>4
  <2> QED BY <2>2, <2>3, BuryRefines
<1> QED BY <1>3, <1>4

\* expire is a step of the register: every stale peer is withdrawn at now.
LEMMA ExpireRefines ==
  ASSUME IInv, IInv', NEW now \in Times, NEW w \in Windows, Expire(now, w)
  PROVE  Register!Next
<1>1. PICK recs \in Pruned(records, now) :
        records' \in Pruned([k \in Keys |-> IF k \in {j \in Keys : IsStale(recs[j], now, w)}
                                              THEN Tombstone(now) ELSE recs[k]], now)
  BY DEF Expire
<1> DEFINE expired == {j \in Keys : IsStale(recs[j], now, w)}
<1>2. recs \in [Keys -> PeerRecord]
  BY PrunedRecords
<1>3. \A k \in expired : RemovedBy(recs[k], now) # "Stale"
  BY <1>2, RecordFields DEF IsStale, RemovedBy, Times
<1>4. expired \in SUBSET Keys
  OBVIOUS
<1>5. records' \in Pruned([k \in Keys |-> IF k \in expired THEN Tombstone(now) ELSE recs[k]], now)
  BY <1>1
<1> HIDE DEF expired
<1> QED BY <1>3, <1>4, <1>5, BuryRefines

\* Discovery state is a register in which the newest input wins, in whatever
\* order the inputs arrive and whatever pruning does in between.
THEOREM NewestInputWins == Spec => ImplementsRegister
<1>1. Init => Register!Init
  BY DEF Init, Unknown, Register!Init, Register!Nothing
<1>2. IInv /\ IInv' /\ [Next]_vars
        => [Register!Next]_([k \in Keys |-> [at |-> records[k].at, peer |-> records[k].peer]])
  <2> SUFFICES ASSUME IInv, IInv', [Next]_vars
               PROVE  \/ Register!Next
                      \/ UNCHANGED [k \in Keys |-> [at |-> records[k].at, peer |-> records[k].peer]]
    OBVIOUS
  <2>1. CASE UNCHANGED vars \/ RejectError
    BY <2>1 DEF vars, RejectError
  <2> QED BY <2>1, ObserveRefines, RemoveRefines, ExpireRefines DEF Next
<1> QED BY <1>1, <1>2, Inductive, PTL DEF Spec, ImplementsRegister, Register!Spec
=============================================================================
