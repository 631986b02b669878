--------------------------- MODULE DiscoverProofs ---------------------------
(***************************************************************************)
(* Theorems about the discover command, for every set of raw events, every *)
(* window and limit.  What the operations of DiscoveredPeers do is taken   *)
(* from DiscoveredPeersProofs.                                             *)
(***************************************************************************)
EXTENDS Discover, FiniteSetTheorems, TLAPS

ValidPeers == {PeerOf(r) : r \in {x \in RawEvents : x.kind = "resolved"}}
Times == 0..MaxTime

-----------------------------------------------------------------------------
(* The lemmas of DiscoveredPeersProofs speak of an instance of their own,  *)
(* StateProofs; every operator they need is the one of State.              *)

StateProofs == INSTANCE DiscoveredPeersProofs WITH
    Peers   <- ValidPeers,
    Windows <- StaleAfters \ {NotGiven}

LEMMA SameFinite ==
  ASSUME NEW S PROVE StateProofs!IsFiniteSet(S) <=> IsFiniteSet(S)
BY DEF StateProofs!IsFiniteSet, IsFiniteSet

LEMMA SameInvariant == StateProofs!IInv <=> State!IInv
BY SMT DEF ValidPeers, StateProofs!IInv, State!IInv, StateProofs!TypeOK, State!TypeOK,
   StateProofs!PeerRecord, State!PeerRecord, StateProofs!Times, State!Times,
   StateProofs!Unknown, State!Unknown, StateProofs!Tombstone, State!Tombstone,
   StateProofs!Visible, State!Visible, StateProofs!VisibleKeys, State!VisibleKeys,
   StateProofs!Tombstones, State!Tombstones, StateProofs!Cardinality, State!Cardinality,
   StateProofs!TombstonesBounded, State!TombstonesBounded,
   StateProofs!TransitionsTellAll, State!TransitionsTellAll,
   StateProofs!CountMatchesVisible, State!CountMatchesVisible

LEMMA SamePruned ==
  ASSUME NEW recs, NEW t PROVE StateProofs!Pruned(recs, t) = State!Pruned(recs, t)
BY Zenon DEF StateProofs!Pruned, State!Pruned, StateProofs!Retained, State!Retained,
   StateProofs!KeepsNewest, State!KeepsNewest, StateProofs!Keeping, State!Keeping,
   StateProofs!EvictedBefore, State!EvictedBefore, StateProofs!Outlived, State!Outlived,
   StateProofs!Tombstones, State!Tombstones, StateProofs!Cardinality, State!Cardinality,
   StateProofs!Unknown, State!Unknown

LEMMA SameObserve ==
  ASSUME NEW k, NEW p, NEW t PROVE StateProofs!Observe(k, p, t) <=> State!Observe(k, p, t)
BY SamePruned, Zenon DEF StateProofs!Observe, State!Observe, StateProofs!Observed,
   State!Observed, StateProofs!Visible, State!Visible, StateProofs!Follows, State!Follows

LEMMA SameRemove ==
  ASSUME NEW k, NEW t PROVE StateProofs!Remove(k, t) <=> State!Remove(k, t)
BY SamePruned, Zenon DEF StateProofs!Remove, State!Remove, StateProofs!RemovedBy,
   State!RemovedBy, StateProofs!Tombstone, State!Tombstone, StateProofs!Follows, State!Follows

LEMMA SameExpire ==
  ASSUME NEW t, NEW w PROVE StateProofs!Expire(t, w) <=> State!Expire(t, w)
BY SamePruned, Zenon DEF StateProofs!Expire, State!Expire, StateProofs!IsStale, State!IsStale,
   StateProofs!Tombstone, State!Tombstone, StateProofs!Cardinality, State!Cardinality

\* The assumptions of DiscoveredPeers hold of the constants it gets here.
LEMMA StateAssumption == StateProofs!DiscoveryAssumption
BY SameFinite, DiscoverAssumption, BrowserAssumption
   DEF StateProofs!DiscoveryAssumption, ValidPeers

-----------------------------------------------------------------------------
(* The operations of DiscoveredPeers at a time no record is newer than.    *)

\* Every record is as old as it was, as time t, or forgotten.
AgesAt(t) == \A k \in Keys : records'[k].at \in {-1, t, records[k].at}

\* What is visible of the keys in S was visible before, unchanged.
ShownBefore(S) == \A k \in S : records'[k].kind = "visible" => records'[k] = records[k]

\* Added, Updated and Refreshed show the peer they carry.
LEMMA Observation ==
  ASSUME State!IInv, NEW k \in Keys, NEW p \in ValidPeers, NEW t \in Times,
         State!Observe(k, p, t), records[k].at <= t
  PROVE  /\ State!IInv' /\ State!Next
         /\ AgesAt(t) /\ ShownBefore(Keys \ {k})
         /\ records'[k].kind = "visible" => records'[k].peer = p
<1>1. StateProofs!IInv /\ StateProofs!Observe(k, p, t) /\ t \in StateProofs!Times
  BY SameInvariant, SameObserve DEF StateProofs!Times, Times
<1>2. StateProofs!IInv'
  BY <1>1, StateAssumption, StateProofs!ObserveKeeps DEF StateProofs!DiscoveryAssumption
<1>3. State!IInv'
  BY <1>2, SameInvariant, PTL
<1>4. /\ StateProofs!AgesAt(t) /\ StateProofs!ShownBefore(Keys \ {k})
      /\ records'[k].kind = "visible" => records'[k].peer = p
  BY <1>1, StateAssumption, StateProofs!ObserveShows DEF StateProofs!DiscoveryAssumption
<1>5. State!Next
  BY DEF State!Next, State!Times, Times, ValidPeers
<1> QED BY <1>3, <1>4, <1>5 DEF StateProofs!AgesAt, StateProofs!ShownBefore, AgesAt, ShownBefore

\* Removed hides the peer.
LEMMA Removal ==
  ASSUME State!IInv, NEW k \in Keys, NEW t \in Times, State!Remove(k, t), records[k].at <= t
  PROVE  /\ State!IInv' /\ State!Next
         /\ AgesAt(t) /\ ShownBefore(Keys) /\ records'[k].kind # "visible"
<1>1. StateProofs!IInv /\ StateProofs!Remove(k, t) /\ t \in StateProofs!Times
  BY SameInvariant, SameRemove DEF StateProofs!Times, Times
<1>2. StateProofs!IInv'
  BY <1>1, StateAssumption, StateProofs!RemoveKeeps DEF StateProofs!DiscoveryAssumption
<1>3. State!IInv'
  BY <1>2, SameInvariant, PTL
<1>4. /\ StateProofs!AgesAt(t) /\ StateProofs!ShownBefore(Keys)
      /\ records'[k].kind # "visible"
  BY <1>1, StateAssumption, StateProofs!RemoveShows DEF StateProofs!DiscoveryAssumption
<1>5. State!Next
  BY DEF State!Next, State!Times, Times
<1> QED BY <1>3, <1>4, <1>5 DEF StateProofs!AgesAt, StateProofs!ShownBefore, AgesAt, ShownBefore

\* Expiry hides some and shows none.
LEMMA Expiry ==
  ASSUME State!IInv, NEW t \in Times, NEW w \in StaleAfters \ {NotGiven}, State!Expire(t, w)
  PROVE  State!IInv' /\ State!Next /\ AgesAt(t) /\ ShownBefore(Keys)
<1>1. StateProofs!IInv /\ StateProofs!Expire(t, w) /\ t \in StateProofs!Times
  BY SameInvariant, SameExpire DEF StateProofs!Times, Times
<1>2. StateProofs!IInv'
  BY <1>1, StateAssumption, StateProofs!ExpireKeeps DEF StateProofs!DiscoveryAssumption
<1>3. State!IInv'
  BY <1>2, SameInvariant, PTL
<1>4. StateProofs!AgesAt(t) /\ StateProofs!ShownBefore(Keys)
  BY <1>1, StateAssumption, StateProofs!ExpireShows DEF StateProofs!DiscoveryAssumption
<1>5. State!Next
  BY DEF State!Next, State!Times, Times
<1> QED BY <1>3, <1>4, <1>5 DEF StateProofs!AgesAt, StateProofs!ShownBefore, AgesAt, ShownBefore

-----------------------------------------------------------------------------
(* The browser.                                                            *)

\* BrowserTypeOK without what it says of Polled.
BrowserShape ==
    /\ cache \in [Keys -> ValidPeers \cup {NoPeer}]
    /\ active \in BOOLEAN /\ asked \in BOOLEAN
    /\ daemon \in {"none", "running", "gone"}
    /\ services \in Seq(RawEvents)
    /\ trouble \in Nat

\* What a raw event is turned into.
LEMMA TranslatedEvent ==
  ASSUME BrowserShape, NEW r \in RawEvents
  PROVE  LET event == Translated(r) IN
         \/ /\ event.kind \in {"Added", "Updated", "Refreshed"}
            /\ event.key \in Keys /\ event.peer \in ValidPeers
            /\ Remembers(r) = [cache EXCEPT ![event.key] = event.peer]
         \/ /\ event.kind = "Removed" /\ event.key \in Keys
            /\ Remembers(r) = [cache EXCEPT ![event.key] = NoPeer]
         \/ event = NoEvent /\ Remembers(r) = cache
         \/ /\ \E error \in ErrorKinds : event = ErrorEvent(error)
            /\ Remembers(r) = cache
<1>1. /\ r.kind \in {"resolved", "removed"}
      /\ r.key \in Keys \cup {BadName}
  BY BrowserAssumption DEF Gone, Resolved
<1>2. CASE r.kind = "resolved" /\ Refused(r)
  <2>1. Refusal(r) \in ErrorKinds
    BY <1>2 DEF Refused, Refusal, RawRefusal, ErrorKinds
  <2> QED BY <1>2, <2>1 DEF Translated, Remembers
<1>3. CASE r.kind = "resolved" /\ ~Refused(r)
  <2>1. r.key \in Keys
    BY <1>1, <1>3 DEF Refused, Refusal, RawRefusal, ValidKey
  <2>2. PeerOf(r) \in ValidPeers
    BY <1>3 DEF ValidPeers
  <2>3. Remembers(r) = [cache EXCEPT ![r.key] = PeerOf(r)]
    BY <1>3 DEF Remembers
  <2>4. Translated(r) = [kind |-> IF cache[r.key] = NoPeer THEN "Added"
                                  ELSE IF cache[r.key] = PeerOf(r) THEN "Refreshed" ELSE "Updated",
                         key |-> r.key, peer |-> PeerOf(r)]
    BY <1>3 DEF Translated
  <2>5. /\ Translated(r).kind \in {"Added", "Updated", "Refreshed"}
        /\ Translated(r).key = r.key /\ Translated(r).peer = PeerOf(r)
    BY <2>4
  <2> QED BY <2>1, <2>2, <2>3, <2>5
<1>4. CASE r.kind = "removed" /\ ~ValidKey(r)
  BY <1>4 DEF Translated, Remembers, ErrorKinds
<1>5. CASE r.kind = "removed" /\ ValidKey(r)
  <2>1. r.key \in Keys
    BY <1>1, <1>5 DEF ValidKey
  <2>2. Remembers(r) = [cache EXCEPT ![r.key] = NoPeer]
    BY <1>5 DEF Remembers
  <2>3. Translated(r) = IF cache[r.key] = NoPeer THEN NoEvent
                        ELSE [kind |-> "Removed", key |-> r.key]
    BY <1>5 DEF Translated
  <2>4. cache[r.key] = NoPeer => [cache EXCEPT ![r.key] = NoPeer] = cache
    BY <2>1 DEF BrowserShape
  <2>5. CASE cache[r.key] = NoPeer
    <3>1. Translated(r) = NoEvent /\ Remembers(r) = cache
      BY <2>2, <2>3, <2>4, <2>5
    <3> QED BY <3>1
  <2>6. CASE cache[r.key] # NoPeer
    <3>1. Translated(r).kind = "Removed" /\ Translated(r).key = r.key
      BY <2>3, <2>6
    <3> QED BY <2>1, <2>2, <3>1
  <2> QED BY <2>5, <2>6
<1> QED BY <1>1, <1>2, <1>3, <1>4, <1>5

\* What poll_event returns has one of the kinds of an event.
LEMMA ShapeSuffices ==
  ASSUME BrowserShape
  PROVE  BrowserTypeOK
<1>1. ASSUME active, trouble = 0, services # <<>>
      PROVE  LET event == Translated(Head(services)) IN
             event.kind \in EventKinds /\ (event.kind = "Error" => event.error \in ErrorKinds)
  <2>1. Head(services) \in RawEvents
    BY <1>1 DEF BrowserShape
  <2> QED BY <2>1, TranslatedEvent DEF EventKinds, NoEvent, ErrorEvent
<1>2. Polled.kind \in EventKinds /\ (Polled.kind = "Error" => Polled.error \in ErrorKinds)
  BY <1>1 DEF Polled, NoEvent, ErrorEvent, EventKinds, ErrorKinds, BrowserShape
<1> QED BY <1>2 DEF BrowserTypeOK, BrowserShape, ValidPeers

LEMMA TypeHasShape ==
  ASSUME BrowserTypeOK
  PROVE  BrowserShape
BY DEF BrowserTypeOK, BrowserShape, ValidPeers

\* poll_event: the event and what the browser remembers go together.
LEMMA PollSteps ==
  ASSUME BrowserShape, active => daemon # "none", PollEvent
  PROVE  /\ BrowserShape' /\ UNCHANGED <<active, daemon, asked>>
         /\ \/ /\ Polled.kind \in {"Added", "Updated", "Refreshed"}
               /\ Polled.key \in Keys /\ Polled.peer \in ValidPeers
               /\ cache' = [cache EXCEPT ![Polled.key] = Polled.peer]
            \/ /\ Polled.kind = "Removed" /\ Polled.key \in Keys
               /\ cache' = [cache EXCEPT ![Polled.key] = NoPeer]
            \/ Polled.kind \in {"None", "Error"} /\ cache' = cache
<1>1. CASE active /\ trouble > 0
  <2>1. Polled.kind = "Error" /\ cache' = cache
    BY <1>1 DEF Polled, ErrorEvent, PollEvent
  <2> QED BY <1>1, <2>1 DEF PollEvent, BrowserShape
<1>2. CASE active /\ trouble = 0 /\ daemon = "running" /\ services # <<>>
  <2>1. Head(services) \in RawEvents /\ services' = Tail(services) /\ services' \in Seq(RawEvents)
    BY <1>2 DEF PollEvent, BrowserShape
  <2>2. Polled = Translated(Head(services)) /\ cache' = Remembers(Head(services))
    BY <1>2 DEF Polled, PollEvent
  <2>3. UNCHANGED <<active, daemon, asked, trouble>>
    BY <1>2 DEF PollEvent
  <2>4. \/ /\ Polled.kind \in {"Added", "Updated", "Refreshed"}
           /\ Polled.key \in Keys /\ Polled.peer \in ValidPeers
           /\ cache' = [cache EXCEPT ![Polled.key] = Polled.peer]
        \/ /\ Polled.kind = "Removed" /\ Polled.key \in Keys
           /\ cache' = [cache EXCEPT ![Polled.key] = NoPeer]
        \/ Polled.kind \in {"None", "Error"} /\ cache' = cache
    BY <2>1, <2>2, TranslatedEvent DEF NoEvent, ErrorEvent
  <2>5. cache' \in [Keys -> ValidPeers \cup {NoPeer}]
    BY <2>4 DEF BrowserShape
  <2> QED BY <2>1, <2>3, <2>4, <2>5 DEF BrowserShape
<1>3. CASE ~(active /\ trouble > 0) /\ ~(active /\ daemon = "running" /\ services # <<>>)
  <2>1. UNCHANGED browserVars
    BY <1>3 DEF PollEvent, browserVars
  <2>2. Polled.kind \in {"None", "Error"}
    BY <1>3 DEF Polled, NoEvent, ErrorEvent, BrowserShape
  <2> QED BY <2>1, <2>2 DEF BrowserShape, browserVars
<1> QED BY <1>1, <1>2, <1>3 DEF BrowserShape

-----------------------------------------------------------------------------
(* The invariant.                                                          *)

\* The type invariant, with State!TypeOK left to State!IInv.
Shape ==
    /\ BrowserShape
    /\ pc \in BeforePass \cup {"top", "poll", "check", "expire", "final", "stop", "report", "drop", "done"}
    /\ clock \in Times /\ now \in Times /\ deadline \in Times
    /\ cancelled \in BOOLEAN /\ window \in Windows /\ stale_after \in StaleAfters
    /\ stopped \in {"none", "ok", "failed"}
    /\ exit \in {"none"} \cup Exits

Rest == State!IInv /\ NothingYet /\ SessionPhases /\ TimesAdvance /\ VisibleIsCached /\ ReportIsPrinted

LEMMA InvariantParts == IInv <=> Shape /\ Rest
<1>1. BrowserTypeOK <=> BrowserShape
  BY ShapeSuffices, TypeHasShape
<1>2. State!IInv => State!TypeOK
  BY DEF State!IInv
<1> QED BY <1>1, <1>2 DEF IInv, TypeOK, Shape, Rest, Times

LEMMA InitHolds ==
  ASSUME Init
  PROVE  IInv
<1>1. Shape
  <2>1. MaxTime \in Nat
    BY DiscoverAssumption
  <2>2. cache \in [Keys -> ValidPeers \cup {NoPeer}] /\ services \in Seq(RawEvents)
    BY DEF Init, BrowserInit
  <2>3. active \in BOOLEAN /\ asked \in BOOLEAN /\ daemon \in {"none", "running", "gone"}
    BY DEF Init, BrowserInit
  <2>4. /\ trouble \in Nat
        /\ clock \in Times /\ now \in Times /\ deadline \in Times
    BY <2>1 DEF Init, BrowserInit, Times
  <2>5. /\ pc \in BeforePass /\ cancelled \in BOOLEAN /\ window \in Windows
        /\ stale_after \in StaleAfters /\ stopped = "none" /\ exit = "none"
    BY DEF Init, BeforePass
  <2> QED BY <2>2, <2>3, <2>4, <2>5 DEF Shape, BrowserShape
<1>2. State!IInv
  <2>1. StateProofs!Init
    BY DEF Init, State!Init, StateProofs!Init, State!Unknown, StateProofs!Unknown
  <2>2. StateProofs!IInv
    BY <2>1, StateAssumption, StateProofs!InitKeeps DEF StateProofs!DiscoveryAssumption
  <2> QED BY <2>2, SameInvariant
<1>3. \A k \in Keys : records[k].at = -1 /\ records[k].kind = "unknown"
  BY DEF Init, State!Init, State!Unknown
<1>4. Rest
  BY <1>2, <1>3 DEF Rest, Init, BrowserInit, NothingYet, SessionPhases, TimesAdvance,
     VisibleIsCached, ReportIsPrinted, BeforePass
<1> QED BY <1>1, <1>4, InvariantParts

\* What a step keeps that leaves discovery state alone.
LEMMA StateFrame ==
  ASSUME IInv, UNCHANGED stateVars
  PROVE  State!IInv' /\ Printed' = Printed
<1>1. State!IInv'
  BY DEF IInv, stateVars, State!IInv, State!TypeOK, State!TombstonesBounded,
     State!TransitionsTellAll, State!CountMatchesVisible, State!VisibleKeys, State!Tombstones
<1>2. Printed' = Printed
  BY DEF stateVars, Printed, Card
<1> QED BY <1>1, <1>2

\* And the browser too.
LEMMA Frame ==
  ASSUME IInv, UNCHANGED <<browserVars, stateVars>>
  PROVE  /\ BrowserShape' /\ State!IInv' /\ VisibleIsCached' /\ Printed' = Printed
         /\ UNCHANGED <<active, daemon, asked>>
<1>1. BrowserShape'
  BY InvariantParts DEF browserVars, Shape, BrowserShape
<1>2. VisibleIsCached'
  BY DEF IInv, VisibleIsCached, browserVars, stateVars
<1> QED BY <1>1, <1>2, StateFrame DEF browserVars

\* The time of every record is a number.
LEMMA RecordTimes ==
  ASSUME State!IInv
  PROVE  \A k \in Keys : records[k].at \in Int
<1>1. \A r \in State!PeerRecord : r.at \in Int
  BY DiscoverAssumption DEF State!PeerRecord, State!Unknown, State!Tombstone, State!Visible, State!Times
<1> QED BY <1>1 DEF State!IInv, State!TypeOK

\* A record has a peer exactly when it is visible.
LEMMA RecordPeers ==
  ASSUME State!IInv
  PROVE  \A k \in Keys : IF records[k].kind = "visible" THEN records[k].peer \in ValidPeers
                                                        ELSE records[k].peer = NoPeer
<1>1. \A r \in State!PeerRecord : IF r.kind = "visible" THEN r.peer \in ValidPeers
                                                        ELSE r.peer = NoPeer
  BY DEF State!PeerRecord, State!Unknown, State!Tombstone, State!Visible, ValidPeers
<1> QED BY <1>1 DEF State!IInv, State!TypeOK

\* Steps that only move the command on.
LEMMA ControlKeeps ==
  ASSUME IInv, ParseArgs \/ Install \/ LoopTop \/ Check
  PROVE  IInv'
<1> USE DEF Shape, Rest, passVars, args
<1>1. Shape /\ Rest /\ UNCHANGED <<browserVars, stateVars>>
  BY InvariantParts DEF ParseArgs, Install, LoopTop, Check
<1>2. BrowserShape' /\ State!IInv' /\ VisibleIsCached' /\ Printed' = Printed
        /\ UNCHANGED <<active, daemon, asked, records>>
  BY <1>1, Frame DEF stateVars
<1>3. Shape'
  BY <1>1, <1>2 DEF ParseArgs, Install, LoopTop, Check, BeforePass, Exits
<1>4. NothingYet'
  BY <1>1, <1>2 DEF ParseArgs, Install, LoopTop, Check, NothingYet, BeforePass, ArgsValid
<1>5. SessionPhases'
  BY <1>1, <1>2 DEF ParseArgs, Install, LoopTop, Check, SessionPhases, NothingYet, BeforePass
<1>6. TimesAdvance'
  BY <1>1, <1>2, DiscoverAssumption DEF ParseArgs, Install, LoopTop, Check, TimesAdvance, Times
<1>7. ReportIsPrinted'
  BY <1>1, <1>2 DEF ParseArgs, Install, LoopTop, Check, ReportIsPrinted
<1> QED BY <1>2, <1>3, <1>4, <1>5, <1>6, <1>7, InvariantParts, PTL

\* The session starts, or does not.
LEMMA StartKeeps ==
  ASSUME IInv, Start \/ StartFails
  PROVE  IInv'
<1> USE DEF args
<1>1. Shape /\ Rest /\ pc = "start" /\ UNCHANGED <<stateVars, cache, services, trouble>>
  BY InvariantParts DEF Start, StartFails, StartBrowser, StartBrowserFails
<1>2. clock = 0 /\ daemon = "none" /\ ~active /\ ~asked /\ stopped = "none"
        /\ window \in 1..MAX_WINDOW
  BY <1>1 DEF Rest, NothingYet, BeforePass
<1>3. State!IInv' /\ Printed' = Printed
  BY <1>1, StateFrame
<1>4. /\ UNCHANGED <<clock, now, window, stale_after, cancelled, stopped, report, records>>
      /\ \/ pc' = "top" /\ active' /\ daemon' = "running" /\ asked' = asked
            /\ deadline' = clock + window /\ exit' = exit
         \/ pc' = "done" /\ active' = active /\ deadline' = deadline /\ exit' = "start"
            /\ (daemon' = "none" \/ (daemon' = "running" /\ asked'))
      /\ active' \in BOOLEAN /\ asked' \in BOOLEAN
  BY <1>1, <1>2 DEF Start, StartFails, StartBrowser, StartBrowserFails, stateVars, Shape, BrowserShape
<1>5. BrowserShape'
  BY <1>1, <1>4 DEF Shape, BrowserShape
<1>6. Shape'
  <2>1. deadline' \in Times
    BY <1>1, <1>2, <1>4, DiscoverAssumption DEF Shape, Times
  <2> QED BY <1>1, <1>4, <1>5, <2>1 DEF Shape, Exits
<1>7. NothingYet' /\ SessionPhases'
  BY <1>2, <1>4 DEF NothingYet, SessionPhases, BeforePass
<1>8. TimesAdvance' /\ VisibleIsCached'
  BY <1>1, <1>4 DEF Rest, TimesAdvance, VisibleIsCached
<1>9. ReportIsPrinted'
  BY <1>1, <1>3, <1>4 DEF Rest, ReportIsPrinted
<1> QED BY <1>3, <1>6, <1>7, <1>8, <1>9, InvariantParts, PTL DEF Rest

\* One event is polled and applied.
LEMMA PollKeeps ==
  ASSUME IInv, Poll
  PROVE  IInv' /\ (State!Next \/ UNCHANGED stateVars)
<1>1. Shape /\ Rest /\ pc = "poll" /\ active /\ stopped = "none" /\ now \in Times
  BY InvariantParts DEF Poll, Rest, SessionPhases, Shape
<1>2. \A k \in Keys : records[k].at <= now
  BY <1>1 DEF Rest, TimesAdvance
<1>3. /\ UNCHANGED <<clock, now, cancelled, window, stale_after, deadline, stopped, report, exit>>
      /\ pc' \in {"check", "top", "expire"} /\ (pc' = "check" => UNCHANGED stateVars)
      /\ pc' = "expire" => stale_after # NotGiven
  BY DEF Poll, args, AfterEvent
<1>4. /\ BrowserShape' /\ UNCHANGED <<active, daemon, asked>>
      /\ \/ /\ Polled.kind \in {"Added", "Updated", "Refreshed"}
            /\ Polled.key \in Keys /\ Polled.peer \in ValidPeers
            /\ cache' = [cache EXCEPT ![Polled.key] = Polled.peer]
         \/ /\ Polled.kind = "Removed" /\ Polled.key \in Keys
            /\ cache' = [cache EXCEPT ![Polled.key] = NoPeer]
         \/ Polled.kind \in {"None", "Error"} /\ cache' = cache
  BY <1>1, PollSteps DEF Poll, Shape, Rest, SessionPhases
<1>5. State!IInv' /\ AgesAt(now) /\ VisibleIsCached' /\ (State!Next \/ UNCHANGED stateVars)
  <2>1. CASE Polled.kind \in {"Added", "Updated", "Refreshed"}
    <3>1. State!Observe(Polled.key, Polled.peer, now)
      BY <2>1 DEF Poll, Apply
    <3>2. Polled.key \in Keys /\ Polled.peer \in ValidPeers
            /\ cache' = [cache EXCEPT ![Polled.key] = Polled.peer]
      BY <2>1, <1>4
    <3>3. PICK k \in Keys, p \in ValidPeers : k = Polled.key /\ p = Polled.peer
      BY <3>2
    <3>4. /\ State!IInv' /\ State!Next /\ AgesAt(now) /\ ShownBefore(Keys \ {k})
          /\ records'[k].kind = "visible" => records'[k].peer = p
      BY <1>1, <1>2, <3>1, <3>3, Observation DEF Rest
    <3>5. \A j \in Keys : cache'[j] = IF j = k THEN p ELSE cache[j]
      BY <3>2, <3>3, <1>1 DEF Shape, BrowserShape
    <3>6. VisibleIsCached'
      BY <3>4, <3>5, <1>1 DEF Rest, VisibleIsCached, ShownBefore
    <3> QED BY <3>4, <3>6
  <2>2. CASE Polled.kind = "Removed"
    <3>1. State!Remove(Polled.key, now)
      BY <2>2 DEF Poll, Apply
    <3>2. PICK k \in Keys : k = Polled.key
      BY <2>2, <1>4
    <3>3. cache' = [cache EXCEPT ![k] = NoPeer]
      BY <2>2, <3>2, <1>4
    <3>4. /\ State!IInv' /\ State!Next /\ AgesAt(now) /\ ShownBefore(Keys)
          /\ records'[k].kind # "visible"
      BY <1>1, <1>2, <3>1, <3>2, Removal DEF Rest
    <3>5. VisibleIsCached'
      BY <3>3, <3>4, <1>1 DEF Rest, VisibleIsCached, ShownBefore, Shape, BrowserShape
    <3> QED BY <3>4, <3>5
  <2>3. CASE Polled.kind \in {"None", "Error"}
    <3>1. UNCHANGED stateVars /\ cache' = cache
      BY <2>3, <1>4 DEF Poll, Apply, State!RejectError, State!vars, stateVars
    <3>2. State!IInv'
      BY <3>1, StateFrame
    <3> QED BY <3>1, <3>2, <1>1 DEF Rest, VisibleIsCached, AgesAt, stateVars
  <2> QED BY <1>4, <2>1, <2>2, <2>3
<1>6. Shape'
  BY <1>1, <1>3, <1>4 DEF Shape
<1>7. NothingYet' /\ SessionPhases'
  BY <1>1, <1>3, <1>4 DEF Rest, NothingYet, SessionPhases, BeforePass
<1>8. TimesAdvance'
  <2>1. \A k \in Keys : records'[k].at \in {-1, now, records[k].at} /\ records[k].at <= now
    BY <1>5, <1>2 DEF AgesAt
  <2>2. now' = now /\ clock' = clock /\ now <= clock /\ now \in Int /\ clock \in Int /\ 0 <= now
    BY <1>1, <1>3, DiscoverAssumption DEF Rest, TimesAdvance, Shape, Times
  <2>3. \A k \in Keys : records[k].at \in Int
    BY <1>1, RecordTimes DEF Rest
  <2>4. \A k \in Keys : records'[k].at <= now /\ records'[k].at <= clock
    BY <2>1, <2>2, <2>3
  <2> QED BY <2>2, <2>4 DEF TimesAdvance
<1>9. ReportIsPrinted'
  BY <1>1, <1>3 DEF Rest, ReportIsPrinted
<1>10. IInv'
  BY <1>5, <1>6, <1>7, <1>8, <1>9, InvariantParts, PTL DEF Rest
<1> QED BY <1>5, <1>10

\* What is stale expires, after an event or at the end.
LEMMA ExpireKeeps ==
  ASSUME IInv, ExpireAfterEvent \/ ExpireAtEnd
  PROVE  IInv' /\ (State!Next \/ UNCHANGED stateVars)
<1> USE DEF args
<1>1. Shape /\ Rest /\ active /\ stopped = "none" /\ clock \in Times
  BY InvariantParts DEF ExpireAfterEvent, ExpireAtEnd, Rest, SessionPhases, Shape
<1>2. /\ UNCHANGED <<browserVars, clock, now, cancelled, window, stale_after, deadline, stopped, report, exit>>
      /\ pc' \in {"top", "stop"} /\ pc \notin {"drop", "done"}
      /\ \/ UNCHANGED stateVars
         \/ stale_after # NotGiven /\ State!Expire(clock, stale_after)
  BY <1>1 DEF ExpireAfterEvent, ExpireAtEnd, ExpireStale, stateVars, Rest, SessionPhases
<1>3. UNCHANGED <<active, daemon, asked, cache>> /\ BrowserShape'
  BY <1>1, <1>2 DEF browserVars, Shape, BrowserShape
<1>4. State!IInv' /\ AgesAt(clock) /\ ShownBefore(Keys) /\ (State!Next \/ UNCHANGED stateVars)
  <2>1. CASE UNCHANGED stateVars
    BY <2>1, <1>1, StateFrame DEF AgesAt, ShownBefore, stateVars
  <2>2. CASE ~UNCHANGED stateVars
    <3>1. stale_after \in StaleAfters \ {NotGiven} /\ State!Expire(clock, stale_after)
      BY <2>2, <1>1, <1>2 DEF Shape, Rest, SessionPhases
    <3> QED BY <1>1, <3>1, Expiry DEF Rest
  <2> QED BY <2>1, <2>2
<1>5. Shape'
  BY <1>1, <1>2, <1>3 DEF Shape
<1>6. NothingYet' /\ SessionPhases'
  BY <1>1, <1>2, <1>3 DEF Rest, NothingYet, SessionPhases, BeforePass
<1>7. TimesAdvance'
  <2>1. \A k \in Keys : /\ records'[k].at \in {-1, clock, records[k].at}
                        /\ records[k].at <= clock /\ records[k].at \in Int
    BY <1>1, <1>4, RecordTimes DEF AgesAt, Rest, TimesAdvance
  <2>2. clock \in Nat
    BY <1>1, DiscoverAssumption DEF Times
  <2>3. \A k \in Keys : records'[k].at <= clock
    BY <2>1, <2>2
  <2> QED BY <1>1, <1>2, <2>3 DEF Rest, TimesAdvance
<1>8. VisibleIsCached'
  BY <1>1, <1>3, <1>4 DEF Rest, VisibleIsCached, ShownBefore
<1>9. ReportIsPrinted'
  BY <1>1, <1>2 DEF Rest, ReportIsPrinted
<1>10. IInv'
  BY <1>4, <1>5, <1>6, <1>7, <1>8, <1>9, InvariantParts, PTL DEF Rest
<1> QED BY <1>4, <1>10

\* The session is stopped.
LEMMA StopKeeps ==
  ASSUME IInv, Stop
  PROVE  IInv'
<1>1. Shape /\ Rest /\ pc = "stop" /\ active /\ UNCHANGED <<stateVars, cache, services, trouble>>
  BY InvariantParts DEF Stop, StopBrowser, StopBrowserFails, Rest, SessionPhases
<1>2. /\ UNCHANGED <<clock, now, window, stale_after, deadline, cancelled, report, exit, records>>
      /\ pc' = "report" /\ asked'
      /\ \/ ~active' /\ daemon' = "gone" /\ stopped' = "ok"
         \/ active' = active /\ daemon' \in {daemon, "gone"} /\ stopped' = "failed"
      /\ active' \in BOOLEAN /\ asked' \in BOOLEAN
  BY <1>1 DEF Stop, StopBrowser, StopBrowserFails, stateVars, args, Shape, BrowserShape
<1>3. State!IInv' /\ Printed' = Printed
  BY <1>1, StateFrame
<1>4. BrowserShape'
  BY <1>1, <1>2 DEF Shape, BrowserShape
<1>5. Shape'
  BY <1>1, <1>2, <1>4 DEF Shape
<1>6. NothingYet' /\ SessionPhases'
  BY <1>1, <1>2 DEF Rest, NothingYet, SessionPhases, BeforePass
<1>7. TimesAdvance' /\ VisibleIsCached'
  BY <1>1, <1>2 DEF Rest, TimesAdvance, VisibleIsCached
<1>8. ReportIsPrinted'
  BY <1>1, <1>2, <1>3 DEF Rest, ReportIsPrinted
<1> QED BY <1>3, <1>5, <1>6, <1>7, <1>8, InvariantParts, PTL DEF Rest

\* The report is written, and the session dropped.
LEMMA ReportKeeps ==
  ASSUME IInv, WriteReport \/ DropSession
  PROVE  IInv'
<1> USE DEF args, passVars
<1>1. Shape /\ Rest /\ UNCHANGED <<stateVars, cache, active, daemon, services, trouble>>
  BY InvariantParts DEF WriteReport, DropSession, DropBrowser, browserVars
<1>2. State!IInv' /\ Printed' = Printed
  BY <1>1, StateFrame
<1>3. /\ UNCHANGED <<clock, now, window, stale_after, deadline, cancelled, stopped, records>>
      /\ asked /\ asked' \in BOOLEAN /\ asked'
      /\ \/ /\ pc = "report" /\ pc' = "drop" /\ stopped # "none"
            /\ \/ report' = Printed /\ exit' = Outcome
               \/ report' = report /\ exit' = "output"
         \/ pc = "drop" /\ pc' = "done" /\ UNCHANGED <<report, exit>>
  BY <1>1 DEF WriteReport, DropSession, DropBrowser, browserVars, stateVars, Rest,
     SessionPhases, Shape, BrowserShape
<1>4. BrowserShape'
  BY <1>1, <1>3 DEF Shape, BrowserShape
<1>5. Shape'
  BY <1>1, <1>3, <1>4 DEF Shape, Exits, Outcome
<1>6. NothingYet' /\ SessionPhases'
  BY <1>1, <1>3 DEF Rest, NothingYet, SessionPhases, BeforePass
<1>7. TimesAdvance' /\ VisibleIsCached'
  BY <1>1, <1>3 DEF Rest, TimesAdvance, VisibleIsCached
<1>8. ReportIsPrinted'
  BY <1>1, <1>2, <1>3 DEF Rest, ReportIsPrinted, Outcome, Shape
<1> QED BY <1>2, <1>5, <1>6, <1>7, <1>8, InvariantParts, PTL DEF Rest

\* Time, the user and the daemon.
LEMMA EnvironmentKeeps ==
  ASSUME IInv, Tick \/ Interrupt \/ DaemonStep
  PROVE  IInv'
<1> USE DEF args, passVars
<1>1. Shape /\ Rest
  BY InvariantParts
<1>2. /\ UNCHANGED <<stateVars, cache, active, asked, pc, now, window, stale_after, deadline,
                     stopped, report, exit, records>>
      /\ daemon' = daemon \/ (daemon = "running" /\ daemon' = "gone")
      /\ clock' = clock \/ (pc \notin BeforePass /\ clock < MaxTime /\ clock' = clock + 1)
      /\ cancelled' \in BOOLEAN
  BY <1>1 DEF Tick, Interrupt, DaemonStep, DaemonDelivers, DaemonReportsError, DaemonEnds,
     browserVars, stateVars, Shape
<1>3. services' \in Seq(RawEvents) /\ trouble' \in Nat
  <2>1. services \in Seq(RawEvents) /\ trouble \in Nat
    BY <1>1 DEF Shape, BrowserShape
  <2>2. CASE \E r \in RawEvents : DaemonDelivers(r)
    <3>1. PICK r \in RawEvents : services' = Append(services, r) /\ trouble' = trouble
      BY <2>2 DEF DaemonDelivers
    <3> QED BY <2>1, <3>1
  <2>3. CASE DaemonReportsError
    <3>1. services' = services /\ trouble' = trouble + 1
      BY <2>3 DEF DaemonReportsError
    <3> QED BY <2>1, <3>1
  <2>4. CASE UNCHANGED <<services, trouble>>
    BY <2>1, <2>4
  <2> QED BY <2>2, <2>3, <2>4 DEF Tick, Interrupt, DaemonStep, DaemonEnds, browserVars
<1>4. State!IInv' /\ Printed' = Printed
  BY <1>1, <1>2, StateFrame
<1>5. BrowserShape'
  BY <1>1, <1>2, <1>3 DEF Shape, BrowserShape
<1>6. clock \in Int /\ clock' \in Int /\ clock' \in Times /\ clock <= clock'
  BY <1>1, <1>2, DiscoverAssumption DEF Shape, Times
<1>7. Shape'
  BY <1>1, <1>2, <1>5, <1>6 DEF Shape
<1>8. NothingYet' /\ SessionPhases'
  BY <1>1, <1>2 DEF Rest, NothingYet, SessionPhases, BeforePass
<1>9. TimesAdvance'
  <2>1. now \in Int /\ \A k \in Keys : records[k].at \in Int
    BY <1>1, RecordTimes, DiscoverAssumption DEF Rest, Shape, Times
  <2>2. now <= clock /\ \A k \in Keys : records[k].at <= clock
    BY <1>1 DEF Rest, TimesAdvance
  <2>3. now <= clock' /\ \A k \in Keys : records[k].at <= clock'
    BY <1>6, <2>1, <2>2
  <2> QED BY <1>1, <1>2, <2>3 DEF Rest, TimesAdvance
<1>10. VisibleIsCached' /\ ReportIsPrinted'
  BY <1>1, <1>2, <1>4 DEF Rest, VisibleIsCached, ReportIsPrinted
<1> QED BY <1>4, <1>7, <1>8, <1>9, <1>10, InvariantParts, PTL DEF Rest

-----------------------------------------------------------------------------
(* The theorems.                                                           *)

\* A step of the command keeps the invariant, and is a step of discovery state
\* or leaves it alone.
LEMMA StepKeeps ==
  ASSUME IInv, [Next]_vars
  PROVE  IInv' /\ [State!Next]_(State!vars)
<1>1. UNCHANGED stateVars => UNCHANGED State!vars
  BY DEF stateVars, State!vars
<1>2. CASE UNCHANGED vars
  <2>1. UNCHANGED <<browserVars, stateVars, pc, clock, now, cancelled, window, stale_after,
                    deadline, stopped, report, exit>>
    BY <1>2 DEF vars, passVars, args
  <2>2. Shape /\ Rest /\ UNCHANGED records
    BY <2>1, InvariantParts DEF stateVars
  <2>3. BrowserShape' /\ State!IInv' /\ VisibleIsCached' /\ Printed' = Printed
          /\ UNCHANGED <<active, daemon, asked>>
    BY <2>1, Frame
  <2>4. Shape' /\ Rest'
    BY <2>1, <2>2, <2>3 DEF Shape, Rest, NothingYet, SessionPhases, TimesAdvance, ReportIsPrinted
  <2>5. IInv'
    BY <2>4, InvariantParts, PTL
  <2> QED BY <1>1, <2>1, <2>5
<1>3. CASE ParseArgs \/ Install \/ LoopTop \/ Check
  BY <1>1, <1>3, ControlKeeps DEF ParseArgs, Install, LoopTop, Check
<1>4. CASE Start \/ StartFails
  BY <1>1, <1>4, StartKeeps DEF Start, StartFails
<1>5. CASE Poll
  BY <1>1, <1>5, PollKeeps
<1>6. CASE ExpireAfterEvent \/ ExpireAtEnd
  BY <1>1, <1>6, ExpireKeeps
<1>7. CASE Stop
  BY <1>1, <1>7, StopKeeps DEF Stop
<1>8. CASE WriteReport \/ DropSession
  BY <1>1, <1>8, ReportKeeps DEF WriteReport, DropSession
<1>9. CASE Tick \/ Interrupt \/ DaemonStep
  BY <1>1, <1>9, EnvironmentKeeps DEF Tick, Interrupt, DaemonStep
<1> QED BY <1>2, <1>3, <1>4, <1>5, <1>6, <1>7, <1>8, <1>9 DEF Next, Pass, Ended

\* Every pass of the command keeps its two caches, its clock readings and its
\* phases in step.
THEOREM Inductive == Spec => []IInv
<1>1. Init => IInv
  BY InitHolds
<1>2. IInv /\ [Next]_vars => IInv'
  BY StepKeeps
<1> QED BY <1>1, <1>2, PTL DEF Spec

\* The type invariant holds in every reachable state.
THEOREM TypeCorrect == Spec => []TypeOK
<1>1. IInv => TypeOK
  BY DEF IInv
<1> QED BY <1>1, Inductive, PTL

\* What is shown and what is printed is the browser's latest valid resolution.
THEOREM ShowsWhatIsResolved == Spec => []ShownIsResolved
<1>1. IInv => ShownIsResolved
  <2> SUFFICES ASSUME IInv PROVE ShownIsResolved
    OBVIOUS
  <2>1. VisibleIsCached /\ State!IInv
    BY DEF IInv
  <2>2. ASSUME NEW k \in Keys, report[k] # NoPeer
        PROVE  Card(cache[k]) = report[k]
    <3>1. report[k] = Card(records[k].peer)
      BY <2>2 DEF IInv, ReportIsPrinted, Printed
    <3>2. records[k].peer # NoPeer
      BY <3>1, <2>2 DEF Card
    <3>3. records[k].kind = "visible"
      BY <2>1, <3>2, RecordPeers
    <3> QED BY <2>1, <3>1, <3>3 DEF VisibleIsCached
  <2> QED BY <2>1, <2>2 DEF ShownIsResolved, VisibleIsCached
<1> QED BY <1>1, Inductive, PTL

\* The daemon was asked to end, and exit status 0 means that the list printed
\* is whole.
THEOREM EndsHonestly == Spec => []EndingIsHonest
<1>1. IInv => EndingIsHonest
  <2> SUFFICES ASSUME IInv, pc = "done"
               PROVE  /\ asked \/ daemon = "none"
                      /\ ExitStatus = 0 => /\ ~active /\ daemon = "gone"
                                           /\ report = Printed
                                           /\ mirror = {k \in Keys : report[k] # NoPeer}
    BY DEF EndingIsHonest
  <2>1. asked \/ daemon = "none"
    BY DEF IInv, SessionPhases
  <2>2. ASSUME ExitStatus = 0
        PROVE  ~active /\ daemon = "gone" /\ report = Printed
    <3>1. exit = "ok"
      BY <2>2 DEF ExitStatus
    <3> QED BY <3>1 DEF IInv, ReportIsPrinted, SessionPhases
  <2>3. ASSUME report = Printed
        PROVE  mirror = {k \in Keys : report[k] # NoPeer}
    <3>1. mirror = {k \in Keys : records[k].kind = "visible"}
      BY DEF IInv, State!IInv, State!TransitionsTellAll, State!VisibleKeys
    <3>2. \A k \in Keys : records[k].kind = "visible" <=> report[k] # NoPeer
      BY <2>3, RecordPeers, CardAssumption DEF IInv, Printed, Card, ValidPeers
    <3> QED BY <3>1, <3>2
  <2> QED BY <2>1, <2>2, <2>3
<1> QED BY <1>1, Inductive, PTL

\* The command drives discovery state by its operations only, at times of the
\* clock: it implements DiscoveredPeers, whose theorems hold of it.
THEOREM DrivesState == Spec => State!Spec
<1>1. Init => State!Init
  BY DEF Init
<1>2. IInv /\ [Next]_vars => [State!Next]_(State!vars)
  BY StepKeeps
<1> QED BY <1>1, <1>2, Inductive, PTL DEF Spec, State!Spec
=============================================================================
