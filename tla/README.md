# Verification of local-transfer

TLA+ models of `local-transfer`, a Rust library (`local-transfer-core`) and its
command line, their model-checking configurations for TLC, and proofs checked by
TLAPS. Paths below are relative to the repository.

## The system

| Component | State | Operations | Talks to |
| --- | --- | --- | --- |
| Pairing-request codec (`pairing.rs`) | none | encode, decode | the caller's transport |
| Pairing-request state machines (`pairing.rs`) | one `PairingRequest` per initiated attempt, one `PairingResponse` per request received: state, deadline, identifier | initiate, request_message, mark_request_sent, handle_remote_message, check_deadline, cancel, note_transport_failure; from_request, accept, reject, mark_reply_sent, check_deadline, cancel, note_transport_failure | each other, by frames over an unreliable transport |
| Trusted-peer store (`trusted_peers.rs`, `persistence.rs`) | the `trusted-peers` file and its lock file | store, remove, load | other processes of the user, through the file system |
| Discovered-peer state (`discovered_peers.rs`) | a record per advertisement key (visible or tombstone), the number of visible ones | apply, expire | fed by the browser's events, read by the command |
| Discovery browser (`browser.rs`) | the peers resolved in this session, whether it is active | start, poll_event, stop, drop | the mDNS daemon thread, through two channels |
| Discover command (`apps/cli` `discovery.rs`, `main.rs`) | deadline, interrupt flag, event lines | one observation pass | browser, discovered-peer state, clock, signal handler |
| Local device (`local_device.rs`, `identity.rs`, `device_name.rs`, `persistence.rs`, `platform.rs`) | the files `device-id` and `device-name`, their directory, and the modes of all three | load, update_name | other processes, through the file system |
| Service advertisement (`advertisement.rs`) | session identity, whether it is active | start, poll_event, stop, drop | its own mDNS daemon thread, through a bounded command queue and a channel per answer |
| TXT metadata (`discovery.rs`) | none | encoding and parsing of protocol range and hints | browser and advertisement |
| Device command (`apps/cli` `main.rs`) | none | one load, three lines of output | local device |
| Desktop application | none: a placeholder | | |

What is hard here: two parties that share nothing but frames that may be lost,
repeated, reordered or damaged, each with its own clock; processes that race on
files, with errors, deaths and power loss at every step; inputs that reach the
discovery state out of the order of their times; a command that composes two
caches, a clock read twice and a daemon that may end at any moment; a shutdown in
two steps, each with a timeout, that may be repeated against a daemon still busy
with the first; texts that other programs may rewrite.

What makes each part correct is stated as properties in its module and listed
below; `PROJECT.json` lists the hazards with the properties that cover them.

## Modules

| Module | Models | Notes |
| --- | --- | --- |
| `PairingMessage` | encode, decode | a frame is the sequence of its fields: version, kind, identifier (one element for sixteen bytes), reason |
| `Pairing` | `PairingRequest`, `PairingResponse`, two clocks, the transport | one action per method; `net` holds every frame that may still be delivered, so losing is not delivering, and repeating and reordering are free |
| `PairingOutcome` | what the phase promises | abstract specification of `Pairing` |
| `TrustedPeerStore` | store, remove, load of several processes | one action per step: lock, read, modify, write temporary, rename, sync file, sync directory |
| `TrustedPeerSet` | what the store promises | abstract specification: atomic puts and removals |
| `DiscoveredPeers` | apply, expire, prune_tombstones | inputs at arbitrary times |
| `PeerRegister` | what the discovery state promises | abstract specification: the newest input wins |
| `Browser` | browser session, mDNS daemon (external) | actions without a caller |
| `Discover` | the discover command | extends `Browser`, instantiates `DiscoveredPeers` |
| `LocalDevice` | identity and name files, their directory and its modes, several processes | one action per step, no lock, with power loss |
| `Advertisement` | one advertisement and its daemon (external) | `stop` in its steps; the command queue and the answers are state |
| `DeviceText` | display names, name hints, decimals | pure; a text is a sequence of characters, one per class the code tells apart |
| `DiscoveryMetadata` | TXT records: to_txt_entries, from_txt_entries, the choice of a version | pure |
| `TrustedPeerLine` | one line of the trusted-peer store, both ways | pure |
| `Formats` | the four formats on their way to a reader that may find them damaged | checks `PairingMessage`, `DeviceText`, `DiscoveryMetadata`, `TrustedPeerLine` |
| `MC*` | values of constants for TLC | |
| `*Proofs` | theorems | eight modules, one per proved model, and `PairingMessageProofs` for the codec, on which two others build |

Correspondence to the code is in the `map` of `PROJECT.json`, one entry per
definition. Definitions whose comment begins with "Mutant" are plausible bugs;
putting one in the place of the definition it is a variant of violates the
property `PROJECT.json` names for it. They are not part of the models.

### Abstractions

* Attempt identifiers are drawn fresh for every attempt: two version-4 UUIDs do
  not collide. Device identifiers likewise.
* A caller of `PairingRequest` marks the request sent only after it got the
  bytes; it may call everything else in any order, at any time. Bytes returned
  to a caller go to `net` at once: a caller that sends them late or never is a
  transport that delays or loses them.
* Damaged frames are ones `decode` refuses (an assumption of `Pairing`): the
  phase is unauthenticated by design, and a forged acceptance is indistinguishable
  from a real one. `DecodeIsInverse` shows that every other frame is an encoding.
* A label is its length in UTF-8 bytes; an identity is opaque and 64 bytes long.
  A store file is the set of its records, or garbage. Its size and the limits of
  its lines are computed as `encode` produces them.
* `disk` is the set of versions of the store a power loss may leave: a rename
  adds one, a directory sync leaves one. That is the contract of `rename` and
  `fsync` the comment of `sync_parent_directory` relies on, for Unix. On other
  systems that function does nothing, which is the mutant `NoDirectorySync`.
* A lock-free load reads the file through one open descriptor, hence at once.
* In `Browser` a fullname is a key or not one; a TXT record is a metadata value,
  malformed, invalid or incompatible. `DiscoveryMetadata` says which records are
  which. `Added`, `Updated` and `Refreshed` carry the same peer.
* The daemon may deliver service events and errors whenever it runs, without end,
  and may end. `MaxQueued` bounds what each of its two channels holds at a time.
* In `LocalDevice` a temporary file is not seen by anybody before it is linked,
  and the two data files, where they exist, are regular files. A loss of power
  leaves of each file any content its name had since the last start (nothing
  flushes the directory), and torn content only if it was not flushed before it
  got the name. It may also undo any narrowing of modes, which is more than file
  systems do.
* A mode is broad or private: whether others than the owner may use the file.
  Outside Unix the functions that set modes do nothing.
* `Advertisement` assumes of mdns-sd, as `advertisement.rs` uses it: commands are
  taken in the order they were accepted; a command is refused only when the
  queue is full or the daemon is gone; Exit is the last command it takes; an
  answer comes at any later time or never; after a name conflict it serves the
  replacement and may answer an unregister of the requested name with NotFound.
  The queue holds at least the four commands of a handle that is stopped once.
  A timeout may fire whenever the answer is not there; that two seconds have
  passed is all the code knows too.
* The pure modules scale the limits down (a hint of 5 bytes, an entry of 12,
  a record of 48, numbers up to 12) and keep their order. A character stands for
  its class: a letter takes one byte, a wide one three; a broken one is not UTF-8.
  Labels in `TrustedPeerLine` are ASCII.

## Runs

Passing runs:

| Run | Checks | Bounds |
| --- | --- | --- |
| `formats` | a frame is read as what was encoded or refused (`DecodeIsInverse`); so is a TXT record that lost, gained or changed entries (`ReadsOnlyWhatWasSent`, which also says that the versions read are a range of 16-bit numbers), and one that was only reordered, extended or written in another case is read, with the highest version both sides have (`AnnouncementsAreRead`); a name stays the same name in its file and its hint is the longest that fits (`NamesSurvive`); a store line has one spelling (`LinesAreCanonical`) | 2 identifiers, bytes 0..4 (all values the codec tells apart and one it does not know), frames of up to 5 elements (one beyond the longest); texts of up to 5 characters for names of at most 3; 2 changes to a record or line, enough to move an entry and damage it |
| `pairing` | outcomes are backed by decisions on that very attempt (`OutcomesAreDecided`), frames have authors (`FramesHaveAuthors`), outcomes are final (`TerminalAbsorbs`) and reached neither before the request was sent nor late (`NoProgressOutOfTurn`) | 2 initiator and 2 responder attempts: enough for a reply of one attempt to reach another and for one request to be answered twice, differently; one deadline, clocks that reach it |
| `pairing_live` | `EveryAttemptResolves`, `ImplementsOutcome` | 1 attempt, 2 responders; a deadline that has passed at the start, and one two ticks later |
| `store` | `TransactionsAreCurrent`, `CorruptionIsKept`, `ImplementsSet`, `LockIsReleased` | 2 processes, 2 identities: enough for every race of two transactions, on one record or on two |
| `store_power` | what `store` or `Removed` reported survives a loss of power, and `AlreadyAbsent` agrees with what readers see until then (`SuccessIsDurable`); `StoreStaysLoadable` | the same with power loss, and with records without a label and with the longest one the parser reads; 800 bytes, fewer than two of the latter need |
| `peers` | `ImplementsRegister`, `CountMatchesVisible`, `TransitionsTellAll`, `TombstonesBounded` | 3 keys, room for 2 tombstones, times 0..4 in any order with a retention of 2 |
| `discover` | `ShownIsResolved`; the exit status can be relied upon (`EndingIsHonest`); `WindowEndsPass` once the daemon delivers no more, `InterruptEndsPass` whatever it does | 2 keys, endless deliveries of which one event and one error wait at a time, two resolutions of one key and one of the other, room for 1 tombstone, a window of 1 in 2 ticks, arguments in and out of range; of the resolutions that are refused one, as all leave the caches alone (`discover_hasty` has the removal of a bad name too) |
| `device` | `OneIdentity`, `LoadLeavesPrivate`, `IdentityIsPermanent`, `DefaultNeverOverwrites` | 2 processes, 3 identifiers, 2 names, 1 loss of power; files missing, valid or damaged and a directory missing, broad, private or a link at the start (a link is left as it is, see below); a Unix, a Windows and an unsupported target |
| `advertisement` | `StoppedIsSilent`, `ExitIsRequested`, `FailedStopIsFinal`, `RenameIsTold`, `StopEnds` | a queue of 4, the least that is assumed; 3 stops, so that one follows a failure of a repeated one; 2 daemon events, one of which may hide the other |

Symmetry is used over processes, identities, responders and peer values, which
no action distinguishes, and only in runs without liveness. The number of
records never exceeds its limit in these runs (there are two identities and room
for two); the limit of bytes does, and the theorem `NarrowLabelsStayLoadable`
covers both.

Runs whose property states what the documentation says, and which the code
violates:

| Run | The code |
| --- | --- |
| `store_wide` | accepts and writes a label of 129 to 256 bytes, after which no load succeeds: the bound on bytes is applied to hexadecimal digits |
| `discover_hasty` | stamps an event with the time before the wait for it, so that `--stale-after` drops a device just observed |
| `discover_closed` | turns a closed backend into endless error events; the doc says the pass is then over |

`discover_closed` has no deliveries (`MaxQueued` is 0), so that nothing but the
closed backend keeps the pass running, which is itself fair. `WindowEndsPass` has
the premise `DeliveriesCease`: the deadline is looked at only when nothing is
queued, so an endless stream of events outlives the window.

`FailedStopIsFinal` is worth knowing to a caller: `stop` leaves the session active
after a failure, so that it can be called again, but no later call succeeds,
because whatever it submits comes behind the first Exit. Nothing is lost by it:
the daemon was asked to exit (`ExitIsRequested`).

Five further places where the code and its documentation disagree, met while
modelling. The models do what the code does; no run is spent on them:

* `handle_remote_message` (`pairing.rs:603`) ignores a response that comes before
  the request was marked sent; the doc of `UnexpectedMessage` (`pairing.rs:357`)
  says it fails the attempt.
* `write_all` (`trusted_peers.rs:658`) may report an error with the new record
  already in the file; `docs/trust.md` says no trusted state. `ImplementsSet`
  therefore counts the change where the rename is, not where success is reported.
* `remove` (`trusted_peers.rs:569`) answers `AlreadyAbsent` from what the path
  shows, without a sync; its doc (`trusted_peers.rs:302`) says the durable store
  lacks the identity. If one process renames and dies before its directory sync,
  another is told `AlreadyAbsent`, and then power is lost, the record may be back.
  `SuccessIsDurable` therefore asks durability of `store` and `Removed` only, and of
  `AlreadyAbsent` that the file lacks the record while no power is lost.
* The doc of the pass (`apps/cli` `discovery.rs:195`) says it observes events "for
  at most `window`"; `next_transition` (`discovery.rs:212`) looks at the deadline
  only when nothing is queued, hence the premise of `WindowEndsPass`.
* `docs/security.md:79` says that Unix enforces 0700 on the configuration directory
  and corrects broader modes; both places that narrow the directory
  (`persistence.rs:55` and `:116`) leave a linked one as it is.
  `LoadLeavesPrivate` promises 0700 of a real directory only.

## Fairness

* `Pairing`: both clocks advance and every caller keeps calling `check_deadline`,
  which the module's documentation asks of it. Nothing is assumed of users, the
  transport, or any other method.
* `TrustedPeerStore`: a process goes on with the call it is in. It need not start
  calls; it may die, and errors are possible for ever.
* `Discover`: the pass keeps running (a loop with a sleep of 20 ms) and time
  passes. The user need not interrupt. The daemon need not deliver, and
  may deliver for ever; that it ceases is a premise of `WindowEndsPass` alone.
* `Advertisement`: a call of `stop` keeps running and its timers expire. The
  daemon need not do anything; `StopEnds` promises its end only if it keeps taking
  commands, which is a premise of that property and not of the specification.

## Proofs

The proof modules follow one scheme: an inductive invariant `IInv` of the model,
checked by TLC first, proved by one step per action, then each property from it.
Every safety property a passing run checks is a theorem.

* `PairingProofs`. Readiness of an initiator says something about a responder it
  shares nothing with, so `IInv` joins them through the network: every frame in
  `net` has an author (`FramesHaveAuthors`), an author's state and decision agree
  (`DecisionsMatchStates`), and with them `ReadyMeansAccepted` and
  `RejectedMeansRefused`, together `OutcomesAreDecided`, are inductive.
  `ResponderReadyMeansAccepted`, which no run repeats, `TerminalAbsorbs`, `NoProgressOutOfTurn`
  and `ImplementsOutcome` follow.
  Assumed: deadlines are times; damaged frames do not decode.
* `TrustedPeerStoreProofs`. `IInv` is `TypeOK`, `TransactionsAreCurrent` (the
  holder of the lock works on what the file holds), `WritersHaveLoaded` (only a
  call that could load gets to write) and `SuccessIsDurable`, under power loss.
  From it: `CorruptionIsKept`, `ImplementsSet`, and `StoreStaysLoadable` for
  labels the parser accepts, which is the positive side of `store_wide`.
* `DiscoveredPeersProofs`. `IInv` adds nothing to the checked properties; the
  work is in the lemmas on pruning (what it drops is gone, what it keeps is
  unchanged and within the limit) and in the refinement of `PeerRegister`.
  Assumed: keys are finitely many integers.
* `LocalDeviceProofs`. `IInv` has four parts beside the types: a call is at a step
  of its job with the value it needs (`CallsInOrder`), who is past the identifier
  store has the identity in the file (`IdentityHeld`), the disk holds nothing torn
  and of the identity nothing but itself (`DiskIsWhole`), and how far the modes are
  narrowed at each step (`ModesNarrowed`). The last is the subtle one: a process
  that met no directory may pass another one's creation of it, and is safe only
  because the identity enters a directory after that was narrowed. Assumed: values,
  missing and damaged files are told apart.
* `AdvertisementProofs`. That a stop or a drop is never refused its Exit needs room
  in the queue (`Room`); that a success has withdrawn the name needs the order of
  the queue (`Withdrawn`); that a failed stop is final needs that whatever the next
  calls send is behind an Exit (`BehindExit`). With `Phases` they are inductive.
  Assumed: the queue holds four commands.

* `DiscoverProofs`. The command composes two caches, so `IInv` relates them: what is
  visible in the discovery state is what the browser remembers (`VisibleIsCached`),
  which is inductive only with `TimesAdvance`: an event is applied at a time read
  after every earlier one was applied, so none is passed over as older than its
  record. `NothingYet`, `SessionPhases` and `ReportIsPrinted` say what each phase of
  a pass has done. What `apply` and `expire` do is not proved again: the lemmas of
  `DiscoveredPeersProofs` are used through an instance of it, `StateProofs`, and
  `DrivesState` shows that the command implements `DiscoveredPeers`, so that the
  theorems about the latter hold of the composition. Assumed: raw events are
  removals or resolutions (`BrowserAssumption`), and what stands for no peer and no
  card is none (`CardAssumption`).
* `PairingMessageProofs`. `decode` and `encode` are inverse: for every message and
  for every frame whose third element is an identifier.
* `FormatsProofs`. What the channels can do to a frame, a record or a line needs only
  the shape of each (`FrameIsShaped`, `TextIsTyped`, `RecordIsShaped`,
  `LineIsShaped`), and for announcements that what DNS-SD allows keeps every
  announced entry once (`EntriesAreKept`). The work is in what the operators compute
  on texts of any length: a hint is the longest prefix that fits, the decimal of a
  number is its only spelling that is read (`DecimalIsCanonical`), hexadecimal is
  read as the bytes it was written for and no other text is (`HexIsRead`,
  `HexIsCanonical`), a record is read from its line as it was (`StoredIsRead`), and
  whatever is read of any line can be written and read again (`ReadIsCanonical`).
  These are inductions over data. The library's induction theorems take an
  operator, which the provers cannot instantiate; instead a least number for which
  a claim would fail is ruled out (`Least`, from well-foundedness of `<`), and a
  fold over a text is turned into a chain of its partial results (`FoldChain`),
  about which the claim is then shown for each link. Assumed, besides that bytes
  are bytes and limits are numbers: any character fits into a hint
  (`TypedAssumption`), the limits leave room for each entry and for a whole
  announcement (`RoomAssumption`) and for the longest record of the model
  (`LineRoomAssumption`). All hold of the code's limits (64, 255, 512 and so on) as
  of the small ones TLC uses.

Only model-checked: liveness (`EveryAttemptResolves`, `LockIsReleased`,
`WindowEndsPass`, `InterruptEndsPass`, `StopEnds`), which is beyond the prover.

## Not modelled

* Clap's parsing of the command line (the ranges of `DiscoverArgs` are), and the
  wording of output; the three lines the `device` command prints.
* `--show-events`: the lines are the transitions, which `mirror` follows.
* Refusal of symbolic links by the trusted-peer store, and its file modes: steps
  that may fail. What narrowing does to modes is modelled in `LocalDevice`.
* Labels with characters of several bytes in `TrustedPeerLine`; in
  `TrustedPeerStore` a label is its length in bytes, which is what `store_wide` is
  about.
* Accessors, `Display` and `Error` implementations, which keep and decide nothing.
* mDNS itself: the daemon is external, and modelled from how `browser.rs` and
  `advertisement.rs` use it.
* The desktop application, which has no code.

## Plan

The order of work was pairing, the trusted-peer store, the discovery state, browser
and command, local device, advertisement, formats, and then the proofs in the same
order, the composition and the formats last. What could follow:

1. The advertisement of one device seen by the browser of another, across restarts
   with fresh session names: `Advertisement` and `Browser` joined by a network.
2. Labels with characters of several bytes in `TrustedPeerLine`.
