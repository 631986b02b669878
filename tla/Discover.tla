------------------------------ MODULE Discover ------------------------------
(***************************************************************************)
(* The discover command (apps/cli discovery.rs, main.rs): one observation  *)
(* pass that polls the browser, applies its events to DiscoveredPeers at   *)
(* times it reads from its clock, expires what is stale, stops the browser *)
(* and prints what is visible, while time passes, the daemon delivers,     *)
(* fails or ends, and the user may interrupt.                              *)
(***************************************************************************)
EXTENDS Browser

CONSTANTS
    MaxTime,
    Windows,                    \* what the user may give for --window
    StaleAfters,                \* and for --stale-after
    NotGiven,                   \* no --stale-after
    MAX_WINDOW,
    MAX_STALE_AFTER,
    BackendMayClose,            \* the daemon may end during the pass
    MAX_RETAINED_TOMBSTONES,
    TOMBSTONE_RETENTION

ASSUME DiscoverAssumption ==
    /\ MaxTime \in Nat /\ MAX_WINDOW \in 1..MaxTime /\ MAX_STALE_AFTER \in Nat
    /\ Windows \subseteq Nat /\ StaleAfters \ {NotGiven} \subseteq Nat
    /\ BackendMayClose \in BOOLEAN
    /\ Keys \subseteq Int /\ IsFiniteSet(Keys)
    /\ MAX_RETAINED_TOMBSTONES \in Nat /\ TOMBSTONE_RETENTION \in Nat

VARIABLES
    records, visible_count, mirror,     \* DiscoveredPeerState
    pc,             \* where the command is
    clock,          \* the clock, and the deadline's Instant::now
    now,            \* the time read for next_transition
    window, stale_after,                \* DiscoverArgs
    deadline,
    cancelled,      \* INTERRUPTED
    stopped,        \* stop_result: "none", "ok" or "failed"
    report,         \* the cards printed, NoPeer for a key that is not
    exit,           \* how the command ended: "none" before that
    seenAt,         \* history: when a valid observation of a key was last polled
    hasty           \* history: keys expired within stale_after of such a poll

State == INSTANCE DiscoveredPeers WITH
    Peers   <- {PeerOf(r) : r \in {x \in RawEvents : x.kind = "resolved"}},
    Windows <- StaleAfters \ {NotGiven}

stateVars == <<records, visible_count, mirror>>
args == <<window, stale_after>>
passVars == <<args, deadline, stopped, report, exit, seenAt, hasty>>
vars == <<browserVars, stateVars, pc, clock, now, cancelled, passVars>>

Init ==
    /\ BrowserInit /\ State!Init
    /\ pc = "args" /\ clock = 0 /\ now = 0
    /\ window \in Windows /\ stale_after \in StaleAfters
    /\ deadline = 0 /\ cancelled = FALSE
    /\ stopped = "none" /\ exit = "none"
    /\ report = [k \in Keys |-> NoPeer]
    /\ seenAt = [k \in Keys |-> 0]
    /\ hasty = {}

-----------------------------------------------------------------------------
(* The pass, one action per step of run_discovery and observe.             *)

\* The ranges of DiscoverArgs.
ArgsValid == window \in 1..MAX_WINDOW /\ stale_after \in {NotGiven} \cup 1..MAX_STALE_AFTER

\* Cli::try_parse_from
ParseArgs ==
    /\ pc = "args"
    /\ IF ArgsValid THEN pc' = "install" /\ UNCHANGED exit
                    ELSE pc' = "done" /\ exit' = "usage"
    /\ UNCHANGED <<browserVars, stateVars, clock, now, cancelled, args, deadline, stopped, report, seenAt, hasty>>

\* SignalCancellation::install: from here on an interrupt sets a flag.
Install ==
    /\ pc = "install"
    /\ \/ pc' = "start" /\ UNCHANGED exit
       \/ pc' = "done" /\ exit' = "interrupt"
    /\ UNCHANGED <<browserVars, stateVars, clock, now, cancelled, args, deadline, stopped, report, seenAt, hasty>>

\* BrowserSession::start
Start ==
    /\ pc = "start"
    /\ StartBrowser
    /\ deadline' = clock + window
    /\ pc' = "top"
    /\ UNCHANGED <<stateVars, clock, now, cancelled, args, stopped, report, exit, seenAt, hasty>>

\* It failed.
StartFails ==
    /\ pc = "start"
    /\ StartBrowserFails
    /\ pc' = "done" /\ exit' = "start"
    /\ UNCHANGED <<stateVars, clock, now, cancelled, args, deadline, stopped, report, seenAt, hasty>>

\* Mutant: the loop does not look at the interrupt flag.
LoopTopIgnoresInterrupt ==
    /\ pc = "top"
    /\ pc' = "poll" /\ now' = clock
    /\ UNCHANGED <<browserVars, stateVars, clock, cancelled, passVars>>

\* The loop condition, and the clock read before next_transition is called.
LoopTop ==
    /\ pc = "top"
    /\ IF cancelled THEN pc' = "final" /\ UNCHANGED now
                    ELSE pc' = "poll" /\ now' = clock
    /\ UNCHANGED <<browserVars, stateVars, clock, cancelled, passVars>>

\* DiscoveredPeerState::apply.
Apply(event, t) ==
    CASE event.kind \in {"Added", "Updated", "Refreshed"} -> State!Observe(event.key, event.peer, t)
      [] event.kind = "Removed" -> State!Remove(event.key, t)
      [] event.kind = "Error" -> State!RejectError

AfterEvent == IF stale_after = NotGiven THEN "top" ELSE "expire"

\* One round of the loop of next_transition: an event is applied at the time
\* that was read when next_transition was called.
Poll ==
    /\ pc = "poll"
    /\ PollEvent
    /\ IF Polled.kind = "None"
         THEN pc' = "check" /\ UNCHANGED <<stateVars, seenAt>>
         ELSE /\ Apply(Polled, now)
              /\ pc' = AfterEvent
              /\ seenAt' = IF Polled.kind \in {"Added", "Updated", "Refreshed"}
                             THEN [seenAt EXCEPT ![Polled.key] = clock] ELSE seenAt
    /\ UNCHANGED <<clock, now, cancelled, args, deadline, stopped, report, exit, hasty>>

\* Mutant: the window is not looked at while waiting.
WaitsForInterrupt == cancelled

\* next_transition gives up.
WaitIsOver == cancelled \/ clock >= deadline

\* Nothing to poll: None, or sleep and poll again.
Check ==
    /\ pc = "check"
    /\ pc' = IF WaitIsOver THEN "final" ELSE "poll"
    /\ UNCHANGED <<browserVars, stateVars, clock, now, cancelled, passVars>>

\* core expire at the time of the clock, after an event or at the end.
ExpireStale ==
    /\ State!Expire(clock, stale_after)
    /\ hasty' = hasty \cup {k \in State!VisibleKeys(records) \ State!VisibleKeys(records') :
                                clock - seenAt[k] < stale_after}

ExpireAfterEvent ==
    /\ pc = "expire"
    /\ ExpireStale
    /\ pc' = "top"
    /\ UNCHANGED <<browserVars, clock, now, cancelled, args, deadline, stopped, report, exit, seenAt>>

ExpireAtEnd ==
    /\ pc = "final"
    /\ IF stale_after = NotGiven THEN UNCHANGED <<stateVars, hasty>> ELSE ExpireStale
    /\ pc' = "stop"
    /\ UNCHANGED <<browserVars, clock, now, cancelled, args, deadline, stopped, report, exit, seenAt>>

\* session.stop, whose result is kept for later.
Stop ==
    /\ pc = "stop"
    /\ \/ StopBrowser /\ stopped' = "ok"
       \/ StopBrowserFails /\ stopped' = "failed"
    /\ pc' = "report"
    /\ UNCHANGED <<stateVars, clock, now, cancelled, args, deadline, report, exit, seenAt, hasty>>

\* DeviceCard::from_peer: every address with the port of the peer, and its hints.
Card(peer) ==
    IF peer = NoPeer THEN NoPeer
    ELSE [addresses |-> {<<e, peer.port>> : e \in peer.endpoints}, hints |-> peer.txt]

\* What stands for no card is none.
ASSUME CardAssumption ==
    \A r \in RawEvents : r.kind = "resolved" => Card(PeerOf(r)) # NoPeer

\* snapshot and render_snapshot: one card for every visible peer.
Printed == [k \in Keys |-> Card(records[k].peer)]

\* How the command may end: DiscoveryCliError, a usage error of Clap, or "ok".
Exits == {"ok", "usage", "interrupt", "start", "output", "shutdown"}

\* The stop result, for the caller.
Outcome == IF stopped = "failed" THEN "shutdown" ELSE "ok"

\* write_report of the snapshot.  An output error ends the command at once,
\* before the stop result is looked at.
WriteReport ==
    /\ pc = "report"
    /\ \/ /\ report' = Printed
          /\ exit' = Outcome
       \/ exit' = "output" /\ UNCHANGED report
    /\ pc' = "drop"
    /\ UNCHANGED <<browserVars, stateVars, clock, now, cancelled, args, deadline, stopped, seenAt, hasty>>

\* The session goes out of scope.
DropSession ==
    /\ pc = "drop"
    /\ DropBrowser
    /\ pc' = "done"
    /\ UNCHANGED <<stateVars, clock, now, cancelled, passVars>>

Pass ==
    \/ ParseArgs \/ Install \/ Start \/ StartFails \/ LoopTop \/ Poll \/ Check
    \/ ExpireAfterEvent \/ ExpireAtEnd \/ Stop \/ WriteReport \/ DropSession

-----------------------------------------------------------------------------
(* The environment.                                                        *)

BeforePass == {"args", "install", "start"}

\* The clock starts with the pass.
Tick ==
    /\ pc \notin BeforePass \cup {"done"} /\ clock < MaxTime
    /\ clock' = clock + 1
    /\ UNCHANGED <<browserVars, stateVars, pc, now, cancelled, passVars>>

\* on_interrupt
Interrupt ==
    /\ pc \notin {"args", "install", "done"} /\ ~cancelled
    /\ cancelled' = TRUE
    /\ UNCHANGED <<browserVars, stateVars, pc, clock, now, passVars>>

DaemonStep ==
    /\ pc # "done"
    /\ \/ \E r \in RawEvents : DaemonDelivers(r)
       \/ DaemonReportsError
       \/ (BackendMayClose \/ asked) /\ DaemonEnds
    /\ UNCHANGED <<stateVars, pc, clock, now, cancelled, passVars>>

\* run_from: the exit status of the process.
ExitStatus == CASE exit = "ok" -> 0 [] exit = "usage" -> 2 [] OTHER -> 1

\* The command has ended and its process is gone.
Ended == pc = "done" /\ UNCHANGED vars

Next == Pass \/ Tick \/ Interrupt \/ DaemonStep \/ Ended

Spec == Init /\ [][Next]_vars

\* The pass keeps running and time keeps passing.  Nothing makes the user
\* interrupt or the daemon deliver.
FairSpec == Spec /\ WF_vars(Pass) /\ WF_vars(Tick)

-----------------------------------------------------------------------------
(* Properties.                                                             *)

\* Every variable has the shape its type gives it.
TypeOK ==
    /\ BrowserTypeOK /\ State!TypeOK
    /\ pc \in BeforePass \cup {"top", "poll", "check", "expire", "final", "stop", "report", "drop", "done"}
    /\ clock \in 0..MaxTime /\ now \in 0..MaxTime /\ deadline \in 0..MaxTime
    /\ cancelled \in BOOLEAN /\ window \in Windows /\ stale_after \in StaleAfters
    /\ stopped \in {"none", "ok", "failed"}
    /\ exit \in {"none"} \cup Exits

\* Two caches, one truth: what discovery state shows of a key, and what the
\* command prints, is the browser's own latest valid resolution of it, never an
\* older one and never a peer whose removal was already polled.
ShownIsResolved ==
    \A k \in Keys :
        /\ records[k].kind = "visible" => cache[k] = records[k].peer
        /\ report[k] # NoPeer => Card(cache[k]) = report[k]

\* The exit status can be relied upon.  Whatever failed on the way, the daemon
\* was asked to shut down, unless it never ran; success says that it is gone
\* and that the list was written whole: every visible device and no other, the
\* same ones that the event lines add up to.
EndingIsHonest ==
    pc = "done" =>
        /\ asked \/ daemon = "none"
        /\ ExitStatus = 0 =>
              /\ ~active /\ daemon = "gone"
              /\ report = Printed
              /\ mirror = {k \in Keys : report[k] # NoPeer}

\* The inductive invariant behind the theorems of DiscoverProofs, part by part.
\* Before the browser runs nothing has happened yet.
NothingYet ==
    pc \in BeforePass =>
        /\ clock = 0 /\ daemon = "none" /\ ~active /\ ~asked /\ stopped = "none"
        /\ pc # "args" => window \in 1..MAX_WINDOW

\* A session is active from its start to its stop; after it the daemon was asked
\* to end, and a stop that succeeded found it gone.
SessionPhases ==
    /\ pc \in {"top", "poll", "check", "expire", "final", "stop"} => active /\ stopped = "none"
    /\ pc \in {"report", "drop"} => asked /\ stopped # "none"
    /\ pc = "done" => asked \/ daemon = "none"
    /\ stopped = "ok" => ~active /\ daemon = "gone"
    /\ active => daemon # "none"
    /\ pc = "expire" => stale_after # NotGiven

\* No input is older than a record: the time an event is applied at was read
\* after every earlier event was.
TimesAdvance ==
    /\ now <= clock
    /\ \A k \in Keys : /\ records[k].at <= clock
                       /\ pc \in {"poll", "check"} => records[k].at <= now

\* What is visible is what the browser remembers.
VisibleIsCached == \A k \in Keys : records[k].kind = "visible" => cache[k] = records[k].peer

\* What was printed is what is still known, and success means it was printed.
ReportIsPrinted ==
    /\ pc \notin {"drop", "done"} => exit = "none"
    /\ report = [k \in Keys |-> NoPeer] \/ (pc \in {"drop", "done"} /\ report = Printed)
    /\ exit = "ok" => stopped = "ok" /\ report = Printed

IInv ==
    /\ TypeOK /\ State!IInv
    /\ NothingYet /\ SessionPhases /\ TimesAdvance /\ VisibleIsCached /\ ReportIsPrinted

\* From some time on nothing new is queued for the session.
DeliveriesCease == <>[][Len(services') <= Len(services) /\ trouble' <= trouble]_<<services, trouble>>

\* While the daemon lives, the window ends the pass, provided that events and
\* errors cease at last.  The premise is needed: next_transition looks at the
\* deadline only when it finds nothing queued, so that a daemon which always has
\* an event, or an error, keeps the pass running after its window.
WindowEndsPass == DeliveriesCease => (pc = "top" ~> pc = "done" \/ daemon = "gone")

\* An interrupt ends the pass, even on a daemon that never ceases to yield events
\* or errors.
InterruptEndsPass == cancelled ~> pc = "done"

\* The trait DiscoverySession: next_transition returns None when the pass is
\* over, because the window elapsed, the backend closed, or it was interrupted.
PassEnds == pc = "top" ~> pc = "done"

\* The --stale-after option: only devices not re-observed within that many
\* seconds are dropped.
NoneExpiredHastily == hasty = {}
=============================================================================
