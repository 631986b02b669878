--------------------------- MODULE Advertisement ---------------------------
(***************************************************************************)
(* One advertisement (advertisement.rs): a handle that starts a private    *)
(* mDNS daemon and registers a service with it, polls the daemon's events, *)
(* and ends by stop, which may fail and be repeated, or by a drop.         *)
(*                                                                         *)
(* The daemon (mdns-sd) is external: a thread that takes commands from a   *)
(* bounded queue in order and answers each on a channel of its own, as     *)
(* slowly as it likes; that resolves name conflicts by taking another      *)
(* name; and that may die.  An Exit is the last command it takes.          *)
(***************************************************************************)
EXTENDS Integers, Sequences

CONSTANTS
    QueueCapacity,  \* commands the daemon's channel holds
    MaxStops,       \* bound on the calls of stop
    MaxEvents       \* bound on the daemon's events

\* The four commands of a handle that is stopped or dropped once fit.
ASSUME AdvertisementAssumption ==
    /\ QueueCapacity \in Nat /\ QueueCapacity >= 4
    /\ MaxStops \in Nat /\ MaxEvents \in Nat

VARIABLES
    handle,         \* "none", "open", "failed" to start, or "dropped"
    active,         \* AdvertisementSession.active
    pc,             \* where a call of stop is
    unregistered,   \* its unregister_result
    result,         \* what the last call of stop, or a failed start, returned
    stops,          \* calls of stop that reached the backend
    failedStops,    \* history: some call of stop failed
    known,          \* history: the name polling told the owner
    daemon,         \* "none", "running" or "gone"
    commands,       \* its queue
    answers,        \* its answers nobody received yet
    serving,        \* the name it answers for, or "nothing"
    announced,      \* history: names other hosts were told of and not told the end of
    events,         \* queue of daemon events
    reported        \* how many there were so far

sessionVars == <<handle, active, pc, unregistered, result, stops, failedStops, known>>
daemonVars == <<daemon, serving, announced, reported>>
vars == <<sessionVars, daemonVars, commands, answers, events>>

\* DiscoveryAdvertisementErrorKind: the stage that failed.
Kinds == {"InvalidPort", "MetadataEncoding", "DaemonStartup", "ServiceConstruction",
          "Registration", "Daemon", "Unregister", "Shutdown"}

Op(op, call) == [op |-> op, call |-> call]
Monitor == Op("monitor", 0)
Register == Op("register", 0)

Init ==
    /\ handle = "none" /\ active = FALSE
    /\ pc = "idle" /\ unregistered = FALSE /\ result = "none"
    /\ stops = 0 /\ failedStops = FALSE /\ known = "requested"
    /\ daemon = "none" /\ commands = <<>> /\ answers = {}
    /\ serving = "nothing" /\ announced = {}
    /\ events = <<>> /\ reported = 0

-----------------------------------------------------------------------------
(* Start.                                                                  *)

\* DiscoveryAdvertisement::start: the daemon runs and has both commands.
Start ==
    /\ handle = "none"
    /\ handle' = "open" /\ active' = TRUE
    /\ daemon' = "running" /\ commands' = <<Monitor, Register>>
    /\ UNCHANGED <<pc, unregistered, result, stops, failedStops, known, answers,
                   serving, announced, events, reported>>

\* What can fail before there is a daemon: a configuration with port zero,
\* metadata that does not fit, the service, and the daemon's thread.
BeforeDaemon == {"InvalidPort", "MetadataEncoding", "ServiceConstruction", "DaemonStartup"}

\* It fails: before there is a daemon, or because the daemon refused one of the
\* commands, whereupon it is asked to exit, which it refuses only when it is gone.
StartFails ==
    /\ handle = "none"
    /\ handle' = "failed"
    /\ \/ /\ result' \in BeforeDaemon
          /\ UNCHANGED <<daemon, commands>>
       \/ /\ result' \in {"DaemonStartup", "Registration"}
          /\ \/ daemon' = "gone" /\ UNCHANGED commands
             \/ /\ daemon' = "running"
                /\ commands' = IF result' = "Registration" THEN <<Monitor, Op("exit", 0)>>
                                                          ELSE <<Op("exit", 0)>>
    /\ UNCHANGED <<active, pc, unregistered, stops, failedStops, known, answers,
                   serving, announced, events, reported>>

-----------------------------------------------------------------------------
(* Stop.                                                                   *)

\* A command is accepted.
Accepts(queue) == daemon = "running" /\ Len(queue) < QueueCapacity

\* AdvertisementSession::stop on an inactive session returns at once.
StopAgain ==
    /\ handle = "open" /\ pc = "idle" /\ ~active
    /\ result' = "ok"
    /\ UNCHANGED <<handle, active, pc, unregistered, stops, failedStops, known,
                   daemonVars, commands, answers, events>>

CallStop ==
    /\ handle = "open" /\ pc = "idle" /\ active /\ stops < MaxStops
    /\ stops' = stops + 1
    /\ pc' = "unregister"
    /\ UNCHANGED <<handle, active, unregistered, result, failedStops, known,
                   daemonVars, commands, answers, events>>

\* unregister_result is known.
Unregistered(ok, step) ==
    /\ unregistered' = ok
    /\ pc' = step
    /\ UNCHANGED <<handle, active, result, stops, failedStops, known, daemonVars, events>>

\* Mutant: the session is inactive after any stop.
ReturnInactive(value) ==
    /\ result' = value
    /\ active' = FALSE
    /\ failedStops' = (failedStops \/ value # "ok")
    /\ pc' = "idle"
    /\ UNCHANGED <<handle, unregistered, stops, known, daemonVars, events>>

\* stop returns, with the first of the two results that failed.
Return(value) ==
    /\ result' = value
    /\ active' = (value # "ok")
    /\ failedStops' = (failedStops \/ value # "ok")
    /\ pc' = "idle"
    /\ UNCHANGED <<handle, unregistered, stops, known, daemonVars, events>>

\* Mutant: a stop that could not unregister returns at once.
UnregisterFailsEarly ==
    Return("Unregister")

\* Unregistering failed: stop goes on to shut the daemon down.
UnregisterFails == Unregistered(FALSE, "shutdown")

\* MdnsBackend::unregister: the command.
SubmitUnregister ==
    /\ pc = "unregister"
    /\ \/ /\ Accepts(commands)
          /\ commands' = Append(commands, Op("unregister", stops))
          /\ Unregistered(unregistered, "awaitUnregister")
       \/ /\ ~Accepts(commands)
          /\ UnregisterFails
          /\ UNCHANGED commands
    /\ UNCHANGED answers

\* Its answer, OK or NotFound.
UnregisterAnswered ==
    /\ pc = "awaitUnregister"
    /\ Op("unregister", stops) \in answers
    /\ answers' = answers \ {Op("unregister", stops)}
    /\ Unregistered(TRUE, "shutdown")
    /\ UNCHANGED commands

\* Mutant: stop waits for the answer for as long as there is a daemon.
TimesOutNever(op) == Op(op, stops) \notin answers /\ daemon = "gone"

\* recv_timeout gives up on the answer to op after STOP_TIMEOUT, or because the
\* daemon is gone.
TimesOut(op) == Op(op, stops) \notin answers

UnregisterTimesOut ==
    /\ pc = "awaitUnregister"
    /\ TimesOut("unregister")
    /\ UnregisterFails
    /\ UNCHANGED <<commands, answers>>

\* Mutant: stop is content with either result.
JoinedEither(shutdown) ==
    IF unregistered \/ shutdown THEN "ok" ELSE "Unregister"

\* unregister_result.and(shutdown_result)
Joined(shutdown) ==
    IF ~unregistered THEN "Unregister" ELSE IF shutdown THEN "ok" ELSE "Shutdown"

\* MdnsBackend::shutdown: the command.
SubmitShutdown ==
    /\ pc = "shutdown"
    /\ \/ /\ Accepts(commands)
          /\ commands' = Append(commands, Op("exit", stops))
          /\ Unregistered(unregistered, "awaitShutdown")
       \/ ~Accepts(commands) /\ Return(Joined(FALSE)) /\ UNCHANGED commands
    /\ UNCHANGED answers

\* Its answer: the daemon is shut down.
ShutdownAnswered ==
    /\ pc = "awaitShutdown"
    /\ Op("exit", stops) \in answers
    /\ answers' = answers \ {Op("exit", stops)}
    /\ Return(Joined(TRUE))
    /\ UNCHANGED commands

ShutdownTimesOut ==
    /\ pc = "awaitShutdown"
    /\ TimesOut("exit")
    /\ Return(Joined(FALSE))
    /\ UNCHANGED <<commands, answers>>

\* The steps of a stop that was called.
StopStep ==
    \/ SubmitUnregister \/ UnregisterAnswered \/ UnregisterTimesOut
    \/ SubmitShutdown \/ ShutdownAnswered \/ ShutdownTimesOut

-----------------------------------------------------------------------------
(* Drop, and polling.                                                      *)

\* Mutant: the queue takes any number of commands.
OfferedBlind(queue, command) == Append(queue, command)

\* A command whose refusal is ignored.
Offered(queue, command) == IF Accepts(queue) THEN Append(queue, command) ELSE queue

\* Drop of AdvertisementSession: best_effort_stop if it is still active.
Drop ==
    /\ handle = "open" /\ pc = "idle"
    /\ handle' = "dropped"
    /\ commands' = IF active
                     THEN Offered(Offered(commands, Op("unregister", stops + 1)),
                                  Op("exit", stops + 1))
                     ELSE commands
    /\ UNCHANGED <<active, pc, unregistered, result, stops, failedStops, known,
                   daemonVars, answers, events>>

Noteworthy(event) == event \in {"NameChange", "Error"}

\* Mutant: it looks at the last event only.
LastEvent == Len(events)

\* How far poll_event reads: it passes over what is not noteworthy and stops at
\* the first event that is.
ReadUpTo ==
    LET first == {i \in DOMAIN events : Noteworthy(events[i])} IN
    IF first = {} THEN Len(events)
    ELSE CHOOSE i \in first : \A j \in first : i <= j

\* A change of name is told.  An error, also that of a closed channel, and None
\* leave the owner's knowledge as it is.
PollEvent ==
    /\ handle = "open" /\ pc = "idle"
    /\ known' = IF events # <<>> /\ events[ReadUpTo] = "NameChange"
                  THEN "replacement" ELSE known
    /\ events' = SubSeq(events, ReadUpTo + 1, Len(events))
    /\ UNCHANGED <<handle, active, pc, unregistered, result, stops, failedStops,
                   daemonVars, commands, answers>>

-----------------------------------------------------------------------------
(* The daemon.                                                             *)

Takes(op) == daemon = "running" /\ commands # <<>> /\ Head(commands).op = op

\* Monitor, and register: it announces the service under the requested name.
DaemonMonitors ==
    /\ Takes("monitor")
    /\ commands' = Tail(commands)
    /\ UNCHANGED <<sessionVars, daemonVars, answers, events>>

DaemonRegisters ==
    /\ Takes("register")
    /\ commands' = Tail(commands)
    /\ serving' = "requested" /\ announced' = announced \cup {"requested"}
    /\ UNCHANGED <<sessionVars, daemon, reported, answers, events>>

\* OK: it withdraws the service.  NotFound: there is none, or it is registered
\* under the name that replaced the requested one.
DaemonUnregisters ==
    /\ Takes("unregister")
    /\ commands' = Tail(commands)
    /\ answers' = answers \cup {Head(commands)}
    /\ \/ serving' = "nothing" /\ announced' = announced \ {serving}
       \/ serving = "replacement" /\ UNCHANGED <<serving, announced>>
    /\ UNCHANGED <<sessionVars, daemon, reported, events>>

\* It exits, forgets the commands behind and answers for nothing any more.
DaemonExits ==
    /\ Takes("exit")
    /\ daemon' = "gone" /\ commands' = <<>> /\ serving' = "nothing"
    /\ answers' = answers \cup {Head(commands)}
    /\ UNCHANGED <<sessionVars, announced, reported, events>>

DaemonDies ==
    /\ daemon = "running"
    /\ daemon' = "gone" /\ commands' = <<>> /\ serving' = "nothing"
    /\ UNCHANGED <<sessionVars, announced, reported, answers, events>>

\* Another host has the name: the service goes on under another.
DaemonRenames ==
    /\ daemon = "running" /\ serving = "requested" /\ reported < MaxEvents
    /\ serving' = "replacement"
    /\ announced' = (announced \ {"requested"}) \cup {"replacement"}
    /\ events' = Append(events, "NameChange") /\ reported' = reported + 1
    /\ UNCHANGED <<sessionVars, daemon, commands, answers>>

DaemonReports ==
    /\ daemon = "running" /\ reported < MaxEvents
    /\ \E event \in {"Error", "other"} : events' = Append(events, event)
    /\ reported' = reported + 1
    /\ UNCHANGED <<sessionVars, daemon, serving, announced, commands, answers>>

DaemonTakes == DaemonMonitors \/ DaemonRegisters \/ DaemonUnregisters \/ DaemonExits

\* The handle is gone and so is the daemon.
Over == handle \in {"failed", "dropped"} /\ daemon # "running" /\ UNCHANGED vars

Next ==
    \/ Start \/ StartFails \/ StopAgain \/ CallStop \/ StopStep \/ Drop \/ PollEvent
    \/ DaemonTakes \/ DaemonDies \/ DaemonRenames \/ DaemonReports \/ Over

Spec == Init /\ [][Next]_vars

\* A call of stop keeps running and its two timers expire.  The daemon need not
\* do anything at all.
FairSpec == Spec /\ WF_vars(StopStep)

-----------------------------------------------------------------------------
(* Properties.                                                             *)

Ops == [op : {"monitor", "register", "unregister", "exit"}, call : 0..(MaxStops + 1)]

\* Every variable has the shape its type gives it.
TypeOK ==
    /\ handle \in {"none", "open", "failed", "dropped"}
    /\ active \in BOOLEAN
    /\ pc \in {"idle", "unregister", "awaitUnregister", "shutdown", "awaitShutdown"}
    /\ unregistered \in BOOLEAN
    /\ result \in {"none", "ok"} \cup Kinds
    /\ stops \in 0..MaxStops /\ failedStops \in BOOLEAN
    /\ known \in {"requested", "replacement"}
    /\ daemon \in {"none", "running", "gone"}
    /\ commands \in Seq(Ops) /\ Len(commands) <= QueueCapacity
    /\ answers \subseteq Ops
    /\ serving \in {"nothing", "requested", "replacement"}
    /\ announced \subseteq {"requested", "replacement"}
    /\ events \in Seq({"NameChange", "Error", "other"})
    /\ reported \in 0..MaxEvents

\* A stop that succeeds, at the first attempt or a later one, leaves no daemon
\* behind and has taken back what was announced, unless a name conflict had
\* replaced the name that stop unregisters.
StoppedIsSilent ==
    (handle # "none" /\ ~active /\ handle # "failed") =>
        daemon = "gone" /\ "requested" \notin announced

ExitPending == \E i \in DOMAIN commands : commands[i].op = "exit"

\* The owner has given up on the advertisement, or never had it.
GivenUp == result # "none" \/ handle \in {"failed", "dropped"}

\* However start, stop or drop went, timeouts and refusals included, the daemon
\* is asked to exit: no failure leaves it running unasked.
ExitIsRequested == GivenUp => daemon # "running" \/ ExitPending

\* A failed stop leaves the session active, yet no later stop succeeds: whatever
\* it asks comes behind the Exit of the first, or after the daemon's end.
FailedStopIsFinal == failedStops => active

\* The owner who polls learns of every name other hosts may know the service by:
\* a replacement that is announced, be it served now or left behind by a stop
\* that unregistered the requested name, was told or is still queued.
RenameIsTold ==
    "replacement" \in announced =>
        known = "replacement" \/ \E i \in DOMAIN events : events[i] = "NameChange"

\* Nothing waits for ever.  A call of stop returns, be the daemon stalled, dead
\* or alive; and if the daemon keeps taking commands it ends, once the owner has
\* given up.
StopEnds ==
    /\ pc # "idle" ~> pc = "idle"
    /\ WF_vars(DaemonTakes) => (GivenUp ~> daemon # "running")

-----------------------------------------------------------------------------
(* The inductive invariant.                                                *)

\* A failed start leaves nothing to stop; only an active session has a call of
\* stop; without a running daemon there is no queue.
Phases ==
    /\ handle = "none" =>
          /\ daemon = "none" /\ commands = <<>> /\ answers = {} /\ announced = {}
          /\ serving = "nothing" /\ result = "none"
    /\ handle \in {"none", "failed"} => pc = "idle" /\ ~failedStops
    /\ pc # "idle" => handle = "open" /\ active
    /\ daemon # "running" => commands = <<>>
    /\ failedStops => result # "none"

\* As long as no Exit was sent there is room in the queue for what a stop or a
\* drop sends, so that neither is refused.
Room ==
    /\ (daemon = "running" /\ ~ExitPending) =>
          Len(commands) <= IF pc \in {"idle", "unregister"} THEN 2 ELSE 3
    /\ pc = "awaitShutdown" => daemon # "running" \/ ExitPending

\* The registration is the first command the daemon takes after the monitor's,
\* so that an unregister that was answered has undone it.
Withdrawn ==
    /\ \A i, j \in DOMAIN commands :
          i < j /\ commands[j].op = "register" => commands[i].op = "monitor"
    /\ daemon = "running" /\ "requested" \in announced => serving = "requested"
    /\ \A answer \in answers : answer.op = "exit" => daemon = "gone"
    /\ \/ \E answer \in answers : answer.op = "unregister"
       \/ unregistered /\ pc \in {"shutdown", "awaitShutdown"}
       => /\ "requested" \notin announced
          /\ \A i \in DOMAIN commands : commands[i].op # "register"

\* After a failed stop an Exit comes before whatever the next calls send.
BehindExit ==
    /\ handle = "open" =>
          /\ \A answer \in answers : answer.call <= stops
          /\ \A i \in DOMAIN commands : commands[i].call <= stops
    /\ failedStops /\ pc # "idle" =>
          /\ \A answer \in answers : answer.call # stops
          /\ \A i \in DOMAIN commands :
                commands[i].call = stops => \E j \in 1..(i - 1) : commands[j].op = "exit"

IInv ==
    /\ TypeOK /\ Phases /\ Room /\ Withdrawn /\ BehindExit
    /\ StoppedIsSilent /\ ExitIsRequested /\ FailedStopIsFinal
=============================================================================
