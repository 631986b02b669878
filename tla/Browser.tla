------------------------------ MODULE Browser ------------------------------
(***************************************************************************)
(* The discovery browser (browser.rs): a session over the mDNS daemon,     *)
(* whose service events it validates and coalesces, one per poll, into     *)
(* Added, Updated, Refreshed, Removed and Error events.                    *)
(*                                                                         *)
(* A fullname is a key or BadName; a TXT record has a "malformed" entry,   *)
(* is "invalid" or "incompatible" to DiscoveryMetadata, or is a metadata   *)
(* value.  The daemon (mdns-sd) is external.                               *)
(* The caller of a session is in the module that extends this one.         *)
(***************************************************************************)
EXTENDS Integers, Sequences, FiniteSets

CONSTANTS
    Keys,                       \* TransientDiscoveryKey
    BadName,                    \* a fullname TransientDiscoveryKey::new refuses
    NoPeer,
    RawEvents,                  \* what the daemon may deliver
    MAX_DISCOVERED_ENDPOINTS,
    MaxQueued                   \* bound on what each of its two channels holds

VARIABLES
    cache,          \* BrowserState.peers
    active,         \* BrowserSession.active; FALSE also before start
    daemon,         \* "none", "running" or "gone": its channels are closed
    services,       \* queue of service events
    trouble,        \* queued daemon errors
    asked           \* history: shutdown of the daemon was requested

browserVars == <<cache, active, daemon, services, trouble, asked>>

BrowserInit ==
    /\ cache = [k \in Keys |-> NoPeer]
    /\ active = FALSE
    /\ daemon = "none"
    /\ services = <<>>
    /\ trouble = 0
    /\ asked = FALSE

-----------------------------------------------------------------------------
(* Translation of raw events.                                              *)

\* DiscoveryEndpoint: an address, which if IPv6 is bound to an interface.
Endpoint(address, scope_id) == [address |-> address, scope_id |-> scope_id]

\* RawBrowserEvent, of a service resolved or gone.
Resolved(key, port, endpoints, txt) ==
    [kind |-> "resolved", key |-> key, port |-> port, endpoints |-> endpoints, txt |-> txt]
Gone(key) == [kind |-> "removed", key |-> key]

\* TransientDiscoveryKey::new accepts the fullname.
ValidKey(r) == r.key # BadName

\* DiscoveryBrowserErrorKind
ErrorKinds == {"Initialization", "Browse", "InvalidTransientKey", "MalformedResolution",
               "InvalidPort", "EndpointLimit", "Metadata", "IncompatibleProtocol",
               "Daemon", "StopBrowse", "Shutdown"}

\* raw_service: the error it returns, "none" when the fullname and every TXT
\* entry can be read.
RawRefusal(r) ==
    IF ~ValidKey(r) THEN "InvalidTransientKey"
    ELSE IF r.txt = "malformed" THEN "Metadata"
    ELSE "none"

\* The error in which a resolution ends, in raw_service or then in resolve.
Refusal(r) ==
    IF RawRefusal(r) # "none" THEN RawRefusal(r)
    ELSE IF r.port = 0 THEN "InvalidPort"
    ELSE IF r.endpoints = {} THEN "MalformedResolution"
    ELSE IF Cardinality(r.endpoints) > MAX_DISCOVERED_ENDPOINTS THEN "EndpointLimit"
    ELSE IF r.txt = "invalid" THEN "Metadata"
    ELSE IF r.txt = "incompatible" THEN "IncompatibleProtocol"
    ELSE "none"

Refused(r) == Refusal(r) # "none"

\* The DiscoveredPeer of an accepted resolution.
PeerOf(r) == [port |-> r.port, endpoints |-> r.endpoints, txt |-> r.txt]

\* The daemon delivers removals and resolutions; no peer is taken for none.
ASSUME BrowserAssumption ==
    /\ MaxQueued \in Nat
    /\ \A r \in RawEvents :
          /\ r.key \in Keys \cup {BadName}
          /\ r = Gone(r.key) \/ r = Resolved(r.key, r.port, r.endpoints, r.txt)
          /\ r.kind = "resolved" => PeerOf(r) # NoPeer

\* DiscoveryBrowserEvent, and None.
EventKinds == {"None", "Added", "Updated", "Refreshed", "Removed", "Error"}
NoEvent == [kind |-> "None"]

\* DiscoveryBrowserError, of which a key and a source are left out.
ErrorEvent(error) == [kind |-> "Error", error |-> error]

\* Mutant: a removal is not passed on.
TranslatedWithoutRemoval(r) ==
    IF r.kind = "removed" THEN NoEvent
    ELSE IF Refused(r) THEN ErrorEvent(Refusal(r))
    ELSE [kind |-> "Updated", key |-> r.key, peer |-> PeerOf(r)]

\* BrowserState::translate: the event for the session's caller.  Added, Updated
\* and Refreshed carry the same peer.
Translated(r) ==
    CASE r.kind = "resolved" /\ Refused(r)  -> ErrorEvent(Refusal(r))
      [] r.kind = "resolved" /\ ~Refused(r) ->
           [kind |-> IF cache[r.key] = NoPeer THEN "Added"
                     ELSE IF cache[r.key] = PeerOf(r) THEN "Refreshed" ELSE "Updated",
            key |-> r.key, peer |-> PeerOf(r)]
      [] r.kind = "removed" /\ ~ValidKey(r) -> ErrorEvent("InvalidTransientKey")
      [] r.kind = "removed" /\ ValidKey(r)  ->
           IF cache[r.key] = NoPeer THEN NoEvent ELSE [kind |-> "Removed", key |-> r.key]

\* BrowserState::translate: what becomes of the peers it keeps.
Remembers(r) ==
    IF r.kind = "resolved"
      THEN IF Refused(r) THEN cache ELSE [cache EXCEPT ![r.key] = PeerOf(r)]
      ELSE IF ValidKey(r) THEN [cache EXCEPT ![r.key] = NoPeer] ELSE cache

-----------------------------------------------------------------------------
(* The session.                                                            *)

\* MdnsBrowserBackend::start: the daemon, its monitor and the browse command.
StartBrowser ==
    /\ daemon = "none"
    /\ daemon' = "running"
    /\ active' = TRUE
    /\ UNCHANGED <<cache, services, trouble, asked>>

\* No daemon, or one that is shut down again because a command failed.
StartBrowserFails ==
    /\ daemon = "none"
    /\ \/ UNCHANGED <<daemon, asked>>
       \/ daemon' = "running" /\ asked' = TRUE
    /\ UNCHANGED <<cache, active, services, trouble>>

\* What poll_event returns: daemon errors first, an error for ever once the
\* daemon is gone, then one service event.
Polled ==
    IF ~active THEN NoEvent
    ELSE IF trouble > 0 \/ daemon = "gone" THEN ErrorEvent("Daemon")
    ELSE IF services = <<>> THEN NoEvent
    ELSE Translated(Head(services))

\* Mutant: a daemon error is taken from the queue although there is none.
PollEventUnchecked ==
    /\ trouble' = IF active THEN trouble - 1 ELSE trouble
    /\ UNCHANGED <<cache, active, daemon, services, asked>>

\* BrowserSession::poll_event and MdnsBrowserBackend::poll_event.
PollEvent ==
    /\ IF active /\ trouble > 0
         THEN trouble' = trouble - 1 /\ UNCHANGED <<cache, services>>
       ELSE IF active /\ daemon = "running" /\ services # <<>>
         THEN /\ cache' = Remembers(Head(services))
              /\ services' = Tail(services)
              /\ UNCHANGED trouble
       ELSE UNCHANGED <<cache, services, trouble>>
    /\ UNCHANGED <<active, daemon, asked>>

\* BrowserSession::stop succeeded: nothing to do, or the daemon confirmed.
StopBrowser ==
    /\ IF active THEN daemon = "running" /\ daemon' = "gone" /\ asked' = TRUE
                 ELSE UNCHANGED <<daemon, asked>>
    /\ active' = FALSE
    /\ UNCHANGED <<cache, services, trouble>>

\* Mutant: when the browse cannot be stopped the session gives up.
StopBrowserGivesUp ==
    /\ active
    /\ active' = FALSE
    /\ UNCHANGED <<cache, daemon, services, trouble, asked>>

\* BrowserSession::stop failed: shutdown is requested even if the browse could
\* not be stopped, and the session stays active.
StopBrowserFails ==
    /\ active
    /\ asked' = TRUE
    /\ daemon' \in {daemon, "gone"}
    /\ UNCHANGED <<cache, active, services, trouble>>

\* Drop of BrowserSession.
DropBrowser ==
    /\ asked' = (asked \/ active)
    /\ UNCHANGED <<cache, active, daemon, services, trouble>>

-----------------------------------------------------------------------------
(* The daemon.                                                             *)

\* As often as it likes: its events and errors never have to cease.
DaemonDelivers(r) ==
    /\ daemon = "running" /\ Len(services) < MaxQueued
    /\ services' = Append(services, r)
    /\ UNCHANGED <<cache, active, daemon, trouble, asked>>

DaemonReportsError ==
    /\ daemon = "running" /\ trouble < MaxQueued
    /\ trouble' = trouble + 1
    /\ UNCHANGED <<cache, active, daemon, services, asked>>

\* The daemon thread ends, on request or by a failure of its own.
DaemonEnds ==
    /\ daemon = "running"
    /\ daemon' = "gone"
    /\ UNCHANGED <<cache, active, services, trouble, asked>>

BrowserTypeOK ==
    /\ cache \in [Keys -> {PeerOf(r) : r \in {x \in RawEvents : x.kind = "resolved"}} \cup {NoPeer}]
    /\ active \in BOOLEAN
    /\ daemon \in {"none", "running", "gone"}
    /\ services \in Seq(RawEvents)
    /\ trouble \in Nat
    /\ asked \in BOOLEAN
    /\ Polled.kind \in EventKinds
    /\ Polled.kind = "Error" => Polled.error \in ErrorKinds
=============================================================================
