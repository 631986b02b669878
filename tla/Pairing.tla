------------------------------ MODULE Pairing ------------------------------
(***************************************************************************)
(* The pairing-request phase (pairing.rs): any number of initiator         *)
(* attempts (PairingRequest) and responder attempts (PairingResponse) over *)
(* a transport that may lose, duplicate, delay, reorder and damage frames, *)
(* each side on its own monotonic timeline.                                *)
(*                                                                         *)
(* One action per public method.  The callers are external.  They hand     *)
(* the bytes a method returns to the transport; that the bytes may be      *)
(* handed over late, or never, is the transport delaying or losing them.   *)
(* A caller marks a request sent only once it got its bytes, as            *)
(* mark_request_sent requires; all else it may call in any order.          *)
(***************************************************************************)
EXTENDS PairingMessage

CONSTANTS
    Responders,   \* responder attempts that may come to exist
    Deadlines,    \* deadlines a caller may choose
    MaxTime,      \* bound of both clocks
    Damaged       \* frames the transport delivers that nobody encoded

ASSUME TimeAssumption == MaxTime \in Nat /\ Deadlines \subseteq 0..MaxTime
\* The transport is not an author: a damaged frame is one decode refuses.
ASSUME DamagedAssumption == \A f \in Damaged : ~Decode(f).ok

VARIABLES
    request,      \* [AttemptIds -> PairingRequest], state "None" before initiate
    response,     \* [Responders -> PairingResponse], state "None" before from_request
    net,          \* every frame the transport may still deliver, any number of times
    iClock,       \* the initiator's timeline
    rClock,       \* the responder's timeline
    decision      \* history: each responder user's verdict, "yes" or a reason

vars == <<request, response, net, iClock, rClock, decision>>

Ready    == "ReadyForNextPairingStage"
Terminal == {Ready, "Rejected", "Cancelled", "TimedOut", "Failed"}

RequestStates  == {"None", "RequestCreated", "AwaitingRemoteResponse"} \cup Terminal
ResponseStates == {"None", "AwaitingDecision", "AcceptedAwaitingSend"} \cup Terminal
\* What Rejected and Failed carry.
Details == Reasons \cup {"none", "Protocol", "UnexpectedMessage", "TransportFailure"}

NoRequest  == [state |-> "None", detail |-> "none", deadline |-> 0]
NoResponse == [state |-> "None", detail |-> "none", deadline |-> 0, id |-> "none"]

Init ==
    /\ request = [i \in AttemptIds |-> NoRequest]
    /\ response = [s \in Responders |-> NoResponse]
    /\ net = {}
    /\ iClock = 0 /\ rClock = 0
    /\ decision = [s \in Responders |-> "none"]

-----------------------------------------------------------------------------
(* The initiator: PairingRequest.                                          *)

RequestMoves(i, state, detail) ==
    request' = [request EXCEPT ![i].state = state, ![i].detail = detail]

RequestExists(i) == request[i].state # "None"

\* PairingRequest::initiate: a fresh token for every attempt, any deadline.
Initiate(i, deadline) ==
    /\ request[i].state = "None"
    /\ request' = [request EXCEPT ![i] = [state |-> "RequestCreated",
                                          detail |-> "none", deadline |-> deadline]]
    /\ UNCHANGED <<response, net, iClock, rClock, decision>>

\* Mutant: terminal states are not absorbing.
RequestOpenWhenTerminal(i) == iClock < request[i].deadline

\* PairingRequest::short_circuit returned None.
RequestOpen(i) == request[i].state \notin Terminal /\ iClock < request[i].deadline

\* PairingRequest::short_circuit returned an event: AlreadyResolved or TimedOut.
RequestShortCircuit(i) ==
    /\ ~RequestOpen(i)
    /\ IF request[i].state \in Terminal THEN UNCHANGED request
                                        ELSE RequestMoves(i, "TimedOut", "none")

\* PairingRequest::request_message: Some(bytes), which the caller hands to the
\* transport, only while the request was not marked sent; None otherwise.
RequestMessage(i) ==
    /\ RequestExists(i)
    /\ \/ RequestShortCircuit(i) /\ UNCHANGED net
       \/ /\ RequestOpen(i)
          /\ net' = IF request[i].state = "RequestCreated"
                      THEN net \cup {Encode(Request(i))} ELSE net
          /\ UNCHANGED request
    /\ UNCHANGED <<response, iClock, rClock, decision>>

\* PairingRequest::mark_request_sent, once the caller got the bytes.
MarkRequestSent(i) ==
    /\ RequestExists(i)
    /\ Encode(Request(i)) \in net
    /\ \/ RequestShortCircuit(i)
       \/ /\ RequestOpen(i)
          /\ IF request[i].state = "RequestCreated"
               THEN RequestMoves(i, "AwaitingRemoteResponse", "none")
               ELSE UNCHANGED request                        \* AlreadySent
    /\ UNCHANGED <<response, net, iClock, rClock, decision>>

\* Mutant: the attempt identifier of a response is not compared.
CorrelatesAnything(i, m) == TRUE

\* The identifier comparison of handle_remote_message.
Correlates(i, m) == m.id = i

\* Mutant: a response counts although the request was not marked sent.
HandleMessageEarly(i, m) ==
    \/ m.kind = "Request" /\ RequestMoves(i, "Failed", "UnexpectedMessage")
    \/ m.kind = "RequestAccepted" /\ RequestMoves(i, Ready, "none")
    \/ m.kind = "RequestRejected" /\ RequestMoves(i, "Rejected", m.reason)

\* The match of handle_remote_message on a correlated message.
HandleMessage(i, m) ==
    \/ /\ m.kind = "Request"
       /\ RequestMoves(i, "Failed", "UnexpectedMessage")
    \/ /\ m.kind # "Request" /\ request[i].state = "RequestCreated"
       /\ UNCHANGED request                           \* NotAwaitingResponse
    \/ /\ m.kind = "RequestAccepted" /\ request[i].state # "RequestCreated"
       /\ RequestMoves(i, Ready, "none")
    \/ /\ m.kind = "RequestRejected" /\ request[i].state # "RequestCreated"
       /\ RequestMoves(i, "Rejected", m.reason)

\* PairingRequest::handle_remote_message on any frame the transport delivers.
HandleRemoteMessage(i, f) ==
    LET m == Decode(f) IN
    /\ RequestExists(i)
    /\ f \in net
    /\ \/ RequestShortCircuit(i)
       \/ /\ RequestOpen(i) /\ ~m.ok
          /\ RequestMoves(i, "Failed", "Protocol")
       \/ /\ RequestOpen(i) /\ m.ok /\ ~Correlates(i, m.value)
          /\ UNCHANGED request                        \* AttemptIdMismatch
       \/ RequestOpen(i) /\ m.ok /\ Correlates(i, m.value) /\ HandleMessage(i, m.value)
    /\ UNCHANGED <<response, net, iClock, rClock, decision>>

\* PairingRequest::check_deadline
CheckRequestDeadline(i) ==
    /\ RequestExists(i)
    /\ RequestShortCircuit(i) \/ (RequestOpen(i) /\ UNCHANGED request)
    /\ UNCHANGED <<response, net, iClock, rClock, decision>>

\* PairingRequest::cancel and ::note_transport_failure look at no clock.
EndRequest(i, state, detail) ==
    /\ RequestExists(i)
    /\ IF request[i].state \in Terminal THEN UNCHANGED request
                                        ELSE RequestMoves(i, state, detail)
    /\ UNCHANGED <<response, net, iClock, rClock, decision>>

CancelRequest(i) == EndRequest(i, "Cancelled", "none")
NoteRequestTransportFailure(i) == EndRequest(i, "Failed", "TransportFailure")

-----------------------------------------------------------------------------
(* The responder: PairingResponse.                                         *)

ResponseMoves(s, state, detail) ==
    response' = [response EXCEPT ![s].state = state, ![s].detail = detail]

ResponseExists(s) == response[s].state # "None"

\* The match of from_request: an error, or an accept or reject, starts nothing.
StartsResponse(f) == Decode(f).ok /\ Decode(f).value.kind = "Request"

\* Mutant: the attempt starts without the identifier of its request.
NewResponseWithoutId(f, deadline) ==
    [state |-> "AwaitingDecision", detail |-> "none", deadline |-> deadline, id |-> "none"]

\* The attempt from_request returns.
NewResponse(f, deadline) ==
    [state |-> "AwaitingDecision", detail |-> "none", deadline |-> deadline,
     id |-> Decode(f).value.id]

\* PairingResponse::from_request: the identifier is the request's, and no clock
\* is read.  A refused frame leaves nothing behind.
FromRequest(s, f, deadline) ==
    /\ response[s].state = "None"
    /\ f \in net
    /\ IF StartsResponse(f)
         THEN response' = [response EXCEPT ![s] = NewResponse(f, deadline)]
         ELSE UNCHANGED response
    /\ UNCHANGED <<request, net, iClock, rClock, decision>>

\* Mutant: the responder's deadline is not looked at.
ResponseOpenWhenLate(s) == response[s].state \notin Terminal

\* PairingResponse::short_circuit returned None.
ResponseOpen(s) == response[s].state \notin Terminal /\ rClock < response[s].deadline

\* PairingResponse::short_circuit returned an event: AlreadyResolved or TimedOut.
ResponseShortCircuit(s) ==
    /\ ~ResponseOpen(s)
    /\ IF response[s].state \in Terminal THEN UNCHANGED response
                                         ELSE ResponseMoves(s, "TimedOut", "none")

\* Mutant: a decision is taken although one was already made.
UndecidedUnlessTerminal(s) == response[s].state \notin Terminal

\* The state match of accept and reject; otherwise DecisionAlreadyMade.
Undecided(s) == response[s].state = "AwaitingDecision"

\* The body accept and reject share: the reply goes to the caller's transport.
Decide(s, choice, state, detail, message) ==
    /\ ResponseExists(s)
    /\ \/ ResponseShortCircuit(s) /\ UNCHANGED <<net, decision>>
       \/ /\ ResponseOpen(s) /\ Undecided(s)
          /\ ResponseMoves(s, state, detail)
          /\ net' = net \cup {Encode(message)}
          /\ decision' = [decision EXCEPT ![s] = choice]
       \/ /\ ResponseOpen(s) /\ ~Undecided(s)
          /\ UNCHANGED <<response, net, decision>>
    /\ UNCHANGED <<request, iClock, rClock>>

\* PairingResponse::accept
Accept(s) == Decide(s, "yes", "AcceptedAwaitingSend", "none", Accepted(response[s].id))

\* PairingResponse::reject
Reject(s, r) == Decide(s, r, "Rejected", r, Rejected(response[s].id, r))

\* The state match of mark_reply_sent; otherwise NoAcceptedReply.
ReplyPending(s) == response[s].state = "AcceptedAwaitingSend"

\* PairingResponse::mark_reply_sent
MarkReplySent(s) ==
    /\ ResponseExists(s)
    /\ \/ ResponseShortCircuit(s)
       \/ ResponseOpen(s) /\ ReplyPending(s) /\ ResponseMoves(s, Ready, "none")
       \/ ResponseOpen(s) /\ ~ReplyPending(s) /\ UNCHANGED response
    /\ UNCHANGED <<request, net, iClock, rClock, decision>>

\* PairingResponse::check_deadline
CheckResponseDeadline(s) ==
    /\ ResponseExists(s)
    /\ ResponseShortCircuit(s) \/ (ResponseOpen(s) /\ UNCHANGED response)
    /\ UNCHANGED <<request, net, iClock, rClock, decision>>

\* PairingResponse::cancel and ::note_transport_failure look at no clock.
EndResponse(s, state) ==
    /\ ResponseExists(s)
    /\ IF response[s].state \in Terminal THEN UNCHANGED response
                                         ELSE ResponseMoves(s, state, "none")
    /\ UNCHANGED <<request, net, iClock, rClock, decision>>

CancelResponse(s) == EndResponse(s, "Cancelled")
NoteResponseTransportFailure(s) == EndResponse(s, "Failed")

-----------------------------------------------------------------------------
(* The environment: time, and frames damaged on the way.                   *)

TickInitiator ==
    /\ iClock < MaxTime
    /\ iClock' = iClock + 1
    /\ UNCHANGED <<request, response, net, rClock, decision>>

TickResponder ==
    /\ rClock < MaxTime
    /\ rClock' = rClock + 1
    /\ UNCHANGED <<request, response, net, iClock, decision>>

Damage(f) ==
    /\ f \notin net
    /\ net' = net \cup {f}
    /\ UNCHANGED <<request, response, iClock, rClock, decision>>

InitiatorStep(i) ==
    \/ \E d \in Deadlines : Initiate(i, d)
    \/ RequestMessage(i) \/ MarkRequestSent(i)
    \/ \E f \in net : HandleRemoteMessage(i, f)
    \/ CheckRequestDeadline(i)
    \/ CancelRequest(i) \/ NoteRequestTransportFailure(i)

ResponderStep(s) ==
    \/ \E f \in net, d \in Deadlines : FromRequest(s, f, d)
    \/ Accept(s) \/ \E r \in Reasons : Reject(s, r)
    \/ MarkReplySent(s) \/ CheckResponseDeadline(s)
    \/ CancelResponse(s) \/ NoteResponseTransportFailure(s)

Environment == TickInitiator \/ TickResponder \/ \E f \in Damaged : Damage(f)

Next ==
    \/ \E i \in AttemptIds : InitiatorStep(i)
    \/ \E s \in Responders : ResponderStep(s)
    \/ Environment

Spec == Init /\ [][Next]_vars

\* Time passes on both timelines and every caller keeps polling its deadlines.
Fairness ==
    /\ WF_vars(TickInitiator) /\ WF_vars(TickResponder)
    /\ \A i \in AttemptIds : WF_vars(CheckRequestDeadline(i))
    /\ \A s \in Responders : WF_vars(CheckResponseDeadline(s))

FairSpec == Spec /\ Fairness

-----------------------------------------------------------------------------
(* Properties.                                                             *)

Frames == {Encode(m) : m \in Messages} \cup Damaged

\* Every object is in a state its enum has, and every frame is one somebody
\* encoded or the transport damaged.
TypeOK ==
    /\ request \in [AttemptIds -> [state : RequestStates, detail : Details,
                                   deadline : 0..MaxTime]]
    /\ response \in [Responders -> [state : ResponseStates, detail : Details,
                                    deadline : 0..MaxTime, id : AttemptIds \cup {"none"}]]
    /\ \A s \in Responders : ResponseExists(s) => response[s].id \in AttemptIds
    /\ net \subseteq Frames
    /\ decision \in [Responders -> {"none", "yes"} \cup Reasons]
    /\ iClock \in 0..MaxTime /\ rClock \in 0..MaxTime

\* An initiator proceeds only if some responder's user accepted this very
\* attempt and did not also refuse it, whatever frames were lost, repeated,
\* reordered, damaged or delivered to another attempt on the way.
ReadyMeansAccepted ==
    \A i \in AttemptIds :
        request[i].state = Ready =>
            \E s \in Responders :
                /\ response[s].id = i /\ decision[s] = "yes"
                /\ response[s].state \notin {"AwaitingDecision", "Rejected"}

\* An initiator reports a refusal, with its reason, only if some responder's
\* user refused this very attempt with that reason.
RejectedMeansRefused ==
    \A i \in AttemptIds :
        request[i].state = "Rejected" =>
            \E s \in Responders :
                /\ response[s].id = i /\ response[s].state = "Rejected"
                /\ decision[s] = request[i].detail

\* A responder proceeds only on its own user's acceptance, with that reply given
\* to the transport, of an attempt whose initiator asked for it.
ResponderReadyMeansAccepted ==
    \A s \in Responders :
        response[s].state = Ready =>
            /\ decision[s] = "yes"
            /\ Encode(Accepted(response[s].id)) \in net
            /\ Encode(Request(response[s].id)) \in net

\* Who must have acted for message m to be on the network.
Authored(m) ==
    CASE m.kind = "Request"         -> RequestExists(m.id)
      [] m.kind = "RequestAccepted" ->
           \E s \in Responders : response[s].id = m.id /\ decision[s] = "yes"
      [] m.kind = "RequestRejected" ->
           \E s \in Responders : response[s].id = m.id /\ decision[s] = m.reason

\* No message is ever on the network that the one entitled to say it did not
\* say: no reply without a user's decision on that attempt, with that reason.
FramesHaveAuthors == \A m \in Messages : Encode(m) \in net => Authored(m)

\* A responder's state tells its user's verdict: an acceptance never turns into
\* a refusal or back, and nothing is presented that no request asked for.
DecisionsMatchStates ==
    \A s \in Responders :
        LET v == response[s] IN
        /\ v.state \in {"None", "AwaitingDecision"} => decision[s] = "none"
        /\ v.state \in {"AcceptedAwaitingSend", Ready} => decision[s] = "yes"
        /\ v.state = "Rejected" => decision[s] = v.detail /\ v.detail \in Reasons
        /\ decision[s] \in Reasons => v.state = "Rejected"
        /\ decision[s] = "yes" => Encode(Accepted(v.id)) \in net
        /\ ResponseExists(s) => Encode(Request(v.id)) \in net

\* The inductive invariant behind the theorems of PairingProofs.
IInv ==
    /\ TypeOK /\ FramesHaveAuthors /\ DecisionsMatchStates
    /\ ReadyMeansAccepted /\ RejectedMeansRefused

\* No outcome without a decision: readiness and refusal, with its reason, are
\* what the user of some responder decided about this very attempt.
OutcomesAreDecided == ReadyMeansAccepted /\ RejectedMeansRefused

\* No terminal state is ever left: late, repeated or wrong input never revives
\* an attempt on either side, nor changes its outcome.
TerminalAbsorbs ==
    [][ /\ \A i \in AttemptIds :
              request[i].state \in Terminal => request'[i] = request[i]
        /\ \A s \in Responders :
              response[s].state \in Terminal => response'[s] = response[s] ]_vars

\* Neither too early nor too late.  A response that overtakes the caller's own
\* mark_request_sent resolves nothing: a request not yet marked sent is neither
\* accepted nor refused.  At or after its deadline an attempt can only end
\* without success: it never becomes ready, takes a remote refusal, or records a
\* decision.
NoProgressOutOfTurn ==
    [][ /\ \A i \in AttemptIds :
              request[i].state = "RequestCreated" => request'[i].state \notin {Ready, "Rejected"}
        /\ \A i \in AttemptIds :
              (request'[i].state # request[i].state /\ request[i].state # "None"
                 /\ iClock >= request[i].deadline)
              => request'[i].state \in {"TimedOut", "Cancelled", "Failed"}
                   /\ request'[i].detail \in {"none", "TransportFailure"}
        /\ \A s \in Responders :
              (response'[s].state # response[s].state /\ response[s].state # "None"
                 /\ rClock >= response[s].deadline)
              => response'[s].state \in {"TimedOut", "Cancelled", "Failed"} ]_vars

\* Every attempt that exists on either side reaches an outcome, even if the
\* peer is silent for ever.
EveryAttemptResolves ==
    /\ \A i \in AttemptIds : RequestExists(i) ~> request[i].state \in Terminal
    /\ \A s \in Responders : ResponseExists(s) ~> response[s].state \in Terminal

(* What the phase promises, as an abstract specification: PairingOutcome.  *)

\* What has become of attempt i, in the abstract specification's words.
OutcomeOf(i) ==
    CASE request[i].state = "None"     -> "none"
      [] request[i].state = Ready      -> "yes"
      [] request[i].state = "Rejected" -> request[i].detail
      [] request[i].state \in {"Cancelled", "TimedOut", "Failed"} -> "ended"
      [] OTHER -> "open"

Outcome == INSTANCE PairingOutcome WITH
    Verdicts <- {"yes"} \cup Reasons,
    outcome  <- [i \in AttemptIds |-> OutcomeOf(i)],
    verdicts <- {<<response[s].id, decision[s]>> :
                    s \in {t \in Responders : decision[t] # "none"}}

\* Every attempt has one outcome, taken once, and it is one of the verdicts
\* users on the other side gave for it (or none).
ImplementsOutcome == Outcome!Spec
=============================================================================
