--------------------------- MODULE PairingProofs ---------------------------
(***************************************************************************)
(* Proofs about the pairing-request phase, for any sets of attempts and    *)
(* responders and any bound on time.                                       *)
(***************************************************************************)
EXTENDS Pairing, PairingMessageProofs

-----------------------------------------------------------------------------
(* The frames of the phase.                                                *)

\* A frame of the phase that decodes is the encoding of the message it decodes to.
LEMMA FrameDecodes ==
  ASSUME NEW f \in Frames, Decode(f).ok
  PROVE  /\ Decode(f).value \in Messages
         /\ f = Encode(Decode(f).value)
BY DecodeEncode, DamagedAssumption DEF Frames, Ok

\* The encoding of a message is no damaged frame.
LEMMA EncodedIsOk ==
  ASSUME NEW m \in Messages
  PROVE  Encode(m) \in Frames /\ Decode(Encode(m)).ok
BY DecodeEncode DEF Frames, Ok

-----------------------------------------------------------------------------
(* Type correctness.                                                       *)

\* The states an object may be given are states of its enum.
LEMMA StatesTyped ==
  /\ Terminal \subseteq RequestStates /\ Terminal \subseteq ResponseStates
  /\ {"None", "RequestCreated", "AwaitingRemoteResponse"} \subseteq RequestStates
  /\ {"None", "AwaitingDecision", "AcceptedAwaitingSend"} \subseteq ResponseStates
  /\ {Ready, "Rejected", "Cancelled", "TimedOut", "Failed"} \subseteq Terminal
  /\ {"none", "Protocol", "UnexpectedMessage", "TransportFailure"} \subseteq Details
  /\ Reasons \subseteq Details
BY DEF Terminal, RequestStates, ResponseStates, Details, Ready

\* A message of the phase carries an attempt, and a refusal carries a reason.
LEMMA MessageFields ==
  ASSUME NEW m \in Messages
  PROVE  /\ m.id \in AttemptIds
         /\ m.kind \in {"Request", "RequestAccepted", "RequestRejected"}
         /\ m.kind = "Request" => m = Request(m.id)
         /\ m.kind = "RequestAccepted" => m = Accepted(m.id)
         /\ m.kind = "RequestRejected" => m.reason \in Reasons /\ m = Rejected(m.id, m.reason)
BY DEF Messages, Request, Accepted, Rejected

\* Moving one initiator attempt to a state of its enum keeps the attempts typed.
LEMMA RequestMovesTyped ==
  ASSUME TypeOK, NEW i \in AttemptIds, NEW st \in RequestStates, NEW d \in Details,
         RequestMoves(i, st, d)
  PROVE  request' \in [AttemptIds -> [state : RequestStates, detail : Details,
                                      deadline : 0..MaxTime]]
BY DEF TypeOK, RequestMoves

\* The part of TypeOK that is about the responder attempts.
ResponseTyped ==
  /\ response \in [Responders -> [state : ResponseStates, detail : Details,
                       deadline : 0..MaxTime, id : AttemptIds \cup {"none"}]]
  /\ \A s \in Responders : ResponseExists(s) => response[s].id \in AttemptIds

\* Moving one responder attempt to a state of its enum keeps the attempts typed.
LEMMA ResponseMovesTyped ==
  ASSUME TypeOK, NEW s \in Responders, ResponseExists(s),
         NEW st \in ResponseStates, NEW d \in Details, ResponseMoves(s, st, d)
  PROVE  ResponseTyped'
<1>1. response' \in [Responders -> [state : ResponseStates, detail : Details,
                        deadline : 0..MaxTime, id : AttemptIds \cup {"none"}]]
  BY DEF TypeOK, ResponseMoves
<1>2. \A t \in Responders : /\ response'[t].id = response[t].id
                            /\ t # s => response'[t] = response[t]
  BY DEF TypeOK, ResponseMoves
<1> QED BY <1>1, <1>2 DEF TypeOK, ResponseTyped, ResponseExists

\* Every step of an initiator attempt keeps the types.
LEMMA InitiatorTyped ==
  ASSUME TypeOK, NEW i \in AttemptIds, InitiatorStep(i)
  PROVE  TypeOK'
<1> DEFINE RT == [AttemptIds -> [state : RequestStates, detail : Details,
                                 deadline : 0..MaxTime]]
<1>0. request \in RT
  BY DEF TypeOK
<1>1. ASSUME RequestShortCircuit(i) PROVE request' \in RT
  BY <1>1, RequestMovesTyped, StatesTyped DEF RequestShortCircuit, TypeOK
<1>2. ASSUME NEW d \in Deadlines, Initiate(i, d) PROVE TypeOK'
  BY <1>2, StatesTyped, TimeAssumption DEF Initiate, TypeOK, ResponseExists
<1>3. CASE RequestMessage(i)
  <2>1. request' \in RT
    BY <1>3, <1>1 DEF RequestMessage, TypeOK
  <2>2. net' \subseteq Frames
    <3>1. Encode(Request(i)) \in Frames
      BY EncodedIsOk DEF Messages
    <3> QED BY <1>3, <3>1 DEF RequestMessage, TypeOK
  <2> QED BY <1>3, <2>1, <2>2 DEF RequestMessage, TypeOK, ResponseExists
<1>4. CASE MarkRequestSent(i)
  <2>1. request' \in RT
    BY <1>4, <1>1, RequestMovesTyped, StatesTyped DEF MarkRequestSent, TypeOK
  <2> QED BY <1>4, <2>1 DEF MarkRequestSent, TypeOK, ResponseExists
<1>5. ASSUME NEW f \in net, HandleRemoteMessage(i, f) PROVE TypeOK'
  <2> DEFINE m == Decode(f).value
  <2>1. Decode(f).ok => m \in Messages
    BY FrameDecodes DEF TypeOK
  <2>2. request' \in RT
    <3>1. CASE RequestShortCircuit(i)
      BY <3>1, <1>1 DEF TypeOK
    <3>2. CASE RequestMoves(i, "Failed", "Protocol")
      BY <3>2, RequestMovesTyped, StatesTyped DEF TypeOK
    <3>3. CASE UNCHANGED request
      BY <3>3 DEF TypeOK
    <3>4. CASE Decode(f).ok /\ HandleMessage(i, m)
      <4>1. m \in Messages
        BY <2>1, <3>4
      <4>2. m.kind = "RequestRejected" => m.reason \in Details
        BY <4>1, MessageFields, StatesTyped
      <4> QED BY <3>4, <4>2, RequestMovesTyped, StatesTyped DEF HandleMessage, TypeOK
    <3> QED BY <1>5, <3>1, <3>2, <3>3, <3>4 DEF HandleRemoteMessage
  <2> QED BY <1>5, <2>2 DEF HandleRemoteMessage, TypeOK, ResponseExists
<1>6. CASE CheckRequestDeadline(i)
  <2>1. request' \in RT
    BY <1>6, <1>1 DEF CheckRequestDeadline, TypeOK
  <2> QED BY <1>6, <2>1 DEF CheckRequestDeadline, TypeOK, ResponseExists
<1>7. CASE CancelRequest(i) \/ NoteRequestTransportFailure(i)
  <2>1. request' \in RT
    BY <1>7, RequestMovesTyped, StatesTyped
       DEF CancelRequest, NoteRequestTransportFailure, EndRequest, TypeOK
  <2> QED BY <1>7, <2>1
         DEF CancelRequest, NoteRequestTransportFailure, EndRequest, TypeOK, ResponseExists
<1> QED BY <1>2, <1>3, <1>4, <1>5, <1>6, <1>7 DEF InitiatorStep

\* Every step of a responder attempt keeps the types.
LEMMA ResponderTyped ==
  ASSUME TypeOK, NEW s \in Responders, ResponderStep(s)
  PROVE  TypeOK'
<1>1. ASSUME ResponseExists(s), ResponseShortCircuit(s) PROVE ResponseTyped'
  BY <1>1, ResponseMovesTyped, StatesTyped
     DEF ResponseShortCircuit, TypeOK, ResponseTyped, ResponseExists
<1>2. ASSUME NEW f \in net, NEW d \in Deadlines, FromRequest(s, f, d) PROVE TypeOK'
  <2>1. Decode(f).ok => Decode(f).value.id \in AttemptIds
    BY FrameDecodes, MessageFields DEF TypeOK
  <2>2. ResponseTyped'
    BY <1>2, <2>1, StatesTyped, TimeAssumption
       DEF FromRequest, NewResponse, StartsResponse, TypeOK, ResponseTyped, ResponseExists
  <2> QED BY <1>2, <2>2 DEF FromRequest, NewResponse, TypeOK, ResponseTyped
<1>3. ASSUME NEW v \in {"yes"} \cup Reasons, NEW st \in ResponseStates, NEW d \in Details,
             NEW m \in Messages, Decide(s, v, st, d, m)
      PROVE  TypeOK'
  <2>1. ResponseTyped'
    BY <1>3, <1>1, ResponseMovesTyped DEF Decide, TypeOK, ResponseTyped, ResponseExists
  <2>2. net' \subseteq Frames
    BY <1>3, EncodedIsOk DEF Decide, TypeOK
  <2>3. decision' \in [Responders -> {"none", "yes"} \cup Reasons]
    BY <1>3 DEF Decide, TypeOK
  <2> QED BY <1>3, <2>1, <2>2, <2>3 DEF Decide, TypeOK, ResponseTyped
<1>4. CASE Accept(s)
  <2>1. response[s].id \in AttemptIds
    BY <1>4 DEF Accept, Decide, TypeOK
  <2>2. Accepted(response[s].id) \in Messages
    BY <2>1 DEF Messages
  <2> QED BY <1>3, <1>4, <2>2, StatesTyped DEF Accept
<1>5. ASSUME NEW r \in Reasons, Reject(s, r) PROVE TypeOK'
  <2>1. response[s].id \in AttemptIds
    BY <1>5 DEF Reject, Decide, TypeOK
  <2>2. Rejected(response[s].id, r) \in Messages
    BY <2>1 DEF Messages
  <2>3. "Rejected" \in ResponseStates /\ r \in Details
    BY StatesTyped
  <2> QED BY <1>3, <1>5, <2>2, <2>3 DEF Reject
<1>6. CASE MarkReplySent(s)
  <2>1. ResponseTyped'
    BY <1>6, <1>1, ResponseMovesTyped, StatesTyped
       DEF MarkReplySent, TypeOK, ResponseTyped, ResponseExists
  <2> QED BY <1>6, <2>1 DEF MarkReplySent, TypeOK, ResponseTyped
<1>7. CASE CheckResponseDeadline(s)
  <2>1. ResponseTyped'
    BY <1>7, <1>1 DEF CheckResponseDeadline, TypeOK, ResponseTyped, ResponseExists
  <2> QED BY <1>7, <2>1 DEF CheckResponseDeadline, TypeOK, ResponseTyped
<1>8. CASE CancelResponse(s) \/ NoteResponseTransportFailure(s)
  <2>1. ResponseTyped'
    BY <1>8, ResponseMovesTyped, StatesTyped
       DEF CancelResponse, NoteResponseTransportFailure, EndResponse, TypeOK,
           ResponseTyped, ResponseExists
  <2> QED BY <1>8, <2>1
         DEF CancelResponse, NoteResponseTransportFailure, EndResponse, TypeOK, ResponseTyped
<1> QED BY <1>2, <1>4, <1>5, <1>6, <1>7, <1>8 DEF ResponderStep

\* Time and damage keep the types.
LEMMA EnvironmentTyped ==
  ASSUME TypeOK, Environment
  PROVE  TypeOK'
<1>1. CASE TickInitiator
  BY <1>1, TimeAssumption DEF TickInitiator, TypeOK, ResponseExists
<1>2. CASE TickResponder
  BY <1>2, TimeAssumption DEF TickResponder, TypeOK, ResponseExists
<1>3. ASSUME NEW f \in Damaged, Damage(f) PROVE TypeOK'
  BY <1>3 DEF Damage, TypeOK, ResponseExists, Frames
<1> QED BY <1>1, <1>2, <1>3 DEF Environment

\* Every attempt of either side stays in a state of its enum, and only frames
\* of the protocol or damaged ones travel, whatever the callers do.
THEOREM TypeCorrect == Spec => []TypeOK
<1>1. Init => TypeOK
  BY TimeAssumption, StatesTyped DEF Init, TypeOK, NoRequest, NoResponse, ResponseExists
<1>2. TypeOK /\ [Next]_vars => TypeOK'
  <2> SUFFICES ASSUME TypeOK, [Next]_vars PROVE TypeOK'
    OBVIOUS
  <2>1. CASE UNCHANGED vars
    BY <2>1 DEF vars, TypeOK, ResponseExists
  <2>2. CASE Next
    BY <2>2, InitiatorTyped, ResponderTyped, EnvironmentTyped DEF Next
  <2> QED BY <2>1, <2>2
<1> QED BY <1>1, <1>2, PTL DEF Spec

-----------------------------------------------------------------------------
(* What one step can do to one attempt.                                    *)

\* The five things an initiator step may do to its attempt.
RequestEffect(i) ==
  \/ request'[i] = request[i]
  \/ request[i].state = "None" /\ request'[i].state = "RequestCreated"
  \/ /\ RequestExists(i) /\ request[i].state \notin Terminal
     /\ request'[i].deadline = request[i].deadline
     /\ \/ /\ request'[i].state \in {"TimedOut", "Cancelled", "Failed"}
           /\ RequestOpen(i) \/ request'[i].detail \in {"none", "TransportFailure"}
        \/ /\ RequestOpen(i) /\ request'[i].state = "AwaitingRemoteResponse"
        \/ /\ RequestOpen(i) /\ request'[i].state = Ready
           /\ request[i].state # "RequestCreated"
           /\ Encode(Accepted(i)) \in net
        \/ /\ RequestOpen(i) /\ request'[i].state = "Rejected"
           /\ request[i].state # "RequestCreated"
           /\ request'[i].detail \in Reasons
           /\ Encode(Rejected(i, request'[i].detail)) \in net

\* An initiator step changes its own attempt alone, and adds at most its request.
LEMMA InitiatorEffect ==
  ASSUME TypeOK, NEW i \in AttemptIds, InitiatorStep(i)
  PROVE  /\ RequestEffect(i)
         /\ \A j \in AttemptIds \ {i} : request'[j] = request[j]
         /\ UNCHANGED <<response, decision, iClock, rClock>>
         /\ \/ net' = net
            \/ RequestExists(i) /\ net' = net \cup {Encode(Request(i))}
<1> DEFINE Others == \A j \in AttemptIds \ {i} : request'[j] = request[j]
<1>0. request \in [AttemptIds -> [state : RequestStates, detail : Details,
                                  deadline : 0..MaxTime]]
  BY DEF TypeOK
<1>1. ASSUME NEW st, NEW d, RequestMoves(i, st, d)
      PROVE  /\ Others
             /\ request'[i].state = st /\ request'[i].detail = d
             /\ request'[i].deadline = request[i].deadline
  BY <1>0, <1>1 DEF RequestMoves
<1>2. ASSUME RequestExists(i), RequestShortCircuit(i) PROVE RequestEffect(i) /\ Others
  <2>1. CASE request[i].state \in Terminal
    BY <1>2, <2>1 DEF RequestShortCircuit, RequestEffect
  <2>2. CASE request[i].state \notin Terminal
    BY <1>2, <2>2, <1>1 DEF RequestShortCircuit, RequestEffect
  <2> QED BY <2>1, <2>2
<1>3. ASSUME NEW d \in Deadlines, Initiate(i, d)
      PROVE  RequestEffect(i) /\ Others /\ UNCHANGED <<response, decision, iClock, rClock, net>>
  BY <1>0, <1>3 DEF Initiate, RequestEffect
<1>4. CASE RequestMessage(i)
  <2>1. RequestEffect(i) /\ Others
    BY <1>4, <1>2 DEF RequestMessage, RequestEffect
  <2> QED BY <1>4, <2>1 DEF RequestMessage
<1>5. CASE MarkRequestSent(i)
  <2>1. CASE RequestShortCircuit(i)
    BY <1>2, <1>5, <2>1 DEF MarkRequestSent
  <2>2. CASE RequestOpen(i) /\ RequestMoves(i, "AwaitingRemoteResponse", "none")
    BY <1>5, <2>2, <1>1 DEF MarkRequestSent, RequestEffect, RequestOpen
  <2>3. CASE UNCHANGED request
    BY <1>5, <2>3 DEF MarkRequestSent, RequestEffect
  <2> QED BY <1>5, <2>1, <2>2, <2>3 DEF MarkRequestSent
<1>6. ASSUME NEW f \in net, HandleRemoteMessage(i, f)
      PROVE  RequestEffect(i) /\ Others /\ UNCHANGED <<response, decision, iClock, rClock, net>>
  <2> DEFINE m == Decode(f).value
  <2>1. RequestExists(i) /\ UNCHANGED <<response, decision, iClock, rClock, net>>
    BY <1>6 DEF HandleRemoteMessage
  <2>2. CASE RequestShortCircuit(i)
    BY <1>2, <2>1, <2>2
  <2>3. CASE RequestOpen(i) /\ RequestMoves(i, "Failed", "Protocol")
    BY <2>1, <2>3, <1>1 DEF RequestEffect, RequestOpen
  <2>4. CASE UNCHANGED request
    BY <2>1, <2>4 DEF RequestEffect
  <2>5. CASE RequestOpen(i) /\ Decode(f).ok /\ Correlates(i, m) /\ HandleMessage(i, m)
    <3>1. m \in Messages /\ f = Encode(m) /\ m.id = i
      BY <2>5, FrameDecodes DEF TypeOK, Correlates
    <3>2. CASE RequestMoves(i, "Failed", "UnexpectedMessage")
      BY <2>1, <2>5, <3>2, <1>1 DEF RequestEffect, RequestOpen
    <3>3. CASE m.kind = "RequestAccepted" /\ request[i].state # "RequestCreated"
               /\ RequestMoves(i, Ready, "none")
      <4>1. Encode(Accepted(i)) \in net
        BY <3>1, <3>3, MessageFields
      <4> QED BY <2>1, <2>5, <3>3, <4>1, <1>1 DEF RequestEffect, RequestOpen
    <3>4. CASE m.kind = "RequestRejected" /\ request[i].state # "RequestCreated"
               /\ RequestMoves(i, "Rejected", m.reason)
      <4>1. m.reason \in Reasons /\ Encode(Rejected(i, m.reason)) \in net
        BY <3>1, <3>4, MessageFields
      <4>2. request'[i].state = "Rejected" /\ request'[i].detail = m.reason
            /\ request'[i].deadline = request[i].deadline /\ Others
        BY <3>4, <1>1
      <4>3. request[i].state # "RequestCreated"
        BY <3>4
      <4> HIDE DEF m
      <4> QED BY <2>1, <2>5, <4>1, <4>2, <4>3 DEF RequestEffect, RequestOpen
    <3> QED BY <2>1, <2>4, <2>5, <3>2, <3>3, <3>4 DEF HandleMessage
  <2> QED BY <1>6, <2>2, <2>3, <2>4, <2>5 DEF HandleRemoteMessage
<1>7. CASE CheckRequestDeadline(i)
  BY <1>7, <1>2 DEF CheckRequestDeadline, RequestEffect
<1>8. ASSUME EndRequest(i, "Cancelled", "none") \/ EndRequest(i, "Failed", "TransportFailure")
      PROVE  RequestEffect(i) /\ Others /\ UNCHANGED <<response, decision, iClock, rClock, net>>
  <2>1. CASE request[i].state \in Terminal
    BY <1>8, <2>1 DEF EndRequest, RequestEffect
  <2>2. CASE request[i].state \notin Terminal
    BY <1>8, <2>2, <1>1 DEF EndRequest, RequestEffect
  <2> QED BY <2>1, <2>2
<1> QED BY <1>3, <1>4, <1>5, <1>6, <1>7, <1>8
       DEF InitiatorStep, CancelRequest, NoteRequestTransportFailure

\* The things a responder step may do to its attempt.
ResponseEffect(s) ==
  \/ response'[s] = response[s] /\ decision'[s] = decision[s] /\ net' = net
  \/ /\ response[s].state = "None" /\ response'[s].state = "AwaitingDecision"
     /\ response'[s].id \in AttemptIds /\ Encode(Request(response'[s].id)) \in net
     /\ decision'[s] = decision[s] /\ net' = net
  \/ /\ ResponseExists(s) /\ response[s].state \notin Terminal
     /\ response'[s].id = response[s].id
     /\ \/ /\ response'[s].state \in {"TimedOut", "Cancelled", "Failed"}
           /\ decision'[s] = decision[s] /\ net' = net
        \/ /\ ResponseOpen(s) /\ response[s].state = "AcceptedAwaitingSend"
           /\ response'[s].state = Ready
           /\ decision'[s] = decision[s] /\ net' = net
        \/ /\ ResponseOpen(s) /\ response[s].state = "AwaitingDecision"
           /\ response'[s].state = "AcceptedAwaitingSend" /\ decision'[s] = "yes"
           /\ net' = net \cup {Encode(Accepted(response[s].id))}
        \/ /\ ResponseOpen(s) /\ response[s].state = "AwaitingDecision"
           /\ response'[s].state = "Rejected"
           /\ decision'[s] = response'[s].detail /\ response'[s].detail \in Reasons
           /\ net' = net \cup {Encode(Rejected(response[s].id, response'[s].detail))}

\* A responder step changes its own attempt alone, and adds at most its reply.
LEMMA ResponderEffect ==
  ASSUME TypeOK, NEW s \in Responders, ResponderStep(s)
  PROVE  /\ ResponseEffect(s)
         /\ \A t \in Responders \ {s} :
               response'[t] = response[t] /\ decision'[t] = decision[t]
         /\ UNCHANGED <<request, iClock, rClock>>
<1> DEFINE Others == \A t \in Responders \ {s} :
                        response'[t] = response[t] /\ decision'[t] = decision[t]
           Rest == UNCHANGED <<request, iClock, rClock>>
<1>0. /\ response \in [Responders -> [state : ResponseStates, detail : Details,
                         deadline : 0..MaxTime, id : AttemptIds \cup {"none"}]]
      /\ decision \in [Responders -> {"none", "yes"} \cup Reasons]
  BY DEF TypeOK
<1>1. ASSUME NEW st, NEW d, ResponseMoves(s, st, d)
      PROVE  /\ \A t \in Responders \ {s} : response'[t] = response[t]
             /\ response'[s].state = st /\ response'[s].detail = d
             /\ response'[s].id = response[s].id
  BY <1>0, <1>1 DEF ResponseMoves
<1>2. ASSUME ResponseExists(s), ResponseShortCircuit(s), UNCHANGED <<net, decision>>
      PROVE  ResponseEffect(s) /\ Others
  <2>1. CASE response[s].state \in Terminal
    BY <1>2, <2>1 DEF ResponseShortCircuit, ResponseEffect
  <2>2. CASE response[s].state \notin Terminal
    BY <1>2, <2>2, <1>1 DEF ResponseShortCircuit, ResponseEffect
  <2> QED BY <2>1, <2>2
<1>3. ASSUME NEW f \in net, NEW d \in Deadlines, FromRequest(s, f, d)
      PROVE  ResponseEffect(s) /\ Others /\ Rest
  <2>1. CASE StartsResponse(f)
    <3>1. Decode(f).value.id \in AttemptIds /\ Encode(Request(Decode(f).value.id)) \in net
      BY <2>1, FrameDecodes, MessageFields DEF StartsResponse, TypeOK
    <3> QED BY <1>0, <1>3, <2>1, <3>1 DEF FromRequest, NewResponse, ResponseEffect
  <2>2. CASE ~StartsResponse(f)
    BY <1>3, <2>2 DEF FromRequest, NewResponse, ResponseEffect
  <2> QED BY <2>1, <2>2
<1>4. CASE Accept(s)
  <2>1. CASE ResponseShortCircuit(s) /\ UNCHANGED <<net, decision>>
    BY <1>2, <1>4, <2>1 DEF Accept, Decide
  <2>2. CASE /\ ResponseOpen(s) /\ Undecided(s)
             /\ ResponseMoves(s, "AcceptedAwaitingSend", "none")
             /\ net' = net \cup {Encode(Accepted(response[s].id))}
             /\ decision' = [decision EXCEPT ![s] = "yes"]
    <3>1. decision'[s] = "yes" /\ \A t \in Responders \ {s} : decision'[t] = decision[t]
      BY <1>0, <2>2
    <3> QED BY <1>1, <1>4, <2>2, <3>1
           DEF Accept, Decide, ResponseEffect, Undecided, ResponseOpen
  <2>3. CASE UNCHANGED <<response, net, decision>>
    BY <1>4, <2>3 DEF Accept, Decide, ResponseEffect
  <2> QED BY <1>4, <2>1, <2>2, <2>3 DEF Accept, Decide
<1>5. ASSUME NEW r \in Reasons, Reject(s, r) PROVE ResponseEffect(s) /\ Others /\ Rest
  <2>1. CASE ResponseShortCircuit(s) /\ UNCHANGED <<net, decision>>
    BY <1>2, <1>5, <2>1 DEF Reject, Decide
  <2>2. CASE /\ ResponseOpen(s) /\ Undecided(s)
             /\ ResponseMoves(s, "Rejected", r)
             /\ net' = net \cup {Encode(Rejected(response[s].id, r))}
             /\ decision' = [decision EXCEPT ![s] = r]
    <3>1. decision'[s] = r /\ \A t \in Responders \ {s} : decision'[t] = decision[t]
      BY <1>0, <2>2
    <3> QED BY <1>1, <1>5, <2>2, <3>1
           DEF Reject, Decide, ResponseEffect, Undecided, ResponseOpen
  <2>3. CASE UNCHANGED <<response, net, decision>>
    BY <1>5, <2>3 DEF Reject, Decide, ResponseEffect
  <2> QED BY <1>5, <2>1, <2>2, <2>3 DEF Reject, Decide
<1>6. CASE MarkReplySent(s)
  <2>1. CASE ResponseShortCircuit(s)
    BY <1>2, <1>6, <2>1 DEF MarkReplySent
  <2>2. CASE ResponseOpen(s) /\ ReplyPending(s) /\ ResponseMoves(s, Ready, "none")
    BY <1>1, <1>6, <2>2 DEF MarkReplySent, ResponseEffect, ReplyPending, ResponseOpen
  <2>3. CASE UNCHANGED response
    BY <1>6, <2>3 DEF MarkReplySent, ResponseEffect
  <2> QED BY <1>6, <2>1, <2>2, <2>3 DEF MarkReplySent
<1>7. CASE CheckResponseDeadline(s)
  BY <1>7, <1>2 DEF CheckResponseDeadline, ResponseEffect
<1>8. ASSUME EndResponse(s, "Cancelled") \/ EndResponse(s, "Failed")
      PROVE  ResponseEffect(s) /\ Others /\ Rest
  <2>1. CASE response[s].state \in Terminal
    BY <1>8, <2>1 DEF EndResponse, ResponseEffect
  <2>2. CASE response[s].state \notin Terminal
    BY <1>8, <2>2, <1>1 DEF EndResponse, ResponseEffect
  <2> QED BY <2>1, <2>2
<1> QED BY <1>3, <1>4, <1>5, <1>6, <1>7, <1>8
       DEF ResponderStep, CancelResponse, NoteResponseTransportFailure

-----------------------------------------------------------------------------
(* The inductive invariant.                                                *)

\* No step takes a frame off the network, a verdict back, an attempt's
\* identifier away, or an attempt out of existence.
LEMMA Monotone ==
  ASSUME IInv, [Next]_vars
  PROVE  /\ net \subseteq net'
         /\ \A i \in AttemptIds : RequestExists(i) => RequestExists(i)'
         /\ \A s \in Responders :
               /\ ResponseExists(s) => ResponseExists(s)' /\ response'[s].id = response[s].id
               /\ decision[s] # "none" => ResponseExists(s) /\ decision'[s] = decision[s]
<1> USE DEF IInv
<1>1. \A s \in Responders : decision[s] # "none" => ResponseExists(s)
  BY DEF DecisionsMatchStates, ResponseExists
<1>2. ASSUME NEW i \in AttemptIds, InitiatorStep(i)
      PROVE  /\ net \subseteq net' /\ UNCHANGED <<response, decision>>
             /\ \A j \in AttemptIds : RequestExists(j) => RequestExists(j)'
  BY <1>2, InitiatorEffect DEF RequestEffect, RequestExists, Ready
<1>3. ASSUME NEW s \in Responders, ResponderStep(s)
      PROVE  /\ net \subseteq net' /\ UNCHANGED request
             /\ \A t \in Responders :
                  /\ ResponseExists(t) => ResponseExists(t)' /\ response'[t].id = response[t].id
                  /\ decision[t] # "none" => decision'[t] = decision[t]
  <2>1. /\ ResponseEffect(s) /\ UNCHANGED request
        /\ \A t \in Responders \ {s} :
              response'[t] = response[t] /\ decision'[t] = decision[t]
    BY <1>3, ResponderEffect
  <2>2. net \subseteq net'
    BY <2>1 DEF ResponseEffect
  <2>3. ResponseExists(s) => ResponseExists(s)' /\ response'[s].id = response[s].id
    BY <2>1 DEF ResponseEffect, ResponseExists, Ready
  <2>4. decision[s] # "none" => decision'[s] = decision[s]
    BY <2>1 DEF ResponseEffect, DecisionsMatchStates
  <2> QED BY <2>1, <2>2, <2>3, <2>4 DEF ResponseExists
<1>4. CASE Environment
  BY <1>1, <1>4 DEF Environment, TickInitiator, TickResponder, Damage,
       RequestExists, ResponseExists
<1>5. CASE UNCHANGED vars
  BY <1>1, <1>5 DEF vars, RequestExists, ResponseExists
<1>6. CASE Next
  <2>1. CASE \E i \in AttemptIds : InitiatorStep(i)
    BY <1>1, <1>2, <2>1 DEF ResponseExists
  <2>2. CASE \E s \in Responders : ResponderStep(s)
    BY <1>1, <1>3, <2>2 DEF RequestExists
  <2> QED BY <1>4, <1>6, <2>1, <2>2 DEF Next
<1> QED BY <1>5, <1>6

\* What was authored stays authored.
LEMMA AuthoredStays ==
  ASSUME IInv, [Next]_vars, NEW m \in Messages, Authored(m)
  PROVE  Authored(m)'
<1>1. m.id \in AttemptIds
  BY MessageFields
<1>2. CASE m.kind = "Request"
  BY <1>1, <1>2, Monotone DEF Authored
<1>3. CASE m.kind = "RequestAccepted"
  <2> PICK s \in Responders : response[s].id = m.id /\ decision[s] = "yes"
    BY <1>3 DEF Authored
  <2>1. response'[s].id = m.id /\ decision'[s] = "yes"
    BY Monotone
  <2> QED BY <1>3, <2>1 DEF Authored
<1>4. CASE m.kind = "RequestRejected"
  <2> PICK s \in Responders : response[s].id = m.id /\ decision[s] = m.reason
    BY <1>4 DEF Authored
  <2>1. m.reason # "none"
    BY <1>4, MessageFields DEF Reasons
  <2>2. response'[s].id = m.id /\ decision'[s] = m.reason
    BY <2>1, Monotone
  <2> QED BY <1>4, <2>2 DEF Authored
<1> QED BY <1>2, <1>3, <1>4, MessageFields

\* The frames a step adds have their authors in the state it leads to.
LEMMA FramesHaveAuthorsStep ==
  ASSUME IInv, [Next]_vars
  PROVE  FramesHaveAuthors'
<1> SUFFICES ASSUME NEW m \in Messages, Encode(m) \in net'
             PROVE  Authored(m)'
  BY DEF FramesHaveAuthors
<1> USE DEF IInv
<1>1. CASE Encode(m) \in net
  BY <1>1, AuthoredStays DEF FramesHaveAuthors
<1>2. CASE Encode(m) \notin net
  <2>1. ASSUME NEW i \in AttemptIds, InitiatorStep(i) PROVE Authored(m)'
    <3>1. RequestExists(i) /\ Encode(m) = Encode(Request(i))
      BY <1>2, <2>1, InitiatorEffect
    <3>2. Request(i) \in Messages
      BY DEF Messages
    <3>3. m = Request(i)
      BY <3>1, <3>2, EncodeInjective
    <3>4. RequestExists(i)'
      BY <3>1, Monotone
    <3> QED BY <3>3, <3>4 DEF Authored, Request
  <2>2. ASSUME NEW s \in Responders, ResponderStep(s) PROVE Authored(m)'
    <3> DEFINE id == response[s].id
               r == response'[s].detail
    <3>1. ResponseEffect(s)
      BY <2>2, ResponderEffect
    <3>2. ResponseExists(s) /\ id \in AttemptIds /\ response'[s].id = id
      BY <1>2, <3>1 DEF ResponseEffect, TypeOK
    <3>3. CASE Encode(m) = Encode(Accepted(id)) /\ decision'[s] = "yes"
      <4>1. Accepted(id) \in Messages
        BY <3>2 DEF Messages
      <4>2. m = Accepted(id)
        BY <3>3, <4>1, EncodeInjective
      <4> QED BY <3>2, <3>3, <4>2 DEF Authored, Accepted
    <3>4. CASE Encode(m) = Encode(Rejected(id, r)) /\ decision'[s] = r /\ r \in Reasons
      <4>1. Rejected(id, r) \in Messages
        BY <3>2, <3>4 DEF Messages
      <4>2. m = Rejected(id, r)
        BY <3>4, <4>1, EncodeInjective
      <4> QED BY <3>2, <3>4, <4>2 DEF Authored, Rejected
    <3> QED BY <1>2, <3>1, <3>3, <3>4 DEF ResponseEffect
  <2>3. ~Environment
    BY <1>2, EncodedIsOk, DamagedAssumption
       DEF Environment, TickInitiator, TickResponder, Damage
  <2>4. ~UNCHANGED vars
    BY <1>2 DEF vars
  <2> QED BY <2>1, <2>2, <2>3, <2>4 DEF Next
<1> QED BY <1>1, <1>2

\* Every step keeps each responder's state and its user's verdict in agreement.
LEMMA DecisionsMatchStatesStep ==
  ASSUME IInv, [Next]_vars
  PROVE  DecisionsMatchStates'
<1> USE DEF IInv
<1>0. net \subseteq net'
  BY Monotone
<1>1. ASSUME UNCHANGED <<response, decision>> PROVE DecisionsMatchStates'
  BY <1>0, <1>1 DEF DecisionsMatchStates, ResponseExists
<1>2. ASSUME NEW s \in Responders, ResponderStep(s) PROVE DecisionsMatchStates'
  <2>1. /\ ResponseEffect(s)
        /\ \A t \in Responders \ {s} :
              response'[t] = response[t] /\ decision'[t] = decision[t]
    BY <1>2, ResponderEffect
  <2>2. ASSUME NEW t \in Responders \ {s}
        PROVE  LET v == response'[t] IN
               /\ v.state \in {"None", "AwaitingDecision"} => decision'[t] = "none"
               /\ v.state \in {"AcceptedAwaitingSend", Ready} => decision'[t] = "yes"
               /\ v.state = "Rejected" => decision'[t] = v.detail /\ v.detail \in Reasons
               /\ decision'[t] \in Reasons => v.state = "Rejected"
               /\ decision'[t] = "yes" => Encode(Accepted(v.id)) \in net'
               /\ v.state # "None" => Encode(Request(v.id)) \in net'
    BY <1>0, <2>1 DEF DecisionsMatchStates, ResponseExists
  <2>3. LET v == response'[s] IN
        /\ v.state \in {"None", "AwaitingDecision"} => decision'[s] = "none"
        /\ v.state \in {"AcceptedAwaitingSend", Ready} => decision'[s] = "yes"
        /\ v.state = "Rejected" => decision'[s] = v.detail /\ v.detail \in Reasons
        /\ decision'[s] \in Reasons => v.state = "Rejected"
        /\ decision'[s] = "yes" => Encode(Accepted(v.id)) \in net'
        /\ v.state # "None" => Encode(Request(v.id)) \in net'
    BY <1>0, <2>1 DEF ResponseEffect, DecisionsMatchStates, ResponseExists, Ready,
         Terminal, Reasons
  <2> QED BY <2>2, <2>3 DEF DecisionsMatchStates, ResponseExists
<1>3. CASE Environment
  BY <1>1, <1>3 DEF Environment, TickInitiator, TickResponder, Damage
<1>4. CASE \E i \in AttemptIds : InitiatorStep(i)
  BY <1>1, <1>4, InitiatorEffect
<1>5. CASE UNCHANGED vars
  BY <1>1, <1>5 DEF vars
<1> QED BY <1>2, <1>3, <1>4, <1>5 DEF Next

\* How an initiator's attempt came to a remote outcome in this step.
LEMMA OutcomeStep ==
  ASSUME IInv, [Next]_vars, NEW i \in AttemptIds
  PROVE  /\ request'[i].state = Ready /\ request[i].state # Ready
              => Encode(Accepted(i)) \in net
         /\ request'[i].state = "Rejected" /\ request'[i] # request[i]
              => request'[i].detail \in Reasons
                   /\ Encode(Rejected(i, request'[i].detail)) \in net
<1> USE DEF IInv
<1>1. ASSUME NEW j \in AttemptIds, InitiatorStep(j)
      PROVE  RequestEffect(i) \/ request'[i] = request[i]
  BY <1>1, InitiatorEffect
<1>2. CASE request'[i] = request[i]
  BY <1>2
<1>3. CASE RequestEffect(i)
  BY <1>3 DEF RequestEffect, Ready
<1>4. CASE \E s \in Responders : ResponderStep(s)
  BY <1>2, <1>4, ResponderEffect
<1>5. CASE Environment
  BY <1>2, <1>5 DEF Environment, TickInitiator, TickResponder, Damage
<1>6. CASE UNCHANGED vars
  BY <1>2, <1>6 DEF vars
<1> QED BY <1>1, <1>2, <1>3, <1>4, <1>5, <1>6 DEF Next

\* Every step keeps an initiator's readiness backed by an acceptance.
LEMMA ReadyStep ==
  ASSUME IInv, [Next]_vars, DecisionsMatchStates'
  PROVE  ReadyMeansAccepted'
<1> SUFFICES ASSUME NEW i \in AttemptIds, request'[i].state = Ready
             PROVE  \E s \in Responders :
                      /\ response'[s].id = i /\ decision'[s] = "yes"
                      /\ response'[s].state \notin {"AwaitingDecision", "Rejected"}
  BY DEF ReadyMeansAccepted
<1>1. \E s \in Responders : response[s].id = i /\ decision[s] = "yes"
  <2>1. CASE request[i].state = Ready
    BY <2>1 DEF IInv, ReadyMeansAccepted
  <2>2. CASE request[i].state # Ready
    <3>1. Accepted(i) \in Messages /\ Encode(Accepted(i)) \in net
      BY <2>2, OutcomeStep DEF Messages
    <3>2. Authored(Accepted(i))
      BY <3>1 DEF IInv, FramesHaveAuthors
    <3> QED BY <3>2 DEF Authored, Accepted
  <2> QED BY <2>1, <2>2
<1>2. PICK s \in Responders : response[s].id = i /\ decision[s] = "yes"
  BY <1>1
<1>3. response'[s].id = i /\ decision'[s] = "yes"
  BY <1>2, Monotone
<1>4. response'[s].state \notin {"AwaitingDecision", "Rejected"}
  BY <1>3 DEF DecisionsMatchStates, Reasons
<1> QED BY <1>3, <1>4

\* Every step keeps a reported refusal backed by a refusal with that reason.
LEMMA RejectedStep ==
  ASSUME IInv, [Next]_vars, DecisionsMatchStates'
  PROVE  RejectedMeansRefused'
<1> SUFFICES ASSUME NEW i \in AttemptIds, request'[i].state = "Rejected"
             PROVE  \E s \in Responders :
                      /\ response'[s].id = i /\ response'[s].state = "Rejected"
                      /\ decision'[s] = request'[i].detail
  BY DEF RejectedMeansRefused
<1> DEFINE r == request'[i].detail
<1>1. \E s \in Responders : response[s].id = i /\ decision[s] = r /\ r \in Reasons
  <2>1. CASE request'[i] = request[i]
    BY <2>1 DEF IInv, RejectedMeansRefused, DecisionsMatchStates
  <2>2. CASE request'[i] # request[i]
    <3>1. r \in Reasons /\ Encode(Rejected(i, r)) \in net
      BY <2>2, OutcomeStep
    <3>2. Rejected(i, r) \in Messages
      BY <3>1 DEF Messages
    <3>3. Authored(Rejected(i, r))
      BY <3>1, <3>2 DEF IInv, FramesHaveAuthors
    <3> QED BY <3>1, <3>3 DEF Authored, Rejected
  <2> QED BY <2>1, <2>2
<1>2. PICK s \in Responders : response[s].id = i /\ decision[s] = r /\ r \in Reasons
  BY <1>1
<1>3. response'[s].id = i /\ decision'[s] = r
  <2>1. decision[s] # "none"
    BY <1>2 DEF Reasons
  <2> QED BY <1>2, <2>1, Monotone
<1>4. response'[s].state = "Rejected"
  BY <1>2, <1>3 DEF DecisionsMatchStates
<1> QED BY <1>3, <1>4

\* The invariant is inductive: it holds at first and every step keeps it.
THEOREM Inductive == Spec => []IInv
<1>1. Init => IInv
  <2> SUFFICES ASSUME Init PROVE IInv
    OBVIOUS
  <2>1. TypeOK
    BY TimeAssumption, StatesTyped DEF Init, TypeOK, NoRequest, NoResponse, ResponseExists
  <2> QED BY <2>1 DEF Init, IInv, NoRequest, NoResponse, FramesHaveAuthors,
         DecisionsMatchStates, ReadyMeansAccepted, RejectedMeansRefused, ResponseExists, Ready,
         Reasons
<1>2. IInv /\ [Next]_vars => IInv'
  <2> SUFFICES ASSUME IInv, [Next]_vars PROVE IInv'
    OBVIOUS
  <2>1. TypeOK'
    <3>1. CASE UNCHANGED vars
      BY <3>1 DEF IInv, vars, TypeOK, ResponseExists
    <3>2. CASE Next
      BY <3>2, InitiatorTyped, ResponderTyped, EnvironmentTyped DEF Next, IInv
    <3> QED BY <3>1, <3>2
  <2>2. FramesHaveAuthors' /\ DecisionsMatchStates'
    BY FramesHaveAuthorsStep, DecisionsMatchStatesStep
  <2> QED BY <2>1, <2>2, ReadyStep, RejectedStep DEF IInv
<1> QED BY <1>1, <1>2, PTL DEF Spec

-----------------------------------------------------------------------------
(* The results.                                                            *)

\* An initiator is ready only if a user on the other side accepted that very
\* attempt, over any transport that does not invent valid frames.
THEOREM ReadyIsAccepted == Spec => []ReadyMeansAccepted
<1>1. IInv => ReadyMeansAccepted
  BY DEF IInv
<1> QED BY <1>1, Inductive, PTL

\* An initiator reports a refusal only as a user on the other side gave it.
THEOREM RejectedIsRefused == Spec => []RejectedMeansRefused
<1>1. IInv => RejectedMeansRefused
  BY DEF IInv
<1> QED BY <1>1, Inductive, PTL

\* Both together: no attempt has an outcome that nobody decided.
THEOREM OutcomesDecided == Spec => []OutcomesAreDecided
BY ReadyIsAccepted, RejectedIsRefused, PTL DEF OutcomesAreDecided

\* Whatever frames are lost, repeated or damaged, every valid one on the network
\* was said by the one entitled to say it: a request by an initiated attempt, a
\* reply by a responder whose user decided so.
THEOREM FramesAreAuthored == Spec => []FramesHaveAuthors
<1>1. IInv => FramesHaveAuthors
  BY DEF IInv
<1> QED BY <1>1, Inductive, PTL

\* A responder is ready only on its own user's acceptance of a requested attempt.
THEOREM ResponderReadyIsAccepted == Spec => []ResponderReadyMeansAccepted
<1>1. IInv => ResponderReadyMeansAccepted
  BY DEF IInv, DecisionsMatchStates, ResponderReadyMeansAccepted, ResponseExists, Ready
<1> QED BY <1>1, Inductive, PTL

\* No step other than an attempt's own touches it, and its own steps have
\* the effects of RequestEffect and ResponseEffect only.
LEMMA StepEffects ==
  ASSUME TypeOK, [Next]_vars
  PROVE  /\ \A i \in AttemptIds : request'[i] = request[i] \/ RequestEffect(i)
         /\ \A s \in Responders : response'[s] = response[s] \/ ResponseEffect(s)
<1>1. CASE \E i \in AttemptIds : InitiatorStep(i)
  BY <1>1, InitiatorEffect
<1>2. CASE \E s \in Responders : ResponderStep(s)
  BY <1>2, ResponderEffect
<1>3. CASE Environment
  BY <1>3 DEF Environment, TickInitiator, TickResponder, Damage
<1>4. CASE UNCHANGED vars
  BY <1>4 DEF vars
<1> QED BY <1>1, <1>2, <1>3, <1>4 DEF Next

\* Late, repeated or wrong input never revives an attempt of either side.
THEOREM OutcomesAreFinal == Spec => TerminalAbsorbs
<1>1. TypeOK /\ [Next]_vars =>
        [ /\ \A i \in AttemptIds :
                request[i].state \in Terminal => request'[i] = request[i]
          /\ \A s \in Responders :
                response[s].state \in Terminal => response'[s] = response[s] ]_vars
  <2> SUFFICES ASSUME TypeOK, [Next]_vars
               PROVE  /\ \A i \in AttemptIds :
                            request[i].state \in Terminal => request'[i] = request[i]
                      /\ \A s \in Responders :
                            response[s].state \in Terminal => response'[s] = response[s]
    OBVIOUS
  <2> QED BY StepEffects DEF RequestEffect, ResponseEffect, Terminal, Ready
<1> QED BY <1>1, TypeCorrect, PTL DEF Spec, TerminalAbsorbs

\* No attempt is resolved by its peer before its request was marked sent; at or
\* after its deadline an attempt of either side can only end in failure.
THEOREM ProgressIsInTurn == Spec => NoProgressOutOfTurn
<1> DEFINE
      A == /\ \A i \in AttemptIds :
                request[i].state = "RequestCreated" =>
                    request'[i].state \notin {Ready, "Rejected"}
           /\ \A i \in AttemptIds :
                (request'[i].state # request[i].state /\ request[i].state # "None"
                   /\ iClock >= request[i].deadline)
                => request'[i].state \in {"TimedOut", "Cancelled", "Failed"}
                     /\ request'[i].detail \in {"none", "TransportFailure"}
           /\ \A s \in Responders :
                (response'[s].state # response[s].state /\ response[s].state # "None"
                   /\ rClock >= response[s].deadline)
                => response'[s].state \in {"TimedOut", "Cancelled", "Failed"}
<1>1. TypeOK /\ [Next]_vars => A
  <2> SUFFICES ASSUME TypeOK, [Next]_vars PROVE A
    OBVIOUS
  <2>1. ASSUME NEW i \in AttemptIds, iClock >= request[i].deadline PROVE ~RequestOpen(i)
    BY <2>1 DEF RequestOpen, TypeOK
  <2>2. ASSUME NEW s \in Responders, rClock >= response[s].deadline PROVE ~ResponseOpen(s)
    BY <2>2 DEF ResponseOpen, TypeOK
  <2>3. ASSUME NEW i \in AttemptIds, request[i].state = "RequestCreated"
        PROVE  request'[i].state \notin {Ready, "Rejected"}
    BY <2>3, StepEffects DEF RequestEffect, Ready
  <2>4. \A i \in AttemptIds :
          (request'[i].state # request[i].state /\ request[i].state # "None"
             /\ iClock >= request[i].deadline)
          => request'[i].state \in {"TimedOut", "Cancelled", "Failed"}
               /\ request'[i].detail \in {"none", "TransportFailure"}
    BY <2>1, StepEffects DEF RequestEffect
  <2>5. \A s \in Responders :
          (response'[s].state # response[s].state /\ response[s].state # "None"
             /\ rClock >= response[s].deadline)
          => response'[s].state \in {"TimedOut", "Cancelled", "Failed"}
    BY <2>2, StepEffects DEF ResponseEffect
  <2> QED BY <2>3, <2>4, <2>5
<1>2. TypeOK /\ [Next]_vars => [A]_vars
  BY <1>1
<1> QED BY <1>2, TypeCorrect, PTL DEF Spec, NoProgressOutOfTurn

-----------------------------------------------------------------------------
(* Refinement.                                                             *)

\* An attempt that exists has an outcome other than "none".
LEMMA ExistsIsBegun ==
  ASSUME IInv, NEW i \in AttemptIds
  PROVE  OutcomeOf(i) = "none" <=> ~RequestExists(i)
<1>1. request[i].state = "Rejected" => request[i].detail # "none"
  BY DEF IInv, RejectedMeansRefused, DecisionsMatchStates, Reasons
<1> QED BY <1>1 DEF OutcomeOf, RequestExists, Ready

\* Every behaviour of the phase is one PairingOutcome allows: an attempt is
\* begun once, and what it ends with is a verdict given for it, or none.
THEOREM RefinesOutcome == Spec => ImplementsOutcome
<1> DEFINE O == [i \in AttemptIds |-> OutcomeOf(i)]
           V == {<<response[s].id, decision[s]>> :
                    s \in {t \in Responders : decision[t] # "none"}}
<1>1. Init => Outcome!Init
  BY DEF Init, Outcome!Init, NoRequest, OutcomeOf, Ready
<1>2. IInv /\ [Next]_vars => [Outcome!Next]_(Outcome!vars)
  <2> SUFFICES ASSUME IInv, [Next]_vars PROVE Outcome!Next \/ (O' = O /\ V' = V)
    BY DEF Outcome!vars
  <2> USE DEF IInv
  <2>1. ASSUME NEW i \in AttemptIds, InitiatorStep(i)
        PROVE  Outcome!Next \/ (O' = O /\ V' = V)
    <3>1. /\ RequestEffect(i) /\ UNCHANGED <<response, decision>>
          /\ \A j \in AttemptIds \ {i} : request'[j] = request[j]
      BY <2>1, InitiatorEffect
    <3>2. V' = V
      BY <3>1
    <3>3. \A j \in AttemptIds \ {i} : OutcomeOf(j)' = OutcomeOf(j)
      BY <3>1 DEF OutcomeOf
    <3>4. O' = [O EXCEPT ![i] = OutcomeOf(i)']
      BY <3>3
    <3>5. CASE OutcomeOf(i)' = OutcomeOf(i)
      BY <3>2, <3>4, <3>5
    <3>6. CASE OutcomeOf(i) = "none" /\ OutcomeOf(i)' = "open"
      BY <3>2, <3>4, <3>6 DEF Outcome!Next, Outcome!Begin
    <3>7. CASE OutcomeOf(i) = "open" /\ OutcomeOf(i)' = "ended"
      BY <3>2, <3>4, <3>7 DEF Outcome!Next, Outcome!End
    <3>8. CASE /\ OutcomeOf(i) = "open" /\ OutcomeOf(i)' = "yes"
               /\ Encode(Accepted(i)) \in net
      <4>1. Authored(Accepted(i))
        BY <3>8 DEF FramesHaveAuthors, Messages
      <4>2. <<i, "yes">> \in V
        BY <4>1 DEF Authored, Accepted
      <4> QED BY <3>2, <3>4, <3>8, <4>2 DEF Outcome!Next, Outcome!Learn
    <3>9. CASE /\ OutcomeOf(i) = "open" /\ OutcomeOf(i)' \in Reasons
               /\ Encode(Rejected(i, OutcomeOf(i)')) \in net
      <4> DEFINE r == OutcomeOf(i)'
      <4>1. r \in Reasons /\ Encode(Rejected(i, r)) \in net
        BY <3>9
      <4> HIDE DEF r
      <4>2. Authored(Rejected(i, r))
        BY <4>1 DEF FramesHaveAuthors, Messages
      <4>3. \E s \in Responders : response[s].id = i /\ decision[s] = r
        BY <4>2 DEF Authored, Rejected
      <4>4. <<i, r>> \in V
        BY <4>1, <4>3 DEF Reasons
      <4> QED BY <3>2, <3>4, <3>9, <4>1, <4>4 DEF Outcome!Next, Outcome!Learn, r
    <3>10. RequestExists(i) /\ request[i].state \notin Terminal => OutcomeOf(i) = "open"
      BY DEF OutcomeOf, RequestExists, Terminal
    <3>11. /\ request'[i] = request[i] => OutcomeOf(i)' = OutcomeOf(i)
           /\ request'[i].state = "None" => OutcomeOf(i)' = "none"
           /\ request'[i].state \in {"RequestCreated", "AwaitingRemoteResponse"} =>
                OutcomeOf(i)' = "open"
           /\ request'[i].state \in {"TimedOut", "Cancelled", "Failed"} =>
                OutcomeOf(i)' = "ended"
           /\ request'[i].state = Ready => OutcomeOf(i)' = "yes"
           /\ request'[i].state = "Rejected" => OutcomeOf(i)' = request'[i].detail
      BY DEF OutcomeOf, Ready
    <3>12. request[i].state = "None" => OutcomeOf(i) = "none"
      BY DEF OutcomeOf, Ready
    <3> QED BY <3>1, <3>5, <3>6, <3>7, <3>8, <3>9, <3>10, <3>11, <3>12 DEF RequestEffect
  <2>2. ASSUME NEW s \in Responders, ResponderStep(s)
        PROVE  Outcome!Next \/ (O' = O /\ V' = V)
    <3> DEFINE id == response[s].id
    <3>1. /\ ResponseEffect(s) /\ UNCHANGED request
          /\ \A t \in Responders \ {s} :
                response'[t] = response[t] /\ decision'[t] = decision[t]
      BY <2>2, ResponderEffect
    <3>2. O' = O
      BY <3>1 DEF OutcomeOf
    <3>3. CASE decision'[s] = decision[s]
      <4>1. decision[s] # "none" => response'[s].id = id
        BY <2>2, Monotone
      <4>2. V' = V
        BY <3>1, <3>3, <4>1
      <4> QED BY <3>2, <4>2
    <3>4. CASE decision'[s] # decision[s]
      <4>1. /\ ResponseExists(s) /\ response'[s].id = id /\ decision[s] = "none"
            /\ decision'[s] \in {"yes"} \cup Reasons
        BY <3>1, <3>4 DEF ResponseEffect, DecisionsMatchStates
      <4>2. V' = V \cup {<<id, decision'[s]>>}
        <5>1. decision'[s] # "none"
          BY <4>1 DEF Reasons
        <5> QED BY <3>1, <4>1, <5>1
      <4>3. id \in AttemptIds /\ RequestExists(id)
        <5>1. id \in AttemptIds /\ Encode(Request(id)) \in net
          BY <4>1 DEF TypeOK, DecisionsMatchStates
        <5>2. Authored(Request(id))
          BY <5>1 DEF FramesHaveAuthors, Messages
        <5> QED BY <5>1, <5>2 DEF Authored, Request
      <4>4. OutcomeOf(id) # "none"
        BY <4>3, ExistsIsBegun
      <4> QED BY <3>2, <4>1, <4>2, <4>3, <4>4 DEF Outcome!Next, Outcome!Give
    <3> QED BY <3>3, <3>4
  <2>3. CASE Environment
    BY <2>3 DEF Environment, TickInitiator, TickResponder, Damage, OutcomeOf
  <2>4. CASE UNCHANGED vars
    BY <2>4 DEF vars, OutcomeOf
  <2> QED BY <2>1, <2>2, <2>3, <2>4 DEF Next
<1> QED BY <1>1, <1>2, Inductive, PTL DEF Spec, ImplementsOutcome, Outcome!Spec
=============================================================================
