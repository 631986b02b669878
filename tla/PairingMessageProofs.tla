------------------------ MODULE PairingMessageProofs ------------------------
(***************************************************************************)
(* Proofs about the wire codec, for any set of attempt identifiers and any *)
(* frame at all.                                                           *)
(***************************************************************************)
EXTENDS PairingMessage, TLAPS

\* from_wire undoes to_wire: the wire byte of a reason names that reason alone.
LEMMA ReasonRoundTrip ==
  ASSUME NEW r \in Reasons
  PROVE  FromWire(ToWire(r)) = {r} /\ ReasonOf(ToWire(r)) = r
BY DEF FromWire, ReasonOf, ToWire, Reasons

\* decode undoes encode for every message of the phase.
LEMMA DecodeEncode ==
  ASSUME NEW m \in Messages
  PROVE  Decode(Encode(m)) = Ok(m)
<1>1. CASE \E id \in AttemptIds : m = Request(id)
  BY <1>1 DEF Request, Decode, Encode, Ok, VersionSupported, ExactLen,
       PROTOCOL_VERSION, BASE_MESSAGE_LEN, REJECTED_MESSAGE_LEN, KIND_REQUEST,
       KIND_REQUEST_ACCEPTED, KIND_REQUEST_REJECTED
<1>2. CASE \E id \in AttemptIds : m = Accepted(id)
  BY <1>2 DEF Accepted, Decode, Encode, Ok, VersionSupported, ExactLen,
       PROTOCOL_VERSION, BASE_MESSAGE_LEN, REJECTED_MESSAGE_LEN, KIND_REQUEST,
       KIND_REQUEST_ACCEPTED, KIND_REQUEST_REJECTED
<1>3. CASE \E id \in AttemptIds, r \in Reasons : m = Rejected(id, r)
  <2> PICK id \in AttemptIds, r \in Reasons : m = Rejected(id, r)
    BY <1>3
  <2> DEFINE f == <<1, 3, id, ToWire(r)>>
  <2>1. Encode(m) = f
    BY DEF Rejected, Encode, PROTOCOL_VERSION, KIND_REQUEST_REJECTED
  <2>2. Len(f) = 4 /\ f[1] = 1 /\ f[2] = 3 /\ f[3] = id /\ f[4] = ToWire(r)
    OBVIOUS
  <2>3. FromWire(f[4]) # {} /\ ReasonOf(f[4]) = r
    BY <2>2, ReasonRoundTrip
  <2> HIDE DEF f
  <2>4. VersionSupported(f) /\ ExactLen(f)
    BY <2>2 DEF VersionSupported, ExactLen, PROTOCOL_VERSION, KIND_REQUEST_REJECTED,
         REJECTED_MESSAGE_LEN, BASE_MESSAGE_LEN
  <2>5. Decode(f) = Ok(Rejected(id, r))
    BY <2>2, <2>3, <2>4 DEF Decode, BASE_MESSAGE_LEN, REJECTED_MESSAGE_LEN,
         KIND_REQUEST, KIND_REQUEST_ACCEPTED, KIND_REQUEST_REJECTED
  <2> QED BY <2>1, <2>5
<1> QED BY <1>1, <1>2, <1>3 DEF Messages

\* Two messages with one encoding are the same message.
LEMMA EncodeInjective ==
  ASSUME NEW m \in Messages, NEW n \in Messages, Encode(m) = Encode(n)
  PROVE  m = n
BY DecodeEncode DEF Ok

\* A frame that decodes is the encoding of the message it decodes to, whatever
\* else its bytes might have been; one that does not names its error.
LEMMA DecodesEncodings ==
  ASSUME NEW S, NEW f \in Seq(S), Len(f) >= BASE_MESSAGE_LEN => f[3] \in AttemptIds
  PROVE  IF Decode(f).ok THEN Decode(f).value \in Messages /\ Encode(Decode(f).value) = f
                         ELSE Decode(f).value \in MessageErrors
<1> USE DEF PROTOCOL_VERSION, BASE_MESSAGE_LEN, REJECTED_MESSAGE_LEN, KIND_REQUEST,
        KIND_REQUEST_ACCEPTED, KIND_REQUEST_REJECTED
<1>1. CASE ~Decode(f).ok
  BY <1>1 DEF Decode, Ok, Err, MessageErrors
<1>2. CASE Decode(f).ok
  <2>1. /\ Len(f) \in {3, 4} /\ f[1] = 1 /\ f[2] \in {1, 2, 3}
        /\ Len(f) = IF f[2] = 3 THEN 4 ELSE 3
    BY <1>2 DEF Decode, Err, VersionSupported, ExactLen
  <2>2. f[3] \in AttemptIds
    BY <2>1
  <2>3. CASE f[2] = 1
    <3>1. f = <<1, 1, f[3]>>
      BY <2>1, <2>3
    <3>2. Decode(f) = Ok(Request(f[3]))
      BY <1>2, <2>1, <2>3 DEF Decode, VersionSupported, ExactLen
    <3>3. Encode(Request(f[3])) = <<1, 1, f[3]>>
      BY DEF Encode, Request
    <3> QED BY <1>2, <2>2, <3>1, <3>2, <3>3 DEF Ok, Messages
  <2>4. CASE f[2] = 2
    <3>1. f = <<1, 2, f[3]>>
      BY <2>1, <2>4
    <3>2. Decode(f) = Ok(Accepted(f[3]))
      BY <1>2, <2>1, <2>4 DEF Decode, VersionSupported, ExactLen
    <3>3. Encode(Accepted(f[3])) = <<1, 2, f[3]>>
      BY DEF Encode, Accepted
    <3> QED BY <1>2, <2>2, <3>1, <3>2, <3>3 DEF Ok, Messages
  <2>5. CASE f[2] = 3
    <3>1. f = <<1, 3, f[3], f[4]>>
      BY <2>1, <2>5
    <3>2. FromWire(f[4]) # {} /\ Decode(f) = Ok(Rejected(f[3], ReasonOf(f[4])))
      BY <1>2, <2>1, <2>5 DEF Decode, VersionSupported, ExactLen, Err
    <3>3. ReasonOf(f[4]) \in Reasons /\ ToWire(ReasonOf(f[4])) = f[4]
      BY <3>2 DEF ReasonOf, FromWire
    <3>4. Encode(Rejected(f[3], ReasonOf(f[4]))) = <<1, 3, f[3], f[4]>>
      BY <3>3 DEF Encode, Rejected
    <3> QED BY <1>2, <2>2, <3>1, <3>2, <3>3, <3>4 DEF Ok, Messages
  <2> QED BY <2>1, <2>3, <2>4, <2>5
<1> QED BY <1>1, <1>2
=============================================================================
