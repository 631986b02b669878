--------------------------- MODULE PairingMessage ---------------------------
(***************************************************************************)
(* The wire codec of the pairing-request phase (pairing.rs).               *)
(*                                                                         *)
(* A frame is the sequence of its wire fields: the version byte, the kind  *)
(* byte, the sixteen bytes of the attempt identifier (one opaque element,  *)
(* because the code only compares it), then any trailing bytes.  Three     *)
(* elements stand for 18 bytes, four for 19, fewer than three for a frame  *)
(* cut short.                                                              *)
(***************************************************************************)
EXTENDS Integers, Sequences

CONSTANT AttemptIds     \* PairingAttemptId: opaque correlation tokens

PROTOCOL_VERSION      == 1
BASE_MESSAGE_LEN      == 3
REJECTED_MESSAGE_LEN  == BASE_MESSAGE_LEN + 1
KIND_REQUEST          == 1
KIND_REQUEST_ACCEPTED == 2
KIND_REQUEST_REJECTED == 3

\* PairingRejectionReason
Reasons == {"Unspecified", "Busy", "Declined"}

\* PairingRejectionReason::to_wire
ToWire(reason) ==
    CASE reason = "Unspecified" -> 0
      [] reason = "Busy"        -> 1
      [] reason = "Declined"    -> 2

\* PairingRejectionReason::from_wire: the reasons a wire byte may name.
FromWire(byte) == {r \in Reasons : ToWire(r) = byte}
ReasonOf(byte) == CHOOSE r \in FromWire(byte) : TRUE

-----------------------------------------------------------------------------
(* Messages.  reason is "none" in the kinds that carry no reason.          *)

Request(id)          == [kind |-> "Request", id |-> id, reason |-> "none"]
Accepted(id)         == [kind |-> "RequestAccepted", id |-> id, reason |-> "none"]
Rejected(id, reason) == [kind |-> "RequestRejected", id |-> id, reason |-> reason]

Messages == {Request(id) : id \in AttemptIds}
       \cup {Accepted(id) : id \in AttemptIds}
       \cup {Rejected(id, r) : id \in AttemptIds, r \in Reasons}

MessageErrors == {"InvalidLength", "UnsupportedVersion", "LengthKindMismatch",
                  "UnknownRejectionReason", "UnknownMessageKind"}

\* PairingMessage::encode
Encode(m) ==
    CASE m.kind = "Request" ->
           <<PROTOCOL_VERSION, KIND_REQUEST, m.id>>
      [] m.kind = "RequestAccepted" ->
           <<PROTOCOL_VERSION, KIND_REQUEST_ACCEPTED, m.id>>
      [] m.kind = "RequestRejected" ->
           <<PROTOCOL_VERSION, KIND_REQUEST_REJECTED, m.id, ToWire(m.reason)>>

\* The result of decode: Ok(message) or Err(error), never both.
Ok(m)  == [ok |-> TRUE,  value |-> m]
Err(e) == [ok |-> FALSE, value |-> e]

\* Mutant: bytes after the message are ignored.
AtLeastLen(f) ==
    Len(f) >= IF f[2] = KIND_REQUEST_REJECTED THEN REJECTED_MESSAGE_LEN
                                              ELSE BASE_MESSAGE_LEN

\* exact_len: the frame is as long as its kind demands.
ExactLen(f) ==
    Len(f) = IF f[2] = KIND_REQUEST_REJECTED THEN REJECTED_MESSAGE_LEN
                                             ELSE BASE_MESSAGE_LEN

\* The version test of decode.
VersionSupported(f) == f[1] = PROTOCOL_VERSION

\* PairingMessage::decode
Decode(f) ==
    IF Len(f) < BASE_MESSAGE_LEN \/ Len(f) > REJECTED_MESSAGE_LEN
      THEN Err("InvalidLength")
    ELSE IF ~VersionSupported(f) THEN Err("UnsupportedVersion")
    ELSE IF f[2] \notin {KIND_REQUEST, KIND_REQUEST_ACCEPTED, KIND_REQUEST_REJECTED}
      THEN Err("UnknownMessageKind")
    ELSE IF ~ExactLen(f) THEN Err("LengthKindMismatch")
    ELSE IF f[2] = KIND_REQUEST THEN Ok(Request(f[3]))
    ELSE IF f[2] = KIND_REQUEST_ACCEPTED THEN Ok(Accepted(f[3]))
    ELSE IF FromWire(f[4]) = {} THEN Err("UnknownRejectionReason")
    ELSE Ok(Rejected(f[3], ReasonOf(f[4])))

=============================================================================
