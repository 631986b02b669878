--------------------------- MODULE TrustedPeerLine ---------------------------
(***************************************************************************)
(* One line of the trusted-peer store (trusted_peers.rs): the scheme of a  *)
(* key identity in decimal, then its material and the label in hexadecimal *)
(* or "-" without a label.  A line is the sequence of its fields, which    *)
(* blanks separate, a field a sequence of characters.                      *)
(*                                                                         *)
(* A byte is a number.  Labels are ASCII: of the characters that take      *)
(* several bytes none occurs, so that a byte above 127 is no UTF-8.  An    *)
(* absent label is <<>>, which no label can be.                            *)
(***************************************************************************)
EXTENDS DeviceText

CONSTANTS
    MAX_PEER_IDENTITY_BYTES,
    MAX_TRUSTED_PEER_LABEL_CHARS,
    MAX_TRUSTED_PEER_LABEL_BYTES,
    MAX_RECORD_LINE_BYTES

ASSUME LineAssumption ==
    /\ MAX_PEER_IDENTITY_BYTES \in Nat /\ MAX_RECORD_LINE_BYTES \in Nat
    /\ MAX_TRUSTED_PEER_LABEL_CHARS \in Nat /\ MAX_TRUSTED_PEER_LABEL_BYTES \in Nat

-----------------------------------------------------------------------------
(* Hexadecimal.                                                            *)

HexDigits == Digits \o <<"a", "b", "c", "d", "e", "f">>

\* push_hex
Hex(bytes) ==
    FoldLeft(LAMBDA text, b : text \o <<HexDigits[(b \div 16) + 1], HexDigits[(b % 16) + 1]>>,
             <<>>, bytes)

\* Mutant: a capital stands for the same digit.
HexValueOfAnyCase(c) ==
    IF c = "A" THEN {10} ELSE {i - 1 : i \in {j \in DOMAIN HexDigits : HexDigits[j] = c}}

\* hex_value: Some(n) as {n}, None as {}.
HexValue(c) == {i - 1 : i \in {j \in DOMAIN HexDigits : HexDigits[j] = c}}

\* decode_hex: Some(bytes) as {bytes}, None as {}.
HexBytes(text) ==
    LET Digit(i) == CHOOSE n \in HexValue(text[i]) : TRUE IN
    IF text = <<>> \/ Len(text) % 2 # 0 \/ \E i \in DOMAIN text : HexValue(text[i]) = {}
      THEN {}
      ELSE {[k \in 1..(Len(text) \div 2) |-> 16 * Digit(2 * k - 1) + Digit(2 * k)]}

-----------------------------------------------------------------------------
(* Identities and labels.                                                  *)

\* PeerKeyIdentity::new: the error it returns, "none" when it accepts.
IdentityError(material) ==
    IF material = <<>> THEN "Empty"
    ELSE IF Len(material) > MAX_PEER_IDENTITY_BYTES THEN "TooLarge"
    ELSE "none"

\* What TrustedPeerLabel::new makes of the text, and the error it returns.
Label(bytes) ==
    LET visible == {i \in DOMAIN bytes : bytes[i] # 32} IN
    IF visible = {} THEN <<>> ELSE SubSeq(bytes, Min(visible), Max(visible))

LabelError(bytes) ==
    IF \E i \in DOMAIN bytes : bytes[i] < 32 \/ bytes[i] = 127 THEN "ControlCharacter"
    ELSE IF Label(bytes) = <<>> THEN "Empty"
    ELSE IF Len(Label(bytes)) > MAX_TRUSTED_PEER_LABEL_CHARS THEN "TooLong"
    ELSE "none"

-----------------------------------------------------------------------------
(* Lines.                                                                  *)

\* TrustedPeerRecord
PeerRecord(scheme, material, label) ==
    [scheme |-> scheme, material |-> material, label |-> label]

\* encode: the line of one record.
EncodeLine(r) ==
    <<Decimal[r.scheme], Hex(r.material), IF r.label = <<>> THEN <<"-">> ELSE Hex(r.label)>>

LineLen(line) == FoldLeft(LAMBDA n, field : n + Len(field), Len(line) - 1, line)

\* MalformedStoreReason, of those a line can give.
MalformedStoreReasons == {"RecordSyntax", "IdentityEncoding", "IdentityBounds",
                          "LabelEncoding", "LabelValue"}

\* The label field of parse_record.
LabelFieldError(field) ==
    IF field = <<"-">> THEN "none"
    ELSE IF Len(field) > MAX_TRUSTED_PEER_LABEL_BYTES THEN "LabelValue"
    ELSE IF \A bytes \in HexBytes(field) : \E i \in DOMAIN bytes : bytes[i] > 127
      THEN "LabelEncoding"
    ELSE IF \E bytes \in HexBytes(field) : LabelError(bytes) # "none" THEN "LabelValue"
    ELSE "none"

\* The error parse_record returns first, "none" if it succeeds.
LineError(line) ==
    IF LineLen(line) > MAX_RECORD_LINE_BYTES THEN "RecordTooLarge"
    ELSE IF Len(line) # 3 \/ CanonicalU16(line[1]) = {} THEN "RecordSyntax"
    ELSE IF Len(line[2]) > 2 * MAX_PEER_IDENTITY_BYTES THEN "IdentityBounds"
    ELSE IF HexBytes(line[2]) = {} THEN "IdentityEncoding"
    ELSE IF \E bytes \in HexBytes(line[2]) : IdentityError(bytes) # "none" THEN "IdentityBounds"
    ELSE LabelFieldError(line[3])

\* The record it returns then.
LineRecord(line) ==
    PeerRecord(CHOOSE n \in CanonicalU16(line[1]) : TRUE,
               CHOOSE bytes \in HexBytes(line[2]) : TRUE,
               IF line[3] = <<"-">> THEN <<>>
               ELSE Label(CHOOSE bytes \in HexBytes(line[3]) : TRUE))
=============================================================================
