----------------------------- MODULE DeviceText -----------------------------
(***************************************************************************)
(* Text as device_name.rs and discovery.rs see it: a sequence of           *)
(* characters, of which they look at the width in UTF-8 bytes, whether     *)
(* they are white space, whether they are control characters, and whether  *)
(* they are digits.                                                        *)
(***************************************************************************)
EXTENDS Integers, Sequences, FiniteSets, SequencesExt

CONSTANTS
    U16_MAX,
    MAX_DEVICE_NAME_CHARS,
    MAX_DISCOVERY_NAME_BYTES

ASSUME TextAssumption ==
    /\ U16_MAX \in Nat \ {0}
    /\ MAX_DEVICE_NAME_CHARS \in Nat /\ MAX_DISCOVERY_NAME_BYTES \in Nat

Digits == <<"0", "1", "2", "3", "4", "5", "6", "7", "8", "9">>

\* A letter, a letter of three bytes, a byte that is no UTF-8, and the words of
\* platform hints, each taken as one.
Width(c) ==
    CASE c = "wide"    -> 3
      [] c = "macos"   -> 5
      [] c = "linux"   -> 5
      [] c = "windows" -> 7
      [] OTHER         -> 1

IsUtf8(text) == \A i \in DOMAIN text : text[i] # "broken"
IsControl(c) == c = "newline"
IsSpace(c) == c \in {"space", "newline"}

\* str::len
ByteLen(text) == FoldLeft(LAMBDA bytes, c : bytes + Width(c), 0, text)

\* str::trim
Trimmed(text) ==
    LET visible == {i \in DOMAIN text : ~IsSpace(text[i])} IN
    IF visible = {} THEN <<>> ELSE SubSeq(text, Min(visible), Max(visible))

-----------------------------------------------------------------------------
(* Decimals.                                                               *)

\* u16::to_string
Decimal[n \in Nat] ==
    IF n < 10 THEN <<Digits[n + 1]>> ELSE Append(Decimal[n \div 10], Digits[(n % 10) + 1])

DigitValue(c) == (CHOOSE i \in DOMAIN Digits : Digits[i] = c) - 1

\* str::parse::<u16>, which allows a plus sign and leading zeros.
ParsesAsU16(text) ==
    LET number == IF text # <<>> /\ Head(text) = "+" THEN Tail(text) ELSE text
        value == FoldLeft(LAMBDA n, c : 10 * n + DigitValue(c), 0, number)
    IN  IF number # <<>> /\ \A i \in DOMAIN number : number[i] \in ToSet(Digits)
          THEN {value} \cap 0..U16_MAX ELSE {}

\* Mutant: any text that parses is taken.
LooseU16(text) == ParsesAsU16(text)

\* parse_canonical_u16, and the like test of TXT values: Some(n) as {n}, None as {}.
CanonicalU16(text) == {n \in ParsesAsU16(text) : Decimal[n] = text}

-----------------------------------------------------------------------------
(* Display names.                                                          *)

\* DeviceName::new: the error it returns, "none" when it accepts the text.
DeviceNameError(text) ==
    IF \E i \in DOMAIN text : IsControl(text[i]) THEN "ControlCharacter"
    ELSE IF Trimmed(text) = <<>> THEN "Empty"
    ELSE IF Len(Trimmed(text)) > MAX_DEVICE_NAME_CHARS THEN "TooLong"
    ELSE "none"

\* The name it makes of a text it accepts.
DeviceName(text) == Trimmed(text)

\* What update and create_default write to the file.
Persisted(name) == Append(name, "newline")

\* The value parse_persisted takes out of a file, for DeviceName::new to judge.
PersistedValue(contents) ==
    IF contents # <<>> /\ Last(contents) = "newline" THEN Front(contents) ELSE contents

-----------------------------------------------------------------------------
(* Hints.                                                                  *)

\* DiscoveryNameHint::new
NameHintError(text) ==
    IF ByteLen(text) > MAX_DISCOVERY_NAME_BYTES THEN "TooLong"
    ELSE IF Trimmed(text) = <<>> THEN "Empty"
    ELSE IF \E i \in DOMAIN text : IsControl(text[i]) THEN "ControlCharacter"
    ELSE "none"

\* Mutant: the limit is taken for a number of characters.
HintByChars(name) == SubSeq(name, 1, Min({Len(name), MAX_DISCOVERY_NAME_BYTES}))

\* from_device_name: the byte limit, moved back to a boundary of characters.
HintOf(name) ==
    LET Size(k) == ByteLen(SubSeq(name, 1, k))
        limit == Min({ByteLen(name), MAX_DISCOVERY_NAME_BYTES})
    IN  SubSeq(name, 1, Max({k \in 0..Len(name) : Size(k) <= limit}))
=============================================================================
