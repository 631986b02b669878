------------------------- MODULE DiscoveryMetadata -------------------------
(***************************************************************************)
(* The TXT record of an advertisement (discovery.rs): what a device emits, *)
(* and what it makes of the entries another sent, which it does not trust. *)
(*                                                                         *)
(* An entry has a key, in lower or upper case, and a text for its value.   *)
(* An absent hint is <<>>, which no hint can be.                           *)
(***************************************************************************)
EXTENDS DeviceText

CONSTANTS
    MAX_DISCOVERY_TXT_BYTES,
    MAX_DISCOVERY_TXT_ENTRY_BYTES

ASSUME MetadataAssumption ==
    /\ MAX_DISCOVERY_TXT_BYTES \in Nat /\ MAX_DISCOVERY_TXT_ENTRY_BYTES \in Nat

DISCOVERY_SCHEMA_VERSION == 1
INITIAL_PROTOCOL_MAJOR == 1

-----------------------------------------------------------------------------
(* Protocol ranges.                                                        *)

\* DiscoveryProtocolRange::new
ProtocolRange(min, max) == [min |-> min, max |-> max]
ProtocolRangeValid(min, max) == min <= max

\* DiscoveryProtocolRange::initial
InitialRange == ProtocolRange(INITIAL_PROTOCOL_MAJOR, INITIAL_PROTOCOL_MAJOR)

\* Mutant: the own maximum is chosen as long as the ranges meet.
HighestOwnVersion(own, other) ==
    IF Max({own.min, other.min}) <= Min({own.max, other.max}) THEN {own.max} ELSE {}

\* highest_compatible_version: Some(version) as {version}, None as {}.
HighestCompatibleVersion(own, other) ==
    LET minimum == Max({own.min, other.min})
        maximum == Min({own.max, other.max})
    IN  IF minimum <= maximum THEN {maximum} ELSE {}

-----------------------------------------------------------------------------
(* Entries.                                                                *)

KnownKeys == {"dv", "pmin", "pmax", "name", "os"}

KeyBytes(key) ==
    CASE key \in {"pmin", "pmax", "name"} -> 4
      [] key \in {"dv", "os"}             -> 2
      [] key = "x"                        -> 1
      [] key = ""                         -> 0

\* DiscoveryTxtEntry::emitted
Entry(key, value) == [key |-> key, upper |-> FALSE, value |-> value]

\* DiscoveryTxtEntry::new
EntryError(e) ==
    IF KeyBytes(e.key) = 0 THEN "InvalidTxtKey"
    ELSE IF KeyBytes(e.key) + 1 + ByteLen(e.value) > MAX_DISCOVERY_TXT_ENTRY_BYTES
      THEN "TxtEntryTooLarge"
    ELSE "none"

\* encoded_size, with the length octet.
EncodedSize(e) == 1 + KeyBytes(e.key) + 1 + ByteLen(e.value)
TotalSize(entries) == FoldLeft(LAMBDA size, e : size + EncodedSize(e), 0, entries)

\* DiscoveryPlatformHint
PlatformHints == {"macos", "windows", "linux"}

\* DiscoveryMetadata::new
Metadata(protocols, name, platform) ==
    [protocols |-> protocols, name |-> name, platform |-> platform]

\* to_txt_entries
ToTxtEntries(m) ==
    <<Entry("dv", Decimal[DISCOVERY_SCHEMA_VERSION]),
      Entry("pmin", Decimal[m.protocols.min]),
      Entry("pmax", Decimal[m.protocols.max])>>
        \o (IF m.name = <<>> THEN <<>> ELSE <<Entry("name", m.name)>>)
        \o (IF m.platform = <<>> THEN <<>> ELSE <<Entry("os", m.platform)>>)

\* ServiceSpec::new of advertisement.rs accepts the metadata; otherwise it
\* returns MetadataEncoding.
Advertisable(m) ==
    LET entries == ToTxtEntries(m) IN
    /\ TotalSize(entries) <= MAX_DISCOVERY_TXT_BYTES
    /\ \A i \in DOMAIN entries : IsUtf8(entries[i].value)

-----------------------------------------------------------------------------
(* Reading.                                                                *)

\* eq_ignore_ascii_case
Places(entries, key) == {i \in DOMAIN entries : entries[i].key = key}

\* parse_required_decimal: Ok(n) as {n}, MalformedField as {}.
RequiredDecimal(text) == IF IsUtf8(text) THEN CanonicalU16(text) ELSE {}

\* set_once
DuplicateKnownKey(entries) ==
    \E key \in KnownKeys : Cardinality(Places(entries, key)) > 1

Value(entries, key) == entries[CHOOSE i \in Places(entries, key) : TRUE].value

\* DiscoveryMetadataError
MetadataErrors == {"InvalidTxtKey", "TxtEntryTooLarge", "TotalMetadataTooLarge",
                   "MissingField", "DuplicateKnownKey", "MalformedField",
                   "UnsupportedSchemaVersion", "InvalidProtocolRange"}

RequiredError(entries, key) ==
    IF Places(entries, key) = {} THEN "MissingField"
    ELSE IF RequiredDecimal(Value(entries, key)) = {} THEN "MalformedField"
    ELSE "none"
Required(entries, key) == CHOOSE n \in RequiredDecimal(Value(entries, key)) : TRUE

\* The error from_txt_entries returns first, "none" if it succeeds.
TxtError(entries) ==
    IF TotalSize(entries) > MAX_DISCOVERY_TXT_BYTES THEN "TotalMetadataTooLarge"
    ELSE IF DuplicateKnownKey(entries) THEN "DuplicateKnownKey"
    ELSE IF RequiredError(entries, "dv") # "none" THEN RequiredError(entries, "dv")
    ELSE IF Required(entries, "dv") # DISCOVERY_SCHEMA_VERSION THEN "UnsupportedSchemaVersion"
    ELSE IF RequiredError(entries, "pmin") # "none" THEN RequiredError(entries, "pmin")
    ELSE IF RequiredError(entries, "pmax") # "none" THEN RequiredError(entries, "pmax")
    ELSE IF ~ProtocolRangeValid(Required(entries, "pmin"), Required(entries, "pmax"))
      THEN "InvalidProtocolRange"
    ELSE "none"

\* parse_optional_name
OptionalName(text) == IF IsUtf8(text) /\ NameHintError(text) = "none" THEN text ELSE <<>>

\* DiscoveryPlatformHint::parse
OptionalPlatform(text) == IF text \in {<<p>> : p \in PlatformHints} THEN text ELSE <<>>

\* The metadata from_txt_entries returns when it succeeds.
TxtMetadata(entries) ==
    Metadata(ProtocolRange(Required(entries, "pmin"), Required(entries, "pmax")),
             IF Places(entries, "name") = {} THEN <<>> ELSE OptionalName(Value(entries, "name")),
             IF Places(entries, "os") = {} THEN <<>> ELSE OptionalPlatform(Value(entries, "os")))
=============================================================================
