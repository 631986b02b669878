------------------------------ MODULE Formats ------------------------------
(***************************************************************************)
(* The formats of the program on their way to a reader: a pairing frame    *)
(* through a transport that damages it, a TXT record through mDNS          *)
(* implementations that change what they must not, a display name from the *)
(* text a user types to its file and to the record that announces it, and  *)
(* a line of the trusted-peer store that somebody edits.                   *)
(* A behaviour follows one of the four channels.                           *)
(***************************************************************************)
EXTENDS PairingMessage, DiscoveryMetadata, TrustedPeerLine

CONSTANTS
    Bytes,      \* byte values damage may write into a frame
    MaxLen,     \* bound on the length of a damaged frame
    MaxText,    \* bound on the length of a typed text
    MaxChanges  \* bound on the changes to one record or line

ASSUME FormatsAssumption ==
    Bytes \subseteq 0..255 /\ MaxLen \in Nat /\ MaxText \in Nat /\ MaxChanges \in Nat

VARIABLES
    channel,    \* which of the four this behaviour follows
    frame,      \* the pairing frame
    text,       \* the text typed for a display name
    sent,       \* the metadata announced
    record,     \* the TXT entries of the announcement, as they are now
    line,       \* the line of the trusted-peer store
    changes,    \* number of changes made to the record or the line
    harmed      \* whether a change was one that mDNS does not allow

vars == <<channel, frame, text, sent, record, line, changes, harmed>>
recordVars == <<sent, record, line, changes, harmed>>

-----------------------------------------------------------------------------
(* A frame.                                                                *)

FrameInit == channel = "frame" /\ frame \in {Encode(m) : m \in Messages}

OnFrame == channel = "frame" /\ UNCHANGED <<channel, text, recordVars>>

OverwriteByte ==
    /\ OnFrame
    /\ \E k \in (1..Len(frame)) \ {3}, b \in Bytes : frame' = [frame EXCEPT ![k] = b]

OverwriteId ==
    /\ OnFrame /\ Len(frame) >= 3
    /\ \E id \in AttemptIds : frame' = [frame EXCEPT ![3] = id]

Truncate == OnFrame /\ frame # <<>> /\ frame' = SubSeq(frame, 1, Len(frame) - 1)

Extend ==
    /\ OnFrame /\ Len(frame) < MaxLen
    /\ IF Len(frame) = 2 THEN \E id \in AttemptIds : frame' = Append(frame, id)
                         ELSE \E b \in Bytes : frame' = Append(frame, b)

-----------------------------------------------------------------------------
(* A display name.                                                         *)

Typed == {"letter", "wide", "space", "newline"}

\* Any one character fits into a hint.
ASSUME TypedAssumption == \A c \in Typed : Width(c) <= MAX_DISCOVERY_NAME_BYTES

\* The user types one more character.
Type ==
    /\ channel = "text" /\ Len(text) < MaxText
    /\ \E c \in Typed : text' = Append(text, c)
    /\ UNCHANGED <<channel, frame, recordVars>>

-----------------------------------------------------------------------------
(* A record.                                                               *)

Majors == {1, 2, U16_MAX}
Ranges == {r \in {ProtocolRange(a, b) : a \in Majors, b \in Majors} :
              ProtocolRangeValid(r.min, r.max)}

\* Names users chose that are as long as a hint may be, too long, or neither.
ChosenNames == {DeviceName(t) : t \in
    {<<"letter">>, <<"space", "letter", "space", "wide">>, <<"wide", "wide", "letter">>}}

Announcements ==
    {Metadata(r, n, p) : r \in Ranges,
                         n \in {<<>>} \cup {HintOf(name) : name \in ChosenNames},
                         p \in {<<>>, <<"windows">>}}

\* What another implementation, or another program, may put in a field: for a
\* version number its forms that parse but are not canonical, and one too large.
Values == {<<>>, <<"1">>, <<"2">>, <<"0", "1">>, <<"+", "1">>, Decimal[U16_MAX + 1],
           <<"broken">>, <<"letter">>, <<"newline">>, <<"space">>, <<"windows", "space">>,
           <<"wide", "wide">>}

OnRecord ==
    /\ channel = "record" /\ changes < MaxChanges
    /\ changes' = changes + 1
    /\ UNCHANGED <<channel, frame, text, sent, line>>

\* Changes that DNS-SD allows.
Swap ==
    /\ OnRecord /\ UNCHANGED harmed
    /\ \E i \in 1..(Len(record) - 1) :
          record' = [record EXCEPT ![i] = record[i + 1], ![i + 1] = record[i]]

ChangeCase ==
    /\ OnRecord /\ UNCHANGED harmed
    /\ \E i \in DOMAIN record : record' = [record EXCEPT ![i].upper = ~@]

ForeignValues == {<<>>, <<"broken">>, <<"wide", "wide", "wide">>}

\* The limits leave room for each entry, and for an announcement with the longest
\* of each: besides two versions and a name it takes 34 bytes.
ASSUME RoomAssumption ==
    LET digits == Len(Decimal[U16_MAX]) IN
    /\ U16_MAX >= 2
    /\ \A size \in {5 + digits, 5 + MAX_DISCOVERY_NAME_BYTES, 11} :
          size <= MAX_DISCOVERY_TXT_ENTRY_BYTES
    /\ 34 + 2 * digits + MAX_DISCOVERY_NAME_BYTES <= MAX_DISCOVERY_TXT_BYTES

AddUnknown ==
    /\ OnRecord /\ UNCHANGED harmed
    /\ \E v \in ForeignValues : record' = Append(record, Entry("x", v))

\* Changes that it does not.
DropEntry ==
    /\ OnRecord /\ harmed' = TRUE
    /\ \E i \in DOMAIN record : record' = RemoveAt(record, i)

Duplicate ==
    /\ OnRecord /\ harmed' = TRUE
    /\ \E i \in DOMAIN record, v \in Values :
          record' = Append(record, [record[i] EXCEPT !.upper = ~@, !.value = v])

Overwrite ==
    /\ OnRecord /\ harmed' = TRUE
    /\ \E i \in DOMAIN record, v \in Values :
          record' = [record EXCEPT ![i].value = v]

RecordInit ==
    /\ channel = "record"
    /\ sent \in Announcements /\ record = ToTxtEntries(sent)

-----------------------------------------------------------------------------
(* A line.                                                                 *)

\* Records with labels the parser's bound on hexadecimal digits leaves room for.
PeerRecords ==
    {PeerRecord(s, m, l) : s \in {0, 1, U16_MAX}, m \in {<<0>>, <<26>>, <<160, 9>>},
                           l \in {<<>>, <<97>>, <<97, 32, 97>>}}

\* The limits leave room for the longest of them.
ASSUME LineRoomAssumption ==
    /\ MAX_PEER_IDENTITY_BYTES >= 2
    /\ MAX_TRUSTED_PEER_LABEL_CHARS >= 3 /\ MAX_TRUSTED_PEER_LABEL_BYTES >= 6
    /\ 12 + Len(Decimal[U16_MAX]) <= MAX_RECORD_LINE_BYTES

OnLine ==
    /\ channel = "line" /\ changes < MaxChanges
    /\ changes' = changes + 1
    /\ UNCHANGED <<channel, frame, text, sent, record, harmed>>

\* One character is replaced, taken out or put in, or a field is.
EditCharacter ==
    /\ OnLine
    /\ \E f \in DOMAIN line, c \in {"0", "1", "2", "a", "A", "+", "-"} :
          \/ \E i \in DOMAIN line[f] : line' = [line EXCEPT ![f][i] = c]
          \/ \E i \in DOMAIN line[f] : line' = [line EXCEPT ![f] = RemoveAt(@, i)]
          \/ \E i \in 1..(Len(line[f]) + 1) : line' = [line EXCEPT ![f] = InsertAt(@, i, c)]

EditField ==
    /\ OnLine
    /\ \/ \E f \in DOMAIN line : line' = RemoveAt(line, f)
       \/ line' \in {Append(line, <<>>), Append(line, <<"-">>)}

-----------------------------------------------------------------------------
NoRecord == sent = Metadata(InitialRange, <<>>, <<>>) /\ record = <<>>

Init ==
    /\ text = <<>> /\ changes = 0 /\ harmed = FALSE
    /\ \/ FrameInit /\ NoRecord /\ line = <<>>
       \/ channel = "text" /\ frame = <<>> /\ NoRecord /\ line = <<>>
       \/ RecordInit /\ frame = <<>> /\ line = <<>>
       \/ /\ channel = "line" /\ line \in {EncodeLine(r) : r \in PeerRecords}
          /\ frame = <<>> /\ NoRecord

Next ==
    \/ OverwriteByte \/ OverwriteId \/ Truncate \/ Extend
    \/ Type
    \/ Swap \/ ChangeCase \/ AddUnknown \/ DropEntry \/ Duplicate \/ Overwrite
    \/ EditCharacter \/ EditField

Spec == Init /\ [][Next]_vars

-----------------------------------------------------------------------------
(* Properties.                                                             *)

\* decode accepts a frame exactly when encode produces it, and then returns
\* the message that was encoded: no damaged frame passes for a message, and
\* no two messages share a frame.
DecodeIsInverse ==
    LET sources == {m \in Messages : Encode(m) = frame} IN
    IF Decode(frame).ok THEN sources = {Decode(frame).value}
                        ELSE sources = {} /\ Decode(frame).value \in MessageErrors

\* from_txt_entries vouches only for what stands in the record: whatever was
\* done to it, metadata that is read, written out again, is the record's own
\* entry of each key, the only one, in the same bytes, and its versions are a
\* range of 16-bit numbers.  No two spellings of a version and no second entry can
\* make two readers see different devices, and nobody is offered a range that is
\* none or a version no program can have.
ReadsOnlyWhatWasSent ==
    IF TxtError(record) = "none"
      THEN LET read == TxtMetadata(record) IN
           /\ \A e \in ToSet(ToTxtEntries(read)) :
                 \E i \in DOMAIN record :
                     Places(record, e.key) = {i} /\ record[i].value = e.value
           /\ 0 <= read.protocols.min /\ read.protocols.min <= read.protocols.max
           /\ read.protocols.max <= U16_MAX
      ELSE TxtError(record) \in MetadataErrors

\* What a device announces can be advertised, fits the limit of every entry, and
\* is read back whole by every other device, in whatever order and case
\* the entries arrive and with any further keys the record has room for; both
\* sides then choose the same version.
AnnouncementsAreRead ==
    (channel = "record" /\ ~harmed) =>
        /\ Advertisable(sent)
        /\ \A i \in DOMAIN record : EntryError(record[i]) = "none"
        /\ IF TxtError(record) = "none"
             THEN /\ TxtMetadata(record) = sent
                  /\ \A own \in Ranges :
                        LET theirs == TxtMetadata(record).protocols
                            common == (own.min .. own.max) \cap (theirs.min .. theirs.max)
                        IN  /\ HighestCompatibleVersion(own, theirs)
                                  = HighestCompatibleVersion(theirs, own)
                            /\ HighestCompatibleVersion(own, theirs)
                                  = {v \in common : \A w \in common : w <= v}
             ELSE /\ TxtError(record) = "TotalMetadataTooLarge"
                  /\ TotalSize(record) > TotalSize(ToTxtEntries(sent))

\* A name that was accepted stays acceptable wherever it goes: read back from
\* the file it was written to it is the same name, and the hint made of it is
\* one its readers accept, the longest part of it from the start that fits.
NamesSurvive ==
    DeviceNameError(text) = "none" =>
        LET name == DeviceName(text)
            hint == HintOf(name)
            read == PersistedValue(Persisted(name))
        IN  /\ DeviceNameError(read) = "none" /\ DeviceName(read) = name
            /\ OptionalName(hint) = hint /\ hint # <<>> /\ IsPrefix(hint, name)
            /\ \A k \in (Len(hint) + 1)..Len(name) :
                  ByteLen(SubSeq(name, 1, k)) > MAX_DISCOVERY_NAME_BYTES

\* A line of the store names one identity in one spelling only, so that no two
\* lines bind the same key unnoticed; a record that was stored is read back as
\* it was; and whatever can be read, an edited line included, can be written
\* and read again without a change.
LinesAreCanonical ==
    channel = "line" =>
        /\ changes = 0 => LineError(line) = "none" /\ EncodeLine(LineRecord(line)) = line
        /\ IF LineError(line) = "none"
             THEN LET r == LineRecord(line)
                      again == EncodeLine(r)
                  IN  /\ again[1] = line[1] /\ again[2] = line[2]
                      /\ LineError(again) = "none" /\ LineRecord(again) = r
             ELSE LineError(line) \in MalformedStoreReasons \cup {"RecordTooLarge"}

\* The inductive invariant behind the theorems of FormatsProofs, part by part.
\* Damage leaves an identifier where a frame has one.
FrameIsShaped ==
    /\ frame \in Seq(AttemptIds \cup Nat)
    /\ Len(frame) >= BASE_MESSAGE_LEN => frame[3] \in AttemptIds

TextIsTyped == text \in Seq(Typed)

\* The characters of values and fields.
Characters ==
    {"letter", "wide", "space", "newline", "broken", "windows", "+", "-", "A",
     "0", "1", "2", "3", "4", "5", "6", "7", "8", "9", "a", "b", "c", "d", "e", "f"}

\* A record has entries of known keys and of one other.
TxtEntries == [key: KnownKeys \cup {"x"}, upper: BOOLEAN, value: Seq(Characters)]

RecordIsShaped ==
    /\ record \in Seq(TxtEntries)
    /\ channel = "record" => sent \in Announcements

\* What DNS-SD allows leaves every announced entry there once, and adds none of
\* a known key.
SameEntry(e, f) == e.key = f.key /\ e.value = f.value

EntriesAreKept ==
    (channel = "record" /\ ~harmed) =>
        LET own == ToTxtEntries(sent) IN
        /\ \A k \in DOMAIN own : \E i \in DOMAIN record : SameEntry(record[i], own[k])
        /\ \A i \in DOMAIN record :
              \/ \E k \in DOMAIN own : SameEntry(record[i], own[k])
              \/ record[i].key = "x" /\ record[i].value \in ForeignValues
        /\ \A i, j \in DOMAIN record :
              record[i].key = record[j].key /\ record[i].key # "x" => i = j

\* A line is what encode wrote until somebody edits it.
LineIsShaped ==
    /\ line \in Seq(Seq(Characters)) /\ changes \in Nat
    /\ channel = "line" /\ changes = 0 => line \in {EncodeLine(r) : r \in PeerRecords}

IInv ==
    /\ channel \in {"frame", "text", "record", "line"}
    /\ FrameIsShaped /\ TextIsTyped /\ RecordIsShaped /\ EntriesAreKept /\ LineIsShaped
=============================================================================
