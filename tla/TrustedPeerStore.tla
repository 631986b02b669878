-------------------------- MODULE TrustedPeerStore --------------------------
(***************************************************************************)
(* The durable trusted-peer store (trusted_peers.rs, persistence.rs) used  *)
(* by several processes at once: store and remove as the steps of their    *)
(* locked load-modify-replace transaction, load without the lock, an I/O   *)
(* error or the death of the process possible at every step, and a power   *)
(* loss that may undo renames whose directory was not synced.              *)
(*                                                                         *)
(* A label is abstracted to its length in UTF-8 bytes, 0 for no label; a   *)
(* store file to the records its lines hold.                               *)
(***************************************************************************)
EXTENDS Integers, FiniteSets, FiniteSetsExt

CONSTANTS
    Processes,            \* processes of the same user
    Identities,           \* PeerKeyIdentity values, each IdentityBytes long in a line
    Labels,               \* byte lengths of the labels in use
    MAX_TRUSTED_PEERS,
    MAX_STORE_BYTES,
    NoProcess             \* nobody holds the lock

\* scheme, blank, hex of the material, blank: what a line holds before its label
IdentityBytes == 135
HeaderBytes == 32
MAX_RECORD_LINE_BYTES == 512
MAX_LABEL_BYTES == 256

ASSUME StoreAssumption ==
    /\ MAX_TRUSTED_PEERS \in Nat /\ MAX_STORE_BYTES \in Nat
    /\ NoProcess \notin Processes
    /\ Labels \subseteq 0..(4 * 64)     \* at most 64 characters of 4 bytes

VARIABLES
    file,       \* what the store path shows: [kind, records]
    disk,       \* what a power loss may leave there
    lock,       \* the process holding trusted-peers.lock, or NoProcess
    pc,         \* where each process is
    op,         \* the call each process is making
    loaded,     \* the records its load returned
    pending,    \* the records it is about to write
    said        \* history: what was last reported of each identity

vars == <<file, disk, lock, pc, op, loaded, pending, said>>

Record == [id : Identities, label : Labels]
Missing == [kind |-> "missing", records |-> {}]
Holding(records) == [kind |-> "records", records |-> records]
Files == [kind : {"missing", "records", "garbage"}, records : SUBSET Record]

Ops == [kind : {"store", "remove", "load"}, id : Identities, label : Labels]
NoOp == [kind |-> "none", id |-> "none", label |-> 0]
Steps == {"idle", "lock", "read", "modify", "write", "rename", "syncFile", "syncDir"}
Nothing == [by |-> "nobody", label |-> 0]

-----------------------------------------------------------------------------
(* The file format.                                                        *)

\* encode: the bytes of one line, without the line break, and of the file.
LineBytes(r) == IdentityBytes + (IF r.label = 0 THEN 1 ELSE 2 * r.label)
EncodedBytes(records) ==
    HeaderBytes + MapThenSumSet(LAMBDA r : LineBytes(r) + 1, records)

\* parse_record: the two length tests a line of well-formed fields can fail.
\* The hexadecimal digits of the label, two per byte, are compared with the
\* bound on its bytes.
ParsesRecord(r) ==
    /\ LineBytes(r) <= MAX_RECORD_LINE_BYTES
    /\ 2 * r.label <= MAX_LABEL_BYTES

UniqueIds(records) == \A r, q \in records : r.id = q.id => r = q

\* read_store_bytes: nothing larger than the ceiling is read.
ReadsWhole(f) == EncodedBytes(f.records) <= MAX_STORE_BYTES

\* Mutant: a store that cannot be decoded counts as an empty one.
LoadsGarbage(f) == f.kind = "garbage" \/ Cardinality(f.records) <= MAX_TRUSTED_PEERS

\* read_store_bytes and decode: the whole load fails closed, or yields all.
Loads(f) ==
    \/ f.kind = "missing"
    \/ /\ f.kind = "records"
       /\ ReadsWhole(f)
       /\ Cardinality(f.records) <= MAX_TRUSTED_PEERS
       /\ \A r \in f.records : ParsesRecord(r)
       /\ UniqueIds(f.records)

-----------------------------------------------------------------------------
(* The steps of a call.                                                    *)

\* The store may be missing, hold a record of an earlier run, or be damaged.
Init ==
    /\ file \in {Missing, [kind |-> "garbage", records |-> {}]}
                \cup {Holding({r}) : r \in {x \in Record : ParsesRecord(x)}}
    /\ Loads(file) \/ file.kind = "garbage"
    /\ disk = {file}
    /\ lock = NoProcess
    /\ pc = [p \in Processes |-> "idle"]
    /\ op = [p \in Processes |-> NoOp]
    /\ loaded = [p \in Processes |-> {}]
    /\ pending = [p \in Processes |-> {}]
    /\ said = [i \in Identities |-> Nothing]

InWriteAll(p) == pc[p] \in {"modify", "write", "rename", "syncFile", "syncDir"}

Goto(p, step) == pc' = [pc EXCEPT ![p] = step]

\* Mutant: the lock is kept when the call fails before its rename.
LeaksLock(p) == lock' = IF lock = p /\ pc[p] \in {"syncFile", "syncDir"} THEN NoProcess ELSE lock

\* StoreLock::drop, on every way out of a call.
Unlock(p) == lock' = IF lock = p THEN NoProcess ELSE lock

\* The call returns: the lock guard drops and the buffers are gone.
Return(p) ==
    /\ Goto(p, "idle")
    /\ Unlock(p)
    /\ op' = [op EXCEPT ![p] = NoOp]
    /\ loaded' = [loaded EXCEPT ![p] = {}]
    /\ pending' = [pending EXCEPT ![p] = {}]

Reports(i, by, label) == said' = [said EXCEPT ![i] = [by |-> by, label |-> label]]

\* Ok(AlreadyAbsent), which reaches no disk: what an earlier remove made durable
\* stays so, and otherwise only what readers see has been looked at.
ReportsAbsent(i) ==
    Reports(i, IF said[i].by = "remove" THEN "remove" ELSE "absent", 0)

\* An error of the step the call is at: it returns with what it did so far.
Fails(p) == Return(p) /\ UNCHANGED said

\* TrustedPeerStore::store, ::remove or ::load is called.
Call(p, o) ==
    /\ pc[p] = "idle"
    /\ op' = [op EXCEPT ![p] = o]
    /\ Goto(p, IF o.kind = "load" THEN "read" ELSE "lock")
    /\ UNCHANGED <<file, disk, lock, loaded, pending, said>>

\* Mutant: the advisory lock is not exclusive.
LockIgnoresHolder(p) == TRUE

\* try_lock succeeds when no other open handle holds the lock.
LockFree(p) == lock = NoProcess

\* lock_exclusive: StoreBusy without waiting; opening the lock file may fail.
LockExclusive(p) ==
    /\ pc[p] = "lock"
    /\ \/ /\ LockFree(p)
          /\ lock' = p
          /\ Goto(p, "read")
          /\ UNCHANGED <<op, loaded, pending, said>>
       \/ Fails(p)
    /\ UNCHANGED <<file, disk>>

\* load: the file pinned when it was opened is decoded as a whole, or not at
\* all; a lock-free load ends here.
Load(p) ==
    /\ pc[p] = "read"
    /\ \/ Loads(file) /\ op[p].kind = "load" /\ Return(p) /\ UNCHANGED said
       \/ /\ Loads(file) /\ op[p].kind # "load"
          /\ loaded' = [loaded EXCEPT ![p] = file.records]
          /\ Goto(p, "modify")
          /\ UNCHANGED <<lock, op, pending, said>>
       \/ Fails(p)
    /\ UNCHANGED <<file, disk>>

\* Mutant: store appends without dropping the record it replaces.
AppliedWithoutFilter(o, records) ==
    IF o.kind = "store" THEN records \cup {[id |-> o.id, label |-> o.label]}
                        ELSE {r \in records : r.id # o.id}

\* Mutant: the label of the record is lost.
AppliedWithoutLabel(o, records) ==
    {r \in records : r.id # o.id}
        \cup IF o.kind = "store" THEN {[id |-> o.id, label |-> 0]} ELSE {}

\* The filter of store and remove, and the push of store.
Applied(o, records) ==
    {r \in records : r.id # o.id}
        \cup IF o.kind = "store" THEN {[id |-> o.id, label |-> o.label]} ELSE {}

\* The capacity test of write_all.
FitsCapacity(records) == Cardinality(records) <= MAX_TRUSTED_PEERS

\* remove of an absent identity succeeds at once; otherwise write_all refuses a
\* set that is too large and takes the rest to a temporary file.
Modify(p) ==
    LET next == Applied(op[p], loaded[p]) IN
    /\ pc[p] = "modify"
    /\ IF op[p].kind = "remove" /\ \A r \in loaded[p] : r.id # op[p].id
         THEN Return(p) /\ ReportsAbsent(op[p].id)
       ELSE IF ~(FitsCapacity(next) /\ EncodedBytes(next) <= MAX_STORE_BYTES)
         THEN Fails(p)
       ELSE /\ pending' = [pending EXCEPT ![p] = next]
            /\ Goto(p, "write")
            /\ UNCHANGED <<lock, op, loaded, said>>
    /\ UNCHANGED <<file, disk>>

\* create_synced_temporary: written and flushed under another name, or an error.
WriteTemporary(p) ==
    /\ pc[p] = "write"
    /\ \/ Goto(p, "rename") /\ UNCHANGED <<lock, op, loaded, pending, said>>
       \/ Fails(p)
    /\ UNCHANGED <<file, disk>>

\* NamedTempFile::persist: the rename is visible at once and durable later.
Rename(p) ==
    /\ pc[p] = "rename"
    /\ \/ /\ file' = Holding(pending[p])
          /\ disk' = disk \cup {Holding(pending[p])}
          /\ Reports(op[p].id, "nobody", 0)
          /\ Goto(p, "syncFile")
          /\ UNCHANGED <<lock, op, loaded, pending>>
       \/ Fails(p) /\ UNCHANGED <<file, disk>>

\* sync_all of the replaced file.
SyncFile(p) ==
    /\ pc[p] = "syncFile"
    /\ \/ Goto(p, "syncDir") /\ UNCHANGED <<lock, op, loaded, pending, said>>
       \/ Fails(p)
    /\ UNCHANGED <<file, disk>>

\* Mutant: the directory is not flushed before success is reported.
NoDirectorySync == disk' = disk

\* sync_parent_directory: no earlier version can come back.
DirectorySync == disk' = {file}

\* sync_parent_directory and the success of the call.
SyncDir(p) ==
    /\ pc[p] = "syncDir"
    /\ \/ /\ DirectorySync
          /\ Return(p)
          /\ Reports(op[p].id, op[p].kind, IF op[p].kind = "store" THEN op[p].label ELSE 0)
       \/ Fails(p) /\ UNCHANGED disk
    /\ UNCHANGED file

\* The process dies: the operating system releases its lock.
Die(p) ==
    /\ pc[p] # "idle"
    /\ Return(p)
    /\ UNCHANGED <<file, disk, said>>

\* The machine loses power and restarts: no process survives, and the store is
\* one of the versions the disk may hold.  AlreadyAbsent promises nothing of it.
PowerLoss ==
    /\ file' \in disk
    /\ disk' = {file'}
    /\ lock' = NoProcess
    /\ pc' = [p \in Processes |-> "idle"]
    /\ op' = [p \in Processes |-> NoOp]
    /\ loaded' = [p \in Processes |-> {}]
    /\ pending' = [p \in Processes |-> {}]
    /\ said' = [i \in Identities |-> IF said[i].by = "absent" THEN Nothing ELSE said[i]]

Step(p) ==
    \/ LockExclusive(p) \/ Load(p) \/ Modify(p) \/ WriteTemporary(p)
    \/ Rename(p) \/ SyncFile(p) \/ SyncDir(p)

Next == \E p \in Processes : (\E o \in Ops : Call(p, o)) \/ Step(p) \/ Die(p)

Spec == Init /\ [][Next]_vars

\* A running call goes on to its end.
FairSpec == Spec /\ \A p \in Processes : WF_vars(Step(p))

PowerSpec == Init /\ [][Next \/ PowerLoss]_vars

-----------------------------------------------------------------------------
(* Properties.                                                             *)

\* Every variable has the shape its type gives it.
TypeOK ==
    /\ file \in Files
    /\ disk \subseteq Files
    /\ lock \in Processes \cup {NoProcess}
    /\ pc \in [Processes -> Steps]
    /\ op \in [Processes -> Ops \cup {NoOp}]
    /\ loaded \in [Processes -> SUBSET Record]
    /\ pending \in [Processes -> SUBSET Record]
    /\ said \in [Identities -> [by : {"nobody", "store", "remove", "absent"},
                                label : Labels \cup {0}]]

\* Past the lock of a store or remove.
InTransaction(p) ==
    InWriteAll(p) \/ (pc[p] = "read" /\ op[p].kind # "load")

\* A transaction works on what the store really holds until it replaces it: the
\* lock keeps every other writer out, through every error and every death.
TransactionsAreCurrent ==
    \A p \in Processes :
        /\ InTransaction(p) => lock = p
        /\ pc[p] \in {"modify", "write", "rename"} => loaded[p] = file.records
        /\ pc[p] \in {"write", "rename", "syncFile", "syncDir"} =>
              pending[p] = Applied(op[p], loaded[p])
        /\ pc[p] \in {"syncFile", "syncDir"} => file.records = pending[p]

\* Whatever mix of calls, errors and deaths, what a store shows its readers can
\* be loaded, unless it was damaged from outside at the start.
StoreStaysLoadable == Loads(file) \/ file.kind = "garbage"

\* A damaged store is never replaced: no call turns corruption into a set of
\* records, empty or otherwise.
CorruptionIsKept == [][file.kind = "garbage" => file' = file]_vars

Set == INSTANCE TrustedPeerSet WITH trusted <- file.records

\* The store as its readers see it is a set changed by atomic puts and removals
\* only: no update is lost and no stale writer brings a removed record back.
ImplementsSet == Set!Spec

\* Until a later call replaces that record, every version a power loss can leave
\* agrees with a store that reported success and with a remove that reported
\* Removed.  A remove that reported AlreadyAbsent synced nothing: what readers see
\* agrees with it, but a power loss may undo the rename of another process that
\* it saw.
SuccessIsDurable ==
    \A i \in Identities :
        /\ \A f \in disk :
              /\ said[i].by = "store" => [id |-> i, label |-> said[i].label] \in f.records
              /\ said[i].by = "remove" => \A r \in f.records : r.id # i
        /\ said[i].by = "absent" => \A r \in file.records : r.id # i

\* Only a store or remove that loaded the store gets to replace it.
WritersHaveLoaded ==
    \A p \in Processes :
        /\ pc[p] # "idle" => op[p] \in Ops
        /\ pc[p] = "lock" \/ InWriteAll(p) => op[p].kind # "load"
        /\ InWriteAll(p) => file.kind # "garbage"

\* The inductive invariant behind the theorems of TrustedPeerStoreProofs.
IInv ==
    /\ TypeOK /\ TransactionsAreCurrent /\ WritersHaveLoaded
    /\ file \in disk /\ SuccessIsDurable

\* The lock is never left behind: whoever holds it lets go, by finishing, by an
\* error or by dying, and every call returns.
LockIsReleased ==
    /\ \A p \in Processes : lock = p ~> lock # p
    /\ \A p \in Processes : pc[p] # "idle" ~> pc[p] = "idle"
=============================================================================
