----------------------- MODULE TrustedPeerStoreProofs -----------------------
(***************************************************************************)
(* Theorems about TrustedPeerStore, for any number of processes,           *)
(* identities and labels, with errors and deaths at every step and, where  *)
(* the specification is PowerSpec, with power losses.                      *)
(***************************************************************************)
EXTENDS TrustedPeerStore, TLAPS

\* What the invariant says of one process, its variables given by name.
Current(p) ==
    /\ InTransaction(p) => lock = p
    /\ pc[p] \in {"modify", "write", "rename"} => loaded[p] = file.records
    /\ pc[p] \in {"write", "rename", "syncFile", "syncDir"} =>
          pending[p] = Applied(op[p], loaded[p])
    /\ pc[p] \in {"syncFile", "syncDir"} => file.records = pending[p]

Loaded(p) ==
    /\ pc[p] # "idle" => op[p] \in Ops
    /\ pc[p] = "lock" \/ InWriteAll(p) => op[p].kind # "load"
    /\ InWriteAll(p) => file.kind # "garbage"

\* The versions agree with what was reported of identity i.
Durable(i) ==
    /\ \A f \in disk :
          /\ said[i].by = "store" => [id |-> i, label |-> said[i].label] \in f.records
          /\ said[i].by = "remove" => \A r \in f.records : r.id # i
    /\ said[i].by = "absent" => \A r \in file.records : r.id # i

\* The variables of every process but p are as they were.
OthersKeep(p) ==
    \A q \in Processes \ {p} :
        pc'[q] = pc[q] /\ op'[q] = op[q] /\ loaded'[q] = loaded[q] /\ pending'[q] = pending[q]

\* The verdicts on record.
Verdicts == [by : {"nobody", "store", "remove", "absent"}, label : Labels \cup {0}]

\* Applying a call to typed records yields typed records.
LEMMA AppliedTyped ==
  ASSUME NEW o \in Ops, NEW records \in SUBSET Record
  PROVE  Applied(o, records) \in SUBSET Record
BY DEF Applied, Ops, Record

\* The call returned: p is idle and holds nothing; nobody else notices.
LEMMA ReturnEffect ==
  ASSUME TypeOK, NEW p \in Processes, Return(p)
  PROVE  /\ pc'[p] = "idle" /\ OthersKeep(p)
         /\ pc' \in [Processes -> Steps] /\ op' \in [Processes -> Ops \cup {NoOp}]
         /\ loaded' \in [Processes -> SUBSET Record] /\ pending' \in [Processes -> SUBSET Record]
         /\ lock' \in Processes \cup {NoProcess}
         /\ \A q \in Processes \ {p} : lock = q => lock' = q
BY DEF Return, Goto, Unlock, TypeOK, OthersKeep, Steps

\* A report leaves typed verdicts.
LEMMA ReportTyped ==
  ASSUME said \in [Identities -> Verdicts], NEW i, NEW b, NEW l,
         b \in {"nobody", "store", "remove", "absent"}, l \in Labels \cup {0},
         Reports(i, b, l)
  PROVE  said' \in [Identities -> Verdicts]
BY DEF Reports, Verdicts

\* A process whose variables stay as they are stays current while the file does
\* and the lock is not taken from it.
LEMMA IdleCurrent ==
  ASSUME TransactionsAreCurrent, WritersHaveLoaded, NEW p \in Processes, OthersKeep(p),
         file' = file, \A q \in Processes \ {p} : lock = q => lock' = q
  PROVE  \A q \in Processes \ {p} : Current(q)' /\ Loaded(q)'
BY DEF TransactionsAreCurrent, WritersHaveLoaded, Current, Loaded, OthersKeep, InTransaction, InWriteAll

\* Any way out of a call that leaves the file alone keeps the invariant.
LEMMA ReturnKeeps ==
  ASSUME IInv, NEW p \in Processes, Return(p), UNCHANGED <<file, disk, said>>
  PROVE  IInv'
<1>1. /\ pc'[p] = "idle" /\ OthersKeep(p)
      /\ pc' \in [Processes -> Steps] /\ op' \in [Processes -> Ops \cup {NoOp}]
      /\ loaded' \in [Processes -> SUBSET Record] /\ pending' \in [Processes -> SUBSET Record]
      /\ lock' \in Processes \cup {NoProcess}
      /\ \A q \in Processes \ {p} : lock = q => lock' = q
  BY ReturnEffect DEF IInv
<1>2. TypeOK'
  BY <1>1 DEF IInv, TypeOK
<1>3. \A q \in Processes \ {p} : Current(q)' /\ Loaded(q)'
  BY <1>1, IdleCurrent DEF IInv
<1>4. Current(p)' /\ Loaded(p)'
  BY <1>1 DEF Current, Loaded, InTransaction, InWriteAll
<1>5. TransactionsAreCurrent' /\ WritersHaveLoaded'
  BY <1>3, <1>4 DEF TransactionsAreCurrent, WritersHaveLoaded, Current, Loaded
<1>6. (file \in disk)' /\ SuccessIsDurable'
  BY DEF IInv, SuccessIsDurable
<1> QED BY <1>2, <1>5, <1>6 DEF IInv

\* An error at any step that leaves the file alone keeps the invariant.
LEMMA FailsKeeps ==
  ASSUME IInv, NEW p \in Processes, Fails(p), file' = file, disk' = disk
  PROVE  IInv'
BY ReturnKeeps DEF Fails

\* A step of p within its call, past or before the rename: only the program
\* counter, the buffers and the lock of p change.
LEMMA ProceedKeeps ==
  ASSUME IInv, NEW p \in Processes, OthersKeep(p),
         UNCHANGED <<file, disk, said>>, lock' \in Processes \cup {NoProcess},
         \A q \in Processes \ {p} : lock = q => lock' = q,
         pc' \in [Processes -> Steps], op' \in [Processes -> Ops \cup {NoOp}],
         loaded' \in [Processes -> SUBSET Record], pending' \in [Processes -> SUBSET Record],
         Current(p)', Loaded(p)'
  PROVE  IInv'
<1>1. TypeOK'
  BY DEF IInv, TypeOK
<1>2. \A q \in Processes \ {p} : Current(q)' /\ Loaded(q)'
  BY IdleCurrent DEF IInv
<1>3. TransactionsAreCurrent' /\ WritersHaveLoaded'
  BY <1>2 DEF TransactionsAreCurrent, WritersHaveLoaded, Current, Loaded
<1>4. (file \in disk)' /\ SuccessIsDurable'
  BY DEF IInv, SuccessIsDurable
<1> QED BY <1>1, <1>3, <1>4 DEF IInv

-----------------------------------------------------------------------------
(* One lemma per action.                                                   *)

\* What the invariant says of p in its own terms.
LEMMA OfProcess ==
  ASSUME IInv, NEW p \in Processes
  PROVE  Current(p) /\ Loaded(p) /\ TypeOK
BY DEF IInv, TransactionsAreCurrent, WritersHaveLoaded, Current, Loaded

\* Starting a call.
LEMMA CallKeeps ==
  ASSUME IInv, NEW p \in Processes, NEW o \in Ops, Call(p, o)
  PROVE  IInv'
<1>1. TypeOK
  BY DEF IInv
<1>2. /\ pc'[p] = IF o.kind = "load" THEN "read" ELSE "lock"
      /\ op'[p] = o /\ pc' \in [Processes -> Steps] /\ op' \in [Processes -> Ops \cup {NoOp}]
      /\ OthersKeep(p) /\ UNCHANGED <<file, disk, lock, loaded, pending, said>>
  BY <1>1 DEF Call, Goto, TypeOK, Steps, OthersKeep
<1>3. Current(p)' /\ Loaded(p)'
  BY <1>2 DEF Current, Loaded, InTransaction, InWriteAll
<1> QED BY <1>1, <1>2, <1>3, ProceedKeeps DEF TypeOK

\* Taking the lock, or StoreBusy.
LEMMA LockKeeps ==
  ASSUME IInv, NEW p \in Processes, LockExclusive(p)
  PROVE  IInv'
<1>1. TypeOK /\ Current(p) /\ Loaded(p)
  BY OfProcess
<1>2. CASE Fails(p)
  BY <1>2, FailsKeeps DEF LockExclusive
<1>3. CASE ~Fails(p)
  <2>1. /\ lock = NoProcess /\ lock' = p /\ pc[p] = "lock" /\ pc'[p] = "read"
        /\ pc' \in [Processes -> Steps] /\ OthersKeep(p)
        /\ UNCHANGED <<file, disk, op, loaded, pending, said>>
    BY <1>1, <1>3 DEF LockExclusive, LockFree, Goto, TypeOK, Steps, OthersKeep
  <2>2. Current(p)' /\ Loaded(p)'
    BY <1>1, <2>1 DEF Current, Loaded, InTransaction, InWriteAll
  <2>3. \A q \in Processes \ {p} : lock # q
    BY <2>1, StoreAssumption
  <2> QED BY <1>1, <2>1, <2>2, <2>3, ProceedKeeps DEF TypeOK
<1> QED BY <1>2, <1>3

\* Loading.
LEMMA LoadKeeps ==
  ASSUME IInv, NEW p \in Processes, Load(p)
  PROVE  IInv'
<1>1. TypeOK /\ Current(p) /\ Loaded(p)
  BY OfProcess
<1>2. CASE Fails(p)
  BY <1>2, FailsKeeps DEF Load
<1>3. CASE ~Fails(p)
  <2>1. /\ Loads(file) /\ op[p].kind # "load" /\ pc[p] = "read"
        /\ loaded' = [loaded EXCEPT ![p] = file.records] /\ Goto(p, "modify")
        /\ UNCHANGED <<file, disk, lock, op, pending, said>>
    BY <1>3 DEF Load, Fails
  <2>2. /\ loaded'[p] = file.records /\ pc'[p] = "modify" /\ OthersKeep(p)
        /\ loaded' \in [Processes -> SUBSET Record] /\ pc' \in [Processes -> Steps]
    BY <1>1, <2>1 DEF Goto, TypeOK, Files, Steps, OthersKeep
  <2>3. file.kind # "garbage"
    BY <2>1 DEF Loads
  <2>4. Current(p)' /\ Loaded(p)'
    BY <1>1, <2>1, <2>2, <2>3 DEF Current, Loaded, InTransaction, InWriteAll
  <2> QED BY <1>1, <2>1, <2>2, <2>4, ProceedKeeps DEF TypeOK
<1> QED BY <1>2, <1>3

\* A remove that finds no record: what readers see lacks the identity.
LEMMA AbsentKeeps ==
  ASSUME IInv, NEW p \in Processes, Return(p), UNCHANGED <<file, disk>>,
         ReportsAbsent(op[p].id), op[p] \in Ops, \A r \in file.records : r.id # op[p].id
  PROVE  IInv'
<1> DEFINE by == IF said[op[p].id].by = "remove" THEN "remove" ELSE "absent"
<1>1. TypeOK /\ op[p].id \in Identities /\ Reports(op[p].id, by, 0)
  BY DEF IInv, Ops, ReportsAbsent
<1>2. /\ pc'[p] = "idle" /\ OthersKeep(p)
      /\ pc' \in [Processes -> Steps] /\ op' \in [Processes -> Ops \cup {NoOp}]
      /\ loaded' \in [Processes -> SUBSET Record] /\ pending' \in [Processes -> SUBSET Record]
      /\ lock' \in Processes \cup {NoProcess}
      /\ \A q \in Processes \ {p} : lock = q => lock' = q
  BY <1>1, ReturnEffect
<1>3. said' \in [Identities -> Verdicts]
  BY <1>1, ReportTyped DEF TypeOK, Verdicts
<1>4. TypeOK'
  BY <1>1, <1>2, <1>3 DEF TypeOK, Verdicts
<1>5. \A q \in Processes \ {p} : Current(q)' /\ Loaded(q)'
  BY <1>2, IdleCurrent DEF IInv
<1>6. Current(p)' /\ Loaded(p)'
  BY <1>2 DEF Current, Loaded, InTransaction, InWriteAll
<1>7. TransactionsAreCurrent' /\ WritersHaveLoaded'
  BY <1>5, <1>6 DEF TransactionsAreCurrent, WritersHaveLoaded, Current, Loaded
<1>8. \A i \in Identities : Durable(i)'
  <2> SUFFICES ASSUME NEW i \in Identities PROVE Durable(i)'
    OBVIOUS
  <2>1. Durable(i)
    BY DEF IInv, SuccessIsDurable, Durable
  <2>2. CASE i # op[p].id
    <3>1. said'[i] = said[i]
      BY <1>1, <2>2 DEF Reports, TypeOK
    <3> QED BY <2>1, <3>1 DEF Durable
  <2>3. CASE i = op[p].id
    <3>1. said'[i].by = by
      BY <1>1, <2>3 DEF Reports, TypeOK
    <3> QED BY <2>1, <2>3, <3>1 DEF Durable
  <2> QED BY <2>2, <2>3
<1>9. (file \in disk)' /\ SuccessIsDurable'
  BY <1>8 DEF IInv, SuccessIsDurable, Durable
<1> QED BY <1>4, <1>7, <1>9 DEF IInv

\* Modifying the loaded records, or returning with AlreadyAbsent.
LEMMA ModifyKeeps ==
  ASSUME IInv, NEW p \in Processes, Modify(p)
  PROVE  IInv'
<1>1. TypeOK /\ Current(p) /\ Loaded(p)
  BY OfProcess
<1>2. CASE Fails(p)
  BY <1>2, FailsKeeps DEF Modify
<1>3. CASE op[p].kind = "remove" /\ \A r \in loaded[p] : r.id # op[p].id
  <2>1. pc[p] = "modify" /\ Return(p) /\ ReportsAbsent(op[p].id) /\ UNCHANGED <<file, disk>>
    BY <1>3 DEF Modify
  <2>2. op[p] \in Ops /\ loaded[p] = file.records
    BY <1>1, <2>1 DEF Current, Loaded
  <2> QED BY <1>3, <2>1, <2>2, AbsentKeeps
<1>4. CASE ~Fails(p) /\ ~(op[p].kind = "remove" /\ \A r \in loaded[p] : r.id # op[p].id)
  <2>1. /\ pc[p] = "modify" /\ pending' = [pending EXCEPT ![p] = Applied(op[p], loaded[p])]
        /\ Goto(p, "write") /\ UNCHANGED <<file, disk, lock, op, loaded, said>>
    BY <1>4 DEF Modify
  <2>2. Applied(op[p], loaded[p]) \in SUBSET Record
    BY <1>1, <2>1, AppliedTyped DEF Loaded, TypeOK
  <2>3. /\ pending'[p] = Applied(op[p], loaded[p]) /\ pc'[p] = "write" /\ OthersKeep(p)
        /\ pending' \in [Processes -> SUBSET Record] /\ pc' \in [Processes -> Steps]
    BY <1>1, <2>1, <2>2 DEF Goto, TypeOK, Steps, OthersKeep
  <2>4. Current(p)' /\ Loaded(p)'
    BY <1>1, <2>1, <2>3 DEF Current, Loaded, InTransaction, InWriteAll
  <2> QED BY <1>1, <2>1, <2>3, <2>4, ProceedKeeps DEF TypeOK
<1> QED BY <1>2, <1>3, <1>4

\* Writing the temporary file, and syncing the replaced one.
LEMMA AdvanceKeeps ==
  ASSUME IInv, NEW p \in Processes, WriteTemporary(p) \/ SyncFile(p)
  PROVE  IInv'
<1>1. TypeOK /\ Current(p) /\ Loaded(p)
  BY OfProcess
<1>2. CASE Fails(p)
  BY <1>2, FailsKeeps DEF WriteTemporary, SyncFile
<1>3. CASE ~Fails(p)
  <2>1. /\ \/ pc[p] = "write" /\ Goto(p, "rename")
           \/ pc[p] = "syncFile" /\ Goto(p, "syncDir")
        /\ UNCHANGED <<file, disk, lock, op, loaded, pending, said>>
    BY <1>3 DEF WriteTemporary, SyncFile
  <2>2. /\ \/ pc[p] = "write" /\ pc'[p] = "rename"
           \/ pc[p] = "syncFile" /\ pc'[p] = "syncDir"
        /\ OthersKeep(p) /\ pc' \in [Processes -> Steps]
    BY <1>1, <2>1 DEF Goto, TypeOK, Steps, OthersKeep
  <2>3. Current(p)' /\ Loaded(p)'
    BY <1>1, <2>1, <2>2 DEF Current, Loaded, InTransaction, InWriteAll
  <2> QED BY <1>1, <2>1, <2>2, <2>3, ProceedKeeps DEF TypeOK
<1> QED BY <1>2, <1>3

\* The rename: the new version is the old one with the call applied.
LEMMA RenameKeeps ==
  ASSUME IInv, NEW p \in Processes, Rename(p)
  PROVE  IInv'
<1>1. TypeOK /\ Current(p) /\ Loaded(p) /\ pc[p] = "rename"
  BY OfProcess DEF Rename
<1>2. CASE Fails(p) /\ UNCHANGED <<file, disk>>
  BY <1>2, FailsKeeps
<1>3. CASE ~(Fails(p) /\ UNCHANGED <<file, disk>>)
  <2>1. /\ file' = Holding(pending[p]) /\ disk' = disk \cup {Holding(pending[p])}
        /\ Reports(op[p].id, "nobody", 0) /\ Goto(p, "syncFile")
        /\ UNCHANGED <<lock, op, loaded, pending>>
    BY <1>3 DEF Rename
  <2>2. pc'[p] = "syncFile" /\ OthersKeep(p) /\ pc' \in [Processes -> Steps]
    BY <1>1, <2>1 DEF Goto, TypeOK, Steps, OthersKeep
  <2>3. Holding(pending[p]) \in Files /\ Holding(pending[p]).records = pending[p]
          /\ Holding(pending[p]).kind # "garbage"
    BY <1>1 DEF Holding, Files, TypeOK
  <2>4. op[p] \in Ops /\ lock = p /\ pending[p] = Applied(op[p], file.records)
    BY <1>1 DEF Current, Loaded, InTransaction, InWriteAll
  <2>5. said' \in [Identities -> Verdicts]
    BY <1>1, <2>1, ReportTyped DEF TypeOK, Verdicts
  <2>6. TypeOK'
    BY <1>1, <2>1, <2>2, <2>3, <2>5 DEF TypeOK, Verdicts
  <2>7. \A q \in Processes \ {p} : Current(q)' /\ Loaded(q)'
    <3>1. \A q \in Processes \ {p} : ~InTransaction(q) /\ ~InWriteAll(q)
      BY <2>4 DEF IInv, TransactionsAreCurrent, InTransaction
    <3>2. \A q \in Processes \ {p} : ~InTransaction(q)' /\ ~InWriteAll(q)'
      BY <3>1, <2>1, <2>2 DEF OthersKeep, InTransaction, InWriteAll
    <3>3. \A q \in Processes \ {p} : Loaded(q)
      BY OfProcess
    <3> QED BY <3>2, <3>3, <2>2 DEF Current, Loaded, OthersKeep, InWriteAll
  <2>8. Current(p)' /\ Loaded(p)'
    BY <1>1, <2>1, <2>2, <2>3 DEF Current, Loaded, InTransaction, InWriteAll
  <2>9. TransactionsAreCurrent' /\ WritersHaveLoaded'
    BY <2>7, <2>8 DEF TransactionsAreCurrent, WritersHaveLoaded, Current, Loaded
  <2>10. SuccessIsDurable'
    <3> SUFFICES ASSUME NEW i \in Identities PROVE Durable(i)'
      BY DEF SuccessIsDurable, Durable
    <3>1. CASE i = op[p].id
      BY <1>1, <2>1, <3>1 DEF Reports, TypeOK, Durable
    <3>2. CASE i # op[p].id
      <4>1. said'[i] = said[i]
        BY <1>1, <2>1, <3>2 DEF Reports, TypeOK
      <4>2. Durable(i) /\ file \in disk
        BY DEF IInv, SuccessIsDurable, Durable
      <4>3. \A r \in file.records : r.id = i => r \in pending[p]
        BY <2>4, <3>2 DEF Applied
      <4>4. \A r \in pending[p] : r.id = i => r \in file.records
        BY <2>4, <3>2 DEF Applied
      <4>5. ASSUME NEW f \in disk', f \notin disk PROVE f.records = pending[p]
        BY <2>1, <2>3, <4>5
      <4>6. said[i].by = "store" =>
              \A f \in disk' : [id |-> i, label |-> said[i].label] \in f.records
        BY <4>2, <4>3, <4>5 DEF Durable
      <4>7. said[i].by = "remove" => \A f \in disk' : \A r \in f.records : r.id # i
        BY <4>2, <4>4, <4>5 DEF Durable
      <4>8. said[i].by = "absent" => \A r \in file'.records : r.id # i
        BY <2>1, <2>3, <4>2, <4>4 DEF Durable
      <4> QED BY <4>1, <4>6, <4>7, <4>8 DEF Durable
    <3> QED BY <3>1, <3>2
  <2> QED BY <2>1, <2>6, <2>9, <2>10 DEF IInv
<1> QED BY <1>2, <1>3

\* The directory sync and success: every version left holds the call's effect.
LEMMA SyncDirKeeps ==
  ASSUME IInv, NEW p \in Processes, SyncDir(p)
  PROVE  IInv'
<1>1. TypeOK /\ Current(p) /\ Loaded(p) /\ pc[p] = "syncDir" /\ file' = file
  BY OfProcess DEF SyncDir
<1>2. CASE Fails(p) /\ UNCHANGED disk
  BY <1>1, <1>2, FailsKeeps
<1>3. CASE ~(Fails(p) /\ UNCHANGED disk)
  <2> DEFINE label == IF op[p].kind = "store" THEN op[p].label ELSE 0
  <2>1. disk' = {file} /\ Return(p) /\ Reports(op[p].id, op[p].kind, label)
    BY <1>3 DEF SyncDir, DirectorySync
  <2>2. /\ op[p] \in Ops /\ op[p].kind \in {"store", "remove"} /\ label \in Labels \cup {0}
        /\ file.records = Applied(op[p], loaded[p])
    BY <1>1 DEF Current, Loaded, InWriteAll, Ops
  <2>3. said' \in [Identities -> Verdicts]
    BY <1>1, <2>1, <2>2, ReportTyped DEF TypeOK, Verdicts
  <2>4. /\ pc'[p] = "idle" /\ OthersKeep(p)
        /\ pc' \in [Processes -> Steps] /\ op' \in [Processes -> Ops \cup {NoOp}]
        /\ loaded' \in [Processes -> SUBSET Record] /\ pending' \in [Processes -> SUBSET Record]
        /\ lock' \in Processes \cup {NoProcess}
        /\ \A q \in Processes \ {p} : lock = q => lock' = q
    BY <1>1, <2>1, ReturnEffect
  <2>5. TypeOK'
    BY <1>1, <2>1, <2>3, <2>4 DEF TypeOK, Verdicts
  <2>6. \A q \in Processes \ {p} : Current(q)' /\ Loaded(q)'
    BY <1>1, <2>4, IdleCurrent DEF IInv
  <2>7. Current(p)' /\ Loaded(p)'
    BY <2>4 DEF Current, Loaded, InTransaction, InWriteAll
  <2>8. TransactionsAreCurrent' /\ WritersHaveLoaded'
    BY <2>6, <2>7 DEF TransactionsAreCurrent, WritersHaveLoaded, Current, Loaded
  <2>9. SuccessIsDurable'
    <3> SUFFICES ASSUME NEW i \in Identities
                 PROVE  /\ said'[i].by = "store" =>
                             [id |-> i, label |-> said'[i].label] \in file.records
                        /\ said'[i].by \in {"remove", "absent"} =>
                             \A r \in file.records : r.id # i
      BY <1>1, <2>1 DEF SuccessIsDurable
    <3>1. CASE i = op[p].id
      <4>1. said'[i] = [by |-> op[p].kind, label |-> label]
        BY <1>1, <2>1, <3>1 DEF Reports, TypeOK
      <4>2. op[p].kind = "store" => [id |-> i, label |-> label] \in file.records
        BY <2>2, <3>1 DEF Applied
      <4>3. op[p].kind = "remove" => \A r \in file.records : r.id # i
        BY <2>2, <3>1 DEF Applied
      <4> QED BY <2>2, <4>1, <4>2, <4>3
    <3>2. CASE i # op[p].id
      BY <1>1, <2>1, <3>2 DEF Reports, TypeOK, IInv, SuccessIsDurable
    <3> QED BY <3>1, <3>2
  <2> QED BY <1>1, <2>1, <2>5, <2>8, <2>9 DEF IInv
<1> QED BY <1>2, <1>3

\* The death of a process: its lock goes with it.
LEMMA DieKeeps ==
  ASSUME IInv, NEW p \in Processes, Die(p)
  PROVE  IInv'
BY ReturnKeeps DEF Die, IInv, TypeOK, Verdicts

\* A power loss: no call survives, and the store is a version success agreed with.
LEMMA PowerLossKeeps ==
  ASSUME IInv, PowerLoss
  PROVE  IInv'
<1>0. said' \in [Identities -> Verdicts]
  BY DEF IInv, TypeOK, PowerLoss, Nothing, Verdicts
<1>1. TypeOK'
  BY <1>0 DEF IInv, TypeOK, PowerLoss, Steps, Verdicts
<1>2. TransactionsAreCurrent' /\ WritersHaveLoaded'
  BY DEF PowerLoss, TransactionsAreCurrent, WritersHaveLoaded, InTransaction, InWriteAll
<1>3. (file \in disk)' /\ SuccessIsDurable'
  BY DEF IInv, PowerLoss, SuccessIsDurable, Nothing
<1> QED BY <1>1, <1>2, <1>3 DEF IInv

-----------------------------------------------------------------------------
(* The theorems.                                                           *)

\* The invariant holds at the start.
LEMMA InitHolds == ASSUME Init PROVE IInv
<1>1. file \in Files
  BY DEF Init, Files, Missing, Holding, Record
<1>2. TypeOK
  BY <1>1 DEF Init, TypeOK, Steps, Nothing
<1>3. TransactionsAreCurrent /\ WritersHaveLoaded
  BY DEF Init, TransactionsAreCurrent, WritersHaveLoaded, InTransaction, InWriteAll
<1>4. file \in disk /\ SuccessIsDurable
  BY DEF Init, SuccessIsDurable, Nothing
<1> QED BY <1>2, <1>3, <1>4 DEF IInv

\* Every step keeps it, power losses included.
LEMMA NextKeeps == ASSUME IInv, [Next \/ PowerLoss]_vars PROVE IInv'
<1>1. CASE UNCHANGED vars
  BY <1>1 DEF vars, IInv, TypeOK, TransactionsAreCurrent, WritersHaveLoaded, SuccessIsDurable,
         InTransaction, InWriteAll
<1>2. ASSUME NEW p \in Processes, Step(p) PROVE IInv'
  BY <1>2, LockKeeps, LoadKeeps, ModifyKeeps, AdvanceKeeps, RenameKeeps, SyncDirKeeps DEF Step
<1> QED BY <1>1, <1>2, CallKeeps, DieKeeps, PowerLossKeeps DEF Next

\* The inductive invariant, with power losses.
THEOREM Inductive == PowerSpec => []IInv
<1>1. Init => IInv
  BY InitHolds
<1>2. IInv /\ [Next \/ PowerLoss]_vars => IInv'
  BY NextKeeps
<1> QED BY <1>1, <1>2, PTL DEF PowerSpec

\* A behaviour without power losses is one of PowerSpec.
LEMMA SpecIsPowerSpec == Spec => PowerSpec
<1>1. [Next]_vars => [Next \/ PowerLoss]_vars
  OBVIOUS
<1> QED BY <1>1, PTL DEF Spec, PowerSpec

\* Every variable keeps its type.
THEOREM TypeCorrect == Spec => []TypeOK
<1>1. IInv => TypeOK
  BY DEF IInv
<1> QED BY <1>1, Inductive, SpecIsPowerSpec, PTL

\* Until it replaces the store, a transaction works on what the store holds.
THEOREM TransactionsStayCurrent == Spec => []TransactionsAreCurrent
<1>1. IInv => TransactionsAreCurrent
  BY DEF IInv
<1> QED BY <1>1, Inductive, SpecIsPowerSpec, PTL

\* What store reported, and remove when it reported Removed, survives a power loss
\* at any moment; AlreadyAbsent agrees with what readers see.
THEOREM SuccessSurvivesPowerLoss == PowerSpec => []SuccessIsDurable
<1>1. IInv => SuccessIsDurable
  BY DEF IInv
<1> QED BY <1>1, Inductive, PTL

\* No step but the rename changes the file.
LEMMA OnlyRenameReplaces ==
  ASSUME [Next]_vars
  PROVE  \/ file' = file
         \/ \E p \in Processes : Rename(p) /\ file' = Holding(pending[p])
BY DEF Next, Step, vars, Call, LockExclusive, Load, Modify, WriteTemporary, Rename, SyncFile,
       SyncDir, Die

\* No call ever turns a damaged store into a set of records.
THEOREM CorruptionStays == Spec => CorruptionIsKept
<1>1. IInv /\ [Next]_vars => [file.kind = "garbage" => file' = file]_vars
  <2> SUFFICES ASSUME IInv, [Next]_vars, file.kind = "garbage" PROVE file' = file
    OBVIOUS
  <2>1. ASSUME NEW p \in Processes, Rename(p) PROVE FALSE
    BY <2>1 DEF IInv, WritersHaveLoaded, InWriteAll, Rename
  <2> QED BY <2>1, OnlyRenameReplaces
<1> QED BY <1>1, Inductive, SpecIsPowerSpec, PTL DEF Spec, CorruptionIsKept

\* The store is a set changed by atomic puts and removals: no update is lost.
THEOREM RefinesSet == Spec => ImplementsSet
<1>1. Init => Set!Init
  BY DEF Init, Set!Init, Missing, Holding, Record
<1>2. IInv /\ [Next]_vars => [Set!Next]_(file.records)
  <2> SUFFICES ASSUME IInv, [Next]_vars, file' # file
               PROVE  Set!Next
    OBVIOUS
  <2>1. PICK p \in Processes : Rename(p) /\ file' = Holding(pending[p])
    BY OnlyRenameReplaces
  <2>2. op[p] \in Ops /\ pending[p] = Applied(op[p], file.records)
    BY <2>1, OfProcess DEF Rename, Current, Loaded
  <2>3. file'.records = pending[p]
    BY <2>1 DEF Holding
  <2>4. CASE op[p].kind = "store"
    BY <2>2, <2>3, <2>4 DEF Applied, Set!Next, Set!Put, Ops
  <2>5. CASE op[p].kind # "store"
    BY <2>2, <2>3, <2>5 DEF Applied, Set!Next, Set!Forget, Ops
  <2> QED BY <2>4, <2>5
<1> QED BY <1>1, <1>2, Inductive, SpecIsPowerSpec, PTL DEF Spec, ImplementsSet, Set!Spec

\* What a writer is about to rename can be loaded.
PendingLoads ==
    /\ file.kind = "missing" => file.records = {}
    /\ \A p \in Processes : pc[p] \in {"write", "rename"} => Loads(Holding(pending[p]))

\* Replacing one identity's record keeps the identities distinct.
LEMMA AppliedUnique ==
  ASSUME NEW o, NEW records, UniqueIds(records)
  PROVE  UniqueIds(Applied(o, records))
BY DEF UniqueIds, Applied

\* If every label in use is short enough for parse_record, the store can always
\* be loaded again: the label test is the only way to an unreadable store.
THEOREM NarrowLabelsStayLoadable ==
  ASSUME \A r \in Record : ParsesRecord(r)
  PROVE  Spec => []StoreStaysLoadable
<1>1. Init => StoreStaysLoadable /\ PendingLoads
  BY DEF Init, StoreStaysLoadable, PendingLoads, Missing, Holding
<1>2. IInv /\ StoreStaysLoadable /\ PendingLoads /\ [Next]_vars
        => StoreStaysLoadable' /\ PendingLoads'
  <2> SUFFICES ASSUME IInv, StoreStaysLoadable, PendingLoads, [Next]_vars
               PROVE  StoreStaysLoadable' /\ PendingLoads'
    OBVIOUS
  <2>1. StoreStaysLoadable' /\ (file'.kind = "missing" => file'.records = {})
    <3>1. CASE file' = file
      BY <3>1 DEF StoreStaysLoadable, PendingLoads
    <3>2. CASE \E p \in Processes : Rename(p) /\ file' = Holding(pending[p])
      BY <3>2 DEF StoreStaysLoadable, PendingLoads, Rename, Holding
    <3> QED BY <3>1, <3>2, OnlyRenameReplaces
  <2>2. ASSUME NEW q \in Processes, pc'[q] \in {"write", "rename"}
        PROVE  Loads(Holding(pending'[q]))
    <3>1. TypeOK
      BY DEF IInv
    <3>2. \/ Modify(q) /\ pending'[q] = Applied(op[q], loaded[q])
               /\ FitsCapacity(pending'[q]) /\ EncodedBytes(pending'[q]) <= MAX_STORE_BYTES
          \/ pc[q] \in {"write", "rename"} /\ pending'[q] = pending[q]
      BY <2>2, <3>1 DEF Next, Step, vars, Call, LockExclusive, Load, Modify, WriteTemporary, Rename,
           SyncFile, SyncDir, Die, Return, Fails, Goto, TypeOK
    <3>3. CASE pc[q] \in {"write", "rename"} /\ pending'[q] = pending[q]
      BY <3>3 DEF PendingLoads
    <3>4. CASE Modify(q) /\ pending'[q] = Applied(op[q], loaded[q])
               /\ FitsCapacity(pending'[q]) /\ EncodedBytes(pending'[q]) <= MAX_STORE_BYTES
      <4>1. /\ loaded[q] = file.records /\ file.kind # "garbage" /\ op[q] \in Ops
        BY <3>4, OfProcess DEF Modify, Current, Loaded, InWriteAll
      <4>2. UniqueIds(loaded[q])
        BY <4>1 DEF StoreStaysLoadable, Loads, PendingLoads, UniqueIds
      <4>3. UniqueIds(pending'[q]) /\ pending'[q] \in SUBSET Record
        BY <3>1, <3>4, <4>1, <4>2, AppliedUnique, AppliedTyped DEF TypeOK
      <4> QED BY <3>4, <4>3 DEF Loads, ReadsWhole, Holding, FitsCapacity
    <3> QED BY <3>2, <3>3, <3>4
  <2> QED BY <2>1, <2>2 DEF PendingLoads
<1> QED BY <1>1, <1>2, Inductive, SpecIsPowerSpec, PTL DEF Spec
=============================================================================
