------------------------- MODULE LocalDeviceProofs -------------------------
(***************************************************************************)
(* Proofs about LocalDevice, for any number of processes, identifiers,     *)
(* names and losses of power: the identity is one and permanent, with no   *)
(* lock, because the only write of the identifier refuses to replace a     *)
(* file and its losers read what is there; no file is ever torn, because   *)
(* contents are flushed before they get the name; and a load leaves the    *)
(* directory and both files private, because whoever creates the directory *)
(* narrows it before a file comes into it.                                 *)
(***************************************************************************)
EXTENDS LocalDevice, TLAPS

LEMMA Distinct ==
    /\ Missing \notin DeviceIds /\ Missing \notin Names
    /\ Corrupt \notin DeviceIds /\ Corrupt \notin Names /\ Missing # Corrupt
BY DeviceAssumption

\* A call that returns keeps the invariant if what it reports is the identity.
LEMMA ReturnKeepsIInv ==
    ASSUME IInv, NEW p \in Processes, Return(p),
           returned' \subseteq DeviceIds \cap {file["id"]},
           UNCHANGED <<target, fileVars, drawn, damaged, power>>
    PROVE  IInv'
<1>1. TypeOK'
  BY DEF IInv, TypeOK, Return, Goto, Steps, fileVars
<1>2. CallsInOrder'
  BY DEF IInv, TypeOK, CallsInOrder, StoreOf, Writing, Return, Goto, fileVars
<1>3. IdentityHeld'
  BY DEF IInv, TypeOK, IdentityHeld, OneIdentity, Return, Goto, fileVars
<1>4. DiskIsWhole' BY DEF IInv, DiskIsWhole, fileVars
<1>5. ModesNarrowed'
  BY DEF IInv, TypeOK, ModesNarrowed, Writing, Settled, Unix, Return, Goto, fileVars
<1>6. QED BY <1>1, <1>2, <1>3, <1>4, <1>5 DEF IInv

LEMMA FailsKeepsIInv ==
    ASSUME IInv, NEW p \in Processes, Fails(p) PROVE IInv'
<1>1. returned' \subseteq DeviceIds \cap {file["id"]}
  BY DEF IInv, TypeOK, IdentityHeld, OneIdentity, Fails
<1>2. QED BY <1>1, ReturnKeepsIInv DEF Fails

\* A store that hands over a value keeps it, if the identifier store hands over
\* what is in the file and the modes are narrow by then.
LEMMA GotKeepsIInv ==
    ASSUME IInv, NEW p \in Processes, NEW v, Got(p, v),
           job[p] \in {"id", "name", "update"},
           job[p] = "id" => v = file["id"] /\ v \in DeviceIds,
           job[p] = "id" => pc[p] \notin {"parent", "harden"},
           UNCHANGED <<target, fileVars, drawn, damaged, power>>
    PROVE  IInv'
<1>1. CASE job[p] = "id"
  <2>1. /\ id' = [id EXCEPT ![p] = v]
        /\ job' = [job EXCEPT ![p] = "name"]
        /\ value' = [value EXCEPT ![p] = Missing]
        /\ synced' = synced \ {p}
        /\ pc' = [pc EXCEPT ![p] = "parent"]
        /\ returned' = returned
    BY <1>1 DEF Got, Goto
  <2>2. TypeOK' BY <1>1, <2>1 DEF IInv, TypeOK, Steps, fileVars
  <2>3. CallsInOrder'
    BY <2>1 DEF IInv, TypeOK, CallsInOrder, StoreOf, Writing, fileVars
  <2>4. IdentityHeld'
    BY <1>1, <2>1 DEF IInv, TypeOK, IdentityHeld, OneIdentity, fileVars
  <2>5. DiskIsWhole' BY DEF IInv, DiskIsWhole, fileVars
  <2>6. v # Missing BY <1>1, Distinct
  <2>7. Unix => Settled /\ "id" \notin broad
    BY <1>1, <2>6 DEF IInv, ModesNarrowed
  <2>8. ModesNarrowed'
    BY <2>1, <2>7 DEF IInv, TypeOK, ModesNarrowed, Writing, Settled, Unix, fileVars
  <2>9. QED BY <2>2, <2>3, <2>4, <2>5, <2>8 DEF IInv
<1>2. CASE job[p] = "name"
  <2>1. Return(p) /\ returned' = returned \cup {id[p]} BY <1>2 DEF Got
  <2>2. returned' \subseteq DeviceIds \cap {file["id"]}
    BY <1>2, <2>1 DEF IInv, TypeOK, IdentityHeld, OneIdentity
  <2>3. QED BY <2>1, <2>2, ReturnKeepsIInv
<1>3. CASE job[p] = "update"
  <2>1. Return(p) /\ returned' = returned BY <1>3 DEF Got
  <2>2. returned' \subseteq DeviceIds \cap {file["id"]}
    BY <2>1 DEF IInv, TypeOK, IdentityHeld, OneIdentity
  <2>3. QED BY <2>1, <2>2, ReturnKeepsIInv
<1>4. QED BY <1>1, <1>2, <1>3

LEMMA CallLoadKeepsIInv ==
    ASSUME IInv, NEW p \in Processes, CallLoad(p) PROVE IInv'
<1>1. TypeOK'
  BY DEF IInv, TypeOK, CallsInOrder, CallLoad, Goto, Steps, fileVars
<1>2. CallsInOrder'
  BY DEF IInv, TypeOK, CallsInOrder, StoreOf, Writing, CallLoad, Goto, fileVars
<1>3. IdentityHeld'
  BY DEF IInv, TypeOK, IdentityHeld, OneIdentity, CallLoad, Goto, fileVars
<1>4. DiskIsWhole' BY DEF IInv, DiskIsWhole, CallLoad, fileVars
<1>5. ModesNarrowed'
  BY DEF IInv, TypeOK, CallsInOrder, ModesNarrowed, Writing, Settled, Unix, CallLoad, Goto, fileVars
<1>6. QED BY <1>1, <1>2, <1>3, <1>4, <1>5 DEF IInv

LEMMA HardenParentKeepsIInv ==
    ASSUME IInv, NEW p \in Processes, HardenParent(p) PROVE IInv'
<1>1. TypeOK'
  BY DEF IInv, TypeOK, CallsInOrder, HardenParent, Narrowed, Stores, Goto, Steps, fileVars
<1>2. CallsInOrder'
  BY DEF IInv, TypeOK, CallsInOrder, StoreOf, Writing, HardenParent, Narrowed, Stores, Goto, fileVars
<1>3. IdentityHeld'
  BY DEF IInv, TypeOK, IdentityHeld, OneIdentity, HardenParent, Narrowed, Stores, Goto, fileVars
<1>4. DiskIsWhole' BY DEF IInv, DiskIsWhole, HardenParent, Narrowed, Stores, fileVars
<1>5. ModesNarrowed'
  BY DEF IInv, TypeOK, CallsInOrder, ModesNarrowed, Writing, Settled, Unix, HardenParent, Narrowed, Stores, Goto, fileVars
<1>6. QED BY <1>1, <1>2, <1>3, <1>4, <1>5 DEF IInv

LEMMA HardenFileKeepsIInv ==
    ASSUME IInv, NEW p \in Processes, HardenFile(p) PROVE IInv'
<1>1. TypeOK'
  BY DEF IInv, TypeOK, CallsInOrder, HardenFile, StoreOf, Goto, Steps, fileVars
<1>2. CallsInOrder'
  BY DEF IInv, TypeOK, CallsInOrder, StoreOf, Writing, HardenFile, StoreOf, Goto, fileVars
<1>3. IdentityHeld'
  BY DEF IInv, TypeOK, IdentityHeld, OneIdentity, HardenFile, StoreOf, Goto, fileVars
<1>4. DiskIsWhole' BY DEF IInv, DiskIsWhole, HardenFile, StoreOf, fileVars
<1>5. ModesNarrowed'
  BY DEF IInv, TypeOK, CallsInOrder, ModesNarrowed, Writing, Settled, Unix, HardenFile, StoreOf, Goto, fileVars
<1>6. QED BY <1>1, <1>2, <1>3, <1>4, <1>5 DEF IInv

LEMMA MakeDirectoryKeepsIInv ==
    ASSUME IInv, NEW p \in Processes, MakeDirectory(p) PROVE IInv'
<1>1. TypeOK'
  BY DEF IInv, TypeOK, CallsInOrder, MakeDirectory, Goto, Steps, fileVars
<1>2. CallsInOrder'
  BY DEF IInv, TypeOK, CallsInOrder, StoreOf, Writing, MakeDirectory, Goto, fileVars
<1>3. IdentityHeld'
  BY DEF IInv, TypeOK, IdentityHeld, OneIdentity, MakeDirectory, Goto, fileVars
<1>4. DiskIsWhole' BY DEF IInv, DiskIsWhole, MakeDirectory, fileVars
<1>5. ModesNarrowed'
  BY DEF IInv, TypeOK, CallsInOrder, ModesNarrowed, Writing, Settled, Unix, MakeDirectory, Goto, fileVars
<1>6. QED BY <1>1, <1>2, <1>3, <1>4, <1>5 DEF IInv

LEMMA HardenDirectoryKeepsIInv ==
    ASSUME IInv, NEW p \in Processes, HardenDirectory(p) PROVE IInv'
<1>1. TypeOK'
  BY DEF IInv, TypeOK, CallsInOrder, HardenDirectory, Narrowed, Goto, Steps, fileVars
<1>2. CallsInOrder'
  BY DEF IInv, TypeOK, CallsInOrder, StoreOf, Writing, HardenDirectory, Narrowed, Goto, fileVars
<1>3. IdentityHeld'
  BY DEF IInv, TypeOK, IdentityHeld, OneIdentity, HardenDirectory, Narrowed, Goto, fileVars
<1>4. DiskIsWhole' BY DEF IInv, DiskIsWhole, HardenDirectory, Narrowed, fileVars
<1>5. ModesNarrowed'
  BY DEF IInv, TypeOK, CallsInOrder, ModesNarrowed, Writing, Settled, Unix, HardenDirectory, Narrowed, Goto, fileVars
<1>6. QED BY <1>1, <1>2, <1>3, <1>4, <1>5 DEF IInv

LEMMA WriteTemporaryKeepsIInv ==
    ASSUME IInv, NEW p \in Processes, WriteTemporary(p) PROVE IInv'
<1>1. TypeOK'
  BY DEF IInv, TypeOK, CallsInOrder, WriteTemporary, Goto, Steps, fileVars
<1>2. CallsInOrder'
  BY DEF IInv, TypeOK, CallsInOrder, StoreOf, Writing, WriteTemporary, Goto, fileVars
<1>3. IdentityHeld'
  BY DEF IInv, TypeOK, IdentityHeld, OneIdentity, WriteTemporary, Goto, fileVars
<1>4. DiskIsWhole' BY DEF IInv, DiskIsWhole, WriteTemporary, fileVars
<1>5. ModesNarrowed'
  BY DEF IInv, TypeOK, CallsInOrder, ModesNarrowed, Writing, Settled, Unix, WriteTemporary, Goto, fileVars
<1>6. QED BY <1>1, <1>2, <1>3, <1>4, <1>5 DEF IInv

LEMMA SyncTemporaryKeepsIInv ==
    ASSUME IInv, NEW p \in Processes, SyncTemporary(p) PROVE IInv'
<1>1. TypeOK'
  BY DEF IInv, TypeOK, CallsInOrder, SyncTemporary, Goto, Steps, fileVars
<1>2. CallsInOrder'
  BY DEF IInv, TypeOK, CallsInOrder, StoreOf, Writing, SyncTemporary, Goto, fileVars
<1>3. IdentityHeld'
  BY DEF IInv, TypeOK, IdentityHeld, OneIdentity, SyncTemporary, Goto, fileVars
<1>4. DiskIsWhole' BY DEF IInv, DiskIsWhole, SyncTemporary, fileVars
<1>5. ModesNarrowed'
  BY DEF IInv, TypeOK, CallsInOrder, ModesNarrowed, Writing, Settled, Unix, SyncTemporary, Goto, fileVars
<1>6. QED BY <1>1, <1>2, <1>3, <1>4, <1>5 DEF IInv

LEMMA LosesRaceKeepsIInv ==
    ASSUME IInv, NEW p \in Processes, LosesRace(p) PROVE IInv'
<1>1. TypeOK'
  BY DEF IInv, TypeOK, CallsInOrder, LosesRace, Goto, Steps, fileVars
<1>2. CallsInOrder'
  BY DEF IInv, TypeOK, CallsInOrder, StoreOf, Writing, LosesRace, Goto, fileVars
<1>3. IdentityHeld'
  BY DEF IInv, TypeOK, IdentityHeld, OneIdentity, LosesRace, Goto, fileVars
<1>4. DiskIsWhole' BY DEF IInv, DiskIsWhole, LosesRace, fileVars
<1>5. ModesNarrowed'
  BY DEF IInv, TypeOK, CallsInOrder, ModesNarrowed, Writing, Settled, Unix, LosesRace, Goto, fileVars
<1>6. QED BY <1>1, <1>2, <1>3, <1>4, <1>5 DEF IInv

LEMMA CallUpdateNameKeepsIInv ==
    ASSUME IInv, NEW p \in Processes, NEW n \in Names, CallUpdateName(p, n) PROVE IInv'
<1>1. TypeOK'
  BY DEF IInv, TypeOK, CallsInOrder, CallUpdateName, Values, StoreOf, Goto, Steps, fileVars
<1>2. CallsInOrder'
  BY DEF IInv, TypeOK, CallsInOrder, StoreOf, Writing, CallUpdateName, Values, StoreOf, Goto, fileVars
<1>3. IdentityHeld'
  BY DEF IInv, TypeOK, IdentityHeld, OneIdentity, CallUpdateName, Values, StoreOf, Goto, fileVars
<1>4. DiskIsWhole' BY DEF IInv, DiskIsWhole, CallUpdateName, Values, StoreOf, fileVars
<1>5. ModesNarrowed'
  BY DEF IInv, TypeOK, CallsInOrder, ModesNarrowed, Writing, Settled, Unix, CallUpdateName, Values, StoreOf, Goto, fileVars
<1>6. QED BY <1>1, <1>2, <1>3, <1>4, <1>5 DEF IInv

LEMMA CreateKeepsIInv ==
    ASSUME IInv, NEW p \in Processes, Create(p) PROVE IInv'
<1>0. job[p] \in {"id", "name"} /\ pc[p] = "read"
  BY DEF IInv, TypeOK, CallsInOrder, Writing, Create
<1>1. PICK v : /\ v \in Values(StoreOf(p)) /\ value' = [value EXCEPT ![p] = v]
               /\ drawn' \subseteq DeviceIds
  BY <1>0, DeviceAssumption DEF Create, Fresh, Values, StoreOf, IInv, TypeOK
<1>2. TypeOK'
  BY <1>1 DEF IInv, TypeOK, Create, Fresh, Values, Goto, Steps, fileVars
<1>3. CallsInOrder'
  BY <1>0, <1>1 DEF IInv, TypeOK, CallsInOrder, StoreOf, Writing, Create, Goto, fileVars
<1>4. IdentityHeld'
  BY <1>0 DEF IInv, TypeOK, IdentityHeld, OneIdentity, Create, Goto, fileVars
<1>5. DiskIsWhole' BY DEF IInv, DiskIsWhole, Create, fileVars
<1>6. ModesNarrowed'
  BY <1>0 DEF IInv, TypeOK, ModesNarrowed, Writing, Settled, Unix, Create, Goto, fileVars
<1>7. QED BY <1>2, <1>3, <1>4, <1>5, <1>6 DEF IInv

LEMMA ReadKeepsIInv ==
    ASSUME IInv, NEW p \in Processes, Read(p) PROVE IInv'
<1>1. pc[p] \in {"read", "reread"} /\ Got(p, file[StoreOf(p)]) /\ Parses(p)
  BY DEF Read
<1>2. job[p] \in {"id", "name"} BY <1>1 DEF IInv, TypeOK, CallsInOrder, Writing
<1>3. job[p] = "id" => file[StoreOf(p)] = file["id"] /\ file[StoreOf(p)] \in DeviceIds
  BY <1>1 DEF StoreOf, Parses, Values
<1>4. QED BY <1>1, <1>2, <1>3, GotKeepsIInv DEF Read

LEMMA SyncKeepsIInv ==
    ASSUME IInv, NEW p \in Processes, Sync(p) PROVE IInv'
<1>1. pc[p] = "sync" /\ Got(p, value[p]) BY DEF Sync
<1>2. job[p] \in {"id", "name", "update"} BY <1>1 DEF IInv, TypeOK, CallsInOrder
<1>3. job[p] = "id" => value[p] = file["id"] /\ value[p] \in DeviceIds
  BY <1>1 DEF IInv, CallsInOrder, IdentityHeld, StoreOf, Values, Writing
<1>4. QED BY <1>1, <1>2, <1>3, GotKeepsIInv DEF Sync

\* A file that is placed is whole, in a directory already narrowed; while there
\* is no identity nobody has one, so placing it contradicts nobody.
LEMMA PlaceKeepsIInv ==
    ASSUME IInv, NEW p \in Processes, pc[p] = "link", Place(p),
           job[p] = "id" => file["id"] = Missing
    PROVE  IInv'
<1>1. /\ job[p] \in {"id", "name", "update"} /\ value[p] \in Values(StoreOf(p))
      /\ StoreOf(p) \in Stores /\ p \in synced
  BY DEF IInv, TypeOK, CallsInOrder, Writing, StoreOf, Stores
<1>2. /\ file' = [file EXCEPT ![StoreOf(p)] = value[p]]
      /\ disk' = [disk EXCEPT ![StoreOf(p)] = @ \cup {value[p]}]
      /\ broad' = broad \ {StoreOf(p)}
      /\ pc' = [pc EXCEPT ![p] = "sync"]
  BY <1>1 DEF Place, Goto
<1>3. value[p] \notin {Missing, Corrupt} BY <1>1, Distinct DEF Values
<1>4. TypeOK'
  <2>1. value[p] \in DeviceIds \cup Names BY <1>1 DEF Values
  <2>2. /\ file' \in [Stores -> DeviceIds \cup Names \cup {Missing, Corrupt}]
        /\ disk' \in [Stores -> SUBSET (DeviceIds \cup Names \cup {Missing, Corrupt})]
        /\ broad' \subseteq Stores
    BY <1>1, <1>2, <2>1 DEF IInv, TypeOK
  <2>3. \A s \in Stores : /\ file'[s] \in Values(s) \cup {Missing, Corrupt}
                           /\ disk'[s] \subseteq Values(s) \cup {Missing, Corrupt}
    BY <1>1, <1>2 DEF IInv, TypeOK
  <2>4. pc' \in [Processes -> Steps] BY <1>2 DEF IInv, TypeOK, Steps
  <2>5. QED BY <2>2, <2>3, <2>4 DEF IInv, TypeOK, Place, Values
<1>5. CallsInOrder'
  BY <1>1, <1>2 DEF IInv, TypeOK, CallsInOrder, StoreOf, Writing, Place
<1>6. ASSUME job[p] = "id" PROVE IdentityHeld' /\ DiskIsWhole'
  <2>1. StoreOf(p) = "id" /\ file["id"] = Missing BY <1>6 DEF StoreOf
  <2>2. file'["id"] = value[p] /\ file'["name"] = file["name"]
    BY <1>2, <2>1 DEF IInv, TypeOK, Stores
  <2>3. returned = {} /\ \A q \in Processes : job[q] # "name"
    BY <2>1, Distinct DEF IInv, TypeOK, IdentityHeld, OneIdentity
  <2>4. \A q \in Processes : job[q] = "id" /\ pc[q] = "sync" => FALSE
    BY <2>1, Distinct DEF IInv, IdentityHeld, CallsInOrder, StoreOf, Values, Writing
  <2>5. IdentityHeld'
    BY <1>2, <2>2, <2>3, <2>4 DEF IInv, TypeOK, IdentityHeld, OneIdentity, Place
  <2>6. disk'["id"] = disk["id"] \cup {value[p]} /\ disk'["name"] = disk["name"]
    BY <1>2, <2>1 DEF IInv, TypeOK, Stores
  <2>7. DiskIsWhole' BY <2>1, <2>2, <2>6 DEF IInv, DiskIsWhole, Place
  <2>8. QED BY <2>5, <2>7
<1>7. ASSUME job[p] # "id" PROVE IdentityHeld' /\ DiskIsWhole'
  <2>1. StoreOf(p) = "name" BY <1>7 DEF StoreOf
  <2>2. file'["id"] = file["id"] /\ disk'["id"] = disk["id"]
    BY <1>2, <2>1 DEF IInv, TypeOK, Stores
  <2>3. disk'["name"] = disk["name"] \cup {value[p]}
    BY <1>2, <2>1 DEF IInv, TypeOK, Stores
  <2>4. IdentityHeld'
    BY <1>2, <1>7, <2>2 DEF IInv, TypeOK, IdentityHeld, OneIdentity, Place
  <2>5. DiskIsWhole' BY <1>3, <2>2, <2>3 DEF IInv, DiskIsWhole, Place
  <2>6. QED BY <2>4, <2>5
<1>8. ModesNarrowed'
  <2>1. dir' = dir /\ job' = job /\ target' = target BY DEF Place
  <2>2. dir # "missing"
    BY DEF IInv, ModesNarrowed, Writing, Settled
  <2>3. QED
    BY <1>1, <1>2, <2>1, <2>2 DEF IInv, TypeOK, ModesNarrowed, Writing, Settled, Unix
<1>9. IdentityHeld' /\ DiskIsWhole' BY <1>6, <1>7
<1>10. QED BY <1>4, <1>5, <1>8, <1>9 DEF IInv

\* Loss of power leaves no call running and of the identity itself or nothing.
LEMMA PowerLossKeepsIInv ==
    ASSUME IInv, PowerLoss PROVE IInv'
<1>1. PICK i \in disk["id"], n \in disk["name"] :
        file' = [s \in Stores |-> IF s = "id" THEN i ELSE n]
  BY DEF PowerLoss
<1>2. /\ i \in DeviceIds \cup {Missing, Corrupt} /\ n \in Names \cup {Missing, Corrupt}
      /\ i \in {Missing, file["id"]}
  BY DEF IInv, TypeOK, DiskIsWhole, Stores, Values
<1>3. file'["id"] = i /\ file'["name"] = n /\ "id" \in Stores /\ "name" \in Stores
  BY <1>1 DEF Stores
<1>4. disk'["id"] = {i} /\ disk'["name"] = {n}
  BY <1>3 DEF PowerLoss
<1>5. TypeOK'
  <2>1. file' \in [Stores -> DeviceIds \cup Names \cup {Missing, Corrupt}]
    BY <1>1, <1>2
  <2>2. disk' \in [Stores -> SUBSET (DeviceIds \cup Names \cup {Missing, Corrupt})]
    BY <2>1 DEF PowerLoss
  <2>3. \A s \in Stores : /\ file'[s] \in Values(s) \cup {Missing, Corrupt}
                           /\ disk'[s] \subseteq Values(s) \cup {Missing, Corrupt}
    BY <1>2, <1>3, <1>4 DEF Stores, Values
  <2>4. power' \in 0..MaxPowerLosses
    BY DeviceAssumption DEF IInv, TypeOK, PowerLoss
  <2>5. /\ dir' \in {"missing", "broad", "private", "link"} /\ broad' \subseteq Stores
        /\ job' \in [Processes -> {"none", "id", "name", "update"}]
        /\ pc' \in [Processes -> Steps]
        /\ value' \in [Processes -> DeviceIds \cup Names \cup {Missing}]
        /\ synced' \subseteq Processes
        /\ id' \in [Processes -> DeviceIds \cup {Missing}]
    BY DEF PowerLoss, Steps
  <2>6. drawn' \subseteq DeviceIds /\ returned' \subseteq DeviceIds
    BY DEF IInv, TypeOK, PowerLoss
  <2>7. QED BY <2>1, <2>2, <2>3, <2>4, <2>5, <2>6 DEF TypeOK, Values
<1>6. CallsInOrder' BY DEF PowerLoss, CallsInOrder, Writing
<1>7. IdentityHeld'
  BY <1>2, <1>3 DEF IInv, IdentityHeld, OneIdentity, PowerLoss
<1>8. DiskIsWhole'
  BY <1>3, <1>4 DEF IInv, DiskIsWhole, PowerLoss
<1>9. ModesNarrowed' BY DEF PowerLoss, ModesNarrowed, Writing
<1>10. QED BY <1>5, <1>6, <1>7, <1>8, <1>9 DEF IInv

-----------------------------------------------------------------------------
\* Every step keeps the inductive invariant of LocalDevice.
LEMMA StepKeepsIInv == IInv /\ [Next]_vars => IInv'
<1> SUFFICES ASSUME IInv, [Next]_vars PROVE IInv'
  OBVIOUS
<1>1. CASE UNCHANGED vars
  BY <1>1 DEF IInv, TypeOK, CallsInOrder, StoreOf, IdentityHeld, OneIdentity, DiskIsWhole,
     ModesNarrowed, Writing, Settled, Unix, Values, vars, fileVars, callVars
<1>2. CASE PowerLoss BY <1>2, PowerLossKeepsIInv
<1>3. ASSUME NEW p \in Processes, ProcessStep(p) PROVE IInv'
  <2>1. CASE CallLoad(p) \/ \E n \in Names : CallUpdateName(p, n)
    BY <2>1, CallLoadKeepsIInv, CallUpdateNameKeepsIInv
  <2>2. CASE RefusePlatform(p) BY <1>1, <2>2 DEF RefusePlatform
  <2>3. CASE HardenParent(p) \/ HardenFile(p)
    BY <2>3, HardenParentKeepsIInv, HardenFileKeepsIInv
  <2>4. CASE Read(p) \/ Create(p) BY <2>4, ReadKeepsIInv, CreateKeepsIInv
  <2>5. CASE MakeDirectory(p) \/ HardenDirectory(p)
    BY <2>5, MakeDirectoryKeepsIInv, HardenDirectoryKeepsIInv
  <2>6. CASE WriteTemporary(p) \/ SyncTemporary(p)
    BY <2>6, WriteTemporaryKeepsIInv, SyncTemporaryKeepsIInv
  <2>7. CASE Link(p) \/ Rename(p)
    BY <2>7, PlaceKeepsIInv DEF Link, Rename, IsFree, StoreOf
  <2>8. CASE LosesRace(p) BY <2>8, LosesRaceKeepsIInv
  <2>9. CASE Sync(p) \/ IdStoreFails(p) \/ NameStoreFails(p)
    BY <2>9, SyncKeepsIInv, FailsKeepsIInv DEF IdStoreFails, NameStoreFails
  <2>10. QED
    BY <1>3, <2>1, <2>2, <2>3, <2>4, <2>5, <2>6, <2>7, <2>8, <2>9 DEF ProcessStep
<1>4. QED BY <1>1, <1>2, <1>3 DEF Next

\* IInv is an invariant.
THEOREM Inductive == Spec => []IInv
<1>1. Init => IInv
  <2> SUFFICES ASSUME Init PROVE IInv
    OBVIOUS
  <2>1. TypeOK
    <3>1. disk \in [Stores -> SUBSET (DeviceIds \cup Names \cup {Missing, Corrupt})]
      BY DEF Init
    <3>2. power \in 0..MaxPowerLosses BY DeviceAssumption DEF Init
    <3>3. QED BY <3>1, <3>2 DEF Init, TypeOK, Steps
  <2>2. CallsInOrder BY DEF Init, CallsInOrder, Writing
  <2>3. IdentityHeld BY DEF Init, IdentityHeld, OneIdentity
  <2>4. DiskIsWhole BY DEF Init, DiskIsWhole, Stores
  <2>5. ModesNarrowed BY DEF Init, ModesNarrowed, Writing
  <2>6. QED BY <2>1, <2>2, <2>3, <2>4, <2>5 DEF IInv
<1>2. QED BY <1>1, StepKeepsIInv, PTL DEF Spec

\* Type correctness for any number of processes.
THEOREM TypeCorrect == Spec => []TypeOK
<1>1. IInv => TypeOK BY DEF IInv
<1>2. QED BY <1>1, Inductive, PTL

\* However many processes race to create the identity, all that succeed have the
\* one in the file (DeviceIdStore::load_or_create).
THEOREM IdentityIsOne == Spec => []OneIdentity
<1>1. IInv => OneIdentity BY DEF IInv, IdentityHeld
<1>2. QED BY <1>1, Inductive, PTL

\* Every load that succeeds leaves both files private, and so the directory unless
\* its path is a symbolic link, which harden_existing_parent and prepare_parent
\* pass over.
THEOREM LoadsNarrowModes == Spec => []LoadLeavesPrivate
<1>1. IInv => LoadLeavesPrivate
  BY DEF IInv, TypeOK, ModesNarrowed, Settled, LoadLeavesPrivate, Stores
<1>2. QED BY <1>1, Inductive, PTL

\* No call ever replaces an identity, not even a damaged one; a loss of power may
\* at most undo its creation.
THEOREM IdentityStays == Spec => IdentityIsPermanent
<1>1. IInv /\ [Next]_vars =>
        [file["id"] # Missing =>
            \/ file'["id"] = file["id"]
            \/ power' # power /\ file'["id"] = Missing /\ Missing \in disk["id"]]_vars
  <2> SUFFICES ASSUME IInv, Next, file["id"] # Missing
               PROVE  \/ file'["id"] = file["id"]
                      \/ power' # power /\ file'["id"] = Missing /\ Missing \in disk["id"]
    BY DEF vars
  <2>1. CASE PowerLoss
    BY <2>1 DEF PowerLoss, IInv, TypeOK, DiskIsWhole, Stores
  <2>2. ASSUME NEW p \in Processes, ProcessStep(p) PROVE file'["id"] = file["id"]
    <3>1. CASE Link(p) \/ Rename(p)
      BY <3>1 DEF Link, Rename, Place, IsFree, StoreOf, IInv, TypeOK, Stores
    <3>2. CASE ~(Link(p) \/ Rename(p))
      BY <2>2, <3>2 DEF ProcessStep, CallLoad, RefusePlatform, CallUpdateName, HardenParent,
         HardenFile, Read, Create, MakeDirectory, HardenDirectory, WriteTemporary,
         SyncTemporary, LosesRace, Sync, IdStoreFails, NameStoreFails, Fails, vars, fileVars
    <3>3. QED BY <3>1, <3>2
  <2>3. QED BY <2>1, <2>2 DEF Next
<1>2. QED BY <1>1, Inductive, PTL DEF Spec, IdentityIsPermanent

\* The default name is created only where there is none, by a process that has
\* the identity; every other change of the name is an update or, after a loss of
\* power, an older whole name.
THEOREM DefaultIsModest == Spec => DefaultNeverOverwrites
<1>1. IInv /\ [Next]_vars =>
        [file'["name"] # file["name"] =>
            \/ \E p \in Processes : job[p] = "update" /\ pc[p] = "link" /\ pc'[p] = "sync"
            \/ file["name"] = Missing /\ file["id"] \in DeviceIds
            \/ power' # power /\ (file'["name"] = Corrupt => "name" \in damaged)]_vars
  <2> SUFFICES ASSUME IInv, Next, file'["name"] # file["name"]
               PROVE
            \/ \E p \in Processes : job[p] = "update" /\ pc[p] = "link" /\ pc'[p] = "sync"
            \/ file["name"] = Missing /\ file["id"] \in DeviceIds
            \/ power' # power /\ (file'["name"] = Corrupt => "name" \in damaged)
    BY DEF vars
  <2>1. CASE PowerLoss
    BY <2>1 DEF PowerLoss, IInv, TypeOK, DiskIsWhole, Stores
  <2>2. CASE \E p \in Processes : ProcessStep(p)
    <3>1. PICK p \in Processes : Link(p) \/ Rename(p)
      BY <2>2 DEF ProcessStep, CallLoad, RefusePlatform, CallUpdateName, HardenParent,
         HardenFile, Read, Create, MakeDirectory, HardenDirectory, WriteTemporary,
         SyncTemporary, LosesRace, Sync, IdStoreFails, NameStoreFails, Fails, vars, fileVars
    <3>2. CASE Link(p)
      <4>1. job[p] = "name"
        BY <3>2 DEF Link, Place, StoreOf, IInv, TypeOK, CallsInOrder, Stores
      <4>2. QED
        BY <3>2, <4>1 DEF Link, IsFree, StoreOf, IInv, IdentityHeld, OneIdentity
    <3>3. CASE Rename(p)
      BY <3>3 DEF Rename, Place, Goto, IInv, TypeOK
    <3>4. QED BY <3>1, <3>2, <3>3
  <2>3. QED BY <2>1, <2>2 DEF Next
<1>2. QED BY <1>1, Inductive, PTL DEF Spec, DefaultNeverOverwrites
=============================================================================
