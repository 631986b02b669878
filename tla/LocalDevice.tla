---------------------------- MODULE LocalDevice ----------------------------
(***************************************************************************)
(* The local device (local_device.rs, identity.rs, device_name.rs,         *)
(* persistence.rs, platform.rs): processes of one user that load the       *)
(* installation identifier and the display name, creating what is missing, *)
(* and that change the name, all without a lock.  An I/O error or the      *)
(* death of the process is possible at every step, and power may be lost.  *)
(*                                                                         *)
(* The two stores run the same steps on two files of one directory, whose  *)
(* modes they narrow on the way.  A temporary file is nobody else's.       *)
(***************************************************************************)
EXTENDS Integers, FiniteSets

CONSTANTS
    Processes,
    DeviceIds,          \* identifiers a process may draw at random
    Names,              \* valid display names
    DefaultName,
    Missing, Corrupt,   \* no file, and a file that does not parse
    Targets,            \* std::env::consts::OS of the builds considered
    MaxPowerLosses

ASSUME DeviceAssumption ==
    /\ DefaultName \in Names
    /\ Missing # Corrupt
    /\ {Missing, Corrupt} \cap (DeviceIds \cup Names) = {}
    /\ MaxPowerLosses \in Nat

Stores == {"id", "name"}
Values(s) == IF s = "id" THEN DeviceIds ELSE Names

VARIABLES
    target,         \* the operating system built for
    dir,            \* the configuration directory: "missing", "broad", "private",
                    \* or a "link" to a directory, which is never changed
    file,           \* what each file holds
    broad,          \* the files others may read
    disk,           \* what each file may hold after a loss of power
    job,            \* the store each process is in: "id", "name" or "update"
    pc,
    value,          \* what each process is about to write
    synced,         \* the processes whose temporary file is flushed
    id,             \* the identifier each process has got
    drawn,          \* history: identifiers drawn so far; randomness does not repeat
    returned,       \* history: identifiers loads returned, since power took one away
    damaged,        \* history: the files that did not parse at first
    power           \* how often power was lost

fileVars == <<dir, file, broad, disk>>
callVars == <<job, pc, value, synced, id>>
vars == <<target, fileVars, callVars, drawn, returned, damaged, power>>

Steps == {"idle", "parent", "harden", "read", "mkdir", "chmod", "write", "flush",
          "link", "sync", "hardenAgain", "reread"}

Init ==
    /\ target \in Targets
    /\ file \in [Stores -> DeviceIds \cup Names \cup {Missing, Corrupt}]
    /\ \A s \in Stores : file[s] \in Values(s) \cup {Missing, Corrupt}
    /\ dir \in {"missing", "broad", "private", "link"}
    /\ dir = "missing" => \A s \in Stores : file[s] = Missing
    /\ broad \in SUBSET {s \in Stores : file[s] # Missing}
    /\ disk = [s \in Stores |-> {file[s]}]
    /\ job = [p \in Processes |-> "none"]
    /\ pc = [p \in Processes |-> "idle"]
    /\ value = [p \in Processes |-> Missing]
    /\ synced = {}
    /\ id = [p \in Processes |-> Missing]
    /\ drawn = DeviceIds \cap {file["id"]}
    /\ returned = {}
    /\ damaged = {s \in Stores : file[s] = Corrupt}
    /\ power = 0

\* The targets Platform has a variant for, as as_str writes them.
Platforms == {"macos", "windows", "linux"}

\* Platform::from_target_os
Supported == target \in Platforms

\* cfg(unix): elsewhere the functions that set permissions do nothing.
Unix == target # "windows"

StoreOf(p) == IF job[p] = "id" THEN "id" ELSE "name"

Goto(p, step) == pc' = [pc EXCEPT ![p] = step]

\* The call returns, with an error or without.
Return(p) ==
    /\ Goto(p, "idle")
    /\ job' = [job EXCEPT ![p] = "none"]
    /\ value' = [value EXCEPT ![p] = Missing]
    /\ synced' = synced \ {p}
    /\ id' = [id EXCEPT ![p] = Missing]

\* An I/O error at the step the call is at, a file that does not parse, or the
\* death of the process.
Fails(p) ==
    /\ pc[p] # "idle" /\ Return(p)
    /\ UNCHANGED <<target, fileVars, drawn, returned, damaged, power>>

\* DeviceIdError: a load that ends here has not looked at the name.
IdStoreFails(p) == job[p] = "id" /\ Fails(p)

\* DeviceNameError, of a load that has its identifier already or of an update.
NameStoreFails(p) == job[p] \in {"name", "update"} /\ Fails(p)

\* The store has its value: on to the name, or done.
Got(p, v) ==
    CASE job[p] = "id" ->
           /\ id' = [id EXCEPT ![p] = v]
           /\ job' = [job EXCEPT ![p] = "name"]
           /\ value' = [value EXCEPT ![p] = Missing]
           /\ synced' = synced \ {p}
           /\ Goto(p, "parent")
           /\ UNCHANGED returned
      [] job[p] = "name"   -> Return(p) /\ returned' = returned \cup {id[p]}
      [] job[p] = "update" -> Return(p) /\ UNCHANGED returned

-----------------------------------------------------------------------------
(* LocalDeviceManager: platform detection first, then the identifier,      *)
(* then the name.                                                          *)

CallLoad(p) ==
    /\ pc[p] = "idle" /\ Supported
    /\ job' = [job EXCEPT ![p] = "id"]
    /\ Goto(p, "parent")
    /\ UNCHANGED <<target, fileVars, value, synced, id, drawn, returned, damaged, power>>

\* UnsupportedPlatformError, before anything is touched.
RefusePlatform(p) == pc[p] = "idle" /\ ~Supported /\ UNCHANGED vars

\* DeviceName::new accepted the value; an invalid one touches nothing.
CallUpdateName(p, n) ==
    /\ pc[p] = "idle"
    /\ job' = [job EXCEPT ![p] = "update"]
    /\ value' = [value EXCEPT ![p] = n]
    /\ Goto(p, "mkdir")
    /\ UNCHANGED <<target, fileVars, synced, id, drawn, returned, damaged, power>>

-----------------------------------------------------------------------------
(* load_or_create of either store.                                         *)

\* What setting the permissions of a directory makes of it.
Narrowed(d) == IF Unix /\ d = "broad" THEN "private" ELSE d

\* harden_existing_parent
HardenParent(p) ==
    /\ pc[p] = "parent"
    /\ dir' = Narrowed(dir)
    /\ Goto(p, "harden")
    /\ UNCHANGED <<target, file, broad, disk, job, value, synced, id, drawn, returned, damaged, power>>

\* Mutant: the mode of a file that exists is left as it is.
HardenFileLeaves(p) ==
    /\ pc[p] \in {"harden", "hardenAgain"}
    /\ Goto(p, IF pc[p] = "harden" THEN "read" ELSE "reread")
    /\ UNCHANGED <<target, fileVars, job, value, synced, id, drawn, returned, damaged, power>>

\* harden_existing_file, before the first read and before the second.
HardenFile(p) ==
    /\ pc[p] \in {"harden", "hardenAgain"}
    /\ broad' = IF Unix THEN broad \ {StoreOf(p)} ELSE broad
    /\ Goto(p, IF pc[p] = "harden" THEN "read" ELSE "reread")
    /\ UNCHANGED <<target, dir, file, disk, job, value, synced, id, drawn, returned, damaged, power>>

\* Mutant: whatever the file holds is taken for the value.
ParsesAnything(p) == file[StoreOf(p)] # Missing

\* parse_persisted accepts what the file holds.
Parses(p) == file[StoreOf(p)] \in Values(StoreOf(p))

\* The value was read.
Read(p) ==
    /\ pc[p] \in {"read", "reread"}
    /\ Parses(p) /\ Got(p, file[StoreOf(p)])
    /\ UNCHANGED <<target, fileVars, drawn, damaged, power>>

\* DeviceId::random never repeats an identifier.
Fresh == DeviceIds \ drawn

\* There is no file: a random identifier, or the default name.
Create(p) ==
    /\ pc[p] = "read" /\ file[StoreOf(p)] = Missing
    /\ IF job[p] = "id"
         THEN \E new \in Fresh :
                 drawn' = drawn \cup {new} /\ value' = [value EXCEPT ![p] = new]
         ELSE value' = [value EXCEPT ![p] = DefaultName] /\ UNCHANGED drawn
    /\ Goto(p, "mkdir")
    /\ UNCHANGED <<target, fileVars, job, synced, id, returned, damaged, power>>

-----------------------------------------------------------------------------
(* create_synced_temporary, and the step that gives it its name.           *)

\* prepare_parent: create_dir_all, then the permissions unless it is a link.
MakeDirectory(p) ==
    /\ pc[p] = "mkdir"
    /\ dir' = IF dir = "missing" THEN "broad" ELSE dir
    /\ Goto(p, "chmod")
    /\ UNCHANGED <<target, file, broad, disk, job, value, synced, id, drawn, returned, damaged, power>>

HardenDirectory(p) ==
    /\ pc[p] = "chmod"
    /\ dir' = Narrowed(dir)
    /\ Goto(p, "write")
    /\ UNCHANGED <<target, file, broad, disk, job, value, synced, id, drawn, returned, damaged, power>>

WriteTemporary(p) ==
    /\ pc[p] = "write"
    /\ Goto(p, "flush")
    /\ UNCHANGED <<target, fileVars, job, value, synced, id, drawn, returned, damaged, power>>

\* Mutant: the contents are not flushed before the file gets its name.
SyncTemporaryLater(p) ==
    /\ pc[p] = "flush"
    /\ Goto(p, "link")
    /\ UNCHANGED <<target, fileVars, job, value, synced, id, drawn, returned, damaged, power>>

SyncTemporary(p) ==
    /\ pc[p] = "flush"
    /\ synced' = synced \cup {p}
    /\ Goto(p, "link")
    /\ UNCHANGED <<target, fileVars, job, value, id, drawn, returned, damaged, power>>

\* The temporary file takes the name of the store's file.  Nothing flushes the
\* directory, so a loss of power leaves any content the name ever had since it
\* was last seen on the disk, and torn content if that was not flushed.
Place(p) ==
    /\ file' = [file EXCEPT ![StoreOf(p)] = value[p]]
    /\ disk' = [disk EXCEPT ![StoreOf(p)] =
                   @ \cup {value[p]} \cup (IF p \in synced THEN {} ELSE {Corrupt})]
    /\ broad' = broad \ {StoreOf(p)}
    /\ Goto(p, "sync")
    /\ UNCHANGED <<target, dir, job, value, synced, id, drawn, returned, damaged, power>>

\* Mutant: a name that came to exist meanwhile is replaced.
IsFreeForName(s) == s = "name" \/ file[s] = Missing

\* persist_noclobber finds no file.
IsFree(s) == file[s] = Missing

\* persist_noclobber of create and create_default.
Link(p) == pc[p] = "link" /\ job[p] # "update" /\ IsFree(StoreOf(p)) /\ Place(p)

\* Mutant: the loser of the race goes on with the value of its own.
LosesRaceKeepsOwn(p) ==
    /\ pc[p] = "link" /\ job[p] # "update" /\ ~IsFree(StoreOf(p))
    /\ Goto(p, "sync")
    /\ UNCHANGED <<target, fileVars, job, value, synced, id, drawn, returned, damaged, power>>

\* AlreadyExists: somebody was faster.
LosesRace(p) ==
    /\ pc[p] = "link" /\ job[p] # "update" /\ ~IsFree(StoreOf(p))
    /\ Goto(p, "hardenAgain")
    /\ UNCHANGED <<target, fileVars, job, value, synced, id, drawn, returned, damaged, power>>

\* persist of update: the last writer wins.
Rename(p) == pc[p] = "link" /\ job[p] = "update" /\ Place(p)

\* sync_all of the file, and the value that was written is returned.
Sync(p) ==
    /\ pc[p] = "sync" /\ Got(p, value[p])
    /\ UNCHANGED <<target, fileVars, drawn, damaged, power>>

-----------------------------------------------------------------------------
\* Every process ends.  Each file holds what the disk has; new directories and
\* narrowed modes may be gone too.
PowerLoss ==
    /\ power < MaxPowerLosses
    /\ power' = power + 1
    /\ \E i \in disk["id"], n \in disk["name"] :
          file' = [s \in Stores |-> IF s = "id" THEN i ELSE n]
    /\ disk' = [s \in Stores |-> {file'[s]}]
    /\ dir' \in {d \in {"missing", "broad", "private", "link"} :
                    /\ d = "link" <=> dir = "link"
                    /\ d = "missing" => \A s \in Stores : file'[s] = Missing}
    /\ broad' \in SUBSET {s \in Stores : file'[s] # Missing}
    /\ job' = [p \in Processes |-> "none"]
    /\ pc' = [p \in Processes |-> "idle"]
    /\ value' = [p \in Processes |-> Missing]
    /\ synced' = {}
    /\ id' = [p \in Processes |-> Missing]
    /\ returned' = IF file'["id"] = Missing THEN {} ELSE returned
    /\ UNCHANGED <<target, drawn, damaged>>

ProcessStep(p) ==
    \/ CallLoad(p) \/ RefusePlatform(p) \/ \E n \in Names : CallUpdateName(p, n)
    \/ HardenParent(p) \/ HardenFile(p) \/ Read(p) \/ Create(p)
    \/ MakeDirectory(p) \/ HardenDirectory(p) \/ WriteTemporary(p) \/ SyncTemporary(p)
    \/ Link(p) \/ LosesRace(p) \/ Rename(p) \/ Sync(p)
    \/ IdStoreFails(p) \/ NameStoreFails(p)

Next == PowerLoss \/ \E p \in Processes : ProcessStep(p)

Spec == Init /\ [][Next]_vars

-----------------------------------------------------------------------------
(* Properties.                                                             *)

\* Every variable has the shape its type gives it, and nothing but an error or a
\* value ever leaves the identifier store.
TypeOK ==
    /\ dir \in {"missing", "broad", "private", "link"}
    /\ file \in [Stores -> DeviceIds \cup Names \cup {Missing, Corrupt}]
    /\ \A s \in Stores : file[s] \in Values(s) \cup {Missing, Corrupt}
    /\ broad \subseteq Stores
    /\ disk \in [Stores -> SUBSET (DeviceIds \cup Names \cup {Missing, Corrupt})]
    /\ \A s \in Stores : disk[s] \subseteq Values(s) \cup {Missing, Corrupt}
    /\ job \in [Processes -> {"none", "id", "name", "update"}]
    /\ pc \in [Processes -> Steps]
    /\ value \in [Processes -> DeviceIds \cup Names \cup {Missing}]
    /\ synced \subseteq Processes
    /\ id \in [Processes -> DeviceIds \cup {Missing}]
    /\ drawn \subseteq DeviceIds /\ returned \subseteq DeviceIds
    /\ power \in 0..MaxPowerLosses

\* However many processes start at once on a fresh installation, and wherever
\* they fail or die, every load that succeeds returns the one identifier that is
\* in the file, unless a loss of power has taken that file away meanwhile.
OneIdentity ==
    /\ returned \subseteq {file["id"]}
    /\ \A p \in Processes : job[p] = "name" => id[p] = file["id"]

\* Once established, or damaged, the identity is never replaced and never torn.
\* Only a loss of power may undo its creation, and only if the entry of the
\* directory was new since the last start.
IdentityIsPermanent ==
    [][file["id"] # Missing =>
          \/ file'["id"] = file["id"]
          \/ power' # power /\ file'["id"] = Missing /\ Missing \in disk["id"]]_vars

\* Only an update changes an existing name, and only a process that has the
\* identifier creates the default: a name somebody set meanwhile is not
\* overwritten, and a damaged identity creates no name.  A loss of power may
\* bring an older name back, never half a one.
DefaultNeverOverwrites ==
    [][file'["name"] # file["name"] =>
          \/ \E p \in Processes : job[p] = "update" /\ pc[p] = "link" /\ pc'[p] = "sync"
          \/ file["name"] = Missing /\ file["id"] \in DeviceIds
          \/ power' # power /\ (file'["name"] = Corrupt => "name" \in damaged)]_vars

\* On Unix, whatever modes it finds, a load that is about to succeed leaves both
\* files to their owner, and the directory too unless its path is a symbolic
\* link, even if another process creates them meanwhile.  A linked directory keeps
\* the modes it has: neither harden_existing_parent nor prepare_parent touches it,
\* which is less than docs/security.md promises.
LoadLeavesPrivate ==
    \A p \in Processes :
        (Unix /\ job[p] = "name" /\ pc[p] \in {"read", "sync", "reread"})
            => broad = {} /\ dir \in {"private", "link"}

-----------------------------------------------------------------------------
(* The inductive invariant behind the theorems of LocalDeviceProofs.       *)

Writing == {"mkdir", "chmod", "write", "flush", "link", "sync"}

\* Every call is at a step of its job, with the value it needs there.
CallsInOrder ==
    \A p \in Processes :
        /\ pc[p] = "idle" <=> job[p] = "none"
        /\ job[p] = "update" => pc[p] \in Writing
        /\ pc[p] \in Writing => value[p] \in Values(StoreOf(p))
        /\ pc[p] = "link" => p \in synced

\* Whoever is past the identifier store, or about to leave it, has the identity.
IdentityHeld ==
    /\ OneIdentity
    /\ \A p \in Processes :
          /\ job[p] = "name" => id[p] \in DeviceIds
          /\ job[p] = "id" /\ pc[p] = "sync" => value[p] = file["id"]

\* The disk holds nothing torn, and of the identity nothing but itself.
DiskIsWhole ==
    /\ disk["id"] \subseteq {Missing, file["id"]}
    /\ Corrupt \in disk["name"] => "name" \in damaged

Settled == dir \in {"private", "link"}

\* How far a process has narrowed the modes at each step.  A process that met no
\* directory may pass its creation by another one, but the identity comes into
\* it only after the directory was narrowed.
ModesNarrowed ==
    /\ dir = "missing" => \A s \in Stores : file[s] = Missing
    /\ \A p \in Processes : pc[p] \in Writing \ {"mkdir"} => dir # "missing"
    /\ Unix => \A p \in Processes :
          /\ job[p] = "name" \/ pc[p] \in {"write", "flush", "link", "sync"} => Settled
          /\ job[p] = "id" /\ pc[p] # "parent" /\ file["id"] # Missing => Settled
          /\ job[p] = "name" \/ (job[p] = "id" /\ pc[p] \notin {"parent", "harden"})
                => "id" \notin broad
          /\ job[p] = "name" /\ pc[p] \notin {"parent", "harden"} => "name" \notin broad

IInv == TypeOK /\ CallsInOrder /\ IdentityHeld /\ DiskIsWhole /\ ModesNarrowed
=============================================================================
