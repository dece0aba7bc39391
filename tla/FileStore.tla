----------------------------- MODULE FileStore -----------------------------
(***************************************************************************)
(* FileStore (src/internal/state/file.go): the Store of the daemon as one    *)
(* file that every Update replaces as a whole.                               *)
(*                                                                         *)
(* An Update writes and syncs a temporary file, renames it over the state     *)
(* file, syncs the directory and only then publishes the new data in memory. *)
(* Each of these is an action: it may fail, the process may be killed before  *)
(* it, and the machine may lose power, which takes back every change of the   *)
(* directory that was not synced and tears files that were not.  Several      *)
(* daemons may be started on one path; the lock of acquireStateFileLock       *)
(* decides.                                                                  *)
(*                                                                         *)
(* The content of a transaction is a version number.  What records it may    *)
(* hold is the subject of Lifecycle and EventLog; checks that the path still  *)
(* names the locked inodes are left out, nobody else writes here.            *)
(***************************************************************************)
EXTENDS Naturals

CONSTANTS
    Daemons,      \* processes that may open the store
    MaxVersion,   \* bound on the number of transactions
    MaxFaults,    \* bound on failures, kills and power losses
    NoFile        \* absence of a file

FileStoreAssumption ==
    /\ MaxVersion \in Nat /\ MaxFaults \in Nat
    /\ NoFile \notin [version : Nat, schema : {"old", "current"}, medium : {"cache", "disk", "torn"}]
    /\ NoFile \notin Daemons

VARIABLES
    shown,    \* the file the state path names now
    kept,     \* the file it would name after a power loss
    temp,     \* [Daemons -> temporary file of the replacement under way]
    status,   \* [Daemons -> down, opening, open, poisoned or closed]
    pc,       \* [Daemons -> next step of the method under way]
    work,     \* [Daemons -> version being loaded or committed]
    data,     \* [Daemons -> version in memory]
    lock,     \* the daemon that holds the lock, or NoFile
    last,     \* last version used
    promised, \* the version last published by an Update or an open
    faults

vars == <<shown, kept, temp, status, pc, work, data, lock, last, promised, faults>>
disk == <<shown, kept>>

Versions == 0 .. MaxVersion
Files == [version : Versions, schema : {"old", "current"}, medium : {"cache", "disk", "torn"}]
PCs == {"idle", "load", "confirm", "temporary", "sync", "rename", "directory", "publish"}

\* The type invariant of FileStore: the values the fields take, and an
\* instance that does not serve has no method under way (open, Update, Close).
TypeOK ==
    /\ {shown, kept} \subseteq Files \cup {NoFile}
    /\ temp \in [Daemons -> Files \cup {NoFile}]
    /\ status \in [Daemons -> {"down", "opening", "open", "poisoned", "closed"}]
    /\ pc \in [Daemons -> PCs]
    /\ work \in [Daemons -> Versions] /\ data \in [Daemons -> Versions]
    /\ lock \in Daemons \cup {NoFile}
    /\ last \in Versions /\ promised \in Versions /\ faults \in 0 .. MaxFaults
    /\ \A d \in Daemons : status[d] \notin {"opening", "open"} => pc[d] = "idle" /\ temp[d] = NoFile

Init ==
    /\ shown \in {NoFile, [version |-> 0, schema |-> "old", medium |-> "disk"]} /\ kept = shown
    /\ temp = [d \in Daemons |-> NoFile]
    /\ status = [d \in Daemons |-> "down"] /\ pc = [d \in Daemons |-> "idle"]
    /\ work = [d \in Daemons |-> 0] /\ data = [d \in Daemons |-> 0]
    /\ lock = NoFile /\ last = 0 /\ promised = 0 /\ faults = 0

-----------------------------------------------------------------------------

Fault == faults < MaxFaults /\ faults' = faults + 1
At(d, step) == pc[d] = step
Goto(d, step) == pc' = [pc EXCEPT ![d] = step]

\* acquireStateFileLock, openLockedStateDirectory: without waiting.
Open(d) ==
    /\ status[d] \in {"down", "closed"} /\ lock = NoFile
    /\ lock' = d /\ status' = [status EXCEPT ![d] = "opening"] /\ Goto(d, "load")
    /\ UNCHANGED <<disk, temp, work, data, last, promised, faults>>

\* The constructor fails and releases its locks.
OpenFails(d) ==
    /\ status' = [status EXCEPT ![d] = "closed"] /\ lock' = NoFile /\ Goto(d, "idle")
    /\ temp' = [temp EXCEPT ![d] = NoFile]

\* loadFileData: a missing file is created, an old schema or more than the
\* retention policy keeps is rewritten, a torn file fails its checksum.
Load(d) ==
    /\ At(d, "load")
    /\ \/ /\ shown = NoFile /\ last < MaxVersion
          /\ work' = [work EXCEPT ![d] = last + 1] /\ last' = last + 1
          /\ Goto(d, "temporary") /\ UNCHANGED <<temp, status, lock>>
       \/ /\ shown # NoFile /\ shown.medium # "torn"
          /\ work' = [work EXCEPT ![d] = shown.version]
          /\ \/ Goto(d, "temporary")
             \/ shown.schema = "current" /\ Goto(d, "confirm")
          /\ UNCHANGED <<temp, status, lock, last>>
       \/ /\ shown # NoFile /\ shown.medium = "torn"
          /\ OpenFails(d) /\ UNCHANGED <<work, last>>
    /\ UNCHANGED <<disk, data, promised, faults>>

\* Mutant: an existing file is trusted as it is.
Mut_NoConfirm(d) ==
    /\ At(d, "confirm") /\ Goto(d, "publish")
    /\ UNCHANGED <<disk, temp, status, lock, faults, work, data, last, promised>>

\* The directory is synced before an existing file is served: an earlier
\* daemon may have died between its rename and its sync.
Confirm(d) ==
    /\ At(d, "confirm")
    /\ \/ kept' = shown /\ Goto(d, "publish") /\ UNCHANGED <<temp, status, lock, faults>>
       \/ Fault /\ OpenFails(d) /\ UNCHANGED kept
    /\ UNCHANGED <<shown, work, data, last, promised>>

\* Update: the callback, retention and validation accepted a candidate.
Begin(d) ==
    /\ status[d] = "open" /\ At(d, "idle") /\ last < MaxVersion
    /\ work' = [work EXCEPT ![d] = last + 1] /\ last' = last + 1
    /\ Goto(d, "temporary")
    /\ UNCHANGED <<disk, temp, status, data, lock, promised, faults>>

\* replaceStateFile fails before its rename: nothing has changed.
Abandon(d) ==
    /\ Fault /\ UNCHANGED <<disk>>
    /\ IF status[d] = "opening" THEN OpenFails(d)
       ELSE Goto(d, "idle") /\ temp' = [temp EXCEPT ![d] = NoFile] /\ UNCHANGED <<status, lock>>

\* createTemporaryStateFile, chmod and writeEntireFile
Write(d) ==
    /\ At(d, "temporary")
    /\ \/ /\ temp' = [temp EXCEPT ![d] = [version |-> work[d], schema |-> "current", medium |-> "cache"]]
          /\ Goto(d, "sync") /\ UNCHANGED <<disk, status, lock, faults>>
       \/ Abandon(d)
    /\ UNCHANGED <<work, data, last, promised>>

SyncFile(d) ==
    /\ At(d, "sync")
    /\ \/ /\ temp' = [temp EXCEPT ![d].medium = "disk"]
          /\ Goto(d, "rename") /\ UNCHANGED <<disk, status, lock, faults>>
       \/ Abandon(d)
    /\ UNCHANGED <<work, data, last, promised>>

Rename(d) ==
    /\ At(d, "rename")
    /\ \/ /\ shown' = temp[d] /\ temp' = [temp EXCEPT ![d] = NoFile]
          /\ Goto(d, "directory") /\ UNCHANGED <<kept, status, lock, faults>>
       \/ Abandon(d)
    /\ UNCHANGED <<work, data, last, promised>>

\* After the rename the outcome is uncertain: the instance is poisoned, or the
\* open fails.
Uncertain(d) ==
    /\ Fault /\ UNCHANGED <<disk>>
    /\ IF status[d] = "opening" THEN OpenFails(d)
       ELSE status' = [status EXCEPT ![d] = "poisoned"] /\ Goto(d, "idle") /\ UNCHANGED <<temp, lock>>

\* The checks after the rename, and syncOpenStateDirectory.
SyncDirectory(d) ==
    /\ At(d, "directory")
    /\ \/ kept' = shown /\ Goto(d, "publish") /\ UNCHANGED <<shown, temp, status, lock, faults>>
       \/ Uncertain(d)
    /\ UNCHANGED <<work, data, last, promised>>

\* The method returns nil; for an open this is the new instance.
Publish(d) ==
    /\ At(d, "publish")
    /\ \/ /\ data' = [data EXCEPT ![d] = work[d]] /\ promised' = work[d]
          /\ status' = [status EXCEPT ![d] = "open"] /\ Goto(d, "idle")
          /\ UNCHANGED <<disk, temp, lock, faults>>
       \/ Uncertain(d) /\ UNCHANGED <<data, promised>>
    /\ UNCHANGED <<work, last>>

\* Close waits for the method under way.
Close(d) ==
    /\ status[d] \in {"open", "poisoned"} /\ At(d, "idle")
    /\ status' = [status EXCEPT ![d] = "closed"] /\ lock' = NoFile
    /\ UNCHANGED <<disk, temp, pc, work, data, last, promised, faults>>

-----------------------------------------------------------------------------
(* The machine. *)

\* The process is killed; the kernel drops its lock and keeps its writes.
Kill(d) ==
    /\ Fault /\ status[d] # "down"
    /\ status' = [status EXCEPT ![d] = "down"] /\ Goto(d, "idle")
    /\ temp' = [temp EXCEPT ![d] = NoFile]
    /\ lock' = IF lock = d THEN NoFile ELSE lock
    /\ UNCHANGED <<disk, work, data, last, promised>>

\* The kernel writes the directory back on its own.
Flush == kept # shown /\ kept' = shown /\ UNCHANGED <<shown, temp, status, pc, work, data, lock, last, promised, faults>>

Survivor == IF kept # NoFile /\ kept.medium = "cache" THEN [kept EXCEPT !.medium = "torn"] ELSE kept

PowerLoss ==
    /\ Fault /\ shown' = Survivor /\ kept' = Survivor
    /\ status' = [d \in Daemons |-> "down"] /\ pc' = [d \in Daemons |-> "idle"]
    /\ temp' = [d \in Daemons |-> NoFile] /\ lock' = NoFile
    /\ UNCHANGED <<work, data, last, promised>>

Steps(d) == Load(d) \/ Confirm(d) \/ Write(d) \/ SyncFile(d) \/ Rename(d) \/ SyncDirectory(d) \/ Publish(d)

Next ==
    \/ \E d \in Daemons : Open(d) \/ Steps(d) \/ Begin(d) \/ Close(d) \/ Kill(d)
    \/ Flush \/ PowerLoss

Spec == Init /\ [][Next]_vars

-----------------------------------------------------------------------------
(* Properties. *)

\* What View answers is what a power loss would leave: an instance that is
\* between two transactions serves the version on disk, and no instance serves
\* after its memory and the disk may differ.
ServedIsDurable ==
    \A d \in Daemons : status[d] = "open" /\ At(d, "idle")
        => kept # NoFile /\ kept.version = data[d] /\ shown = kept

\* At no point would a crash of any kind leave a file that the next open
\* refuses: the temporary file is whole on disk before it gets the name.
NeverTorn == (kept # NoFile => kept.medium = "disk") /\ (shown # NoFile => shown.medium = "disk")

\* At most one instance works on the path, while other daemons try to open it
\* and holders are killed.
OneOwner == \A d \in Daemons : status[d] \in {"opening", "open", "poisoned"} => lock = d

\* The store as a register: the transactions whose fate is unknown are those
\* the disk names and nobody was promised.
Register ==
    INSTANCE DurableRegister WITH
        Values <- Versions,
        value <- promised,
        doubt <- {f.version : f \in {shown, kept} \ {NoFile}} \ {promised},
        up <- \E d \in Daemons : status[d] = "open"

\* The file store implements the durable register: it serves the last promised
\* version or the one whose replacement was cut short, and after it has served
\* or lost that one, it stays so.
ImplementsRegister == Register!Spec
=============================================================================
