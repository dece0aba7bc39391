--------------------------- MODULE StorageProofs ---------------------------
(***************************************************************************)
(* Proofs about what is kept.  The state file: a version that was promised stays *)
(* the one that is served, and the file store implements a durable register, for *)
(* any daemons and any bounds on transactions and faults.  The registry of logs:  *)
(* a request for the logs of an Attempt is refused only with a reason, for any     *)
(* calls, requests, owners and restarts.  The event log: whatever retention cuts,   *)
(* no transaction is refused for it, and a client that follows misses no event       *)
(* unnoticed, for any IDs, targets and limits.  The log of an Attempt: a frame that   *)
(* was acknowledged lasts, whatever fails, dies or loses power, for any streams,       *)
(* sizes, readers and numbers of frames and faults.                                    *)
(***************************************************************************)
EXTENDS MCStorage, FiniteSetTheorems, SequenceTheorems, WellFoundedInduction, TLAPS

-----------------------------------------------------------------------------
(* The state file.                                                           *)

\* What the method of a daemon knows where it is: the version it works on is the
\* one it has written, renamed and synced so far, and until its rename an instance
\* that serves has nothing in doubt.
FilePlace(d) ==
    /\ work[d] <= last
    /\ status[d] = "opening" => pc[d] # "idle"
    /\ pc[d] \in {"load", "confirm"} => status[d] = "opening"
    /\ pc[d] \notin {"sync", "rename"} => temp[d] = NoFile
    /\ pc[d] = "sync" => temp[d] = [version |-> work[d], schema |-> "current", medium |-> "cache"]
    /\ pc[d] = "rename" => temp[d] = [version |-> work[d], schema |-> "current", medium |-> "disk"]
    /\ pc[d] \in {"confirm", "directory", "publish"} => shown # NoFile /\ shown.version = work[d]
    /\ pc[d] = "publish" => kept = shown
    /\ pc[d] \in {"temporary", "sync", "rename"} =>
          /\ status[d] = "opening" => \/ shown = NoFile /\ work[d] # promised
                                      \/ shown # NoFile /\ shown.version = work[d]
          /\ status[d] = "open" => work[d] # promised
    /\ status[d] = "open" =>
          /\ data[d] = promised
          /\ pc[d] \in {"idle", "temporary", "sync", "rename"} =>
                shown # NoFile /\ kept = shown /\ shown.version = promised

\* At most one version is in doubt: where the directory and what is synced of it
\* name different versions, one of them was promised.
OneDoubt ==
    shown # NoFile /\ kept # NoFile /\ shown.version # kept.version =>
        promised \in {shown.version, kept.version}

FileInv ==
    /\ File!TypeOK /\ File!NeverTorn /\ File!OneOwner
    /\ shown = NoFile => kept = NoFile
    /\ promised <= last /\ OneDoubt
    /\ \A f \in {shown, kept} : f # NoFile => f.version <= last
    /\ \A d \in Daemons : FilePlace(d)

\* No step of a daemon or of its machine leaves the invariant.
LEMMA FileStep ==
    ASSUME FileInv, [File!Next]_fileVars, StorageAssumption
    PROVE  FileInv'
  <1> USE StorageAssumption DEF StorageAssumption, File!FileStoreAssumption
  <1> USE DEF FileInv, FilePlace, OneDoubt, File!TypeOK, File!NeverTorn, File!OneOwner, File!Versions, File!Files,
        File!PCs, File!disk, File!Fault, File!At, File!Goto, File!OpenFails, File!Abandon, File!Uncertain
  <1>1. ASSUME NEW d \in Daemons, File!Open(d) PROVE FileInv'
    BY <1>1 DEF File!Open
  <1>2. ASSUME NEW d \in Daemons, File!Load(d) PROVE FileInv'
    BY <1>2 DEF File!Load
  <1>3. ASSUME NEW d \in Daemons, File!Confirm(d) PROVE FileInv'
    BY <1>3 DEF File!Confirm
  <1>4. ASSUME NEW d \in Daemons, File!Begin(d) PROVE FileInv'
    BY <1>4 DEF File!Begin
  <1>5. ASSUME NEW d \in Daemons, File!Write(d) PROVE FileInv'
    BY <1>5 DEF File!Write
  <1>6. ASSUME NEW d \in Daemons, File!SyncFile(d) PROVE FileInv'
    BY <1>6 DEF File!SyncFile
  <1>7. ASSUME NEW d \in Daemons, File!Rename(d) PROVE FileInv'
    BY <1>7 DEF File!Rename
  <1>8. ASSUME NEW d \in Daemons, File!SyncDirectory(d) PROVE FileInv'
    BY <1>8 DEF File!SyncDirectory
  <1>9. ASSUME NEW d \in Daemons, File!Publish(d) PROVE FileInv'
    <2>1. CASE File!Uncertain(d) /\ UNCHANGED <<data, promised, work, last>>
      BY <1>9, <2>1 DEF File!Publish
    <2>2. CASE
            /\ data' = [data EXCEPT ![d] = work[d]] /\ promised' = work[d]
            /\ status' = [status EXCEPT ![d] = "open"] /\ pc' = [pc EXCEPT ![d] = "idle"]
            /\ UNCHANGED <<shown, kept, temp, lock, faults, work, last>>
      <3>1. pc[d] = "publish" /\ status[d] \in {"opening", "open"} /\ lock = d
        BY <1>9 DEF File!Publish
      <3>2. File!TypeOK'
        BY <2>2, <3>1
      <3>3. work[d] <= last /\ OneDoubt' /\ File!OneOwner' /\ File!NeverTorn'
        BY <2>2, <3>1
      <3>4. ASSUME NEW e \in Daemons PROVE FilePlace(e)'
        BY <2>2, <3>1
      <3> QED
        BY <2>2, <3>1, <3>2, <3>3, <3>4
    <2> QED
      BY <1>9, <2>1, <2>2 DEF File!Publish
  <1>10. ASSUME NEW d \in Daemons, File!Close(d) PROVE FileInv'
    BY <1>10 DEF File!Close
  <1>11. ASSUME NEW d \in Daemons, File!Kill(d) PROVE FileInv'
    BY <1>11 DEF File!Kill
  <1>12. CASE File!Flush
    BY <1>12 DEF File!Flush, File!Survivor
  <1>13. CASE File!PowerLoss
    BY <1>13 DEF File!PowerLoss, File!Survivor
  <1>14. CASE UNCHANGED fileVars
    BY <1>14 DEF fileVars
  <1> QED
    BY <1>1, <1>2, <1>3, <1>4, <1>5, <1>6, <1>7, <1>8, <1>9, <1>10, <1>11, <1>12, <1>13, <1>14 DEF File!Next, File!Steps

\* A step of the suite is one of the file store, or leaves it alone.
LEMMA SuiteFileStep == Next => [File!Next]_fileVars
  BY DEF Next, fileVars

\* There is no state file at first.
LEMMA FileInit == Init /\ StorageAssumption => FileInv
  <1> SUFFICES ASSUME Init, StorageAssumption PROVE FileInv
    OBVIOUS
  <1>1. File!Init /\ MaxVersion \in Nat /\ FileFaults \in Nat /\ NoFile \notin Daemons
    BY DEF Init, StorageAssumption, File!FileStoreAssumption
  <1>2. File!TypeOK
    BY <1>1 DEF File!Init, File!TypeOK, File!Versions, File!Files, File!PCs
  <1>3. \A d \in Daemons : FilePlace(d)
    BY <1>1 DEF File!Init, FilePlace
  <1> QED
    BY <1>1, <1>2, <1>3 DEF File!Init, FileInv, OneDoubt, File!NeverTorn, File!OneOwner

\* file.go: whatever fails, dies or loses power, the invariant holds.
THEOREM FileInvariant == Spec => []FileInv
  <1>1. FileInv /\ [Next]_vars => FileInv'
    BY FileStep, SuiteFileStep, StorageAssumption DEF vars
  <1> QED
    BY <1>1, FileInit, StorageAssumption, PTL DEF Spec

\* file.go: no state file is torn, at most one daemon works on it, and what View
\* answers is what a power loss would leave.
THEOREM FileServesDurably ==
    Spec => [](File!TypeOK /\ File!NeverTorn /\ File!OneOwner /\ File!ServedIsDurable)
  <1>1. FileInv => File!TypeOK /\ File!NeverTorn /\ File!OneOwner /\ File!ServedIsDurable
    <2> SUFFICES ASSUME FileInv PROVE File!ServedIsDurable
      BY DEF FileInv
    <2> SUFFICES ASSUME NEW d \in Daemons, status[d] = "open", pc[d] = "idle"
                 PROVE  kept # NoFile /\ kept.version = data[d] /\ shown = kept
      BY DEF File!ServedIsDurable, File!At
    <2>1. FilePlace(d)
      BY DEF FileInv
    <2> QED
      BY <2>1 DEF FilePlace
  <1> QED
    BY <1>1, FileInvariant, PTL

-----------------------------------------------------------------------------
(* The state file implements the durable register.                            *)

Doubt == {f.version : f \in {shown, kept} \ {NoFile}} \ {promised}
Up == \E d \in Daemons : status[d] = "open"

Named(v) == (shown # NoFile /\ v = shown.version) \/ (kept # NoFile /\ v = kept.version)

\* The versions in doubt, by membership.
LEMMA DoubtIs == \A v : v \in Doubt <=> v # promised /\ Named(v)
  BY DEF Doubt, Named

\* The same of the state after a step.
LEMMA DoubtWillBe == \A v : v \in Doubt' <=> v # promised' /\ Named(v)'
  BY DEF Doubt, Named

\* There is never more than one version in doubt, so to lose some is to lose all.
LEMMA LessDoubt ==
    ASSUME FileInv, Doubt' \subseteq Doubt, promised' = promised
    PROVE  Doubt' = Doubt \/ (Doubt # {} /\ Doubt' = {})
  <1>1. \A v, w \in Doubt : v = w
    BY DoubtIs DEF FileInv, OneDoubt, Named
  <1> QED
    BY <1>1

\* A step that gives up a doubt, or none, and serves as before.
LEMMA DropOrStutter ==
    ASSUME FileInv, Doubt' \subseteq Doubt, promised' = promised, Up' = Up
    PROVE  [File!Register!Next]_(File!Register!vars)
  BY LessDoubt DEF File!Register!Next, File!Register!Drop, File!Register!vars, Doubt, Up

\* A step after which nobody serves.
LEMMA StopOrLess ==
    ASSUME FileInv, Doubt' \subseteq Doubt, promised' = promised, ~Up'
    PROVE  [File!Register!Next]_(File!Register!vars)
  <1>1. CASE Up
    BY <1>1 DEF File!Register!Next, File!Register!Stop, Doubt, Up
  <1>2. CASE ~Up
    <2>1. Up' = Up
      BY <1>2 DEF Up
    <2> QED
      BY <2>1, DropOrStutter
  <1> QED
    BY <1>1, <1>2

\* The daemon that owns the file is the only one that serves, so it alone decides
\* whether the register is up.
LEMMA OwnerStops ==
    ASSUME FileInv, NEW d \in Daemons, status[d] \in {"opening", "open", "poisoned"},
           status' \in {[status EXCEPT ![d] = s] : s \in {"poisoned", "closed", "down"}}
    PROVE  ~Up'
  BY DEF FileInv, File!TypeOK, File!OneOwner, Up

\* The other daemons do not serve while one holds the lock.
LEMMA OthersServe ==
    ASSUME FileInv, NEW d \in Daemons, status[d] # "open", NEW s, s # "open",
           status' = [status EXCEPT ![d] = s]
    PROVE  Up' = Up
  <1>1. \A e \in Daemons : status[e] = "open" <=> status'[e] = "open"
    BY DEF FileInv, File!TypeOK
  <1> QED
    BY <1>1 DEF Up

\* Doubt depends on the directory and the promise alone.
LEMMA SameDoubt ==
    ASSUME UNCHANGED <<shown, kept, promised>>
    PROVE  Doubt' = Doubt
  BY DEF Doubt

\* replaceStateFile before its rename, and a constructor that fails.
LEMMA AbandonRefines ==
    ASSUME FileInv, NEW d \in Daemons, status[d] \in {"opening", "open"}, UNCHANGED <<shown, kept, promised>>,
           \/ UNCHANGED status
           \/ status[d] = "opening" /\ status' = [status EXCEPT ![d] = "closed"]
           \/ status' = [status EXCEPT ![d] = "poisoned"]
    PROVE  [File!Register!Next]_(File!Register!vars)
  <1>1. CASE UNCHANGED status
    BY <1>1, SameDoubt, DropOrStutter DEF Up
  <1>2. CASE status[d] = "opening" /\ status' = [status EXCEPT ![d] = "closed"]
    BY <1>2, SameDoubt, OthersServe, DropOrStutter
  <1>3. CASE status' = [status EXCEPT ![d] = "poisoned"]
    BY <1>3, SameDoubt, OwnerStops, StopOrLess
  <1> QED
    BY <1>1, <1>2, <1>3

\* The directory is synced: the version that is not named any more is dropped.
LEMMA SyncRefines ==
    ASSUME FileInv, kept' = shown, UNCHANGED <<shown, promised, status>>
    PROVE  [File!Register!Next]_(File!Register!vars)
  <1>1. Doubt' \subseteq Doubt
    BY DoubtIs, DoubtWillBe DEF Named
  <1>2. Up' = Up
    BY DEF Up
  <1> QED
    BY <1>1, <1>2, DropOrStutter

\* Each step of a daemon is one of the register, or none.
LEMMA FileRefines ==
    ASSUME FileInv, [File!Next]_fileVars
    PROVE  [File!Register!Next]_(File!Register!vars)
  <1> USE DEF File!disk, File!Fault, File!At, File!Goto
  <1>1. ASSUME NEW d \in Daemons, FilePlace(d), File!Open(d) PROVE [File!Register!Next]_(File!Register!vars)
    BY <1>1, SameDoubt, OthersServe, DropOrStutter DEF File!Open
  <1>2. ASSUME NEW d \in Daemons, File!Load(d), FilePlace(d) PROVE [File!Register!Next]_(File!Register!vars)
    BY <1>2, AbandonRefines DEF File!Load, File!OpenFails, FilePlace
  <1>3. ASSUME NEW d \in Daemons, File!Confirm(d), FilePlace(d) PROVE [File!Register!Next]_(File!Register!vars)
    BY <1>3, AbandonRefines, SyncRefines DEF File!Confirm, File!OpenFails, FilePlace
  <1>4. ASSUME NEW d \in Daemons, File!Begin(d) PROVE [File!Register!Next]_(File!Register!vars)
    BY <1>4, AbandonRefines DEF File!Begin
  <1>5. ASSUME NEW d \in Daemons, pc[d] # "idle" PROVE status[d] \in {"opening", "open"}
    BY <1>5 DEF FileInv, File!TypeOK
  <1>6. ASSUME NEW d \in Daemons, File!Write(d) \/ File!SyncFile(d) PROVE [File!Register!Next]_(File!Register!vars)
    BY <1>5, <1>6, AbandonRefines DEF File!Write, File!SyncFile, File!Abandon, File!OpenFails
  <1>7. ASSUME NEW d \in Daemons, File!Rename(d), FilePlace(d) PROVE [File!Register!Next]_(File!Register!vars)
    <2>1. CASE File!Abandon(d) /\ UNCHANGED promised
      BY <1>5, <1>7, <2>1, AbandonRefines DEF File!Rename, File!Abandon, File!OpenFails
    <2>2. CASE shown' = temp[d] /\ UNCHANGED <<kept, status, promised>>
      <3>1. pc[d] = "rename" /\ shown' # NoFile /\ shown'.version = work[d] /\ work[d] \in File!Versions
        <4>1. pc[d] = "rename" /\ temp[d] = [version |-> work[d], schema |-> "current", medium |-> "disk"]
          BY <1>7 DEF File!Rename, FilePlace
        <4>2. work[d] \in File!Versions /\ work[d] \in Nat
          BY StorageAssumption DEF FileInv, File!TypeOK, File!Versions, StorageAssumption, File!FileStoreAssumption
        <4> QED
          BY <2>2, <4>1, <4>2, StorageAssumption DEF StorageAssumption, File!FileStoreAssumption
      <3>2. Up' = Up
        BY <2>2 DEF Up
      <3>3. CASE shown # NoFile /\ shown.version = work[d]
        <4>1. Doubt' \subseteq Doubt
          BY <2>2, <3>1, <3>3, DoubtIs, DoubtWillBe DEF Named
        <4> QED
          BY <2>2, <3>2, <4>1, DropOrStutter
      <3>4. CASE work[d] # promised /\ (shown = NoFile \/ (shown.version = promised /\ kept = shown))
        <4>1. Doubt = {}
          BY <3>4, DoubtIs DEF Named, FileInv
        <4>2. Doubt' = {work[d]}
          BY <2>2, <3>1, <3>4, DoubtWillBe DEF Named, FileInv
        <4>3. File!Register!Attempt(work[d])
          BY <2>2, <3>2, <3>4, <4>1, <4>2 DEF File!Register!Attempt, Doubt, Up
        <4> QED
          BY <3>1, <4>3 DEF File!Register!Next, File!Versions, File!Register!Attempt
      <3> QED
        <4>1. status[d] \in {"opening", "open"}
          BY <1>5, <3>1
        <4> QED
          BY <1>7, <3>1, <3>3, <3>4, <4>1 DEF FilePlace, FileInv
    <2> QED
      BY <1>7, <2>1, <2>2 DEF File!Rename
  <1>8. ASSUME NEW d \in Daemons, File!SyncDirectory(d) PROVE [File!Register!Next]_(File!Register!vars)
    BY <1>5, <1>8, AbandonRefines, SyncRefines DEF File!SyncDirectory, File!Uncertain, File!OpenFails
  <1>9. ASSUME NEW d \in Daemons, File!Publish(d), FilePlace(d) PROVE [File!Register!Next]_(File!Register!vars)
    <2>1. CASE File!Uncertain(d) /\ UNCHANGED promised
      BY <1>5, <1>9, <2>1, AbandonRefines DEF File!Publish, File!Uncertain, File!OpenFails
    <2>2. CASE promised' = work[d] /\ status' = [status EXCEPT ![d] = "open"] /\ UNCHANGED <<shown, kept>>
      <3>1. shown # NoFile /\ kept = shown /\ shown.version = work[d] /\ work[d] \in File!Versions
        BY <1>9 DEF File!Publish, FilePlace, FileInv, File!TypeOK
      <3>2. work[d] \in Doubt \cup {promised}
        BY <3>1, DoubtIs DEF Named
      <3>3. Doubt' = {}
        BY <2>2, <3>1, DoubtWillBe DEF Named
      <3>4. Up'
        BY <2>2 DEF Up, FileInv, File!TypeOK
      <3>5. File!Register!Promise(work[d])
        BY <2>2, <3>2, <3>3, <3>4 DEF File!Register!Promise, Doubt, Up
      <3> QED
        BY <3>1, <3>5 DEF File!Register!Next, File!Versions, File!Register!Promise
    <2> QED
      BY <1>9, <2>1, <2>2 DEF File!Publish
  <1>10. ASSUME NEW d \in Daemons, File!Close(d) PROVE [File!Register!Next]_(File!Register!vars)
    BY <1>10, SameDoubt, OwnerStops, StopOrLess DEF File!Close
  <1>11. ASSUME NEW d \in Daemons, File!Kill(d) PROVE [File!Register!Next]_(File!Register!vars)
    <2>1. Doubt' = Doubt /\ promised' = promised /\ status' = [status EXCEPT ![d] = "down"]
      BY <1>11, SameDoubt DEF File!Kill
    <2>2. CASE status[d] = "open"
      BY <2>1, <2>2, OwnerStops, StopOrLess
    <2>3. CASE status[d] # "open"
      BY <2>1, <2>3, OthersServe, DropOrStutter
    <2> QED
      BY <2>2, <2>3
  <1>12. CASE File!Flush
    BY <1>12, SyncRefines DEF File!Flush
  <1>13. CASE File!PowerLoss
    <2>1. shown' = kept /\ kept' = kept /\ promised' = promised
      BY <1>13 DEF File!PowerLoss, File!Survivor, FileInv, File!NeverTorn
    <2>2. Doubt' \subseteq Doubt
      BY <2>1, DoubtIs, DoubtWillBe DEF Named
    <2>3. ~Up'
      BY <1>13 DEF File!PowerLoss, Up
    <2> QED
      BY <2>1, <2>2, <2>3, StopOrLess
  <1>14. CASE UNCHANGED fileVars
    BY <1>14, SameDoubt, DropOrStutter DEF fileVars, Up
  <1>15. \A d \in Daemons : FilePlace(d)
    BY DEF FileInv
  <1> QED
    BY <1>1, <1>2, <1>3, <1>4, <1>6, <1>7, <1>8, <1>9, <1>10, <1>11, <1>12, <1>13, <1>14, <1>15
       DEF File!Next, File!Steps

\* file.go, NewFileStore to Close: the store serves the last promised version, or the
\* one whose replacement was cut short, and then keeps to it.
THEOREM FileImplementsRegister == Spec => ImplementsRegister
  <1>1. Init => File!Register!Init
    BY DEF Init, File!Init, File!Register!Init
  <1>2. FileInv /\ [Next]_vars => [File!Register!Next]_(File!Register!vars)
    BY FileRefines, SuiteFileStep DEF vars
  <1>3. Spec => File!Register!Spec
    BY <1>1, <1>2, FileInvariant, PTL DEF Spec, File!Register!Spec
  <1> QED
    BY <1>3, FileServesDurably DEF ImplementsRegister, File!ImplementsRegister

-----------------------------------------------------------------------------
(* The registry of logs.                                                      *)

\* What creates and deletes work on, whatever IDs the incarnations have.
Working ==
    /\ record \in [state : {"none", "creating", "live", "failed"}, owner : 1 .. MaxOwners \cup {None}]
    /\ used \in 0 .. MaxOwners /\ configs \subseteq 1 .. MaxOwners
    /\ call \in [Calls -> [step : Registry!CallSteps, owner : 1 .. MaxOwners \cup {None}]]
    /\ holder \in Calls \cup {None}
    /\ \A c \in Calls : c # holder => call[c].step = "idle"

\* The incarnation in the metadata is the last one, and what the holder of the
\* lock works on is that incarnation, or the one it has removed.
Incarnation(c) ==
    /\ call[c].step \in {"launch", "commit"} =>
          record.state = "creating" /\ call[c].owner = record.owner
    /\ call[c].step \in {"register", "remove"} =>
          record.state = "live" /\ call[c].owner = record.owner
    /\ call[c].step = "commit" => call[c].owner \in configs
    /\ call[c].step = "unregister" => record.state = "none"
    /\ call[c].step # "idle" => call[c].owner \in 1 .. used

Metadata ==
    /\ record.state = "none" <=> record.owner = None
    /\ record.owner # None => record.owner = used /\ used > 0
    /\ record.state = "live" => record.owner \in configs
    /\ \A c \in Calls : Incarnation(c)

\* A log request.
Request == [step : Registry!ReadSteps, id : 1 .. MaxOwners \cup {None}, epoch : Nat,
            owner : 1 .. MaxOwners \cup {None}, answer : Registry!Answers,
            calm : BOOLEAN, stale : BOOLEAN]

Bindings ==
    /\ owners \in [1 .. MaxOwners -> 1 .. MaxOwners \cup {None}]
    /\ epochs \in [1 .. MaxOwners -> Nat] /\ nextRevision \in Nat
    /\ \A i \in 1 .. MaxOwners : owners[i] \in {None, i} /\ epochs[i] <= nextRevision

\* Under fresh IDs a binding, a scan and what it has found are of the one owner
\* that the ID belongs to, no epoch is from the future, and what a scan has found
\* is of no use once its incarnation was unregistered.
ScanPlace(r) ==
    /\ read[r].step # "idle" => read[r].id \in 1 .. used
    /\ read[r].step \in {"publish", "open"} => read[r].owner = read[r].id
    /\ read[r].step \in {"scan", "publish"} =>
          /\ read[r].epoch <= epochs[read[r].id]
          /\ read[r].stale => read[r].epoch < epochs[read[r].id]
          /\ read[r].calm => read[r].epoch = epochs[read[r].id]
    /\ read[r].stale => read[r].step \in {"scan", "publish", "answered"}
    /\ read[r].calm /\ read[r].step \notin {"idle", "answered"} =>
          record.state = "live" /\ record.owner = read[r].id
    /\ read[r].calm /\ read[r].step = "answered" => read[r].answer = "frames"

FreshInv ==
    /\ Working /\ Metadata /\ Bindings
    /\ read \in [Scans -> Request] /\ \A r \in Scans : ScanPlace(r)
    /\ refused = FALSE /\ lasting \in 1 .. MaxOwners \cup {None}
    /\ reads \in 0 .. MaxReads /\ restarts \in 0 .. Restarts

\* Under one ID for all incarnations what a create has registered is the live
\* incarnation, and the binding is its own.
ReusedInv ==
    /\ Working /\ Metadata /\ DOMAIN owners = Reuse!Identities
    /\ lasting # None =>
          /\ record.state = "live" /\ record.owner = lasting
          /\ owners[1] = lasting

RegistryInv == IF subject = "reuse" THEN ReusedInv ELSE FreshInv

\* What the assumption on the constants says of the registry.
LEMMA RegistryConstants ==
    ASSUME StorageAssumption
    PROVE  /\ MaxOwners \in Nat /\ MaxReads \in Nat /\ Restarts \in Nat
           /\ None \notin 1 .. MaxOwners /\ None \notin Calls
           /\ Registry!Owners = 1 .. MaxOwners /\ Registry!Identities = 1 .. MaxOwners
           /\ \A o : Registry!Identity(o) = o /\ Reuse!Identity(o) = 1
           /\ Reuse!Owners = 1 .. MaxOwners /\ (MaxOwners > 0 => 1 \in Reuse!Identities)
  BY DEF StorageAssumption, Registry!RegistryAssumption, Registry!Owners, Registry!Identities, Registry!Identity,
         Reuse!Owners, Reuse!Identities, Reuse!Identity

\* Every step keeps the calls in progress and the metadata of the registry.
LEMMA RegistryWorks ==
    ASSUME Working, Metadata, [Registry!Next]_registryVars, StorageAssumption
    PROVE  Working' /\ Metadata'
  <1> USE RegistryConstants DEF Working, Metadata, Incarnation, Registry!States, Registry!CallSteps, Registry!Absent, Registry!NoCall, Registry!disk, Registry!registry, Registry!answers, Registry!mutations, Registry!requests, Registry!Record, Registry!Lock, Registry!Unlock, Registry!Goto
  <1>1. ASSUME NEW c \in Calls, Registry!BeginCreate(c) PROVE Working' /\ Metadata'
    BY <1>1 DEF Registry!BeginCreate
  <1>2. ASSUME NEW c \in Calls, Registry!Launch(c) PROVE Working' /\ Metadata'
    <2>1. call[c].owner \in 1 .. used /\ 1 .. used \subseteq 1 .. MaxOwners
      BY <1>2 DEF Registry!Launch
    <2>2. configs' \subseteq 1 .. MaxOwners /\ UNCHANGED <<record, used, holder>>
      BY <1>2, <2>1 DEF Registry!Launch
    <2>3. call' \in [Calls -> [step : Registry!CallSteps, owner : 1 .. MaxOwners \cup {None}]]
      BY <1>2, <2>1 DEF Registry!Launch
    <2>4. Metadata' /\ \A d \in Calls : d # holder' => call'[d].step = "idle"
      BY <1>2, <2>1 DEF Registry!Launch
    <2> QED
      BY <2>2, <2>3, <2>4
  <1>3. ASSUME NEW c \in Calls, Registry!CommitCreate(c) PROVE Working' /\ Metadata'
    BY <1>3 DEF Registry!CommitCreate
  <1>4. ASSUME NEW c \in Calls, Registry!FailCreate(c) PROVE Working' /\ Metadata'
    BY <1>4 DEF Registry!FailCreate
  <1>5. ASSUME NEW c \in Calls, Registry!CreateNoop(c) PROVE Working' /\ Metadata'
    BY <1>5 DEF Registry!CreateNoop
  <1>6. ASSUME NEW c \in Calls, Registry!Register(c) PROVE Working' /\ Metadata'
    BY <1>6 DEF Registry!Register
  <1>7. ASSUME NEW c \in Calls, Registry!BeginDelete(c) PROVE Working' /\ Metadata'
    BY <1>7 DEF Registry!BeginDelete
  <1>8. ASSUME NEW c \in Calls, Registry!ConfirmDelete(c) PROVE Working' /\ Metadata'
    BY <1>8 DEF Registry!ConfirmDelete
  <1>9. ASSUME NEW c \in Calls, Registry!AbandonDelete(c) PROVE Working' /\ Metadata'
    BY <1>9 DEF Registry!AbandonDelete
  <1>10. ASSUME NEW c \in Calls, Registry!Unregister(c) PROVE Working' /\ Metadata'
    BY <1>10 DEF Registry!Unregister
  <1>11. ASSUME NEW c \in Calls, Registry!Replay(c) PROVE Working' /\ Metadata'
    BY <1>11 DEF Registry!Replay
  <1>12. ASSUME NEW c \in Calls, Registry!AnswerReplay(c) PROVE Working' /\ Metadata'
    BY <1>12 DEF Registry!AnswerReplay
  <1>13. ASSUME NEW r \in Scans, Registry!LogsAfter(r) \/ Registry!Locate(r) \/ Registry!discoveryEpoch(r) \/ Registry!discoverOwner(r) \/ Registry!registerDiscoveredAttempt(r) \/ Registry!openOwnerSource(r) \/ Registry!Return(r)
        PROVE  UNCHANGED <<record, used, configs, call, holder>>
    BY <1>13 DEF Registry!LogsAfter, Registry!Locate, Registry!discoveryEpoch, Registry!discoverOwner, Registry!registerDiscoveredAttempt, Registry!openOwnerSource, Registry!Return
  <1>14. CASE Registry!Restart
    BY <1>14 DEF Registry!Restart, Registry!Reconciled
  <1> QED
    BY <1>1, <1>2, <1>3, <1>4, <1>5, <1>6, <1>7, <1>8, <1>9, <1>10, <1>11, <1>12, <1>13, <1>14 DEF Registry!Next, registryVars

\* The same where the IDs of removed Containers are used again (Reuse).
LEMMA ReuseWorks ==
    ASSUME Working, Metadata, [Reuse!Next]_registryVars, StorageAssumption
    PROVE  Working' /\ Metadata'
  <1> USE RegistryConstants DEF Working, Metadata, Incarnation, Reuse!States, Reuse!CallSteps, Reuse!Absent, Reuse!NoCall, Reuse!disk, Reuse!registry, Reuse!answers, Reuse!mutations, Reuse!requests, Reuse!Record, Reuse!Lock, Reuse!Unlock, Reuse!Goto, Registry!CallSteps
  <1>1. ASSUME NEW c \in Calls, Reuse!BeginCreate(c) PROVE Working' /\ Metadata'
    BY <1>1 DEF Reuse!BeginCreate
  <1>2. ASSUME NEW c \in Calls, Reuse!Launch(c) PROVE Working' /\ Metadata'
    <2>1. call[c].owner \in 1 .. used /\ 1 .. used \subseteq 1 .. MaxOwners
      BY <1>2 DEF Reuse!Launch
    <2>2. configs' \subseteq 1 .. MaxOwners /\ UNCHANGED <<record, used, holder>>
      BY <1>2, <2>1 DEF Reuse!Launch
    <2>3. call' \in [Calls -> [step : Registry!CallSteps, owner : 1 .. MaxOwners \cup {None}]]
      BY <1>2, <2>1 DEF Reuse!Launch
    <2>4. Metadata' /\ \A d \in Calls : d # holder' => call'[d].step = "idle"
      BY <1>2, <2>1 DEF Reuse!Launch
    <2> QED
      BY <2>2, <2>3, <2>4
  <1>3. ASSUME NEW c \in Calls, Reuse!CommitCreate(c) PROVE Working' /\ Metadata'
    BY <1>3 DEF Reuse!CommitCreate
  <1>4. ASSUME NEW c \in Calls, Reuse!FailCreate(c) PROVE Working' /\ Metadata'
    BY <1>4 DEF Reuse!FailCreate
  <1>5. ASSUME NEW c \in Calls, Reuse!CreateNoop(c) PROVE Working' /\ Metadata'
    BY <1>5 DEF Reuse!CreateNoop
  <1>6. ASSUME NEW c \in Calls, Reuse!Register(c) PROVE Working' /\ Metadata'
    BY <1>6 DEF Reuse!Register
  <1>7. ASSUME NEW c \in Calls, Reuse!BeginDelete(c) PROVE Working' /\ Metadata'
    BY <1>7 DEF Reuse!BeginDelete
  <1>8. ASSUME NEW c \in Calls, Reuse!ConfirmDelete(c) PROVE Working' /\ Metadata'
    BY <1>8 DEF Reuse!ConfirmDelete
  <1>9. ASSUME NEW c \in Calls, Reuse!AbandonDelete(c) PROVE Working' /\ Metadata'
    BY <1>9 DEF Reuse!AbandonDelete
  <1>10. ASSUME NEW c \in Calls, Reuse!Unregister(c) PROVE Working' /\ Metadata'
    BY <1>10 DEF Reuse!Unregister
  <1>11. ASSUME NEW c \in Calls, Reuse!Replay(c) PROVE Working' /\ Metadata'
    BY <1>11 DEF Reuse!Replay
  <1>12. ASSUME NEW c \in Calls, Reuse!AnswerReplay(c) PROVE Working' /\ Metadata'
    BY <1>12 DEF Reuse!AnswerReplay
  <1>13. ASSUME NEW r \in Scans, Reuse!LogsAfter(r) \/ Reuse!Locate(r) \/ Reuse!discoveryEpoch(r) \/ Reuse!discoverOwner(r) \/ Reuse!registerDiscoveredAttempt(r) \/ Reuse!openOwnerSource(r) \/ Reuse!Return(r)
        PROVE  UNCHANGED <<record, used, configs, call, holder>>
    BY <1>13 DEF Reuse!LogsAfter, Reuse!Locate, Reuse!discoveryEpoch, Reuse!discoverOwner, Reuse!registerDiscoveredAttempt, Reuse!openOwnerSource, Reuse!Return
  <1>14. CASE Reuse!Restart
    BY <1>14 DEF Reuse!Restart, Reuse!Reconciled
  <1> QED
    BY <1>1, <1>2, <1>3, <1>4, <1>5, <1>6, <1>7, <1>8, <1>9, <1>10, <1>11, <1>12, <1>13, <1>14 DEF Reuse!Next, registryVars

\* Under reused IDs the binding of the live incarnation is not replaced.
LEMMA ReusedStep ==
    ASSUME ReusedInv, [Reuse!Next]_registryVars, StorageAssumption
    PROVE  ReusedInv'
  <1> USE RegistryConstants DEF Reuse!disk, Reuse!registry, Reuse!answers, Reuse!mutations, Reuse!requests
  <1>1. Working' /\ Metadata'
    BY ReuseWorks, SMTT(40) DEF ReusedInv
  <1>2. DOMAIN owners' = DOMAIN owners
    BY DEF Reuse!Next, Reuse!BeginCreate, Reuse!Launch, Reuse!CommitCreate, Reuse!FailCreate, Reuse!CreateNoop,
       Reuse!Register, Reuse!RegisterAttempt, Reuse!Bind, Reuse!BeginDelete, Reuse!ConfirmDelete, Reuse!AbandonDelete,
       Reuse!Unregister, Reuse!UnregisterAttempt, Reuse!Replay, Reuse!AnswerReplay, Reuse!LogsAfter, Reuse!Locate,
       Reuse!discoveryEpoch, Reuse!discoverOwner, Reuse!registerDiscoveredAttempt, Reuse!openOwnerSource,
       Reuse!Return, Reuse!Restart, ReusedInv, registryVars
  <1>3. lasting # None => lasting \in 1 .. MaxOwners /\ MaxOwners > 0 /\ 1 \in DOMAIN owners
    BY DEF ReusedInv, Working
  <1>4. ASSUME lasting' # None
        PROVE  record'.state = "live" /\ record'.owner = lasting' /\ owners'[1] = lasting'
    <2> USE <1>1, <1>2, <1>3, <1>4 DEF ReusedInv, Working, Metadata, Incarnation, Reuse!Lock, Reuse!Unlock, Reuse!Goto,
          Reuse!Record, Reuse!Absent
    <2>1. ASSUME NEW c \in Calls, Reuse!Register(c) PROVE record'.state = "live" /\ record'.owner = lasting' /\ owners'[1] = lasting'
      BY <2>1 DEF Reuse!Register, Reuse!RegisterAttempt, Reuse!Bind
    <2>2. ASSUME NEW c \in Calls, Reuse!Unregister(c) PROVE record'.state = "live" /\ record'.owner = lasting' /\ owners'[1] = lasting'
      BY <2>2 DEF Reuse!Unregister
    <2>3. ASSUME NEW c \in Calls, Reuse!BeginCreate(c) \/ Reuse!Launch(c)
          PROVE  record'.state = "live" /\ record'.owner = lasting' /\ owners'[1] = lasting'
      BY <2>3 DEF Reuse!BeginCreate, Reuse!Launch
    <2>4. ASSUME NEW c \in Calls, Reuse!CommitCreate(c)
          PROVE  record'.state = "live" /\ record'.owner = lasting' /\ owners'[1] = lasting'
      BY <2>4 DEF Reuse!CommitCreate
    <2>5. ASSUME NEW c \in Calls, Reuse!FailCreate(c)
          PROVE  record'.state = "live" /\ record'.owner = lasting' /\ owners'[1] = lasting'
      BY <2>5 DEF Reuse!FailCreate
    <2>6. ASSUME NEW c \in Calls, Reuse!CreateNoop(c) \/ Reuse!BeginDelete(c)
          PROVE  record'.state = "live" /\ record'.owner = lasting' /\ owners'[1] = lasting'
      BY <2>6 DEF Reuse!CreateNoop, Reuse!BeginDelete
    <2>7. ASSUME NEW c \in Calls, Reuse!ConfirmDelete(c)
          PROVE  record'.state = "live" /\ record'.owner = lasting' /\ owners'[1] = lasting'
      BY <2>7 DEF Reuse!ConfirmDelete
    <2>8. ASSUME NEW c \in Calls, Reuse!AbandonDelete(c) \/ Reuse!Replay(c) \/ Reuse!AnswerReplay(c)
          PROVE  record'.state = "live" /\ record'.owner = lasting' /\ owners'[1] = lasting'
      BY <2>8 DEF Reuse!AbandonDelete, Reuse!Replay, Reuse!AnswerReplay
    <2>9. ASSUME NEW r \in Scans, Reuse!registerDiscoveredAttempt(r)
          PROVE  record'.state = "live" /\ record'.owner = lasting' /\ owners'[1] = lasting'
      BY <2>9 DEF Reuse!registerDiscoveredAttempt, Reuse!Bind
    <2>10. ASSUME NEW r \in Scans, Reuse!LogsAfter(r) \/ Reuse!Locate(r) \/ Reuse!discoveryEpoch(r) \/ Reuse!discoverOwner(r) \/ Reuse!openOwnerSource(r) \/ Reuse!Return(r)
          PROVE  record'.state = "live" /\ record'.owner = lasting' /\ owners'[1] = lasting'
      BY <2>10 DEF Reuse!LogsAfter, Reuse!Locate, Reuse!discoveryEpoch, Reuse!discoverOwner, Reuse!openOwnerSource, Reuse!Return
    <2>11. CASE Reuse!Restart
      BY <2>11 DEF Reuse!Restart
    <2>12. CASE UNCHANGED registryVars
      BY <2>12 DEF registryVars
    <2> QED
      BY <2>1, <2>2, <2>3, <2>4, <2>5, <2>6, <2>7, <2>8, <2>9, <2>10, <2>11, <2>12 DEF Reuse!Next
  <1> QED
    BY <1>1, <1>2, <1>4 DEF ReusedInv

\* What a request becomes.
LEMMA RequestStep ==
    ASSUME NEW x \in Request
    PROVE  /\ \A b \in BOOLEAN : [x EXCEPT !.calm = b] \in Request
           /\ \A b \in BOOLEAN : [x EXCEPT !.stale = b] \in Request
           /\ \A s \in Registry!ReadSteps : [x EXCEPT !.step = s] \in Request
           /\ \A s \in Registry!ReadSteps, a \in Registry!Answers : [x EXCEPT !.step = s, !.answer = a] \in Request
           /\ \A s \in Registry!ReadSteps, e \in Nat : [x EXCEPT !.step = s, !.epoch = e] \in Request
           /\ \A s \in Registry!ReadSteps, o \in 1 .. MaxOwners : [x EXCEPT !.step = s, !.owner = o] \in Request
  BY DEF Request

\* The requests that the actions build are requests.
LEMMA NewRequest ==
    /\ Registry!NoRead \in Request
    /\ \A s \in Registry!ReadSteps, i \in 1 .. MaxOwners, b \in BOOLEAN :
          [Registry!NoRead EXCEPT !.step = s, !.id = i, !.calm = b] \in Request
  BY DEF Request, Registry!NoRead, Registry!Answers, Registry!ReadSteps

\* The assignment of one request.
LEMMA OneRequestMoves ==
    ASSUME read \in [Scans -> Request], NEW r \in Scans, NEW x \in Request, read' = [read EXCEPT ![r] = x]
    PROVE  /\ read' \in [Scans -> Request]
           /\ read'[r] = x /\ \A q \in Scans \ {r} : read'[q] = read[q]
  OBVIOUS

\* The steps that a request takes, as records.
LEMMA RequestsTyped ==
    ASSUME FreshInv, [Registry!Next]_registryVars, StorageAssumption
    PROVE  read' \in [Scans -> Request]
  <1> USE RegistryConstants DEF FreshInv, Registry!requests
  <1>0. "idle" \in Registry!ReadSteps /\ "lookup" \in Registry!ReadSteps /\ "epoch" \in Registry!ReadSteps
        /\ "scan" \in Registry!ReadSteps /\ "publish" \in Registry!ReadSteps /\ "open" \in Registry!ReadSteps
        /\ "answered" \in Registry!ReadSteps /\ Registry!Answers = {"none", "frames", "missing", "unsafe", "conflict"}
    BY DEF Registry!ReadSteps, Registry!Answers
  <1>1. ASSUME NEW new, Registry!Record(new) PROVE read' \in [Scans -> Request]
    <2>1. \A r \in Scans : [read[r] EXCEPT !.calm = (read[r].calm /\ read[r].step = "answered")] \in Request
      <3>1. \A r \in Scans : (read[r].calm /\ read[r].step = "answered") \in BOOLEAN
        OBVIOUS
      <3> QED
        BY <3>1, RequestStep
    <2> QED
      BY <1>1, <2>1 DEF Registry!Record
  <1>2. ASSUME NEW id, Registry!Outdate(id) PROVE read' \in [Scans -> Request]
    <2>1. \A r \in Scans :
             [read[r] EXCEPT !.stale = (read[r].stale \/ (read[r].id = id /\ read[r].step \in {"scan", "publish"}))]
                \in Request
      <3>1. \A r \in Scans : (read[r].stale \/ (read[r].id = id /\ read[r].step \in {"scan", "publish"})) \in BOOLEAN
        BY DEF Request
      <3> QED
        BY <3>1, RequestStep
    <2> QED
      BY <1>2, <2>1 DEF Registry!Outdate
  <1>3. ASSUME NEW r \in Scans, NEW s \in Registry!ReadSteps, Registry!Step(r, s) PROVE read' \in [Scans -> Request]
    BY <1>3, RequestStep, OneRequestMoves, ZenonT(60) DEF Registry!Step
  <1>4. ASSUME NEW r \in Scans, NEW a \in Registry!Answers, Registry!Answer(r, a) PROVE read' \in [Scans -> Request]
    BY <1>0, <1>4, RequestStep, OneRequestMoves DEF Registry!Answer
  <1>5. ASSUME NEW r \in Scans, Registry!LogsAfter(r) PROVE read' \in [Scans -> Request]
    <2>1. record.owner \in 1 .. MaxOwners
      BY <1>5 DEF Registry!LogsAfter, Working, Metadata, Registry!Absent
    <2>2. (record.state = "live") \in BOOLEAN
      OBVIOUS
    <2>3. [Registry!NoRead EXCEPT !.step = "lookup", !.id = record.owner, !.calm = (record.state = "live")] \in Request
      BY <1>0, <2>1, <2>2, NewRequest
    <2> QED
      BY <1>5, <2>3, OneRequestMoves DEF Registry!LogsAfter
  <1>6. ASSUME NEW r \in Scans, Registry!Locate(r) PROVE read' \in [Scans -> Request]
    <2>1. read[r].id \in 1 .. MaxOwners
      BY <1>6 DEF Registry!Locate, ScanPlace, Working
    <2>2. CASE owners[read[r].id] = None
      BY <1>0, <1>3, <1>6, <2>2 DEF Registry!Locate
    <2>3. CASE owners[read[r].id] # None
      <3>1. [read[r] EXCEPT !.step = "open", !.owner = owners[read[r].id]] \in Request
        BY <1>0, <2>1, <2>3, RequestStep DEF Bindings
      <3> QED
        BY <1>6, <2>3, <3>1, OneRequestMoves DEF Registry!Locate
    <2> QED
      BY <2>2, <2>3
  <1>7. ASSUME NEW r \in Scans, Registry!discoveryEpoch(r) PROVE read' \in [Scans -> Request]
    <2>1. read[r].id \in 1 .. MaxOwners
      BY <1>7, SMTT(40) DEF Registry!discoveryEpoch, ScanPlace, Working
    <2>2. [read[r] EXCEPT !.step = "scan", !.epoch = epochs[read[r].id]] \in Request
      BY <1>0, <2>1, RequestStep DEF Bindings
    <2> QED
      BY <1>7, <2>2, OneRequestMoves DEF Registry!discoveryEpoch
  <1>8. ASSUME NEW r \in Scans, Registry!discoverOwner(r) PROVE read' \in [Scans -> Request]
    <2>1. CASE \E a \in Registry!Answers : Registry!Answer(r, a)
      BY <1>4, <2>1
    <2>2. CASE \E o \in 1 .. MaxOwners : read' = [read EXCEPT ![r].step = "publish", ![r].owner = o]
      <3>1. \A o \in 1 .. MaxOwners : [read[r] EXCEPT !.step = "publish", !.owner = o] \in Request
        BY <1>0, RequestStep
      <3> QED
        BY <2>2, <3>1, OneRequestMoves, ZenonT(60)
    <2> QED
      BY <1>0, <1>8, <2>1, <2>2 DEF Registry!discoverOwner, Working
  <1>9. ASSUME NEW r \in Scans, Registry!registerDiscoveredAttempt(r) PROVE read' \in [Scans -> Request]
    BY <1>0, <1>3, <1>4, <1>9 DEF Registry!registerDiscoveredAttempt
  <1>10. ASSUME NEW r \in Scans, Registry!openOwnerSource(r) PROVE read' \in [Scans -> Request]
    BY <1>0, <1>4, <1>10 DEF Registry!openOwnerSource
  <1>11. ASSUME NEW r \in Scans, Registry!Return(r) PROVE read' \in [Scans -> Request]
    BY <1>11, NewRequest, OneRequestMoves DEF Registry!Return
  <1>12. CASE Registry!Restart
    BY <1>12, NewRequest DEF Registry!Restart
  <1>13. CASE UNCHANGED registryVars
    BY <1>13 DEF registryVars
  <1>14. ASSUME NEW c \in Calls,
             \/ Registry!Launch(c) \/ Registry!CreateNoop(c) \/ Registry!Register(c) \/ Registry!BeginDelete(c)
             \/ Registry!AbandonDelete(c) \/ Registry!Replay(c) \/ Registry!AnswerReplay(c)
         PROVE read' \in [Scans -> Request]
    BY <1>14 DEF Registry!Launch, Registry!CreateNoop, Registry!Register, Registry!BeginDelete,
       Registry!AbandonDelete, Registry!Replay, Registry!AnswerReplay
  <1>15. ASSUME NEW c \in Calls,
             \/ Registry!BeginCreate(c) \/ Registry!CommitCreate(c) \/ Registry!FailCreate(c)
             \/ Registry!ConfirmDelete(c) \/ Registry!Unregister(c)
         PROVE read' \in [Scans -> Request]
    BY <1>1, <1>2, <1>15 DEF Registry!BeginCreate, Registry!CommitCreate, Registry!FailCreate,
       Registry!ConfirmDelete, Registry!Unregister
  <1> QED
    BY <1>5, <1>6, <1>7, <1>8, <1>9, <1>10, <1>11, <1>12, <1>13, <1>14, <1>15 DEF Registry!Next

\* The steps of one binding.
LEMMA BindingMoves ==
    ASSUME Bindings, StorageAssumption, NEW i \in 1 .. MaxOwners, NEW o \in {None, i},
           nextRevision' = nextRevision + 1, owners' = [owners EXCEPT ![i] = o],
           epochs' = epochs \/ epochs' = [epochs EXCEPT ![i] = nextRevision + 1]
    PROVE  Bindings'
  <1> USE RegistryConstants DEF Bindings
  <1>1. owners' \in [1 .. MaxOwners -> 1 .. MaxOwners \cup {None}]
        /\ \A j \in 1 .. MaxOwners : owners'[j] \in {None, j}
    OBVIOUS
  <1>2. nextRevision' \in Nat /\ nextRevision + 1 \in Nat /\ nextRevision <= nextRevision + 1
    OBVIOUS
  <1>3. epochs' \in [1 .. MaxOwners -> Nat]
    <2>1. CASE epochs' = epochs
      BY <2>1
    <2>2. CASE epochs' = [epochs EXCEPT ![i] = nextRevision + 1]
      BY <1>2, <2>2
    <2> QED
      BY <2>1, <2>2
  <1>4. ASSUME NEW j \in 1 .. MaxOwners PROVE epochs'[j] <= nextRevision'
    <2>1. epochs[j] \in Nat /\ epochs[j] <= nextRevision
      OBVIOUS
    <2>2. epochs'[j] = epochs[j] \/ epochs'[j] = nextRevision + 1
      OBVIOUS
    <2> QED
      BY <1>2, <2>1, <2>2
  <1> QED
    BY <1>1, <1>2, <1>3, <1>4

\* Under fresh IDs no step of a mutation or of a request leaves the invariant.
LEMMA BindingsStep ==
    ASSUME FreshInv, [Registry!Next]_registryVars, StorageAssumption
    PROVE  /\ Bindings' /\ refused' = FALSE
           /\ lasting' \in 1 .. MaxOwners \cup {None} /\ reads' \in 0 .. MaxReads /\ restarts' \in 0 .. Restarts
  <1> USE RegistryConstants DEF FreshInv, Registry!disk, Registry!registry, Registry!answers,
        Registry!mutations, Registry!requests
  <1>0. UNCHANGED <<owners, epochs, nextRevision>> => Bindings'
    BY DEF Bindings
  <1> DEFINE Kept == /\ Bindings' /\ refused' = FALSE
                     /\ lasting' \in 1 .. MaxOwners \cup {None} /\ reads' \in 0 .. MaxReads
                     /\ restarts' \in 0 .. Restarts
  <1>1. ASSUME NEW c \in Calls, Registry!Register(c) PROVE Kept
    <2>1. call[c].owner \in 1 .. MaxOwners
      BY <1>1 DEF Registry!Register, Working, Metadata, Incarnation
    <2>2. owners[call[c].owner] \in {None, call[c].owner}
      BY <2>1 DEF Bindings
    <2>3. Bindings'
      BY <1>0, <1>1, <2>1, BindingMoves DEF Registry!Register, Registry!RegisterAttempt, Registry!Bind
    <2>4. refused' = FALSE
      BY <1>1, <2>2 DEF Registry!Register, Registry!RegisterAttempt
    <2> QED
      BY <1>1, <2>1, <2>3, <2>4 DEF Registry!Register
  <1>2. ASSUME NEW c \in Calls, Registry!Unregister(c) PROVE Kept
    <2>1. call[c].owner \in 1 .. MaxOwners
      BY <1>2 DEF Registry!Unregister, Working, Metadata, Incarnation
    <2>2. Bindings'
      BY <1>0, <1>2, <2>1, BindingMoves DEF Registry!Unregister, Registry!UnregisterAttempt
    <2> QED
      BY <1>2, <2>2 DEF Registry!Unregister, Registry!Outdate
  <1>3. ASSUME NEW r \in Scans, Registry!registerDiscoveredAttempt(r) PROVE Kept
    <2>1. read[r].id \in 1 .. MaxOwners /\ read[r].owner = read[r].id
      BY <1>3 DEF Registry!registerDiscoveredAttempt, ScanPlace, Working
    <2>2. Bindings'
      BY <1>0, <1>3, <2>1, BindingMoves DEF Registry!registerDiscoveredAttempt, Registry!Bind
    <2> QED
      BY <1>3, <2>2 DEF Registry!registerDiscoveredAttempt, Registry!Bind
  <1>4. CASE Registry!Restart
    BY <1>4 DEF Registry!Restart, Bindings
  <1>5. ASSUME NEW r \in Scans, Registry!LogsAfter(r) PROVE Kept
    BY <1>0, <1>5 DEF Registry!LogsAfter
  <1>6. ASSUME NEW c \in Calls,
            \/ Registry!BeginCreate(c) \/ Registry!Launch(c) \/ Registry!CommitCreate(c) \/ Registry!FailCreate(c)
            \/ Registry!CreateNoop(c) \/ Registry!BeginDelete(c) \/ Registry!ConfirmDelete(c)
            \/ Registry!AbandonDelete(c) \/ Registry!Replay(c) \/ Registry!AnswerReplay(c)
        PROVE Kept
    BY <1>0, <1>6 DEF Registry!BeginCreate, Registry!Launch, Registry!CommitCreate, Registry!FailCreate, Registry!CreateNoop,
       Registry!BeginDelete, Registry!ConfirmDelete, Registry!AbandonDelete, Registry!Replay, Registry!AnswerReplay,
       Registry!Record
  <1>7. ASSUME NEW r \in Scans,
            \/ Registry!Locate(r) \/ Registry!discoveryEpoch(r) \/ Registry!discoverOwner(r)
            \/ Registry!openOwnerSource(r) \/ Registry!Return(r)
        PROVE Kept
    BY <1>0, <1>7 DEF Registry!Locate, Registry!discoveryEpoch, Registry!discoverOwner, Registry!openOwnerSource,
       Registry!Return
  <1>8. CASE UNCHANGED registryVars
    BY <1>0, <1>8 DEF registryVars
  <1> QED
    BY <1>1, <1>2, <1>3, <1>4, <1>5, <1>6, <1>7, <1>8 DEF Registry!Next

\* The scans for an owner keep what they matched true.
LEMMA ScansStep ==
    ASSUME FreshInv, [Registry!Next]_registryVars, StorageAssumption, NEW q \in Scans
    PROVE  ScanPlace(q)'
  <1> USE RegistryConstants DEF FreshInv, Bindings, ScanPlace, Working, Registry!disk, Registry!registry,
        Registry!answers, Registry!mutations, Registry!requests
  <1>0. read' \in [Scans -> Request] /\ read[q] \in Request
    BY RequestsTyped
  \* A request of which nothing is known but that it is not calm.
  <1>1. ASSUME NEW new, Registry!Record(new), used' >= used, used' \in Nat,
             UNCHANGED epochs PROVE ScanPlace(q)'
    <2>1. /\ read'[q].step = read[q].step /\ read'[q].id = read[q].id /\ read'[q].owner = read[q].owner
          /\ read'[q].epoch = read[q].epoch /\ read'[q].answer = read[q].answer
          /\ read'[q].stale = read[q].stale
          /\ read'[q].calm => read[q].calm /\ read[q].step = "answered"
      BY <1>1 DEF Registry!Record, Request
    <2> QED
      BY <1>1, <2>1
  <1>2. ASSUME NEW c \in Calls, Registry!Unregister(c) PROVE ScanPlace(q)'
    <2>1. /\ read'[q].step = read[q].step /\ read'[q].id = read[q].id /\ read'[q].owner = read[q].owner
          /\ read'[q].epoch = read[q].epoch /\ read'[q].answer = read[q].answer /\ read'[q].calm = read[q].calm
          /\ read'[q].stale =>
                read[q].stale \/ (read[q].id = call[c].owner /\ read[q].step \in {"scan", "publish"})
      BY <1>2 DEF Registry!Unregister, Registry!Outdate, Request
    <2>2. record.state = "none" /\ call[c].owner \in 1 .. MaxOwners /\ UNCHANGED <<record, used>>
      BY <1>2 DEF Registry!Unregister, Metadata, Incarnation
    <2>3. /\ epochs' = [epochs EXCEPT ![call[c].owner] = nextRevision + 1]
      BY <1>2, <2>2 DEF Registry!Unregister, Registry!UnregisterAttempt
    <2>4. read[q].step # "idle" => read[q].id \in 1 .. MaxOwners
      OBVIOUS
    <2>5. read[q].step \in {"scan", "publish"} =>
             /\ read[q].epoch \in Nat /\ epochs[read[q].id] \in Nat /\ epochs'[read[q].id] \in Nat
             /\ read[q].id = call[c].owner => epochs'[read[q].id] > read[q].epoch
             /\ read[q].id # call[c].owner => epochs'[read[q].id] = epochs[read[q].id]
      <3> SUFFICES ASSUME read[q].step \in {"scan", "publish"}
                   PROVE  /\ read[q].epoch \in Nat /\ epochs[read[q].id] \in Nat /\ epochs'[read[q].id] \in Nat
                          /\ read[q].id = call[c].owner => epochs'[read[q].id] > read[q].epoch
                          /\ read[q].id # call[c].owner => epochs'[read[q].id] = epochs[read[q].id]
        OBVIOUS
      <3>1. /\ read[q].epoch \in Nat /\ epochs[read[q].id] \in Nat /\ read[q].id \in 1 .. MaxOwners
            /\ read[q].epoch <= epochs[read[q].id] /\ epochs[read[q].id] <= nextRevision /\ nextRevision \in Nat
        BY <1>0, <2>4 DEF Request
      <3> QED
        BY <2>2, <2>3, <3>1
    <2>6. (read[q].step # "idle" => read[q].id \in 1 .. used)'
          /\ (read[q].step \in {"publish", "open"} => read[q].owner = read[q].id)'
          /\ (read[q].stale => read[q].step \in {"scan", "publish", "answered"})'
          /\ (read[q].calm /\ read[q].step = "answered" => read[q].answer = "frames")'
      BY <2>1, <2>2
    <2>7. ~(read[q].calm /\ read[q].step \notin {"idle", "answered"})
      BY <2>2, <2>4 DEF Metadata
    <2>8. ASSUME read'[q].step \in {"scan", "publish"}
          PROVE  /\ read'[q].epoch <= epochs'[read'[q].id]
                 /\ read'[q].stale => read'[q].epoch < epochs'[read'[q].id]
      <3>1. read[q].step \in {"scan", "publish"} /\ read'[q].epoch = read[q].epoch /\ read'[q].id = read[q].id
        BY <2>1, <2>8
      <3>2. read[q].epoch <= epochs[read[q].id] /\ (read[q].stale => read[q].epoch < epochs[read[q].id])
        BY <3>1
      <3>3. CASE read[q].id = call[c].owner
        BY <2>5, <3>1, <3>3
      <3>4. CASE read[q].id # call[c].owner
        BY <2>1, <2>5, <3>1, <3>2, <3>4
      <3> QED
        BY <3>3, <3>4
    <2> QED
      BY <2>1, <2>6, <2>7, <2>8
  <1>3. ASSUME NEW c \in Calls,
            \/ Registry!Launch(c) \/ Registry!CreateNoop(c) \/ Registry!Register(c) \/ Registry!BeginDelete(c)
            \/ Registry!AbandonDelete(c) \/ Registry!Replay(c) \/ Registry!AnswerReplay(c)
        PROVE ScanPlace(q)'
    <2>1. UNCHANGED <<read, record, used, epochs>>
      BY <1>3 DEF Registry!Launch, Registry!CreateNoop, Registry!Register, Registry!RegisterAttempt, Registry!Bind,
         Registry!BeginDelete, Registry!AbandonDelete, Registry!Replay, Registry!AnswerReplay
    <2> QED
      BY <2>1
  <1>4. ASSUME NEW c \in Calls,
             \/ Registry!BeginCreate(c) \/ Registry!CommitCreate(c) \/ Registry!FailCreate(c)
             \/ Registry!ConfirmDelete(c)
         PROVE ScanPlace(q)'
    <2>1. UNCHANGED epochs /\ (used' = used \/ used' = used + 1) /\ \E new : Registry!Record(new)
      BY <1>4 DEF Registry!BeginCreate, Registry!CommitCreate, Registry!FailCreate, Registry!ConfirmDelete
    <2> QED
      BY <1>1, <2>1
  <1>5. CASE Registry!Restart
    BY <1>5 DEF Registry!Restart, Registry!NoRead
  <1>6. CASE UNCHANGED registryVars
    BY <1>6 DEF registryVars
  <1>7. ASSUME NEW r \in Scans, r # q,
            \/ Registry!LogsAfter(r) \/ Registry!Locate(r) \/ Registry!discoveryEpoch(r) \/ Registry!discoverOwner(r)
            \/ Registry!registerDiscoveredAttempt(r) \/ Registry!openOwnerSource(r) \/ Registry!Return(r)
        PROVE ScanPlace(q)'
    <2>1. read'[q] = read[q] /\ UNCHANGED <<record, used, epochs>>
      BY <1>7 DEF Registry!LogsAfter, Registry!Locate, Registry!discoveryEpoch, Registry!discoverOwner,
         Registry!registerDiscoveredAttempt, Registry!openOwnerSource, Registry!Return, Registry!Step,
         Registry!Answer, Registry!Bind
    <2> QED
      BY <2>1
  <1>8. CASE Registry!LogsAfter(q)
    <2>1. record.owner \in 1 .. used
      BY <1>8 DEF Registry!LogsAfter, Registry!Absent, Metadata
    <2>2. /\ read'[q].step = "lookup" /\ read'[q].id = record.owner /\ read'[q].stale = FALSE
          /\ read'[q].calm => record.state = "live"
          /\ UNCHANGED <<record, used, epochs>>
      BY <1>8 DEF Registry!LogsAfter, Registry!NoRead
    <2> QED
      BY <2>1, <2>2
  <1>9. CASE Registry!Locate(q)
    <2>1. read[q].step = "lookup" /\ read[q].id \in 1 .. used /\ UNCHANGED <<record, used, epochs>>
      BY <1>9 DEF Registry!Locate
    <2>2. CASE owners[read[q].id] = None
      <3>1. read' = [read EXCEPT ![q].step = "epoch"]
        BY <1>9, <2>2 DEF Registry!Locate, Registry!Step
      <3>2. /\ read'[q].step = "epoch" /\ read'[q].id = read[q].id /\ read'[q].calm = read[q].calm
            /\ read'[q].stale = read[q].stale
        BY <1>0, <3>1 DEF Request
      <3> QED
        BY <2>1, <3>2
    <2>3. CASE owners[read[q].id] # None
      <3>1. owners[read[q].id] = read[q].id
        BY <2>1, <2>3
      <3>2. read' = [read EXCEPT ![q].step = "open", ![q].owner = read[q].id]
        BY <1>9, <2>3, <3>1 DEF Registry!Locate
      <3> QED
        BY <2>1, <3>2
    <2> QED
      BY <2>2, <2>3
  <1>10. CASE Registry!discoveryEpoch(q)
    BY <1>10 DEF Registry!discoveryEpoch
  <1>11. CASE Registry!discoverOwner(q)
    <2>1. read[q].step = "scan" /\ {o \in configs : Registry!Identity(o) = read[q].id} = {o \in configs : o = read[q].id}
          /\ UNCHANGED <<record, used, epochs>>
      BY <1>11 DEF Registry!discoverOwner
    <2>2. CASE {o \in configs : o = read[q].id} = {} /\ Registry!Answer(q, "missing")
      BY <2>1, <2>2 DEF Registry!Answer, Metadata
    <2>3. CASE read[q].id \in configs /\ read' = [read EXCEPT ![q].step = "publish", ![q].owner = read[q].id]
      BY <2>1, <2>3
    <2> DEFINE matched == {o \in configs : o = read[q].id}
    <2>5. \/ matched = {} /\ Registry!Answer(q, "missing")
          \/ \E o \in matched : read' = [read EXCEPT ![q].step = "publish", ![q].owner = o]
      <3> HIDE DEF matched
      <3>1. {o \in configs : Registry!Identity(o) = read[q].id} = matched
        BY <2>1 DEF matched
      <3>2. \A o \in matched, p \in matched : o = p
        BY DEF matched
      <3> QED
        BY <1>11, <3>1, <3>2 DEF Registry!discoverOwner
    <2> QED
      BY <2>1, <2>2, <2>3, <2>5
  <1>12. CASE Registry!registerDiscoveredAttempt(q)
    <2>1. read[q].step = "publish" /\ read[q].id \in 1 .. MaxOwners /\ read[q].owner = read[q].id
          /\ UNCHANGED <<record, used, epochs>>
      BY <1>12 DEF Registry!registerDiscoveredAttempt, Registry!Bind
    <2>2. \/ Registry!Step(q, "open") /\ epochs[read[q].id] = read[q].epoch
          \/ Registry!Answer(q, "missing") /\ epochs[read[q].id] # read[q].epoch
      BY <1>12, <2>1 DEF Registry!registerDiscoveredAttempt
    <2>3. CASE Registry!Step(q, "open") /\ epochs[read[q].id] = read[q].epoch
      BY <2>1, <2>3, <1>0 DEF Registry!Step, Request
    <2>4. CASE Registry!Answer(q, "missing") /\ epochs[read[q].id] # read[q].epoch
      BY <2>1, <2>4 DEF Registry!Answer
    <2> QED
      BY <2>2, <2>3, <2>4
  <1>13. CASE Registry!openOwnerSource(q)
    BY <1>13 DEF Registry!openOwnerSource, Registry!Answer, Metadata
  <1>14. CASE Registry!Return(q)
    BY <1>14 DEF Registry!Return, Registry!NoRead
  <1> QED
    BY <1>2, <1>3, <1>4, <1>5, <1>6, <1>7, <1>8, <1>9, <1>10, <1>11, <1>12, <1>13, <1>14 DEF Registry!Next

\* The part of the invariant that both registries share is inductive.
LEMMA FreshStep ==
    ASSUME FreshInv, [Registry!Next]_registryVars, StorageAssumption
    PROVE  FreshInv'
  BY RegistryWorks, RequestsTyped, BindingsStep, ScansStep DEF FreshInv

\* The registry is empty at first.
LEMMA RegistryInit ==
    ASSUME Init, StorageAssumption
    PROVE  RegistryInv
  <1> USE RegistryConstants
  <1>1. CASE subject = "reuse"
    <2>1. Reuse!Init
      BY <1>1 DEF Init
    <2>2. Working /\ Metadata /\ lasting = None /\ DOMAIN owners = Reuse!Identities
      BY <2>1 DEF Reuse!Init, Reuse!NewLogRegistry, Reuse!Absent, Reuse!NoCall, Registry!CallSteps, Working, Metadata,
         Incarnation
    <2> QED
      BY <1>1, <2>2 DEF RegistryInv, ReusedInv
  <1>2. CASE subject # "reuse"
    <2>1. Registry!Init
      BY <1>2 DEF Init
    <2>2. Working /\ Metadata
      BY <2>1 DEF Registry!Init, Registry!Absent, Registry!NoCall, Registry!CallSteps, Working, Metadata, Incarnation
    <2>3. Bindings
      BY <2>1 DEF Registry!Init, Registry!NewLogRegistry, Bindings
    <2>4. read \in [Scans -> Request] /\ \A r \in Scans : ScanPlace(r)
      BY <2>1, NewRequest DEF Registry!Init, Registry!NoRead, ScanPlace
    <2>5. refused = FALSE /\ lasting = None /\ reads \in 0 .. MaxReads /\ restarts \in 0 .. Restarts
      BY <2>1 DEF Registry!Init
    <2> QED
      BY <1>2, <2>2, <2>3, <2>4, <2>5 DEF RegistryInv, FreshInv
  <1> QED
    BY <1>1, <1>2

\* The invariant of the registry is inductive.
LEMMA RegistryStep ==
    ASSUME RegistryInv, [Next]_vars, StorageAssumption
    PROVE  RegistryInv'
  <1>1. /\ UNCHANGED subject
        /\ subject = "reuse" => [Reuse!Next]_registryVars
        /\ subject # "reuse" => [Registry!Next]_registryVars
    BY DEF Next, vars, registryVars
  <1> QED
    BY <1>1, ReusedStep, FreshStep DEF RegistryInv

\* daemon/logs.go and service.go: the registry keeps to the incarnation in the
\* metadata, whoever creates, deletes, replays and scans meanwhile.
THEOREM RegistryInvariant == Spec => []RegistryInv
  BY RegistryInit, RegistryStep, StorageAssumption, PTL DEF Spec

\* daemon/logs.go: a scan that overlaps a delete publishes nothing, no create meets
\* the binding of another, a request at rest is answered with frames, and what a
\* create has registered stays bound until the delete.
THEOREM LogsFound == Spec => []LogsAreFound
  <1>1. RegistryInv => LogsAreFound
    <2> SUFFICES ASSUME RegistryInv PROVE LogsAreFound
      OBVIOUS
    <2> USE RegistryConstants, StorageAssumption
    <2>1. CASE subject = "reuse"
      BY <2>1 DEF RegistryInv, ReusedInv, LogsAreFound, Reuse!StaysBound
    <2>2. CASE subject # "reuse"
      <3>1. FreshInv
        BY <2>2 DEF RegistryInv
      <3>2. Registry!NeverRefused /\ Registry!StaleScanEnds /\ Registry!CalmReadsSucceed
        BY <3>1 DEF FreshInv, ScanPlace, Registry!NeverRefused, Registry!StaleScanEnds, Registry!CalmReadsSucceed
      <3>3. Registry!TypeOK
        BY <3>1 DEF FreshInv, Working, Bindings, Request, Registry!TypeOK, Registry!States
      <3> QED
        BY <2>2, <3>2, <3>3 DEF LogsAreFound
    <2> QED
      BY <2>1, <2>2
  <1> QED
    BY <1>1, RegistryInvariant, PTL

-----------------------------------------------------------------------------
(* The event log and its retention.                                           *)

\* The record or tombstone of an operation.
Entry(d, id) == IF id \in Events!Live(d) THEN d.ops[id] ELSE d.retired[id]

\* An operation that ended.
Over(d, id) == id \in Events!Live(d) => Events!Terminal(d.ops[id])

\* A mark names an operation of the resource by its reason, and the event if that
\* is still kept.
MarkKept(d, t) ==
    LET mark == d.resources[t].mark
        at == mark.seq + 1 - Events!First(d)
    IN /\ mark.op \in Events!Known(d) /\ mark.seq <= d.lastEvent
       /\ Entry(d, mark.op).reason = mark.reason /\ Entry(d, mark.op).target = t
       /\ mark.seq >= Events!First(d) => d.events[at].op = mark.op /\ d.events[at].reason = mark.reason

\* What a resource owns came with a create of this resource that adopted its receipts,
\* and no create of it is at work.
OwnerKept(d, t) ==
    LET owner == d.resources[t].owner
    IN owner # None =>
          /\ owner \in Events!Live(d) /\ d.ops[owner].target = t /\ d.ops[owner].receipts = "adopted"
          /\ \A id \in Events!Live(d) : d.ops[id].target = t /\ d.ops[id].type = "create" => Events!Terminal(d.ops[id])

\* What an operation is while it is kept in full.
OperationKept(d, id) ==
    LET op == d.ops[id]
    IN /\ op.receipts = "adopted" => op.type = "create" /\ op.state = "succeeded"
       /\ op.released # None => op.type = "delete"
       /\ ~Events!Terminal(op) =>
             /\ op.reason = "none" /\ op.released = None /\ Events!Active(d, op.target) = {id}
             /\ op.type = "create" => Events!Exists(d, op.target)

\* The release of an inventory ended after the create that acquired it.
ReleaseKept(d, id) ==
    d.ops[id].receipts = "adopted" =>
       \/ Events!Exists(d, d.ops[id].target) /\ d.resources[d.ops[id].target].owner = id
       \/ d.ops[id].order # 0 /\ \E j \in Events!ReleasedBy(d, id) : d.ops[j].order = 0 \/ d.ops[j].order > d.ops[id].order

\* What retention and validation need of a history.
HistoryKept(d) ==
    /\ d \in Events!Data
    /\ Events!Live(d) \cap Events!Retired(d) = {} /\ Cardinality(Events!Known(d)) <= IdentityLimit
    /\ Events!WholeSuffix(d) /\ Events!EventsExplained(d)
    /\ \A t \in Events!Targets : Events!Exists(d, t) => MarkKept(d, t) /\ OwnerKept(d, t)
    /\ \A id \in Events!Live(d) : OperationKept(d, id) /\ ReleaseKept(d, id)

\* The operations that ended are numbered one after the other, but for one that
\* ends now.
Numbered(d, now) ==
    /\ \A id \in Events!Known(d) :
          /\ Entry(d, id).order \in 0 .. d.lastOrder
          /\ id # now => (Over(d, id) <=> Entry(d, id).order # 0)
    /\ \A i, j \in Events!Known(d) : Entry(d, i).order = Entry(d, j).order /\ Entry(d, i).order # 0 => i = j
    /\ \A n \in 1 .. d.lastOrder : \E id \in Events!Known(d) : Entry(d, id).order = n
    /\ now # None => now \in Events!Live(d) /\ Events!Terminal(d.ops[now]) /\ d.ops[now].order = 0

\* The last operations that ended were not retired.
RecentKept(d) == \A id \in Events!Retired(d) : d.retired[id].order + TerminalLimit <= d.lastOrder

\* The sizes that retention promises.
Limited(d) ==
    /\ Len(d.events) <= EventLimit
    /\ Cardinality({id \in Events!Live(d) : Events!Terminal(d.ops[id])} \ Events!Pinned(d)) <= TerminalLimit
    /\ RecentKept(d)

\* The invariant of the log and of the client that follows it.
EventInv == HistoryKept(memory) /\ Numbered(memory, None) /\ Limited(memory) /\ full = FALSE /\ cursor \in 0 .. memory.lastEvent

\* What a transaction makes of one operation, its resource and the log.
Change(d, c, id, op, resource) ==
    /\ c \in Events!Data /\ c.retired = d.retired /\ c.lastOrder = d.lastOrder /\ c.lastEvent = d.lastEvent + 1
    /\ \A i \in Ids : c.ops[i] = IF i = id THEN op ELSE d.ops[i]
    /\ \A t \in Events!Targets : c.resources[t] = IF t = op.target THEN resource ELSE d.resources[t]
    /\ Len(c.events) = Len(d.events) + 1
    /\ \A i \in 1 .. Len(d.events) : c.events[i] = d.events[i]
    /\ c.events[Len(c.events)] =
          [seq |-> d.lastEvent + 1, op |-> id, type |-> op.type, target |-> op.target, reason |-> op.reason]

\* The create a resource got its inventory from.
Owner(resource) == IF resource = None THEN None ELSE resource.owner

\* What the lifecycle may make of them.
Allowed(d, id, op, resource) ==
    LET t == op.target
        old == d.resources[t]
    IN /\ id \in Ids /\ op \in Events!Operations /\ op.order = 0 /\ resource \in Events!Resources \cup {None}
       /\ id \notin Events!Retired(d)
       /\ id \in Events!Live(d) => ~Events!Terminal(d.ops[id]) /\ op.target = d.ops[id].target /\ op.type = d.ops[id].type
       /\ id \notin Events!Live(d) => Cardinality(Events!Known(d)) < IdentityLimit
       /\ ~Events!Terminal(op) =>
             /\ op.reason = "none" /\ op.released = None /\ op.receipts # "adopted"
             /\ Events!Active(d, t) \subseteq {id}
             /\ op.type = "create" => resource # None /\ Owner(resource) = None
       /\ op.receipts = "adopted" => op.type = "create" /\ op.state = "succeeded" /\ Owner(resource) = id
       /\ op.released # None => op.type = "delete"
       /\ resource # None =>
             /\ resource.mark = [op |-> id, seq |-> d.lastEvent + 1, reason |-> op.reason]
             /\ \/ resource.owner = Owner(old)
                \/ resource.owner = id /\ Owner(old) = None /\ op.receipts = "adopted" /\ id \in Events!Live(d)
       /\ resource = None /\ old # None =>
             id \in Events!Live(d) /\ (Owner(old) # None => op.state = "succeeded" /\ op.released = Owner(old))

\* The operations that may be retired, and the ones among them that ended later.
Candidates(d) == {id \in Events!Live(d) : Events!Terminal(d.ops[id])} \ Events!Pinned(d)

\* The candidates that ended after an operation.
EndedLater(d, id) == {j \in Candidates(d) : d.ops[j].order > d.ops[id].order}

\* applyRetention makes tombstones of the operations that expired.
Compaction(o, k) ==
    /\ k \in Events!Data /\ k.resources = o.resources /\ k.events = o.events
    /\ k.lastEvent = o.lastEvent /\ k.lastOrder = o.lastOrder
    /\ \A i \in Ids : /\ k.ops[i] = IF i \in Events!Expired(o) THEN None ELSE o.ops[i]
                      /\ k.retired[i] = IF i \in Events!Expired(o) THEN Events!Tombstone(o.ops[i]) ELSE o.retired[i]

\* What the suite assumes of the constants of the event log.
LEMMA EventConstants ==
    /\ Events!EventLogAssumption /\ IsFiniteSet(Ids)
    /\ TerminalLimit \in Nat \ {0} /\ EventLimit \in Nat \ {0} /\ IdentityLimit \in Nat
    /\ None \notin Ids \cup Events!Operations \cup Events!Tombstones \cup Events!Resources
  <1>1. Events!EventLogAssumption
    BY StorageAssumption DEF StorageAssumption
  <1> QED
    BY <1>1 DEF Events!EventLogAssumption, Events!IsFiniteSet, IsFiniteSet

\* The component counts as the library does.
LEMMA EventCardinality == \A S : Events!Cardinality(S) = Cardinality(S)
  BY DEF Cardinality, Events!Cardinality, IsFiniteSet, Events!IsFiniteSet

\* The fields of what a Store keeps.
LEMMA DataFields ==
    ASSUME NEW d \in Events!Data
    PROVE  /\ d.ops \in [Ids -> Events!Operations \cup {None}] /\ d.retired \in [Ids -> Events!Tombstones \cup {None}]
           /\ d.resources \in [Events!Targets -> Events!Resources \cup {None}] /\ d.events \in Seq(Events!Events)
           /\ d.lastEvent \in Nat /\ d.lastOrder \in Nat /\ Len(d.events) \in Nat
           /\ \A i \in 1 .. Len(d.events) : d.events[i] \in Events!Events
           /\ Events!First(d) \in Nat
  <1>1. /\ d.ops \in [Ids -> Events!Operations \cup {None}] /\ d.retired \in [Ids -> Events!Tombstones \cup {None}]
        /\ d.resources \in [Events!Targets -> Events!Resources \cup {None}] /\ d.events \in Seq(Events!Events)
        /\ d.lastEvent \in Nat /\ d.lastOrder \in Nat
    BY DEF Events!Data
  <1>2. Len(d.events) \in Nat /\ \A i \in 1 .. Len(d.events) : d.events[i] \in Events!Events
    BY <1>1
  <1>3. d.events # <<>> => d.events[1] \in Events!Events
    BY <1>1, <1>2
  <1> QED
    BY <1>1, <1>2, <1>3 DEF Events!First, Events!Events

\* Which operations a change makes known and ended.
LEMMA ChangedKnown ==
    ASSUME NEW d, NEW c, NEW id, NEW op, NEW resource, d \in Events!Data, Change(d, c, id, op, resource), Allowed(d, id, op, resource)
    PROVE  /\ Events!Live(c) = Events!Live(d) \cup {id} /\ Events!Retired(c) = Events!Retired(d)
           /\ Events!Known(c) = Events!Known(d) \cup {id}
           /\ \A i \in Ids : i # id => Entry(c, i) = Entry(d, i) /\ Over(c, i) = Over(d, i)
           /\ Entry(c, id) = op /\ id \in Ids /\ id \notin Events!Retired(d)
           /\ id \in Events!Known(d) => id \in Events!Live(d)
           /\ Events!Known(d) \subseteq Ids
           /\ op.target \in Events!Targets /\ op # None
  <1> USE EventConstants
  <1>1. id \in Ids /\ op # None /\ op.target \in Events!Targets
    BY DEF Allowed, Events!Operations
  <1>2. Events!Live(c) = Events!Live(d) \cup {id} /\ Events!Retired(c) = Events!Retired(d)
    BY <1>1 DEF Change, Events!Live, Events!Retired
  <1>3. id \notin Events!Retired(d)
    BY DEF Allowed
  <1>4. \A i \in Ids : i # id => Entry(c, i) = Entry(d, i) /\ Over(c, i) = Over(d, i)
    BY <1>2 DEF Change, Entry, Over
  <1>5. Entry(c, id) = op
    BY <1>1, <1>2 DEF Change, Entry
  <1> QED
    BY <1>1, <1>2, <1>3, <1>4, <1>5 DEF Events!Known, Events!Live, Events!Retired

\* The log goes on by one event.
LEMMA ChangedLog ==
    ASSUME NEW d, NEW c, NEW id, NEW op, NEW resource, HistoryKept(d), Change(d, c, id, op, resource), Allowed(d, id, op, resource)
    PROVE  /\ Events!First(c) = Events!First(d) /\ Events!WholeSuffix(c) /\ Events!EventsExplained(c)
           /\ Len(c.events) \in Nat /\ Len(c.events) = Len(d.events) + 1
           /\ Events!First(d) + Len(d.events) = d.lastEvent + 1
  <1> USE EventConstants
  <1>1. d \in Events!Data /\ c \in Events!Data /\ Events!WholeSuffix(d) /\ Events!EventsExplained(d)
    BY DEF HistoryKept, Change
  <1>2. /\ Len(c.events) \in Nat /\ Len(d.events) \in Nat /\ d.lastEvent \in Nat /\ Events!First(d) \in Nat
        /\ Len(c.events) = Len(d.events) + 1 /\ c.lastEvent = d.lastEvent + 1
        /\ c.events \in Seq(Events!Events) /\ d.events \in Seq(Events!Events)
    BY <1>1, DataFields DEF Change
  <1>3. c.events # <<>> /\ (d.events = <<>> <=> Len(d.events) = 0)
    BY <1>2
  <1>4. c.events[Len(c.events)].seq = d.lastEvent + 1
    BY DEF Change
  <1>5. Events!First(c) = Events!First(d)
    <2>1. CASE d.events = <<>>
      BY <1>2, <1>3, <1>4, <2>1 DEF Events!First
    <2>2. CASE d.events # <<>>
      <3>1. 1 \in 1 .. Len(d.events)
        BY <1>2, <1>3, <2>2
      <3> QED
        BY <1>3, <2>2, <3>1 DEF Events!First, Change
    <2> QED
      BY <2>1, <2>2
  <1>6. Events!First(d) + Len(d.events) = d.lastEvent + 1
    BY <1>1 DEF Events!WholeSuffix
  <1>7. Events!WholeSuffix(c)
    <2>1. ASSUME NEW i \in 1 .. Len(c.events) PROVE c.events[i].seq = Events!First(c) + i - 1
      <3>1. CASE i \in 1 .. Len(d.events)
        BY <1>1, <1>5, <3>1 DEF Events!WholeSuffix, Change
      <3>2. CASE i = Len(c.events)
        BY <1>2, <1>4, <1>5, <1>6, <3>2
      <3> QED
        BY <1>2, <3>1, <3>2
    <2>2. Events!First(c) + Len(c.events) = c.lastEvent + 1
      BY <1>2, <1>5, <1>6
    <2> QED
      BY <2>1, <2>2 DEF Events!WholeSuffix
  <1>8. ASSUME NEW i \in 1 .. Len(c.events)
        PROVE  LET e == c.events[i] IN Entry(c, e.op) # None /\ Entry(c, e.op).type = e.type /\ Entry(c, e.op).target = e.target
    <2>1. CASE i = Len(c.events)
      <3>1. Entry(c, id) = op /\ op # None
        BY <1>1, ChangedKnown
      <3> QED
        BY <2>1, <3>1 DEF Change
    <2>2. CASE i \in 1 .. Len(d.events)
      <3> DEFINE e == d.events[i]
      <3>1. c.events[i] = e /\ e.op \in Ids
        BY <1>1, <2>2, DataFields DEF Change, Events!Events
      <3>2. Entry(d, e.op) # None /\ Entry(d, e.op).type = e.type /\ Entry(d, e.op).target = e.target
        BY <1>1, <2>2 DEF Events!EventsExplained, Entry
      <3>3. CASE e.op # id
        BY <1>1, <3>1, <3>2, <3>3, ChangedKnown
      <3>4. CASE e.op = id
        <4>1. id \in Events!Live(d)
          BY <1>1, <3>2, <3>4, ChangedKnown DEF Entry, Events!Retired
        <4>2. Entry(d, id) = d.ops[id] /\ Entry(c, id) = op /\ op.target = d.ops[id].target /\ op.type = d.ops[id].type /\ op # None
          <5>1. Entry(c, id) = op /\ op # None
            BY <1>1, ChangedKnown
          <5>2. Entry(d, id) = d.ops[id]
            BY <4>1 DEF Entry
          <5> QED
            BY <4>1, <5>1, <5>2 DEF Allowed
        <4> QED
          BY <3>1, <3>2, <3>4, <4>2
      <3> QED
        BY <3>3, <3>4
    <2> QED
      BY <1>2, <2>1, <2>2
  <1>9. Events!EventsExplained(c)
    BY <1>8 DEF Events!EventsExplained, Entry
  <1> QED
    BY <1>2, <1>5, <1>6, <1>7, <1>9

\* A change marks its resource, and leaves the marks of the others true.
LEMMA ChangedMarks ==
    ASSUME NEW d, NEW c, NEW id, NEW op, NEW resource, HistoryKept(d), Change(d, c, id, op, resource), Allowed(d, id, op, resource),
           NEW t \in Events!Targets, Events!Exists(c, t)
    PROVE  MarkKept(c, t)
  <1> USE EventConstants
  <1> DEFINE mark == c.resources[t].mark
  <1>1. d \in Events!Data /\ c \in Events!Data /\ Len(c.events) = Len(d.events) + 1 /\ Events!First(c) = Events!First(d)
        /\ Events!First(d) + Len(d.events) = d.lastEvent + 1 /\ c.lastEvent = d.lastEvent + 1
    <2>1. d \in Events!Data /\ c \in Events!Data /\ Len(c.events) = Len(d.events) + 1 /\ c.lastEvent = d.lastEvent + 1
      BY DEF HistoryKept, Change
    <2>2. Events!First(c) = Events!First(d) /\ Events!First(d) + Len(d.events) = d.lastEvent + 1
      BY ChangedLog
    <2> QED
      BY <2>1, <2>2
  <1>2. Len(d.events) \in Nat /\ d.lastEvent \in Nat /\ Events!First(d) \in Nat
    BY <1>1, DataFields
  <1>3. CASE t = op.target
    <2>1. c.resources[t] = resource /\ resource # None
      BY <1>3 DEF Change, Events!Exists
    <2>2. mark = [op |-> id, seq |-> d.lastEvent + 1, reason |-> op.reason]
      BY <2>1 DEF Allowed
    <2>3. Entry(c, id) = op /\ id \in Events!Known(c)
      BY <1>1, ChangedKnown
    <2>4. mark.seq + 1 - Events!First(c) = Len(c.events)
      BY <1>1, <1>2, <2>2
    <2>5. c.events[Len(c.events)].op = id /\ c.events[Len(c.events)].reason = op.reason
      BY DEF Change
    <2> QED
      BY <1>1, <1>2, <1>3, <2>2, <2>3, <2>4, <2>5, SMTT(40) DEF MarkKept
  <1>4. CASE t # op.target
    <2>1. c.resources[t] = d.resources[t] /\ Events!Exists(d, t)
      BY <1>4 DEF Change, Events!Exists
    <2>2. MarkKept(d, t)
      BY <2>1 DEF HistoryKept
    <2>3. mark = d.resources[t].mark /\ mark.op \in Events!Known(d) /\ mark.seq <= d.lastEvent
          /\ Entry(d, mark.op).reason = mark.reason /\ Entry(d, mark.op).target = t
      BY <2>1, <2>2 DEF MarkKept
    <2>4. mark.seq \in Nat
      <3>1. d.resources[t] \in Events!Resources
        BY <1>1, <2>1, DataFields DEF Events!Exists
      <3> QED
        BY <2>3, <3>1 DEF Events!Resources, Events!Marks
    <2>5. mark.op # id
      <3>1. ASSUME id \in Events!Live(d) PROVE Entry(d, id).target = op.target
        BY <3>1 DEF Allowed, Entry
      <3> QED
        BY <1>1, <1>4, <2>3, <3>1, ChangedKnown
    <2>6. mark.op \in Events!Known(c) /\ Entry(c, mark.op) = Entry(d, mark.op)
      BY <1>1, <2>3, <2>5, ChangedKnown
    <2>7. ASSUME mark.seq >= Events!First(d)
          PROVE  LET at == mark.seq + 1 - Events!First(d)
                 IN c.events[at] = d.events[at] /\ d.events[at].op = mark.op /\ d.events[at].reason = mark.reason
      <3> DEFINE first == Events!First(d)
                 n == Len(d.events)
                 latest == d.lastEvent
                 seq == mark.seq
      <3>1. first \in Nat /\ n \in Nat /\ latest \in Nat /\ seq \in Nat /\ first + n = latest + 1 /\ first <= seq /\ seq <= latest
        BY <1>1, <1>2, <2>3, <2>4, <2>7
      <3> HIDE DEF first, n, latest, seq
      <3>2. seq + 1 - first \in 1 .. n
        BY <3>1
      <3>3. d.events[seq + 1 - first].op = mark.op /\ d.events[seq + 1 - first].reason = mark.reason
        BY <2>2, <2>3, <2>7 DEF MarkKept, first, seq
      <3>4. c.events[seq + 1 - first] = d.events[seq + 1 - first]
        BY <3>2 DEF Change, n
      <3> QED
        BY <3>3, <3>4 DEF first, seq
    <2>8. mark.seq <= c.lastEvent
      BY <1>1, <1>2, <2>3, <2>4
    <2>9. Entry(c, mark.op).reason = mark.reason /\ Entry(c, mark.op).target = t
      BY <2>3, <2>6
    <2> QED
      BY <1>1, <2>6, <2>7, <2>8, <2>9 DEF MarkKept
  <1> QED
    BY <1>3, <1>4

\* What a change leaves to the other operations of a resource.
LEMMA ChangedOwner ==
    ASSUME NEW d, NEW c, NEW id, NEW op, NEW resource, HistoryKept(d), Change(d, c, id, op, resource), Allowed(d, id, op, resource),
           NEW t \in Events!Targets, Events!Exists(c, t)
    PROVE  OwnerKept(c, t)
  <1> USE EventConstants
  <1> DEFINE owner == c.resources[t].owner
  <1> SUFFICES ASSUME owner # None
               PROVE  /\ owner \in Events!Live(c) /\ c.ops[owner].target = t /\ c.ops[owner].receipts = "adopted"
                      /\ \A i \in Events!Live(c) : c.ops[i].target = t /\ c.ops[i].type = "create" => Events!Terminal(c.ops[i])
    BY DEF OwnerKept
  <1>1. d \in Events!Data /\ Events!Live(c) = Events!Live(d) \cup {id} /\ id \in Ids /\ Events!Live(d) \subseteq Ids
    BY ChangedKnown DEF HistoryKept, Events!Live
  <1>2. /\ \A i \in Ids : c.ops[i] = IF i = id THEN op ELSE d.ops[i]
        /\ c.resources[t] = IF t = op.target THEN resource ELSE d.resources[t]
    BY DEF Change
  <1>3. id \in Events!Live(d) => ~Events!Terminal(d.ops[id]) /\ op.target = d.ops[id].target /\ op.type = d.ops[id].type
    BY DEF Allowed
  <1>4. \A i \in Events!Live(d) : d.ops[i].receipts = "adopted" => i # id
    BY <1>3 DEF HistoryKept, OperationKept, Events!Terminal
  <1>5. CASE d.resources[t] # None /\ owner = d.resources[t].owner
    <2>1. OwnerKept(d, t)
      BY <1>5 DEF HistoryKept, Events!Exists
    <2>2. owner \in Events!Live(d) /\ d.ops[owner].target = t /\ d.ops[owner].receipts = "adopted"
      BY <1>5, <2>1 DEF OwnerKept
    <2>3. ASSUME NEW i \in Events!Live(c), c.ops[i].target = t, c.ops[i].type = "create" PROVE Events!Terminal(c.ops[i])
      <3>1. CASE i # id
        BY <1>1, <1>2, <1>5, <2>1, <2>3, <3>1 DEF OwnerKept
      <3>2. CASE i = id
        BY <1>1, <1>2, <1>5, <2>3, <3>2 DEF Allowed, Owner
      <3> QED
        BY <3>1, <3>2
    <2> QED
      BY <1>1, <1>2, <1>4, <2>2, <2>3
  <1>6. CASE t = op.target /\ owner = id /\ op.receipts = "adopted" /\ id \in Events!Live(d)
    <2>1. ASSUME NEW i \in Events!Live(c), i # id, c.ops[i].target = t PROVE Events!Terminal(c.ops[i])
      <3>1. i \in Events!Live(d) /\ c.ops[i] = d.ops[i]
        BY <1>1, <1>2, <2>1
      <3>2. Events!Active(d, t) = {id}
        BY <1>3, <1>6 DEF HistoryKept, OperationKept
      <3> QED
        BY <2>1, <3>1, <3>2 DEF Events!Active
    <2>2. op.state = "succeeded" /\ op.target = t
      BY <1>6 DEF Allowed
    <2> QED
      BY <1>1, <1>2, <1>6, <2>1, <2>2 DEF Events!Terminal
  <1>7. CASE t # op.target
    BY <1>2, <1>5, <1>7 DEF Events!Exists
  <1>8. CASE t = op.target
    <2>1. resource # None /\ owner = resource.owner
      BY <1>2, <1>8 DEF Events!Exists
    <2>2. \/ resource.owner = Owner(d.resources[t])
          \/ resource.owner = id /\ op.receipts = "adopted" /\ id \in Events!Live(d)
      BY <1>8, <2>1 DEF Allowed
    <2> QED
      BY <1>5, <1>6, <1>8, <2>1, <2>2 DEF Owner
  <1> QED
    BY <1>7, <1>8

\* What a change leaves of the operations that are kept in full.
LEMMA ChangedOperations ==
    ASSUME NEW d, NEW c, NEW id, NEW op, NEW resource, HistoryKept(d), Numbered(d, None), Change(d, c, id, op, resource), Allowed(d, id, op, resource),
           NEW i \in Events!Live(c)
    PROVE  OperationKept(c, i) /\ ReleaseKept(c, i)
  <1> USE EventConstants
  <1>1. d \in Events!Data /\ Events!Live(c) = Events!Live(d) \cup {id} /\ id \in Ids /\ Events!Live(d) \subseteq Ids
    BY ChangedKnown DEF HistoryKept, Events!Live
  <1>2. /\ \A j \in Ids : c.ops[j] = IF j = id THEN op ELSE d.ops[j]
        /\ \A t \in Events!Targets : c.resources[t] = IF t = op.target THEN resource ELSE d.resources[t]
    BY DEF Change
  <1>3. id \in Events!Live(d) => ~Events!Terminal(d.ops[id]) /\ op.target = d.ops[id].target /\ op.type = d.ops[id].type
    BY DEF Allowed
  <1>4. \A j \in Events!Live(d) : OperationKept(d, j) /\ ReleaseKept(d, j) /\ d.ops[j].target \in Events!Targets
    BY <1>1, DataFields DEF HistoryKept, Events!Live, Events!Operations
  <1>5. /\ op.receipts = "adopted" => op.type = "create" /\ op.state = "succeeded" /\ Owner(resource) = id
        /\ op.released # None => op.type = "delete"
        /\ op.target \in Events!Targets
        /\ ~Events!Terminal(op) => /\ op.reason = "none" /\ op.released = None
                                   /\ Events!Active(d, op.target) \subseteq {id}
                                   /\ op.type = "create" => resource # None
    BY DEF Allowed, Events!Operations
  <1>6. CASE i = id
    <2>1. c.ops[i] = op
      BY <1>1, <1>2, <1>6
    <2>2. ASSUME ~Events!Terminal(op) PROVE Events!Active(c, op.target) = {id}
      BY <1>1, <1>2, <1>5, <2>2 DEF Events!Active
    <2>3. op.type = "create" /\ ~Events!Terminal(op) => Events!Exists(c, op.target)
      BY <1>2, <1>5 DEF Events!Exists
    <2>4. OperationKept(c, i)
      BY <1>5, <1>6, <2>1, <2>2, <2>3 DEF OperationKept
    <2>5. op.receipts = "adopted" => Events!Exists(c, op.target) /\ c.resources[op.target].owner = id
      BY <1>1, <1>2, <1>5 DEF Owner, Events!Exists
    <2> QED
      BY <1>6, <2>1, <2>4, <2>5 DEF ReleaseKept
  <1>7. CASE i # id
    <2>1. i \in Events!Live(d) /\ c.ops[i] = d.ops[i] /\ d.ops[i].target \in Events!Targets
      BY <1>1, <1>2, <1>4, <1>7
    <2>2. ASSUME ~Events!Terminal(d.ops[i])
          PROVE  Events!Active(c, d.ops[i].target) = {i} /\ (d.ops[i].type = "create" => Events!Exists(c, d.ops[i].target))
      <3>1. Events!Active(d, d.ops[i].target) = {i} /\ (d.ops[i].type = "create" => Events!Exists(d, d.ops[i].target))
        BY <1>4, <2>1, <2>2 DEF OperationKept
      <3>2. CASE op.target # d.ops[i].target
        BY <1>1, <1>2, <2>1, <3>1, <3>2 DEF Events!Active, Events!Exists
      <3>3. CASE op.target = d.ops[i].target
        <4>1. id \notin Events!Live(d)
          BY <1>1, <1>3, <1>7, <3>1, <3>3 DEF Events!Active
        <4>2. Events!Terminal(op)
          BY <1>5, <1>7, <3>1, <3>3
        <4>3. resource = None => d.resources[op.target] = None
          BY <4>1 DEF Allowed
        <4> QED
          BY <1>1, <1>2, <1>5, <2>1, <3>1, <3>3, <4>2, <4>3 DEF Events!Active, Events!Exists
      <3> QED
        BY <3>2, <3>3
    <2>3. OperationKept(c, i)
      BY <1>4, <2>1, <2>2 DEF OperationKept
    <2>4. ASSUME d.ops[i].receipts = "adopted"
          PROVE  \/ Events!Exists(c, d.ops[i].target) /\ c.resources[d.ops[i].target].owner = i
                 \/ c.ops[i].order # 0 /\ \E j \in Events!ReleasedBy(c, i) : c.ops[j].order = 0 \/ c.ops[j].order > c.ops[i].order
      <3>1. CASE Events!Exists(d, d.ops[i].target) /\ d.resources[d.ops[i].target].owner = i
        <4>1. CASE op.target # d.ops[i].target
          BY <1>2, <2>1, <3>1, <4>1 DEF Events!Exists
        <4>2. CASE op.target = d.ops[i].target
          <5>1. Owner(d.resources[op.target]) = i /\ d.resources[op.target] # None /\ i # None
            BY <1>1, <2>1, <3>1, <4>2 DEF Owner, Events!Exists
          <5>2. CASE resource # None
            <6>1. resource.owner = i
              BY <5>1, <5>2 DEF Allowed
            <6> QED
              BY <1>2, <1>5, <4>2, <5>2, <6>1 DEF Events!Exists
          <5>3. CASE resource = None
            <6>1. op.state = "succeeded" /\ op.released = i /\ op.order = 0
              BY <5>1, <5>3 DEF Allowed
            <6>2. id \in Events!ReleasedBy(c, i) /\ c.ops[id].order = 0
              BY <1>1, <1>2, <6>1 DEF Events!ReleasedBy
            <6>3. d.ops[i].order # 0
              <7>1. Over(d, i) /\ i \in Events!Known(d) /\ i # None /\ Entry(d, i) = d.ops[i]
                BY <1>1, <1>4, <2>1, <2>4 DEF OperationKept, Over, Events!Terminal, Events!Known, Entry
              <7> QED
                BY <7>1 DEF Numbered
            <6> QED
              BY <2>1, <6>2, <6>3
          <5> QED
            BY <5>2, <5>3
        <4> QED
          BY <4>1, <4>2
      <3>2. CASE /\ d.ops[i].order # 0
                 /\ \E j \in Events!ReleasedBy(d, i) : d.ops[j].order = 0 \/ d.ops[j].order > d.ops[i].order
        <4>1. PICK j \in Events!ReleasedBy(d, i) : d.ops[j].order = 0 \/ d.ops[j].order > d.ops[i].order
          BY <3>2
        <4>2. j \in Events!Live(d) /\ j # id
          BY <1>3, <4>1 DEF Events!ReleasedBy, Events!Terminal
        <4>3. c.ops[j] = d.ops[j] /\ j \in Events!ReleasedBy(c, i)
          BY <1>1, <1>2, <4>1, <4>2 DEF Events!ReleasedBy
        <4> QED
          BY <2>1, <3>2, <4>1, <4>3
      <3> QED
        BY <1>4, <2>1, <2>4, <3>1, <3>2 DEF ReleaseKept
    <2> QED
      BY <2>1, <2>3, <2>4 DEF ReleaseKept
  <1> QED
    BY <1>6, <1>7

\* The candidate of a transaction.
LEMMA ChangedHistory ==
    ASSUME NEW d, NEW c, NEW id, NEW op, NEW resource, HistoryKept(d), Numbered(d, None), Change(d, c, id, op, resource), Allowed(d, id, op, resource)
    PROVE  HistoryKept(c)
  <1> USE EventConstants
  <1>1. c \in Events!Data /\ d \in Events!Data
    BY DEF HistoryKept, Change
  <1>2. /\ Events!Live(c) = Events!Live(d) \cup {id} /\ Events!Retired(c) = Events!Retired(d)
        /\ Events!Known(c) = Events!Known(d) \cup {id}
        /\ id \in Ids /\ id \notin Events!Retired(d) /\ Events!Known(d) \subseteq Ids
        /\ id \in Events!Known(d) => id \in Events!Live(d)
    BY <1>1, ChangedKnown
  <1>3. Events!Live(d) \cap Events!Retired(d) = {} /\ Cardinality(Events!Known(d)) <= IdentityLimit
    BY DEF HistoryKept
  <1>4. Cardinality(Events!Known(c)) <= IdentityLimit
    <2>1. IsFiniteSet(Events!Known(d)) /\ Cardinality(Events!Known(d)) \in Nat
      BY <1>2, FS_Subset, FS_CardinalityType
    <2>2. CASE id \in Events!Known(d)
      <3>1. Events!Known(c) = Events!Known(d)
        BY <1>2, <2>2
      <3> QED
        BY <1>3, <3>1
    <2>3. CASE id \notin Events!Known(d)
      <3>1. Cardinality(Events!Known(d)) < IdentityLimit
        BY <2>3 DEF Allowed, Events!Known
      <3>2. Cardinality(Events!Known(c)) = Cardinality(Events!Known(d)) + 1
        BY <1>2, <2>1, <2>3, FS_AddElement
      <3> QED
        BY <2>1, <3>1, <3>2
    <2> QED
      BY <2>2, <2>3
  <1>5. Events!WholeSuffix(c) /\ Events!EventsExplained(c)
    BY ChangedLog
  <1>6. \A t \in Events!Targets : Events!Exists(c, t) => MarkKept(c, t) /\ OwnerKept(c, t)
    BY ChangedMarks, ChangedOwner
  <1>7. \A i \in Events!Live(c) : OperationKept(c, i) /\ ReleaseKept(c, i)
    BY ChangedOperations
  <1> QED
    BY <1>1, <1>2, <1>3, <1>4, <1>5, <1>6, <1>7 DEF HistoryKept

\* An operation that ends is the only one without a number.
LEMMA ChangedNumbers ==
    ASSUME NEW d, NEW c, NEW id, NEW op, NEW resource, HistoryKept(d), Numbered(d, None),
           Change(d, c, id, op, resource), Allowed(d, id, op, resource)
    PROVE  Numbered(c, IF Events!Terminal(op) THEN id ELSE None)
  <1> USE EventConstants
  <1>1. c \in Events!Data /\ d \in Events!Data /\ c.lastOrder = d.lastOrder /\ op.order = 0
    BY DEF HistoryKept, Change, Allowed
  <1>2. /\ Events!Live(c) = Events!Live(d) \cup {id}
        /\ Events!Known(c) = Events!Known(d) \cup {id}
        /\ id \in Ids /\ id \notin Events!Retired(d) /\ Events!Known(d) \subseteq Ids
        /\ id \in Events!Known(d) => id \in Events!Live(d)
        /\ \A i \in Ids : i # id => Entry(c, i) = Entry(d, i) /\ Over(c, i) = Over(d, i)
        /\ Entry(c, id) = op
    BY <1>1, ChangedKnown
  <1>3. d.lastOrder \in Nat
    BY <1>1, DataFields
  <1>4. id \in Events!Known(d) => Entry(d, id).order = 0
    <2>1. SUFFICES ASSUME id \in Events!Known(d) PROVE Entry(d, id).order = 0
      OBVIOUS
    <2>2. id \in Events!Live(d) /\ ~Over(d, id)
      BY <1>2, <2>1 DEF Allowed, Over
    <2> QED
      BY <1>2, <2>1, <2>2 DEF Numbered
  <1>5. Over(c, id) <=> Events!Terminal(op)
    BY <1>2 DEF Over, Change
  <1>6. /\ \A i \in Events!Known(d) :
              /\ Entry(d, i).order \in 0 .. d.lastOrder
              /\ Over(d, i) <=> Entry(d, i).order # 0
        /\ \A i, j \in Events!Known(d) : Entry(d, i).order = Entry(d, j).order /\ Entry(d, i).order # 0 => i = j
        /\ \A n \in 1 .. d.lastOrder : \E i \in Events!Known(d) : Entry(d, i).order = n
    BY <1>2 DEF Numbered
  <1> DEFINE now == IF Events!Terminal(op) THEN id ELSE None
  <1>7. ASSUME NEW i \in Events!Known(c)
        PROVE  Entry(c, i).order \in 0 .. c.lastOrder /\ (i # now => (Over(c, i) <=> Entry(c, i).order # 0))
    BY <1>1, <1>2, <1>3, <1>5, <1>6
  <1>8. ASSUME NEW i \in Events!Known(c), NEW j \in Events!Known(c), Entry(c, i).order = Entry(c, j).order, Entry(c, i).order # 0
        PROVE  i = j
    BY <1>1, <1>2, <1>6, <1>8
  <1>9. ASSUME NEW n \in 1 .. c.lastOrder PROVE \E i \in Events!Known(c) : Entry(c, i).order = n
    <2>1. PICK i \in Events!Known(d) : Entry(d, i).order = n
      BY <1>1, <1>6
    <2>2. i # id
      BY <1>3, <1>1, <1>4, <2>1
    <2> QED
      BY <1>2, <2>1, <2>2
  <1>10. now # None => now \in Events!Live(c) /\ Events!Terminal(c.ops[now]) /\ c.ops[now].order = 0
    BY <1>1, <1>2 DEF Change
  <1> QED
    BY <1>7, <1>8, <1>9, <1>10 DEF Numbered

\* assignTerminalSequences numbers the operation that ends now.
Renumbered(d, o, now) ==
    /\ o \in Events!Data /\ o.retired = d.retired /\ o.resources = d.resources /\ o.events = d.events
    /\ o.lastEvent = d.lastEvent /\ o.lastOrder = IF now = None THEN d.lastOrder ELSE d.lastOrder + 1
    /\ \A i \in Ids : o.ops[i] = IF i = now THEN [d.ops[i] EXCEPT !.order = d.lastOrder + 1] ELSE d.ops[i]

\* assignTerminalSequences numbers the operation that ends now, and no other.
LEMMA OrderedShape ==
    ASSUME NEW d, NEW now, HistoryKept(d), Numbered(d, now)
    PROVE  Renumbered(d, Events!Ordered(d), now)
  <1> USE EventConstants
  <1> DEFINE new == {id \in Events!Live(d) : Events!Terminal(d.ops[id]) /\ d.ops[id].order = 0}
             ops == [id \in Ids |-> IF id \in new THEN [d.ops[id] EXCEPT !.order = d.lastOrder + 1] ELSE d.ops[id]]
             lastOrder == d.lastOrder + Cardinality(new)
  <1>1. d \in Events!Data
    BY DEF HistoryKept
  <1>2. \A id \in Events!Live(d) : d.ops[id] \in Events!Operations /\ id \in Ids
    BY <1>1, DataFields DEF Events!Live
  <1>3. new = IF now = None THEN {} ELSE {now}
    <2>1. \A id \in new : id = now /\ id # None
      BY <1>2 DEF Numbered, Entry, Over, Events!Known
    <2>2. now # None => now \in new
      BY DEF Numbered
    <2> QED
      BY <2>1, <2>2
  <1>4. Cardinality(new) = IF now = None THEN 0 ELSE 1
    BY <1>3, FS_EmptySet, FS_Singleton
  <1>5. d.lastOrder \in Nat /\ lastOrder \in Nat /\ lastOrder = IF now = None THEN d.lastOrder ELSE d.lastOrder + 1
    BY <1>1, <1>4, DataFields
  <1>6. ops \in [Ids -> Events!Operations \cup {None}]
    <2>1. ASSUME NEW id \in Ids PROVE ops[id] \in Events!Operations \cup {None}
      <3>1. CASE id \in new
        <4>1. d.ops[id] \in Events!Operations /\ d.lastOrder + 1 \in Nat
          BY <1>2, <1>5, <3>1
        <4> QED
          BY <3>1, <4>1 DEF Events!Operations
      <3>2. CASE id \notin new
        BY <1>1, <3>2, DataFields
      <3> QED
        BY <3>1, <3>2
    <2> QED
      BY <2>1
  <1> HIDE DEF ops, lastOrder
  <1>7. [d EXCEPT !.ops = ops, !.lastOrder = lastOrder] \in Events!Data
    BY <1>1, <1>5, <1>6, Zenon DEF Events!Data
  <1>8. LET o == [d EXCEPT !.ops = ops, !.lastOrder = lastOrder]
        IN o.retired = d.retired /\ o.resources = d.resources /\ o.events = d.events /\ o.lastEvent = d.lastEvent
           /\ o.ops = ops /\ o.lastOrder = lastOrder
    BY <1>1, Zenon DEF Events!Data
  <1>9. Events!Ordered(d) = [d EXCEPT !.ops = ops, !.lastOrder = lastOrder]
    BY EventCardinality, Zenon DEF Events!Ordered, ops, lastOrder
  <1>10. \A i \in Ids : ops[i] = IF i = now THEN [d.ops[i] EXCEPT !.order = d.lastOrder + 1] ELSE d.ops[i]
    BY <1>3 DEF ops
  <1> QED
    BY <1>5, <1>7, <1>8, <1>9, <1>10 DEF Renumbered

\* Apart from its number, an operation stays what it was.
LEMMA RenumberedEntries ==
    ASSUME NEW d, NEW o, NEW now, HistoryKept(d), Numbered(d, now), Renumbered(d, o, now)
    PROVE  /\ Events!Live(o) = Events!Live(d) /\ Events!Retired(o) = Events!Retired(d) /\ Events!Known(o) = Events!Known(d)
           /\ \A i \in Events!Live(d) :
                 /\ i \in Ids /\ d.ops[i] \in Events!Operations /\ o.ops[i] \in Events!Operations
                 /\ o.ops[i].type = d.ops[i].type /\ o.ops[i].target = d.ops[i].target /\ o.ops[i].state = d.ops[i].state
                 /\ o.ops[i].reason = d.ops[i].reason /\ o.ops[i].receipts = d.ops[i].receipts
                 /\ o.ops[i].released = d.ops[i].released
                 /\ o.ops[i].order = IF i = now THEN d.lastOrder + 1 ELSE d.ops[i].order
           /\ \A i \in Ids : Over(o, i) = Over(d, i)
           /\ \A i \in Ids : i \notin Events!Live(d) => Entry(o, i) = Entry(d, i) /\ Entry(d, i) = d.retired[i]
           /\ \A i \in Events!Live(d) : Entry(o, i) = o.ops[i] /\ Entry(d, i) = d.ops[i]
           /\ \A t \in Events!Targets : Events!Exists(o, t) = Events!Exists(d, t)
  <1> USE EventConstants
  <1>1. d \in Events!Data /\ o \in Events!Data
    BY DEF HistoryKept, Renumbered
  <1>2. now # None => now \in Events!Live(d)
    BY DEF Numbered
  <1>3. \A i \in Events!Live(d) : i \in Ids /\ d.ops[i] \in Events!Operations
    BY <1>1, DataFields DEF Events!Live
  <1>4. /\ \A i \in Ids : o.ops[i] = IF i = now THEN [d.ops[i] EXCEPT !.order = d.lastOrder + 1] ELSE d.ops[i]
        /\ o.retired = d.retired /\ o.resources = d.resources
    BY DEF Renumbered
  <1>5. \A i \in Events!Live(d) :
                 /\ o.ops[i] \in Events!Operations
                 /\ o.ops[i].type = d.ops[i].type /\ o.ops[i].target = d.ops[i].target /\ o.ops[i].state = d.ops[i].state
                 /\ o.ops[i].reason = d.ops[i].reason /\ o.ops[i].receipts = d.ops[i].receipts
                 /\ o.ops[i].released = d.ops[i].released
                 /\ o.ops[i].order = IF i = now THEN d.lastOrder + 1 ELSE d.ops[i].order
    <2>1. d.lastOrder + 1 \in Nat
      BY <1>1, DataFields
    <2> TAKE i \in Events!Live(d)
    <2>2. CASE i = now
      <3>1. d.ops[i] \in Events!Operations /\ o.ops[i] = [d.ops[i] EXCEPT !.order = d.lastOrder + 1]
        BY <1>3, <1>4, <2>2
      <3> QED
        BY <2>1, <2>2, <3>1 DEF Events!Operations
    <2>3. CASE i # now
      BY <1>3, <1>4, <2>3
    <2> QED
      BY <2>2, <2>3
  <1>6. ASSUME NEW i \in Ids PROVE i \in Events!Live(o) <=> i \in Events!Live(d)
    <2>1. CASE i = now
      BY <1>2, <1>3, <1>5, <2>1 DEF Events!Live
    <2>2. CASE i # now
      BY <1>4, <2>2 DEF Events!Live
    <2> QED
      BY <2>1, <2>2
  <1>7. Events!Live(o) = Events!Live(d)
    BY <1>6 DEF Events!Live
  <1>8. Events!Retired(o) = Events!Retired(d) /\ Events!Known(o) = Events!Known(d)
    BY <1>4, <1>7 DEF Events!Retired, Events!Known
  <1>9. \A i \in Ids : Over(o, i) = Over(d, i)
    BY <1>5, <1>7 DEF Over, Events!Terminal
  <1> QED
    BY <1>3, <1>4, <1>5, <1>7, <1>8, <1>9 DEF Entry, Events!Exists

\* The history with its new number.
LEMMA RenumberedHistory ==
    ASSUME NEW d, NEW o, NEW now, HistoryKept(d), Numbered(d, now), Renumbered(d, o, now)
    PROVE  HistoryKept(o) /\ Numbered(o, None)
  <1> USE EventConstants
  <1>1. d \in Events!Data /\ o \in Events!Data /\ o.events = d.events /\ o.lastEvent = d.lastEvent /\ o.resources = d.resources
        /\ o.lastOrder = IF now = None THEN d.lastOrder ELSE d.lastOrder + 1
    BY DEF HistoryKept, Renumbered
  <1>2. d.lastOrder \in Nat /\ Len(d.events) \in Nat
    BY <1>1, DataFields
  <1>3. /\ Events!Live(o) = Events!Live(d) /\ Events!Retired(o) = Events!Retired(d) /\ Events!Known(o) = Events!Known(d)
        /\ Events!Known(d) \subseteq Ids /\ Events!Live(d) \subseteq Events!Known(d)
    BY RenumberedEntries DEF Events!Known, Events!Live, Events!Retired
  <1>4. \A i \in Events!Live(d) :
                 /\ i \in Ids /\ d.ops[i] \in Events!Operations /\ o.ops[i] \in Events!Operations
                 /\ o.ops[i].type = d.ops[i].type /\ o.ops[i].target = d.ops[i].target /\ o.ops[i].state = d.ops[i].state
                 /\ o.ops[i].reason = d.ops[i].reason /\ o.ops[i].receipts = d.ops[i].receipts
                 /\ o.ops[i].released = d.ops[i].released
                 /\ o.ops[i].order = IF i = now THEN d.lastOrder + 1 ELSE d.ops[i].order
    BY RenumberedEntries
  <1>5. /\ \A i \in Ids : Over(o, i) = Over(d, i)
        /\ \A i \in Ids : i \notin Events!Live(d) => Entry(o, i) = Entry(d, i) /\ Entry(d, i) = d.retired[i]
        /\ \A i \in Events!Live(d) : Entry(o, i) = o.ops[i] /\ Entry(d, i) = d.ops[i]
        /\ \A t \in Events!Targets : Events!Exists(o, t) = Events!Exists(d, t)
    BY RenumberedEntries
  <1>6. \A i \in Ids : Entry(d, i) # None => /\ Entry(o, i) # None /\ Entry(o, i).type = Entry(d, i).type
                                             /\ Entry(o, i).target = Entry(d, i).target /\ Entry(o, i).reason = Entry(d, i).reason
    BY <1>4, <1>5
  <1>7. Events!First(o) = Events!First(d)
    BY <1>1 DEF Events!First
  <1>8. Events!WholeSuffix(o)
    BY <1>1, <1>7 DEF HistoryKept, Events!WholeSuffix
  <1>9. Events!EventsExplained(o)
    <2> SUFFICES ASSUME NEW i \in 1 .. Len(d.events)
                 PROVE  LET e == d.events[i] IN Entry(o, e.op) # None /\ Entry(o, e.op).type = e.type /\ Entry(o, e.op).target = e.target
      BY <1>1 DEF Events!EventsExplained, Entry
    <2>1. LET e == d.events[i] IN Entry(d, e.op) # None /\ Entry(d, e.op).type = e.type /\ Entry(d, e.op).target = e.target
      BY DEF HistoryKept, Events!EventsExplained, Entry
    <2>2. d.events[i].op \in Ids
      BY <1>1, DataFields DEF Events!Events
    <2> QED
      BY <1>6, <2>1, <2>2
  <1>10. ASSUME NEW t \in Events!Targets, Events!Exists(o, t) PROVE MarkKept(o, t) /\ OwnerKept(o, t)
    <2>1. MarkKept(d, t) /\ OwnerKept(d, t)
      BY <1>5, <1>10 DEF HistoryKept
    <2>2. MarkKept(o, t)
      <3>1. \A i \in Events!Known(d) : Entry(o, i).target = Entry(d, i).target /\ Entry(o, i).reason = Entry(d, i).reason
        BY <1>3, <1>4, <1>5
      <3> QED
        BY <1>1, <1>3, <1>7, <2>1, <3>1 DEF MarkKept
    <2>3. OwnerKept(o, t)
      BY <1>1, <1>3, <1>4, <2>1 DEF OwnerKept, Events!Terminal
    <2> QED
      BY <2>2, <2>3
  <1>11. ASSUME NEW i \in Events!Live(d) PROVE OperationKept(o, i)
    <2>1. Events!Active(o, d.ops[i].target) = Events!Active(d, d.ops[i].target)
      BY <1>3, <1>4 DEF Events!Active, Events!Terminal
    <2>2. OperationKept(d, i) /\ d.ops[i].target \in Events!Targets
      BY <1>4 DEF HistoryKept, Events!Operations
    <2> QED
      BY <1>4, <1>5, <2>1, <2>2 DEF OperationKept, Events!Terminal
  <1>12. /\ \A i \in Events!Known(d) : Entry(d, i).order \in 0 .. d.lastOrder /\ (i # now => (Over(d, i) <=> Entry(d, i).order # 0))
         /\ \A i, j \in Events!Known(d) : Entry(d, i).order = Entry(d, j).order /\ Entry(d, i).order # 0 => i = j
         /\ \A n \in 1 .. d.lastOrder : \E i \in Events!Known(d) : Entry(d, i).order = n
         /\ now # None => now \in Events!Live(d) /\ Over(d, now) /\ Entry(d, now).order = 0
    BY <1>5 DEF Numbered, Over
  <1>13. \A i \in Events!Known(d) : Entry(o, i).order = IF i = now THEN d.lastOrder + 1 ELSE Entry(d, i).order
    BY <1>3, <1>4, <1>5, <1>12
  <1>14. Numbered(o, None)
    <2>1. ASSUME NEW i \in Events!Known(d)
          PROVE  Entry(o, i).order \in 0 .. o.lastOrder /\ (Over(o, i) <=> Entry(o, i).order # 0)
      BY <1>1, <1>2, <1>3, <1>5, <1>12, <1>13
    <2>2. ASSUME NEW i \in Events!Known(d), NEW j \in Events!Known(d), Entry(o, i).order = Entry(o, j).order, Entry(o, i).order # 0
          PROVE  i = j
      BY <1>2, <1>12, <1>13, <2>2
    <2>3. ASSUME NEW n \in 1 .. o.lastOrder PROVE \E i \in Events!Known(d) : Entry(o, i).order = n
      <3>1. CASE n \in 1 .. d.lastOrder
        <4>1. PICK i \in Events!Known(d) : Entry(d, i).order = n
          BY <1>12, <3>1
        <4>2. i # now
          BY <1>3, <1>12, <3>1, <4>1
        <4> QED
          BY <1>13, <4>1, <4>2
      <3>2. CASE n \notin 1 .. d.lastOrder
        <4>1. now # None /\ n = d.lastOrder + 1
          BY <1>1, <1>2, <3>2
        <4> QED
          BY <1>3, <1>12, <1>13, <4>1
      <3> QED
        BY <3>1, <3>2
    <2> QED
      BY <1>3, <2>1, <2>2, <2>3 DEF Numbered
  <1>15. ASSUME NEW i \in Events!Live(d) PROVE ReleaseKept(o, i)
    <2> SUFFICES ASSUME d.ops[i].receipts = "adopted", ~(Events!Exists(d, d.ops[i].target) /\ d.resources[d.ops[i].target].owner = i)
                 PROVE  o.ops[i].order # 0 /\ \E j \in Events!ReleasedBy(o, i) : o.ops[j].order = 0 \/ o.ops[j].order > o.ops[i].order
      <3>1. d.ops[i].target \in Events!Targets
        BY <1>4 DEF Events!Operations
      <3> QED
        BY <1>1, <1>4, <1>5, <3>1 DEF ReleaseKept
    <2>1. d.ops[i].order # 0
      BY DEF HistoryKept, ReleaseKept
    <2>2. PICK j \in Events!ReleasedBy(d, i) : d.ops[j].order = 0 \/ d.ops[j].order > d.ops[i].order
      BY DEF HistoryKept, ReleaseKept
    <2>3. j \in Events!Live(d) /\ d.ops[j].state = "succeeded" /\ d.ops[j].released = i
      BY <2>2 DEF Events!ReleasedBy
    <2>4. i # now /\ o.ops[i].order = d.ops[i].order /\ d.ops[i].order \in 0 .. d.lastOrder
      BY <1>3, <1>4, <1>5, <1>12, <2>1
    <2>5. j \in Events!ReleasedBy(o, i)
      BY <1>3, <1>4, <2>3 DEF Events!ReleasedBy
    <2>6. o.ops[j].order = 0 \/ o.ops[j].order > o.ops[i].order
      BY <1>2, <1>4, <2>2, <2>3, <2>4
    <2> QED
      BY <2>1, <2>4, <2>5, <2>6
  <1>16. Events!Live(o) \cap Events!Retired(o) = {} /\ Cardinality(Events!Known(o)) <= IdentityLimit
    BY <1>3 DEF HistoryKept
  <1> QED
    BY <1>1, <1>3, <1>8, <1>9, <1>10, <1>11, <1>14, <1>15, <1>16 DEF HistoryKept

\* The operations that end are finitely many, and no two end at the same time.
LEMMA CandidateFacts ==
    ASSUME NEW o, HistoryKept(o), Numbered(o, None)
    PROVE  /\ IsFiniteSet(Candidates(o)) /\ Candidates(o) \subseteq Events!Live(o) /\ Events!Live(o) \subseteq Ids
           /\ o.lastOrder \in Nat
           /\ \A i \in Events!Live(o) : o.ops[i] \in Events!Operations /\ Entry(o, i) = o.ops[i] /\ i \in Events!Known(o) /\ i # None
           /\ \A i \in Candidates(o) : Events!Terminal(o.ops[i]) /\ o.ops[i].order \in 1 .. o.lastOrder
           /\ \A i, j \in Candidates(o) : o.ops[i].order = o.ops[j].order => i = j
           /\ Events!Expired(o) = {i \in Candidates(o) : Cardinality(EndedLater(o, i)) >= TerminalLimit}
           /\ \A i \in Candidates(o) : IsFiniteSet(EndedLater(o, i)) /\ Cardinality(EndedLater(o, i)) \in Nat
  <1> USE EventConstants
  <1>1. o \in Events!Data
    BY DEF HistoryKept
  <1>2. Candidates(o) \subseteq Events!Live(o) /\ Events!Live(o) \subseteq Ids
    BY DEF Candidates, Events!Live
  <1>3. o.lastOrder \in Nat
    BY <1>1, DataFields
  <1>4. \A i \in Events!Live(o) : o.ops[i] \in Events!Operations /\ Entry(o, i) = o.ops[i] /\ i \in Events!Known(o) /\ i # None
    BY <1>1, <1>2, DataFields DEF Events!Live, Entry, Events!Known
  <1>5. \A i \in Candidates(o) : Events!Terminal(o.ops[i]) /\ o.ops[i].order \in 1 .. o.lastOrder
    <2> TAKE i \in Candidates(o)
    <2>1. i \in Events!Live(o) /\ Events!Terminal(o.ops[i])
      BY DEF Candidates
    <2>2. o.ops[i].order \in 0 .. o.lastOrder /\ o.ops[i].order # 0
      BY <1>4, <2>1 DEF Numbered, Over
    <2> QED
      BY <1>3, <2>1, <2>2
  <1>6. \A i, j \in Candidates(o) : o.ops[i].order = o.ops[j].order => i = j
    <2> TAKE i, j \in Candidates(o)
    <2>1. /\ i \in Events!Known(o) /\ j \in Events!Known(o) /\ Entry(o, i) = o.ops[i] /\ Entry(o, j) = o.ops[j]
          /\ o.ops[i].order # 0
      BY <1>2, <1>4, <1>5
    <2> QED
      BY <2>1 DEF Numbered
  <1>7. Events!Expired(o) = {i \in Candidates(o) : Cardinality(EndedLater(o, i)) >= TerminalLimit}
    BY EventCardinality DEF Events!Expired, Candidates, EndedLater
  <1>8. IsFiniteSet(Candidates(o))
    BY <1>2, FS_Subset
  <1>9. \A i \in Candidates(o) : IsFiniteSet(EndedLater(o, i)) /\ Cardinality(EndedLater(o, i)) \in Nat
    BY <1>8, FS_Subset, FS_CardinalityType DEF EndedLater
  <1> QED
    BY <1>2, <1>3, <1>4, <1>5, <1>6, <1>7, <1>8, <1>9

\* As many operations as are kept in full ended after one that expired.
LEMMA ExpiredIsOld ==
    ASSUME NEW o, HistoryKept(o), Numbered(o, None), NEW i \in Events!Expired(o)
    PROVE  o.ops[i].order + TerminalLimit <= o.lastOrder
  <1> USE EventConstants
  <1>1. i \in Candidates(o) /\ Cardinality(EndedLater(o, i)) >= TerminalLimit /\ Cardinality(EndedLater(o, i)) \in Nat
    BY CandidateFacts
  <1>2. o.lastOrder \in Nat /\ o.ops[i].order \in 1 .. o.lastOrder
    BY <1>1, CandidateFacts
  <1> DEFINE L == EndedLater(o, i)
             R == (o.ops[i].order + 1) .. o.lastOrder
             f == [j \in L |-> o.ops[j].order]
  <1>3. \A j \in L : f[j] \in R
    BY <1>2, CandidateFacts DEF EndedLater
  <1>4. \A j, k \in L : f[j] = f[k] => j = k
    BY CandidateFacts DEF EndedLater
  <1>5. f \in Injection(L, R)
    BY <1>3, <1>4 DEF Injection, IsInjective
  <1>6. IsFiniteSet(R) /\ Cardinality(R) = o.lastOrder - o.ops[i].order
    <2> DEFINE a == o.ops[i].order + 1
    <2>1. a \in Int /\ o.lastOrder \in Int /\ a <= o.lastOrder + 1
      BY <1>2
    <2> HIDE DEF a
    <2>2. IsFiniteSet(a .. o.lastOrder) /\ Cardinality(a .. o.lastOrder) = IF a > o.lastOrder THEN 0 ELSE o.lastOrder - a + 1
      BY <2>1, FS_Interval
    <2>3. IF a > o.lastOrder THEN 0 = o.lastOrder - a + 1 ELSE TRUE
      BY <2>1
    <2>4. o.lastOrder - a + 1 = o.lastOrder - o.ops[i].order
      BY <1>2 DEF a
    <2>5. Cardinality(a .. o.lastOrder) = o.lastOrder - o.ops[i].order
      BY <2>2, <2>3, <2>4
    <2> QED
      BY <2>2, <2>5 DEF a
  <1>7. Cardinality(L) <= Cardinality(R)
    BY <1>5, <1>6, FS_Injection
  <1> QED
    BY <1>1, <1>2, <1>6, <1>7

\* What does not expire is within the limit.
LEMMA UnexpiredAreFew ==
    ASSUME NEW o, HistoryKept(o), Numbered(o, None)
    PROVE  Cardinality(Candidates(o) \ Events!Expired(o)) <= TerminalLimit
  <1> USE EventConstants
  <1> DEFINE K == Candidates(o) \ Events!Expired(o)
             f == [i \in K |-> Cardinality(EndedLater(o, i))]
             R == 0 .. (TerminalLimit - 1)
  <1>1. ASSUME NEW i \in K PROVE f[i] \in R
    <2>1. i \in Candidates(o) /\ ~(Cardinality(EndedLater(o, i)) >= TerminalLimit) /\ Cardinality(EndedLater(o, i)) \in Nat
      BY CandidateFacts
    <2> QED
      BY <2>1
  <1>2. ASSUME NEW i \in K, NEW j \in K, o.ops[i].order < o.ops[j].order PROVE f[i] # f[j]
    <2>1. j \in EndedLater(o, i) /\ j \notin EndedLater(o, j)
      BY <1>2, CandidateFacts DEF EndedLater
    <2>2. EndedLater(o, j) \in SUBSET EndedLater(o, i)
      BY <1>2, CandidateFacts DEF EndedLater
    <2>3. IsFiniteSet(EndedLater(o, i))
      BY CandidateFacts
    <2> QED
      BY <2>1, <2>2, <2>3, FS_Subset
  <1>3. \A i, j \in K : f[i] = f[j] => i = j
    <2> SUFFICES ASSUME NEW i \in K, NEW j \in K, f[i] = f[j] PROVE i = j
      OBVIOUS
    <2>1. ~(o.ops[i].order < o.ops[j].order) /\ ~(o.ops[j].order < o.ops[i].order)
      BY <1>2
    <2>2. o.ops[i].order \in Nat /\ o.ops[j].order \in Nat
      BY CandidateFacts
    <2>3. o.ops[i].order = o.ops[j].order
      BY <2>1, <2>2
    <2> QED
      BY <2>3, CandidateFacts
  <1>4. f \in Injection(K, R)
    BY <1>1, <1>3 DEF Injection, IsInjective
  <1>5. IsFiniteSet(R) /\ Cardinality(R) = TerminalLimit
    BY FS_Interval
  <1>6. Cardinality(K) <= Cardinality(R)
    BY <1>4, <1>5, FS_Injection
  <1> QED
    BY <1>5, <1>6

\* The parts of the compacted history.
LEMMA CompactedShape ==
    ASSUME NEW o, HistoryKept(o), Numbered(o, None)
    PROVE  Compaction(o, Events!Compacted(o))
  <1> USE EventConstants
  <1>1. o \in Events!Data
    BY DEF HistoryKept
  <1> DEFINE ops == [id \in Ids |-> IF id \in Events!Expired(o) THEN None ELSE o.ops[id]]
             retired == [id \in Ids |-> IF id \in Events!Expired(o) THEN Events!Tombstone(o.ops[id]) ELSE o.retired[id]]
  <1>2. ops \in [Ids -> Events!Operations \cup {None}]
    BY <1>1, DataFields
  <1>3. retired \in [Ids -> Events!Tombstones \cup {None}]
    <2>1. ASSUME NEW i \in Events!Expired(o) PROVE Events!Tombstone(o.ops[i]) \in Events!Tombstones
      <3>1. i \in Candidates(o)
        BY CandidateFacts
      <3>2. o.ops[i] \in Events!Operations /\ o.ops[i].order \in 1 .. o.lastOrder /\ o.lastOrder \in Nat
        BY <3>1, CandidateFacts
      <3> QED
        BY <3>2 DEF Events!Tombstone, Events!Tombstones, Events!Operations
    <2> QED
      BY <1>1, <2>1, DataFields
  <1> HIDE DEF ops, retired
  <1>4. [o EXCEPT !.ops = ops, !.retired = retired] \in Events!Data
    BY <1>1, <1>2, <1>3, Zenon DEF Events!Data
  <1>5. LET k == [o EXCEPT !.ops = ops, !.retired = retired]
        IN k.resources = o.resources /\ k.events = o.events /\ k.lastEvent = o.lastEvent /\ k.lastOrder = o.lastOrder
           /\ k.ops = ops /\ k.retired = retired
    BY <1>1, Zenon DEF Events!Data
  <1>6. Events!Compacted(o) = [o EXCEPT !.ops = ops, !.retired = retired]
    BY Zenon DEF Events!Compacted, ops, retired
  <1>7. \A i \in Ids : /\ ops[i] = IF i \in Events!Expired(o) THEN None ELSE o.ops[i]
                       /\ retired[i] = IF i \in Events!Expired(o) THEN Events!Tombstone(o.ops[i]) ELSE o.retired[i]
    BY DEF ops, retired
  <1> QED
    BY <1>4, <1>5, <1>6, <1>7 DEF Compaction

\* What is known of an operation is in its record or in its tombstone.
LEMMA CompactedEntries ==
    ASSUME NEW o, NEW k, HistoryKept(o), Numbered(o, None), Compaction(o, k)
    PROVE  /\ Events!Live(k) = Events!Live(o) \ Events!Expired(o)
           /\ Events!Retired(k) = Events!Retired(o) \cup Events!Expired(o)
           /\ Events!Known(k) = Events!Known(o) /\ Events!Known(o) \subseteq Ids
           /\ Events!Live(k) \cap Events!Retired(k) = {}
           /\ \A i \in Events!Live(k) : k.ops[i] = o.ops[i]
           /\ \A i \in Events!Known(o) : /\ Entry(k, i).type = Entry(o, i).type /\ Entry(k, i).target = Entry(o, i).target
                                         /\ Entry(k, i).reason = Entry(o, i).reason /\ Entry(k, i).order = Entry(o, i).order
                                         /\ Over(k, i) <=> Over(o, i)
           /\ \A i \in Events!Expired(o) : k.retired[i] = Events!Tombstone(o.ops[i])
           /\ \A i \in Events!Retired(o) : k.retired[i] = o.retired[i]
           /\ \A t \in Events!Targets : Events!Exists(k, t) = Events!Exists(o, t)
  <1> USE EventConstants
  <1>1. o \in Events!Data /\ k \in Events!Data
    BY DEF HistoryKept, Compaction
  <1>2. Events!Expired(o) \subseteq Candidates(o) /\ Candidates(o) \subseteq Events!Live(o) /\ Events!Live(o) \subseteq Ids
    BY CandidateFacts
  <1>3. \A i \in Events!Expired(o) : o.ops[i] \in Events!Operations /\ Events!Terminal(o.ops[i])
    BY <1>2, CandidateFacts
  <1>4. \A i \in Ids : /\ k.ops[i] = IF i \in Events!Expired(o) THEN None ELSE o.ops[i]
                       /\ k.retired[i] = IF i \in Events!Expired(o) THEN Events!Tombstone(o.ops[i]) ELSE o.retired[i]
    BY DEF Compaction
  <1>5. \A i \in Events!Expired(o) : k.retired[i] # None
    <2> TAKE i \in Events!Expired(o)
    <2>1. i \in Candidates(o) /\ o.ops[i] \in Events!Operations /\ o.ops[i].order \in 1 .. o.lastOrder /\ o.lastOrder \in Nat
      BY <1>2, <1>3, CandidateFacts
    <2>2. Events!Tombstone(o.ops[i]) \in Events!Tombstones
      BY <2>1 DEF Events!Tombstone, Events!Tombstones, Events!Operations
    <2> QED
      BY <1>2, <1>4, <2>2
  <1>6. Events!Live(k) = Events!Live(o) \ Events!Expired(o)
    BY <1>2, <1>4 DEF Events!Live
  <1>7. Events!Live(o) \cap Events!Retired(o) = {}
    BY DEF HistoryKept
  <1>8. Events!Retired(k) = Events!Retired(o) \cup Events!Expired(o)
    BY <1>2, <1>4, <1>5, <1>7 DEF Events!Retired
  <1>9. Events!Known(k) = Events!Known(o) /\ Events!Known(o) \subseteq Ids /\ Events!Live(k) \cap Events!Retired(k) = {}
    BY <1>2, <1>6, <1>7, <1>8 DEF Events!Known, Events!Live, Events!Retired
  <1>10. \A i \in Events!Live(k) : k.ops[i] = o.ops[i] /\ i \in Events!Live(o)
    BY <1>2, <1>4, <1>6
  <1>11. \A i \in Events!Retired(o) : k.retired[i] = o.retired[i] /\ i \notin Events!Live(o) /\ i \notin Events!Live(k) /\ i \in Ids
    BY <1>2, <1>4, <1>6, <1>7 DEF Events!Retired
  <1>12. ASSUME NEW i \in Events!Known(o)
         PROVE  /\ Entry(k, i).type = Entry(o, i).type /\ Entry(k, i).target = Entry(o, i).target
                /\ Entry(k, i).reason = Entry(o, i).reason /\ Entry(k, i).order = Entry(o, i).order
                /\ Over(k, i) <=> Over(o, i)
    <2>1. CASE i \in Events!Live(k)
      BY <1>10, <2>1 DEF Entry, Over
    <2>2. CASE i \in Events!Expired(o)
      <3>1. i \notin Events!Live(k) /\ i \in Events!Live(o) /\ i \in Ids /\ k.retired[i] = Events!Tombstone(o.ops[i])
        BY <1>2, <1>4, <1>6, <2>2
      <3>2. Entry(k, i) = Events!Tombstone(o.ops[i]) /\ Entry(o, i) = o.ops[i] /\ Over(k, i)
        BY <3>1 DEF Entry, Over
      <3>3. Over(o, i)
        BY <1>3, <2>2 DEF Over
      <3> QED
        BY <3>2, <3>3 DEF Events!Tombstone
    <2>3. CASE i \in Events!Retired(o)
      BY <1>11, <2>3 DEF Entry, Over
    <2> QED
      BY <1>6, <2>1, <2>2, <2>3 DEF Events!Known
  <1>13. \A t \in Events!Targets : Events!Exists(k, t) = Events!Exists(o, t)
    BY DEF Compaction, Events!Exists
  <1> QED
    BY <1>2, <1>4, <1>6, <1>8, <1>9, <1>10, <1>11, <1>12, <1>13

\* What is known of an operation that ended is enough to explain what is left.
LEMMA CompactedHistory ==
    ASSUME NEW o, NEW k, HistoryKept(o), Numbered(o, None), Compaction(o, k)
    PROVE  HistoryKept(k) /\ Numbered(k, None)
  <1> USE EventConstants
  <1>1. /\ o \in Events!Data /\ k \in Events!Data /\ k.events = o.events /\ k.lastEvent = o.lastEvent
        /\ k.resources = o.resources /\ k.lastOrder = o.lastOrder
    BY DEF HistoryKept, Compaction
  <1>2. /\ Events!Live(k) = Events!Live(o) \ Events!Expired(o)
        /\ Events!Known(k) = Events!Known(o) /\ Events!Known(o) \subseteq Ids
        /\ Events!Live(k) \cap Events!Retired(k) = {}
        /\ \A i \in Events!Live(k) : k.ops[i] = o.ops[i]
        /\ \A t \in Events!Targets : Events!Exists(k, t) = Events!Exists(o, t)
    BY CompactedEntries
  <1>3. \A i \in Events!Known(o) : /\ Entry(k, i).type = Entry(o, i).type /\ Entry(k, i).target = Entry(o, i).target
                                   /\ Entry(k, i).reason = Entry(o, i).reason /\ Entry(k, i).order = Entry(o, i).order
                                   /\ Over(k, i) <=> Over(o, i)
    BY CompactedEntries
  <1>4. Events!First(k) = Events!First(o)
    BY <1>1 DEF Events!First
  <1>5. Events!WholeSuffix(k)
    BY <1>1, <1>4 DEF HistoryKept, Events!WholeSuffix
  <1>6. \A i \in Events!Known(k) : Entry(k, i) # None
    BY <1>2 DEF Entry, Events!Known, Events!Live, Events!Retired
  <1>7. \A i \in Ids : Entry(o, i) # None => i \in Events!Known(o)
    BY DEF Entry, Events!Known, Events!Live, Events!Retired
  <1>8. Events!EventsExplained(k)
    <2> SUFFICES ASSUME NEW i \in 1 .. Len(o.events)
                 PROVE  LET e == o.events[i] IN Entry(k, e.op) # None /\ Entry(k, e.op).type = e.type /\ Entry(k, e.op).target = e.target
      BY <1>1 DEF Events!EventsExplained, Entry
    <2>1. LET e == o.events[i] IN Entry(o, e.op) # None /\ Entry(o, e.op).type = e.type /\ Entry(o, e.op).target = e.target
      BY DEF HistoryKept, Events!EventsExplained, Entry
    <2>2. o.events[i].op \in Ids
      BY <1>1, DataFields DEF Events!Events
    <2> QED
      BY <1>2, <1>3, <1>6, <1>7, <2>1, <2>2
  <1>9. ASSUME NEW i \in Events!Live(o), NEW t \in Events!Targets, Events!Exists(o, t), o.resources[t].owner = i PROVE i \in Events!Live(k)
    <2>1. i # None
      BY CandidateFacts
    <2>2. i \in Events!Pinned(o)
      BY <1>9, <2>1 DEF Events!Pinned
    <2>3. Events!Expired(o) \subseteq Candidates(o) /\ i \notin Candidates(o)
      <3>1. Events!Expired(o) \subseteq Candidates(o)
        BY CandidateFacts
      <3> QED
        BY <2>2, <3>1 DEF Candidates
    <2> QED
      BY <1>2, <2>3
  <1>10. ASSUME NEW t \in Events!Targets, Events!Exists(k, t) PROVE MarkKept(k, t) /\ OwnerKept(k, t)
    <2>1. MarkKept(o, t) /\ OwnerKept(o, t) /\ Events!Exists(o, t)
      BY <1>2, <1>10 DEF HistoryKept
    <2>2. MarkKept(k, t)
      BY <1>1, <1>2, <1>3, <1>4, <2>1 DEF MarkKept
    <2>3. OwnerKept(k, t)
      BY <1>1, <1>2, <1>9, <2>1 DEF OwnerKept
    <2> QED
      BY <2>2, <2>3
  <1>11. \A i \in Events!Expired(o) : i \in Candidates(o) /\ Events!Terminal(o.ops[i])
    BY CandidateFacts
  <1>12. ASSUME NEW i \in Events!Live(k) PROVE OperationKept(k, i)
    <2>1. OperationKept(o, i) /\ o.ops[i].target \in Events!Targets
      BY <1>1, <1>2, CandidateFacts DEF HistoryKept, Events!Operations
    <2>2. Events!Active(k, o.ops[i].target) = Events!Active(o, o.ops[i].target)
      BY <1>2, <1>11 DEF Events!Active
    <2> QED
      BY <1>2, <2>1, <2>2 DEF OperationKept
  <1>13. ASSUME NEW i \in Events!Live(k) PROVE ReleaseKept(k, i)
    <2>1. i \in Events!Live(o) /\ i \notin Events!Expired(o) /\ k.ops[i] = o.ops[i] /\ o.ops[i] \in Events!Operations /\ i # None
      BY <1>2, CandidateFacts
    <2>2. o.ops[i].target \in Events!Targets
      BY <2>1 DEF Events!Operations
    <2> SUFFICES ASSUME o.ops[i].receipts = "adopted", ~(Events!Exists(o, o.ops[i].target) /\ o.resources[o.ops[i].target].owner = i)
                 PROVE  o.ops[i].order # 0 /\ \E j \in Events!ReleasedBy(k, i) : k.ops[j].order > o.ops[i].order
      BY <1>1, <1>2, <2>1, <2>2 DEF ReleaseKept
    <2>3. OperationKept(o, i) /\ ReleaseKept(o, i)
      BY <2>1 DEF HistoryKept
    <2>4. i \notin Events!Pinned(o)
      <3> SUFFICES ASSUME NEW t \in Events!Targets, Events!Exists(o, t), o.resources[t].owner = i PROVE FALSE
        BY DEF Events!Pinned
      <3>1. OwnerKept(o, t)
        BY DEF HistoryKept
      <3>2. o.ops[i].target = t
        BY <2>1, <3>1 DEF OwnerKept
      <3> QED
        BY <3>2
    <2>5. i \in Candidates(o)
      BY <2>1, <2>3, <2>4 DEF Candidates, OperationKept, Events!Terminal
    <2>6. PICK j \in Events!ReleasedBy(o, i) : o.ops[i].order # 0 /\ (o.ops[j].order = 0 \/ o.ops[j].order > o.ops[i].order)
      BY <2>3 DEF ReleaseKept
    <2>7. j \in Events!Live(o) /\ o.ops[j].state = "succeeded" /\ o.ops[j].released = i
      BY <2>6 DEF Events!ReleasedBy
    <2>8. j \notin Events!Pinned(o)
      <3> SUFFICES ASSUME NEW t \in Events!Targets, Events!Exists(o, t), o.resources[t].owner = j PROVE FALSE
        BY DEF Events!Pinned
      <3>1. OwnerKept(o, t) /\ OperationKept(o, j) /\ j # None
        BY <2>7, CandidateFacts DEF HistoryKept
      <3>2. o.ops[j].receipts = "adopted" /\ o.ops[j].type = "delete"
        BY <2>1, <2>7, <3>1 DEF OwnerKept, OperationKept
      <3> QED
        BY <3>1, <3>2 DEF OperationKept
    <2>9. j \in Candidates(o)
      BY <2>7, <2>8 DEF Candidates, Events!Terminal
    <2>10. o.ops[j].order \in 1 .. o.lastOrder /\ o.ops[i].order \in 1 .. o.lastOrder /\ o.lastOrder \in Nat
      BY <2>5, <2>9, CandidateFacts
    <2>11. o.ops[j].order > o.ops[i].order
      BY <2>6, <2>10
    <2>12. EndedLater(o, j) \in SUBSET EndedLater(o, i)
      <3> SUFFICES ASSUME NEW h \in Candidates(o), o.ops[h].order > o.ops[j].order PROVE o.ops[h].order > o.ops[i].order
        BY DEF EndedLater
      <3>1. o.ops[h].order \in 1 .. o.lastOrder
        BY CandidateFacts
      <3> QED
        BY <2>10, <2>11, <3>1
    <2>13. Cardinality(EndedLater(o, j)) <= Cardinality(EndedLater(o, i))
      <3>1. IsFiniteSet(EndedLater(o, i))
        BY <2>5, CandidateFacts
      <3> QED
        BY <2>12, <3>1, FS_Subset
    <2>14. j \notin Events!Expired(o)
      <3>1. /\ Cardinality(EndedLater(o, i)) \in Nat /\ Cardinality(EndedLater(o, j)) \in Nat
            /\ ~(Cardinality(EndedLater(o, i)) >= TerminalLimit)
        BY <2>1, <2>5, <2>9, CandidateFacts
      <3>2. ~(Cardinality(EndedLater(o, j)) >= TerminalLimit)
        BY <2>13, <3>1
      <3> QED
        BY <3>2, CandidateFacts
    <2>15. j \in Events!ReleasedBy(k, i) /\ k.ops[j] = o.ops[j]
      BY <1>2, <2>7, <2>14 DEF Events!ReleasedBy
    <2> QED
      BY <2>6, <2>11, <2>15
  <1>14. Numbered(k, None)
    <2>1. None \notin Events!Known(o)
      BY <1>2
    <2>2. /\ \A i \in Events!Known(o) : Entry(o, i).order \in 0 .. o.lastOrder /\ (i # None => (Over(o, i) <=> Entry(o, i).order # 0))
          /\ \A i, j \in Events!Known(o) : Entry(o, i).order = Entry(o, j).order /\ Entry(o, i).order # 0 => i = j
          /\ \A n \in 1 .. o.lastOrder : \E i \in Events!Known(o) : Entry(o, i).order = n
      BY DEF Numbered
    <2>3. \A n \in 1 .. k.lastOrder : \E i \in Events!Known(k) : Entry(k, i).order = n
      BY <1>1, <1>2, <1>3, <2>2
    <2>4. \A i, j \in Events!Known(k) : Entry(k, i).order = Entry(k, j).order /\ Entry(k, i).order # 0 => i = j
      BY <1>2, <1>3, <2>2
    <2>5. \A i \in Events!Known(k) : Entry(k, i).order \in 0 .. k.lastOrder /\ (i # None => (Over(k, i) <=> Entry(k, i).order # 0))
      BY <1>1, <1>2, <1>3, <2>2
    <2> QED
      BY <2>3, <2>4, <2>5 DEF Numbered
  <1>15. Cardinality(Events!Known(k)) <= IdentityLimit
    BY <1>2 DEF HistoryKept
  <1> QED
    BY <1>1, <1>2, <1>5, <1>8, <1>10, <1>12, <1>13, <1>14, <1>15 DEF HistoryKept

\* The sizes are kept.
LEMMA CompactedLimits ==
    ASSUME NEW o, NEW k, HistoryKept(o), Numbered(o, None), RecentKept(o), Compaction(o, k)
    PROVE  Cardinality({id \in Events!Live(k) : Events!Terminal(k.ops[id])} \ Events!Pinned(k)) <= TerminalLimit /\ RecentKept(k)
  <1>1. /\ Events!Live(k) = Events!Live(o) \ Events!Expired(o)
        /\ Events!Retired(k) = Events!Retired(o) \cup Events!Expired(o)
        /\ \A i \in Events!Live(k) : k.ops[i] = o.ops[i]
        /\ \A i \in Events!Expired(o) : k.retired[i] = Events!Tombstone(o.ops[i])
        /\ \A i \in Events!Retired(o) : k.retired[i] = o.retired[i]
    BY CompactedEntries
  <1>2. k.resources = o.resources /\ k.lastOrder = o.lastOrder
    BY DEF Compaction
  <1>3. Events!Pinned(k) = Events!Pinned(o)
    BY <1>2 DEF Events!Pinned, Events!Exists
  <1>4. {id \in Events!Live(k) : Events!Terminal(k.ops[id])} \ Events!Pinned(k) = Candidates(o) \ Events!Expired(o)
    BY <1>1, <1>3 DEF Candidates
  <1>5. RecentKept(k)
    <2> SUFFICES ASSUME NEW i \in Events!Retired(k) PROVE k.retired[i].order + TerminalLimit <= o.lastOrder
      BY <1>2 DEF RecentKept
    <2>1. CASE i \in Events!Expired(o)
      <3>1. o.ops[i].order + TerminalLimit <= o.lastOrder
        BY <2>1, ExpiredIsOld
      <3>2. k.retired[i].order = o.ops[i].order
        <4>1. k.retired[i] = Events!Tombstone(o.ops[i])
          BY <1>1, <2>1
        <4> QED
          BY <4>1 DEF Events!Tombstone
      <3> QED
        BY <3>1, <3>2
    <2>2. CASE i \in Events!Retired(o)
      BY <1>1, <2>2 DEF RecentKept
    <2> QED
      BY <1>1, <2>1, <2>2
  <1> QED
    BY <1>4, <1>5, UnexpiredAreFew

\* Compaction of the log keeps a suffix of it.
Suffix(k, s) ==
    /\ s \in Events!Data /\ s.ops = k.ops /\ s.retired = k.retired /\ s.resources = k.resources
    /\ s.lastEvent = k.lastEvent /\ s.lastOrder = k.lastOrder
    /\ Len(s.events) = IF Len(k.events) <= EventLimit THEN Len(k.events) ELSE EventLimit
    /\ \A i \in 1 .. Len(s.events) : s.events[i] = k.events[Len(k.events) - Len(s.events) + i]

\* What is cut of the log is its beginning.
LEMMA TrimmedShape ==
    ASSUME NEW k, HistoryKept(k)
    PROVE  Suffix(k, Events!Trimmed(k))
  <1> USE EventConstants
  <1>1. k \in Events!Data /\ k.events \in Seq(Events!Events) /\ Len(k.events) \in Nat
    BY DataFields DEF HistoryKept
  <1>2. CASE Len(k.events) <= EventLimit
    BY <1>1, <1>2 DEF Suffix, Events!Trimmed
  <1>3. CASE ~(Len(k.events) <= EventLimit)
    <2> DEFINE n == Len(k.events)
               events == SubSeq(k.events, n - EventLimit + 1, n)
    <2>1. events \in Seq(Events!Events) /\ Len(events) = EventLimit
          /\ \A i \in 1 .. EventLimit : events[i] = k.events[n - EventLimit + i]
      BY <1>1, <1>3, SMTT(40)
    <2>2. Events!Trimmed(k) = [k EXCEPT !.events = events]
      BY <1>3 DEF Events!Trimmed
    <2> HIDE DEF events
    <2>3. [k EXCEPT !.events = events] \in Events!Data
      BY <1>1, <2>1, Zenon DEF Events!Data
    <2>4. LET s == [k EXCEPT !.events = events]
          IN s.ops = k.ops /\ s.retired = k.retired /\ s.resources = k.resources /\ s.lastEvent = k.lastEvent
             /\ s.lastOrder = k.lastOrder /\ s.events = events
      BY <1>1, Zenon DEF Events!Data
    <2> QED
      BY <1>3, <2>1, <2>2, <2>3, <2>4 DEF Suffix
  <1> QED
    BY <1>2, <1>3

\* What the suffix no longer explains is explained by what is known of the operations.
LEMMA SuffixHistory ==
    ASSUME NEW k, NEW s, HistoryKept(k), Numbered(k, None), Suffix(k, s)
    PROVE  HistoryKept(s) /\ Numbered(s, None) /\ Len(s.events) <= EventLimit
  <1> USE EventConstants
  <1>1. /\ k \in Events!Data /\ s \in Events!Data /\ s.ops = k.ops /\ s.retired = k.retired /\ s.resources = k.resources
        /\ s.lastEvent = k.lastEvent /\ s.lastOrder = k.lastOrder
    BY DEF HistoryKept, Suffix
  <1>2. Len(k.events) \in Nat /\ Len(s.events) \in Nat /\ k.lastEvent \in Nat /\ Events!First(k) \in Nat
        /\ s.events \in Seq(Events!Events)
    BY <1>1, DataFields
  <1>3. Len(s.events) <= Len(k.events) /\ Len(s.events) <= EventLimit /\ (Len(s.events) = 0 => Len(k.events) = 0)
    BY <1>2 DEF Suffix
  <1> DEFINE cut == Len(k.events) - Len(s.events)
  <1>4. cut \in Nat /\ \A i \in 1 .. Len(s.events) : cut + i \in 1 .. Len(k.events) /\ s.events[i] = k.events[cut + i]
    <2>1. cut \in Nat /\ \A i \in 1 .. Len(s.events) : cut + i \in 1 .. Len(k.events)
      <3> DEFINE m == Len(k.events)
                 l == Len(s.events)
      <3>1. m \in Nat /\ l \in Nat /\ l <= m
        BY <1>2, <1>3
      <3> HIDE DEF m, l
      <3>2. m - l \in Nat /\ \A i \in 1 .. l : (m - l) + i \in 1 .. m
        BY <3>1
      <3> QED
        BY <3>2 DEF m, l
    <2>2. \A i \in 1 .. Len(s.events) : s.events[i] = k.events[cut + i]
      BY DEF Suffix
    <2> QED
      BY <2>1, <2>2
  <1>5. Events!First(k) + Len(k.events) = k.lastEvent + 1 /\ \A i \in 1 .. Len(k.events) : k.events[i].seq = Events!First(k) + i - 1
    BY DEF HistoryKept, Events!WholeSuffix
  <1> DEFINE first == Events!First(k)
             n == Len(s.events)
  <1> HIDE DEF cut, first, n
  <1>16. first \in Nat /\ n \in Nat /\ cut \in Nat /\ first + (cut + n) = k.lastEvent + 1 /\ k.lastEvent \in Nat
    <2>1. Len(k.events) = cut + n
      BY <1>2 DEF cut, n
    <2> QED
      BY <1>2, <1>4, <1>5, <2>1 DEF first, n
  <1>6. Events!First(s) = Events!First(k) + cut
    <2>1. CASE s.events = <<>>
      <3>1. Len(k.events) = 0 /\ cut = 0
        BY <1>2, <1>3, <2>1 DEF cut
      <3> QED
        BY <1>1, <1>2, <1>5, <2>1, <3>1 DEF Events!First
    <2>2. CASE s.events # <<>>
      <3>1. 1 \in 1 .. Len(s.events)
        BY <1>2, <2>2
      <3>2. s.events[1].seq = Events!First(k) + (cut + 1) - 1
        BY <1>4, <1>5, <3>1
      <3> QED
        BY <1>2, <1>4, <2>2, <3>2 DEF Events!First
    <2> QED
      BY <2>1, <2>2
  <1>7. Events!WholeSuffix(s)
    <2>1. Events!First(s) + Len(s.events) = s.lastEvent + 1
      <3>1. (first + cut) + n = k.lastEvent + 1
        BY <1>16
      <3> QED
        BY <1>1, <1>6, <3>1 DEF first, n
    <2>2. ASSUME NEW i \in 1 .. Len(s.events) PROVE s.events[i].seq = Events!First(s) + i - 1
      <3>1. s.events[i].seq = Events!First(k) + (cut + i) - 1
        BY <1>4, <1>5
      <3> QED
        BY <1>2, <1>4, <1>6, <3>1
    <2> QED
      BY <2>1, <2>2 DEF Events!WholeSuffix
  <1>8. /\ Events!Live(s) = Events!Live(k) /\ Events!Retired(s) = Events!Retired(k) /\ Events!Known(s) = Events!Known(k)
        /\ \A i : Entry(s, i) = Entry(k, i) /\ (Over(s, i) <=> Over(k, i))
        /\ \A t : Events!Exists(s, t) <=> Events!Exists(k, t)
        /\ \A t : Events!Active(s, t) = Events!Active(k, t)
        /\ \A i : Events!ReleasedBy(s, i) = Events!ReleasedBy(k, i)
    BY <1>1 DEF Events!Live, Events!Retired, Events!Known, Entry, Over, Events!Exists, Events!Active, Events!ReleasedBy
  <1>9. Events!EventsExplained(s)
    <2> SUFFICES ASSUME NEW i \in 1 .. Len(s.events)
                 PROVE  LET e == s.events[i] IN Entry(k, e.op) # None /\ Entry(k, e.op).type = e.type /\ Entry(k, e.op).target = e.target
      BY <1>8 DEF Events!EventsExplained, Entry
    <2>1. \A j \in 1 .. Len(k.events) :
             LET e == k.events[j] IN Entry(k, e.op) # None /\ Entry(k, e.op).type = e.type /\ Entry(k, e.op).target = e.target
      BY DEF HistoryKept, Events!EventsExplained, Entry
    <2> QED
      BY <1>4, <2>1, SMTT(40)
  <1>10. ASSUME NEW t \in Events!Targets, Events!Exists(k, t) PROVE MarkKept(s, t)
    <2> DEFINE mark == k.resources[t].mark
    <2>1. /\ mark.op \in Events!Known(k) /\ mark.seq <= k.lastEvent
          /\ Entry(k, mark.op).reason = mark.reason /\ Entry(k, mark.op).target = t
          /\ mark.seq >= Events!First(k) => k.events[mark.seq + 1 - Events!First(k)].op = mark.op
                                            /\ k.events[mark.seq + 1 - Events!First(k)].reason = mark.reason
      BY <1>10 DEF HistoryKept, MarkKept
    <2>2. mark.seq \in Nat
      <3>1. k.resources[t] \in Events!Resources
        BY <1>1, <1>10, DataFields DEF Events!Exists
      <3> QED
        BY <3>1 DEF Events!Resources, Events!Marks
    <2>3. ASSUME mark.seq >= Events!First(s)
          PROVE  LET at == mark.seq + 1 - Events!First(s) IN s.events[at].op = mark.op /\ s.events[at].reason = mark.reason
      <3> DEFINE seq == mark.seq
                 at == seq + 1 - (first + cut)
      <3>1. first \in Nat /\ n \in Nat /\ seq \in Nat /\ cut \in Nat /\ k.lastEvent \in Nat
            /\ first + (cut + n) = k.lastEvent + 1 /\ first + cut <= seq /\ seq <= k.lastEvent
        BY <1>6, <1>16, <2>1, <2>2, <2>3 DEF first
      <3> HIDE DEF seq
      <3>2. at \in 1 .. n /\ cut + at = seq + 1 - first /\ first <= seq
        BY <3>1
      <3>3. s.events[at] = k.events[cut + at]
        BY <1>4, <3>2 DEF n
      <3>4. k.events[seq + 1 - first].op = mark.op /\ k.events[seq + 1 - first].reason = mark.reason
        BY <2>1, <3>1, <3>2 DEF first, seq
      <3>5. mark.seq + 1 - Events!First(s) = at
        BY <1>6 DEF seq, first
      <3> QED
        BY <3>2, <3>3, <3>4, <3>5
    <2> QED
      BY <1>1, <1>8, <2>1, <2>3 DEF MarkKept
  <1>11. \A t \in Events!Targets : Events!Exists(k, t) => OwnerKept(s, t)
    BY <1>1, <1>8 DEF HistoryKept, OwnerKept
  <1>12. \A i \in Events!Live(k) : OperationKept(s, i) /\ ReleaseKept(s, i)
    BY <1>1, <1>8 DEF HistoryKept, OperationKept, ReleaseKept
  <1>13. Numbered(s, None)
    BY <1>1, <1>8 DEF Numbered
  <1>14. Events!Live(s) \cap Events!Retired(s) = {} /\ Cardinality(Events!Known(s)) <= IdentityLimit
    BY <1>8 DEF HistoryKept
  <1> QED
    BY <1>1, <1>3, <1>7, <1>8, <1>9, <1>10, <1>11, <1>12, <1>13, <1>14 DEF HistoryKept

\* validate() accepts what is kept.
LEMMA KeptIsValid ==
    ASSUME NEW s, HistoryKept(s), Numbered(s, None)
    PROVE  Events!Valid(s)
  <1> USE EventConstants
  <1>1. s \in Events!Data /\ s.lastOrder \in Nat /\ Events!Known(s) \subseteq Ids /\ Events!Live(s) \subseteq Events!Known(s)
    BY DataFields DEF HistoryKept, Events!Known, Events!Live, Events!Retired
  <1>2. Events!WholeSuffix(s) /\ Events!EventsExplained(s)
    BY DEF HistoryKept
  <1>3. Events!OrdersWhole(s)
    <2> DEFINE orders == [id \in Events!Known(s) |-> Entry(s, id).order]
               ended == {id \in Events!Known(s) : Over(s, id)}
               f == [id \in ended |-> Entry(s, id).order]
    <2>1. \A id \in Events!Known(s) : orders[id] \in 0 .. s.lastOrder /\ (id \in ended <=> orders[id] # 0)
      BY <1>1 DEF Numbered
    <2>2. f \in [ended -> 1 .. s.lastOrder] /\ (\A i, j \in ended : f[i] = f[j] => i = j)
      <3>1. \A i \in ended : f[i] \in 1 .. s.lastOrder
        BY <1>1, <2>1
      <3>2. \A i, j \in ended : f[i] = f[j] => i = j
        BY <1>1, <2>1 DEF Numbered
      <3> QED
        BY <3>1, <3>2
    <2>3. \A n \in 1 .. s.lastOrder : \E i \in ended : f[i] = n
      <3> TAKE n \in 1 .. s.lastOrder
      <3>1. PICK i \in Events!Known(s) : Entry(s, i).order = n
        BY DEF Numbered
      <3>2. i \in ended
        BY <1>1, <2>1, <3>1
      <3> QED
        BY <3>1, <3>2
    <2>4. f \in Injection(ended, 1 .. s.lastOrder) /\ f \in Surjection(ended, 1 .. s.lastOrder)
      BY <2>2, <2>3 DEF Injection, IsInjective, Surjection
    <2>5. IsFiniteSet(1 .. s.lastOrder) /\ Cardinality(1 .. s.lastOrder) = s.lastOrder
      <3>1. 1 \in Int /\ s.lastOrder \in Int
        BY <1>1
      <3>2. IsFiniteSet(1 .. s.lastOrder) /\ Cardinality(1 .. s.lastOrder) = IF 1 > s.lastOrder THEN 0 ELSE s.lastOrder - 1 + 1
        BY <3>1, FS_Interval
      <3> QED
        BY <1>1, <3>2
    <2>6. Cardinality(ended) = s.lastOrder
      BY <2>4, <2>5, FS_Injection
    <2>7. {orders[id] : id \in ended} = 1 .. s.lastOrder
      BY <2>2, <2>3
    <2> HIDE DEF f
    <2> QED
      BY <2>1, <2>6, <2>7, EventCardinality DEF Events!OrdersWhole, Entry, Over
  <1>4. Events!MarksExplained(s)
    <2> SUFFICES ASSUME NEW t \in Events!Targets, Events!Exists(s, t)
                 PROVE  LET mark == s.resources[t].mark
                            r == Entry(s, mark.op)
                        IN IF mark.seq >= Events!First(s)
                           THEN \E i \in 1 .. Len(s.events) :
                                   s.events[i].seq = mark.seq /\ s.events[i].op = mark.op /\ s.events[i].reason = mark.reason
                           ELSE r # None /\ r.reason = mark.reason /\ r.target = t
      BY DEF Events!MarksExplained, Entry
    <2> DEFINE mark == s.resources[t].mark
               at == mark.seq + 1 - Events!First(s)
    <2>1. /\ mark.op \in Events!Known(s) /\ mark.seq <= s.lastEvent
          /\ Entry(s, mark.op).reason = mark.reason /\ Entry(s, mark.op).target = t
          /\ mark.seq >= Events!First(s) => s.events[at].op = mark.op /\ s.events[at].reason = mark.reason
      BY DEF HistoryKept, MarkKept
    <2>2. Entry(s, mark.op) # None
      BY <2>1 DEF Entry, Events!Known, Events!Live, Events!Retired
    <2>3. mark.seq \in Nat
      <3>1. s.resources[t] \in Events!Resources
        BY <1>1, DataFields DEF Events!Exists
      <3> QED
        BY <3>1 DEF Events!Resources, Events!Marks
    <2>4. ASSUME mark.seq >= Events!First(s) PROVE at \in 1 .. Len(s.events) /\ s.events[at].seq = mark.seq
      <3> DEFINE first == Events!First(s)
                 n == Len(s.events)
                 seq == mark.seq
      <3>1. first \in Nat /\ n \in Nat /\ s.lastEvent \in Nat
        BY <1>1, DataFields
      <3>2. first + n = s.lastEvent + 1 /\ (\A i \in 1 .. n : s.events[i].seq = first + i - 1) /\ seq \in Nat /\ seq >= first
            /\ seq <= s.lastEvent
        BY <1>2, <2>1, <2>3, <2>4 DEF Events!WholeSuffix
      <3> HIDE DEF first, n, seq
      <3>3. seq + 1 - first \in 1 .. n /\ first + (seq + 1 - first) - 1 = seq
        BY <3>1, <3>2
      <3>4. s.events[seq + 1 - first].seq = seq
        BY <3>2, <3>3
      <3> QED
        BY <3>3, <3>4 DEF first, n, seq
    <2> QED
      BY <2>1, <2>2, <2>4, SMTT(40)
  <1>5. Events!OwnershipExplained(s)
    <2>1. ASSUME NEW t \in Events!Targets, Events!Exists(s, t), s.resources[t].owner # None
          PROVE  LET owner == s.resources[t].owner
                 IN owner \in Events!Live(s) /\ s.ops[owner].target = t /\ s.ops[owner].receipts = "adopted"
      BY <2>1 DEF HistoryKept, OwnerKept
    <2>2. ASSUME NEW id \in Events!Live(s), s.ops[id].receipts = "adopted"
          PROVE  \/ Events!ReleasedBy(s, id) # {}
                 \/ Events!Exists(s, s.ops[id].target) /\ s.resources[s.ops[id].target].owner = id
      BY <2>2 DEF HistoryKept, ReleaseKept
    <2> QED
      BY <2>1, <2>2 DEF Events!OwnershipExplained
  <1> QED
    BY <1>2, <1>3, <1>4, <1>5 DEF Events!Valid

\* Whatever a transaction of the lifecycle makes of the history is published, and
\* what retention keeps of it is in order.
LEMMA CommitKeeps ==
    ASSUME NEW d, NEW now, HistoryKept(d), Numbered(d, now), RecentKept(d), full = FALSE, Events!Commit(d)
    PROVE  /\ HistoryKept(memory') /\ Numbered(memory', None) /\ Limited(memory') /\ full' = FALSE
           /\ cursor' = cursor /\ memory'.lastEvent = d.lastEvent
           /\ \E o, k : Renumbered(d, o, now) /\ Compaction(o, k) /\ Suffix(k, memory') /\ HistoryKept(o) /\ Numbered(o, None)
  <1> USE EventConstants
  <1> DEFINE o == Events!Ordered(d)
             k == Events!Compacted(o)
             s == Events!Trimmed(k)
  <1>1. Renumbered(d, o, now) /\ HistoryKept(o) /\ Numbered(o, None)
    BY OrderedShape, RenumberedHistory
  <1>2. RecentKept(o)
    <2>1. Events!Retired(o) = Events!Retired(d)
      BY <1>1, RenumberedEntries
    <2>2. o.retired = d.retired /\ o.lastOrder \in {d.lastOrder, d.lastOrder + 1}
      BY <1>1 DEF Renumbered
    <2>3. d.lastOrder \in Nat /\ \A i \in Events!Retired(d) : d.retired[i].order \in Nat
      <3>1. d \in Events!Data
        BY DEF HistoryKept
      <3>2. \A i \in Events!Retired(d) : d.retired[i] \in Events!Tombstones
        BY <3>1, DataFields DEF Events!Retired
      <3> QED
        BY <3>1, <3>2, DataFields DEF Events!Tombstones
    <2> QED
      BY <2>1, <2>2, <2>3 DEF RecentKept
  <1>3. Compaction(o, k) /\ HistoryKept(k) /\ Numbered(k, None)
    BY <1>1, CompactedShape, CompactedHistory
  <1>4. Cardinality({id \in Events!Live(k) : Events!Terminal(k.ops[id])} \ Events!Pinned(k)) <= TerminalLimit /\ RecentKept(k)
    BY <1>1, <1>2, <1>3, CompactedLimits
  <1>5. Suffix(k, s) /\ HistoryKept(s) /\ Numbered(s, None) /\ Len(s.events) <= EventLimit
    BY <1>3, TrimmedShape, SuffixHistory
  <1>6. Limited(s)
    <2>1. s.ops = k.ops /\ s.retired = k.retired /\ s.resources = k.resources /\ s.lastOrder = k.lastOrder
      BY <1>5 DEF Suffix
    <2>2. Events!Live(s) = Events!Live(k) /\ Events!Pinned(s) = Events!Pinned(k) /\ Events!Retired(s) = Events!Retired(k)
      BY <2>1 DEF Events!Live, Events!Pinned, Events!Exists, Events!Retired
    <2> QED
      BY <1>4, <1>5, <2>1, <2>2 DEF Limited, RecentKept
  <1>7. Events!Valid(s)
    BY <1>5, KeptIsValid
  <1>8. Events!WithinCapacity(o)
    BY <1>1, EventCardinality DEF Events!WithinCapacity, HistoryKept
  <1>9. memory' = s /\ full' = full /\ cursor' = cursor
    BY <1>7, <1>8 DEF Events!Commit
  <1>10. s.lastEvent = d.lastEvent
    BY <1>1, <1>3, <1>5 DEF Renumbered, Compaction, Suffix
  <1> HIDE DEF o, k, s
  <1> QED
    BY <1>1, <1>3, <1>5, <1>6, <1>9, <1>10

\* Drafts: what a transaction has written before it appends its event.
Draft(d, x, id, op, resource) ==
    /\ x \in Events!Data /\ x.retired = d.retired /\ x.events = d.events /\ x.lastEvent = d.lastEvent /\ x.lastOrder = d.lastOrder
    /\ \A i \in Ids : x.ops[i] = IF i = id THEN op ELSE d.ops[i]
    /\ \A t \in Events!Targets : x.resources[t] = IF t = op.target THEN resource ELSE d.resources[t]

\* The resource with the mark of the event that comes next.
Marked(d, id, op, resource) ==
    IF resource = None THEN None
    ELSE [owner |-> resource.owner, mark |-> [op |-> id, seq |-> d.lastEvent + 1, reason |-> op.reason]]

\* An event is appended.
LEMMA AppendedShape ==
    ASSUME NEW d \in Events!Data, NEW x, NEW id \in Ids, NEW op \in Events!Operations, NEW resource, Draft(d, x, id, op, resource)
    PROVE  LET a == Events!Appended(x, id)
           IN Change(d, a, id, op, resource) /\ a.lastEvent = d.lastEvent + 1 /\ a.resources = x.resources
  <1> USE EventConstants
  <1> DEFINE e == [seq |-> d.lastEvent + 1, op |-> id, type |-> op.type, target |-> op.target, reason |-> op.reason]
             events == Append(x.events, e)
             next == x.lastEvent + 1
  <1>1. x \in Events!Data /\ x.events = d.events /\ x.lastEvent = d.lastEvent /\ x.ops[id] = op
    BY DEF Draft
  <1>2. d.lastEvent \in Nat /\ d.events \in Seq(Events!Events) /\ Len(d.events) \in Nat
    BY DataFields
  <1>3. e \in Events!Events
    BY <1>2 DEF Events!Events, Events!Operations
  <1>4. events \in Seq(Events!Events) /\ Len(events) = Len(d.events) + 1 /\ events[Len(events)] = e
        /\ \A i \in 1 .. Len(d.events) : events[i] = d.events[i]
    BY <1>1, <1>2, <1>3
  <1>5. next \in Nat /\ next = d.lastEvent + 1
    BY <1>1, <1>2
  <1>6. Events!Appended(x, id) = [x EXCEPT !.events = events, !.lastEvent = next]
    BY <1>1, Zenon DEF Events!Appended
  <1> HIDE DEF events, next
  <1>7. [x EXCEPT !.events = events, !.lastEvent = next] \in Events!Data
    BY <1>1, <1>4, <1>5, Zenon DEF Events!Data
  <1>8. LET a == [x EXCEPT !.events = events, !.lastEvent = next]
        IN a.ops = x.ops /\ a.retired = x.retired /\ a.resources = x.resources /\ a.lastOrder = x.lastOrder
           /\ a.events = events /\ a.lastEvent = next
    BY <1>1, Zenon DEF Events!Data
  <1> QED
    BY <1>4, <1>5, <1>6, <1>7, <1>8 DEF Draft, Change

\* One field of what is kept is replaced.
LEMMA WithResource ==
    ASSUME NEW a \in Events!Data, NEW t \in Events!Targets, NEW resource \in Events!Resources \cup {None}
    PROVE  LET b == [a EXCEPT !.resources[t] = resource]
           IN /\ b \in Events!Data /\ b.ops = a.ops /\ b.retired = a.retired /\ b.events = a.events
              /\ b.lastEvent = a.lastEvent /\ b.lastOrder = a.lastOrder
              /\ \A u \in Events!Targets : b.resources[u] = IF u = t THEN resource ELSE a.resources[u]
  <1> DEFINE resources == [a.resources EXCEPT ![t] = resource]
  <1>1. resources \in [Events!Targets -> Events!Resources \cup {None}]
        /\ \A u \in Events!Targets : resources[u] = IF u = t THEN resource ELSE a.resources[u]
    BY DataFields
  <1> HIDE DEF resources
  <1>2. [a EXCEPT !.resources[t] = resource] = [a EXCEPT !.resources = resources]
    BY DEF resources
  <1>3. [a EXCEPT !.resources = resources] \in Events!Data
    BY <1>1, Zenon DEF Events!Data
  <1>4. LET b == [a EXCEPT !.resources = resources]
        IN /\ b.ops = a.ops /\ b.retired = a.retired /\ b.events = a.events
           /\ b.lastEvent = a.lastEvent /\ b.lastOrder = a.lastOrder /\ b.resources = resources
    BY Zenon DEF Events!Data
  <1> QED
    BY <1>1, <1>2, <1>3, <1>4

\* An operation is replaced.
LEMMA WithOperation ==
    ASSUME NEW a \in Events!Data, NEW id \in Ids, NEW op \in Events!Operations
    PROVE  LET b == [a EXCEPT !.ops[id] = op]
           IN /\ b \in Events!Data /\ b.resources = a.resources /\ b.retired = a.retired /\ b.events = a.events
              /\ b.lastEvent = a.lastEvent /\ b.lastOrder = a.lastOrder
              /\ \A i \in Ids : b.ops[i] = IF i = id THEN op ELSE a.ops[i]
  <1> DEFINE ops == [a.ops EXCEPT ![id] = op]
  <1>1. ops \in [Ids -> Events!Operations \cup {None}] /\ \A i \in Ids : ops[i] = IF i = id THEN op ELSE a.ops[i]
    BY DataFields
  <1> HIDE DEF ops
  <1>2. [a EXCEPT !.ops[id] = op] = [a EXCEPT !.ops = ops]
    BY DEF ops
  <1>3. [a EXCEPT !.ops = ops] \in Events!Data
    BY <1>1, Zenon DEF Events!Data
  <1>4. LET b == [a EXCEPT !.ops = ops]
        IN /\ b.resources = a.resources /\ b.retired = a.retired /\ b.events = a.events
           /\ b.lastEvent = a.lastEvent /\ b.lastOrder = a.lastOrder /\ b.ops = ops
    BY Zenon DEF Events!Data
  <1> QED
    BY <1>1, <1>2, <1>3, <1>4

\* The resource is marked with the event, if there is one.
LEMMA ObservedShape ==
    ASSUME NEW d \in Events!Data, NEW x, NEW id \in Ids, NEW op \in Events!Operations,
           NEW resource \in Events!Resources \cup {None}, Draft(d, x, id, op, resource)
    PROVE  Change(d, Events!Observed(x, id), id, op, Marked(d, id, op, resource))
  <1> USE EventConstants
  <1> DEFINE e == Events!Appended(x, id)
             t == op.target
  <1>1. Change(d, e, id, op, resource) /\ e.lastEvent = d.lastEvent + 1 /\ e.resources = x.resources
    BY AppendedShape
  <1>2. x.ops[id] = op /\ t \in Events!Targets /\ x.resources[t] = resource
    BY DEF Draft, Events!Operations
  <1> HIDE DEF e
  <1>3. CASE resource = None
    BY <1>1, <1>2, <1>3 DEF Events!Observed, Events!Exists, Marked, e
  <1>4. CASE resource # None
    <2> DEFINE mark == [op |-> id, seq |-> e.lastEvent, reason |-> op.reason]
               marked == [resource EXCEPT !.mark = mark]
    <2>1. resource \in Events!Resources /\ d.lastEvent + 1 \in Nat \ {0}
      BY <1>4, DataFields
    <2>2. marked = Marked(d, id, op, resource) /\ marked \in Events!Resources
      BY <1>1, <1>4, <2>1 DEF Marked, Events!Resources, Events!Marks, Events!Operations
    <2>3. e \in Events!Data /\ e.resources[t] = resource
      BY <1>1, <1>2 DEF Change
    <2>4. Events!Observed(x, id) = [e EXCEPT !.resources[t].mark = mark]
      BY <1>2, <1>4, Zenon DEF Events!Observed, Events!Exists, e
    <2>5. [e EXCEPT !.resources[t].mark = mark] = [e EXCEPT !.resources[t] = marked]
      BY <2>3
    <2> HIDE DEF marked
    <2> DEFINE b == [e EXCEPT !.resources[t] = marked]
    <2>6. /\ b \in Events!Data /\ b.ops = e.ops /\ b.retired = e.retired /\ b.events = e.events
          /\ b.lastEvent = e.lastEvent /\ b.lastOrder = e.lastOrder
          /\ \A u \in Events!Targets : b.resources[u] = IF u = t THEN marked ELSE e.resources[u]
      BY <1>2, <2>2, <2>3, WithResource
    <2> HIDE DEF b
    <2>7. Change(d, b, id, op, marked)
      BY <1>1, <2>6 DEF Change
    <2> QED
      BY <2>2, <2>4, <2>5, <2>7 DEF b
  <1> QED
    BY <1>3, <1>4

\* What is marked keeps its owner.
LEMMA MarkedShape ==
    ASSUME NEW d \in Events!Data, NEW id \in Ids, NEW op \in Events!Operations, NEW resource \in Events!Resources \cup {None}
    PROVE  LET m == Marked(d, id, op, resource)
           IN /\ m \in Events!Resources \cup {None} /\ (m = None <=> resource = None) /\ Owner(m) = Owner(resource)
              /\ m # None => m.owner = Owner(resource) /\ m.mark = [op |-> id, seq |-> d.lastEvent + 1, reason |-> op.reason]
  <1> DEFINE mark == [op |-> id, seq |-> d.lastEvent + 1, reason |-> op.reason]
             m == [owner |-> resource.owner, mark |-> mark]
  <1>1. d.lastEvent + 1 \in Nat \ {0}
    BY DataFields
  <1>2. mark \in Events!Marks
    BY <1>1 DEF Events!Marks, Events!Operations
  <1>3. CASE resource = None
    BY <1>3 DEF Marked, Owner
  <1>4. CASE resource # None
    <2>1. m \in Events!Resources /\ m # None
      BY <1>2, <1>4, EventConstants DEF Events!Resources
    <2> QED
      BY <1>4, <2>1 DEF Marked, Owner
  <1> QED
    BY <1>3, <1>4

\* What a history remembers of an older one, up to the operation that ends now.
Remembers(d, c, now) ==
    /\ \A id \in Events!Retired(d) : id \in Events!Retired(c) /\ c.retired[id] = d.retired[id]
    /\ \A id \in Events!Live(d) :
          /\ id \in Events!Live(c) /\ c.ops[id].target = d.ops[id].target /\ c.ops[id].type = d.ops[id].type
          /\ Events!Terminal(d.ops[id]) => id # now /\ c.ops[id] = d.ops[id]

\* What every step of the log does.
Keeps == EventInv' /\ Events!IdentityStep

\* A change is of an operation that had not ended.
LEMMA ChangeRemembers ==
    ASSUME NEW d, NEW c, NEW id, NEW op, NEW resource, d \in Events!Data, Change(d, c, id, op, resource), Allowed(d, id, op, resource)
    PROVE  Remembers(d, c, IF Events!Terminal(op) THEN id ELSE None)
  <1>1. /\ Events!Live(c) = Events!Live(d) \cup {id} /\ Events!Retired(c) = Events!Retired(d)
    BY ChangedKnown
  <1>2. /\ c.retired = d.retired /\ \A i \in Ids : c.ops[i] = IF i = id THEN op ELSE d.ops[i]
    BY DEF Change
  <1>3. \A i \in Events!Live(d) : i \in Ids /\ i # None
    BY EventConstants DEF Events!Live
  <1>4. id \in Events!Live(d) => ~Events!Terminal(d.ops[id]) /\ op.target = d.ops[id].target /\ op.type = d.ops[id].type
    BY DEF Allowed
  <1> QED
    BY <1>1, <1>2, <1>3, <1>4 DEF Remembers

\* Remembering is transitive.
LEMMA RemembersOn ==
    ASSUME NEW d, NEW b, NEW c, NEW first, NEW now, Remembers(d, b, first), Remembers(b, c, now)
    PROVE  Remembers(d, c, now)
  BY DEF Remembers

\* No commit changes what an operation that ended says.
LEMMA CommitRemembers ==
    ASSUME NEW d, NEW c, NEW o, NEW k, NEW s, NEW now, Remembers(d, c, now), HistoryKept(c), Numbered(c, now), Renumbered(c, o, now),
           HistoryKept(o), Numbered(o, None), Compaction(o, k), Suffix(k, s),
           NEW id \in Events!Known(d), Events!Live(d) \cap Events!Retired(d) = {}
    PROVE  /\ id \in Events!Known(s)
           /\ id \in Events!Retired(d) => s.retired[id] = d.retired[id]
           /\ id \in Events!Live(d) =>
                  /\ Entry(s, id).target = d.ops[id].target /\ Entry(s, id).type = d.ops[id].type
                  /\ Events!Terminal(d.ops[id]) => Entry(s, id).reason = d.ops[id].reason /\ Entry(s, id).order = d.ops[id].order
  <1>1. s.ops = k.ops /\ s.retired = k.retired
    BY DEF Suffix
  <1>2. Events!Live(s) = Events!Live(k) /\ Events!Retired(s) = Events!Retired(k) /\ Events!Known(s) = Events!Known(k) /\ Entry(s, id) = Entry(k, id)
    BY <1>1 DEF Events!Live, Events!Retired, Events!Known, Entry
  <1>3. /\ Events!Known(k) = Events!Known(o)
        /\ \A i \in Events!Known(o) : /\ Entry(k, i).type = Entry(o, i).type /\ Entry(k, i).target = Entry(o, i).target
                                       /\ Entry(k, i).reason = Entry(o, i).reason /\ Entry(k, i).order = Entry(o, i).order
        /\ \A i \in Events!Retired(o) : k.retired[i] = o.retired[i]
    BY CompactedEntries
  <1>4. /\ Events!Live(o) = Events!Live(c) /\ Events!Retired(o) = Events!Retired(c) /\ Events!Known(o) = Events!Known(c)
        /\ \A i \in Events!Live(c) :
              /\ o.ops[i].type = c.ops[i].type /\ o.ops[i].target = c.ops[i].target /\ o.ops[i].reason = c.ops[i].reason
              /\ o.ops[i].order = IF i = now THEN c.lastOrder + 1 ELSE c.ops[i].order
    BY RenumberedEntries
  <1>5. o.retired = c.retired
    BY DEF Renumbered
  <1>6. CASE id \in Events!Retired(d)
    <2>1. id \in Events!Retired(c) /\ c.retired[id] = d.retired[id]
      BY <1>6 DEF Remembers
    <2>2. id \in Events!Known(c)
      BY <2>1 DEF Events!Known
    <2> QED
      BY <1>1, <1>2, <1>3, <1>4, <1>5, <1>6, <2>1, <2>2
  <1>7. CASE id \in Events!Live(d)
    <2>1. /\ id \in Events!Live(c) /\ c.ops[id].target = d.ops[id].target /\ c.ops[id].type = d.ops[id].type
          /\ Events!Terminal(d.ops[id]) => id # now /\ c.ops[id] = d.ops[id]
      BY <1>7 DEF Remembers
    <2>2. id \in Events!Known(c) /\ id \in Events!Live(o) /\ Entry(o, id) = o.ops[id]
      BY <1>4, <2>1 DEF Events!Known, Entry
    <2>3. id \notin Events!Retired(d)
      BY <1>7
    <2> QED
      BY <1>2, <1>3, <1>4, <1>7, <2>1, <2>2, <2>3
  <1> QED
    BY <1>6, <1>7 DEF Events!Known

\* An allowed change keeps the history.
LEMMA ChangeKeeps ==
    ASSUME NEW d, NEW c, NEW id, NEW op, NEW resource, HistoryKept(d), Numbered(d, None), RecentKept(d),
           Change(d, c, id, op, resource), Allowed(d, id, op, resource)
    PROVE  /\ HistoryKept(c) /\ Numbered(c, IF Events!Terminal(op) THEN id ELSE None) /\ RecentKept(c)
           /\ Remembers(d, c, IF Events!Terminal(op) THEN id ELSE None) /\ c.lastEvent = d.lastEvent + 1
  <1>1. HistoryKept(c) /\ Numbered(c, IF Events!Terminal(op) THEN id ELSE None)
    BY ChangedHistory, ChangedNumbers
  <1>2. c.retired = d.retired /\ c.lastOrder = d.lastOrder /\ c.lastEvent = d.lastEvent + 1
    BY DEF Change
  <1>3. RecentKept(c)
    BY <1>2 DEF RecentKept, Events!Retired
  <1>4. d \in Events!Data
    BY DEF HistoryKept
  <1>5. Remembers(d, c, IF Events!Terminal(op) THEN id ELSE None)
    BY <1>4, ChangeRemembers
  <1> QED
    BY <1>1, <1>2, <1>3, <1>5

\* A commit of what keeps the history keeps the invariant.
LEMMA CommittedKeeps ==
    ASSUME EventInv, NEW c, NEW now, HistoryKept(c), Numbered(c, now), RecentKept(c), Events!Commit(c),
           memory.lastEvent <= c.lastEvent, Remembers(memory, c, now)
    PROVE  Keeps
  <1>1. full = FALSE /\ cursor \in 0 .. memory.lastEvent /\ memory \in Events!Data
    BY DEF EventInv, HistoryKept
  <1>2. /\ HistoryKept(memory') /\ Numbered(memory', None) /\ Limited(memory') /\ full' = FALSE
        /\ cursor' = cursor /\ memory'.lastEvent = c.lastEvent
    BY <1>1, CommitKeeps
  <1>3. memory.lastEvent \in Nat /\ c.lastEvent \in Nat
    BY <1>1, DataFields DEF HistoryKept
  <1>4. cursor' \in 0 .. memory'.lastEvent
    BY <1>1, <1>2, <1>3
  <1>5. EventInv'
    BY <1>2, <1>4 DEF EventInv, HistoryKept, MarkKept, OwnerKept, OperationKept, ReleaseKept, Numbered, Limited, RecentKept, Entry, Over
  <1>6. PICK o, k : Renumbered(c, o, now) /\ Compaction(o, k) /\ Suffix(k, memory') /\ HistoryKept(o) /\ Numbered(o, None)
    BY <1>1, CommitKeeps
  <1>7. Events!Live(memory) \cap Events!Retired(memory) = {}
    BY DEF EventInv, HistoryKept
  <1>8. Events!IdentityStep
    <2> SUFFICES ASSUME NEW id \in Events!Known(memory)
                 PROVE  /\ id \in Events!Known(memory')
                        /\ id \in Events!Retired(memory) => memory'.retired[id] = memory.retired[id]
                        /\ id \in Events!Live(memory) =>
                              /\ Entry(memory', id).target = memory.ops[id].target /\ Entry(memory', id).type = memory.ops[id].type
                              /\ Events!Terminal(memory.ops[id]) =>
                                    Entry(memory', id).reason = memory.ops[id].reason /\ Entry(memory', id).order = memory.ops[id].order
      BY DEF Events!IdentityStep, Entry
    <2> QED
      BY <1>6, <1>7, CommitRemembers
  <1> QED
    BY <1>5, <1>8 DEF Keeps

\* A transaction that makes one allowed change keeps the invariant.
LEMMA TransactionKeeps ==
    ASSUME EventInv, NEW c, NEW id, NEW op, NEW resource,
           Change(memory, c, id, op, resource), Allowed(memory, id, op, resource), Events!Commit(c)
    PROVE  Keeps
  <1>1. HistoryKept(memory) /\ Numbered(memory, None) /\ RecentKept(memory)
    BY DEF EventInv, Limited
  <1>2. /\ HistoryKept(c) /\ Numbered(c, IF Events!Terminal(op) THEN id ELSE None) /\ RecentKept(c)
        /\ Remembers(memory, c, IF Events!Terminal(op) THEN id ELSE None) /\ c.lastEvent = memory.lastEvent + 1
    BY <1>1, ChangeKeeps
  <1>3. memory.lastEvent \in Nat
    BY <1>1, DataFields DEF HistoryKept
  <1>4. memory.lastEvent <= c.lastEvent
    BY <1>2, <1>3
  <1> QED
    BY <1>2, <1>4, CommittedKeeps

\* So does one that observes an allowed draft.
LEMMA ObservedKeeps ==
    ASSUME EventInv, NEW x, NEW id \in Ids, NEW op \in Events!Operations, NEW resource \in Events!Resources \cup {None},
           Draft(memory, x, id, op, resource), Allowed(memory, id, op, Marked(memory, id, op, resource)),
           Events!Commit(Events!Observed(x, id))
    PROVE  Keeps
  <1>1. memory \in Events!Data
    BY DEF EventInv, HistoryKept
  <1>2. Change(memory, Events!Observed(x, id), id, op, Marked(memory, id, op, resource))
    BY <1>1, ObservedShape
  <1> QED
    BY <1>2, TransactionKeeps

\* An operation is put, and it ends.
LEMMA PutDraft ==
    ASSUME NEW d \in Events!Data, NEW id \in Ids, NEW op \in Events!Operations
    PROVE  Draft(d, Events!Put(d, id, op), id, op, d.resources[op.target])
  <1>1. op.target \in Events!Targets
    BY DEF Events!Operations
  <1> QED
    BY <1>1, WithOperation DEF Draft, Events!Put

\* Data is the draft of what it says of an operation.
LEMMA SameDraft ==
    ASSUME NEW d \in Events!Data, NEW id \in Events!Live(d)
    PROVE  /\ id \in Ids /\ d.ops[id] \in Events!Operations /\ d.ops[id].target \in Events!Targets
           /\ Draft(d, d, id, d.ops[id], d.resources[d.ops[id].target])
           /\ d.resources[d.ops[id].target] \in Events!Resources \cup {None}
  <1>1. id \in Ids /\ d.ops[id] \in Events!Operations
    BY DataFields DEF Events!Live
  <1>2. d.ops[id].target \in Events!Targets
    BY <1>1 DEF Events!Operations
  <1>3. d.resources[d.ops[id].target] \in Events!Resources \cup {None}
    BY <1>2, DataFields
  <1> QED
    BY <1>1, <1>2, <1>3 DEF Draft

\* An operation with its outcome.
Concluded(op, state, reason) == [op EXCEPT !.state = state, !.reason = reason]

\* What an outcome leaves alone.
LEMMA ConcludedFields ==
    ASSUME NEW op \in Events!Operations, NEW state \in {"active", "succeeded", "failed"}, NEW reason \in Events!Reasons,
           NEW ended, ended = Concluded(op, state, reason)
    PROVE  /\ ended \in Events!Operations
           /\ ended.type = op.type /\ ended.target = op.target /\ ended.state = state /\ ended.reason = reason
           /\ ended.receipts = op.receipts /\ ended.released = op.released /\ ended.order = op.order
  BY DEF Concluded, Events!Operations

\* What Ended makes of a draft.
LEMMA EndedDraft ==
    ASSUME NEW d \in Events!Data, NEW x, NEW id \in Ids, NEW op \in Events!Operations, NEW resource,
           NEW state \in {"active", "succeeded", "failed"}, NEW reason \in Events!Reasons, Draft(d, x, id, op, resource)
    PROVE  Draft(d, Events!Ended(x, id, state, reason), id, Concluded(op, state, reason), resource)
  <1> DEFINE ended == Concluded(op, state, reason)
  <1>1. ended \in Events!Operations /\ ended.target = op.target
    BY ConcludedFields
  <1>2. x \in Events!Data /\ x.ops[id] = op
    BY DEF Draft
  <1>3. x.ops \in [Ids -> Events!Operations \cup {None}]
    BY <1>2, DataFields
  <1>4. Events!Ended(x, id, state, reason) = [x EXCEPT !.ops = [x.ops EXCEPT ![id] = ended]]
    BY <1>2, <1>3 DEF Events!Ended, Events!Data, Concluded
  <1> HIDE DEF ended
  <1> DEFINE b == [x EXCEPT !.ops[id] = ended]
  <1>5. Events!Ended(x, id, state, reason) = b
    BY <1>4
  <1>6. /\ b \in Events!Data /\ b.resources = x.resources /\ b.retired = x.retired /\ b.events = x.events
        /\ b.lastEvent = x.lastEvent /\ b.lastOrder = x.lastOrder
        /\ \A i \in Ids : b.ops[i] = IF i = id THEN ended ELSE x.ops[i]
    BY <1>1, <1>2, WithOperation
  <1> HIDE DEF b
  <1>7. Draft(d, b, id, ended, resource)
    BY <1>1, <1>6 DEF Draft
  <1> QED
    BY <1>5, <1>7 DEF ended

\* A new operation is allowed.
LEMMA NewIsAllowed ==
    ASSUME EventInv, NEW id \in Ids, NEW op \in Events!Operations, NEW resource \in Events!Resources \cup {None},
           Events!Accepts(memory, id), op.order = 0, op.receipts = "none", op.released = None,
           ~Events!Terminal(op) => op.reason = "none" /\ Events!Active(memory, op.target) = {},
           op.type = "create" /\ ~Events!Terminal(op) => resource # None,
           \/ resource = memory.resources[op.target]
           \/ resource # None /\ resource.owner = None /\ memory.resources[op.target] = None,
           op.type = "create" /\ ~Events!Terminal(op) => memory.resources[op.target] = None
    PROVE  Allowed(memory, id, op, Marked(memory, id, op, resource))
  <1> DEFINE m == Marked(memory, id, op, resource)
             t == op.target
             was == memory.resources[t]
  <1>1. memory \in Events!Data
    BY DEF EventInv, HistoryKept
  <1>2. /\ m \in Events!Resources \cup {None} /\ (m = None <=> resource = None) /\ Owner(m) = Owner(resource)
        /\ m # None => m.owner = Owner(resource) /\ m.mark = [op |-> id, seq |-> memory.lastEvent + 1, reason |-> op.reason]
    BY <1>1, MarkedShape
  <1>3. id \notin Events!Live(memory) /\ id \notin Events!Retired(memory) /\ Cardinality(Events!Known(memory)) < IdentityLimit
    BY EventCardinality DEF Events!Accepts, Events!Known
  <1>4. resource # None => Owner(resource) = Owner(was)
    BY DEF Owner
  <1>5. m = None => was = None
    BY <1>2
  <1>6. op.type = "create" /\ ~Events!Terminal(op) => m # None /\ Owner(m) = None
    BY <1>2, <1>4 DEF Owner
  <1> HIDE DEF m, was
  <1>7. was = memory.resources[op.target]
    BY DEF was
  <1>8. Allowed(memory, id, op, m)
    BY <1>2, <1>3, <1>4, <1>5, <1>6, <1>7, EventConstants DEF Allowed
  <1> QED
    BY <1>8 DEF m

\* An operation that goes on or ends is allowed, its resource stays or is removed.
LEMMA NextIsAllowed ==
    ASSUME NEW d, HistoryKept(d), Numbered(d, None), NEW id \in Events!Live(d), NEW op \in Events!Operations, NEW resource \in Events!Resources \cup {None},
           ~Events!Terminal(d.ops[id]), op.order = d.ops[id].order, op.type = d.ops[id].type, op.target = d.ops[id].target,
           ~Events!Terminal(op) => op.reason = "none" /\ op.released = None /\ op.receipts # "adopted" /\ resource = d.resources[op.target],
           op.receipts = "adopted" => op.type = "create" /\ op.state = "succeeded" /\ Owner(resource) = id,
           op.released # None => op.type = "delete",
           \/ resource = d.resources[op.target]
           \/ resource # None /\ d.resources[op.target] # None /\ resource.owner = id /\ op.receipts = "adopted"
    PROVE  Allowed(d, id, op, Marked(d, id, op, resource))
  <1> DEFINE m == Marked(d, id, op, resource)
             t == op.target
             was == d.resources[t]
  <1>1. d \in Events!Data
    BY DEF HistoryKept
  <1>2. /\ m \in Events!Resources \cup {None} /\ (m = None <=> resource = None) /\ Owner(m) = Owner(resource)
        /\ m # None => m.owner = Owner(resource) /\ m.mark = [op |-> id, seq |-> d.lastEvent + 1, reason |-> op.reason]
    BY <1>1, SameDraft, MarkedShape
  <1>3. id \in Ids /\ id \in Events!Known(d) /\ Entry(d, id) = d.ops[id] /\ ~Over(d, id)
    BY <1>1, SameDraft DEF Entry, Over, Events!Known
  <1>4. id \notin Events!Retired(d)
    BY <1>1 DEF HistoryKept
  <1>5. op.order = 0
    BY <1>1, <1>3, EventConstants DEF Numbered
  <1>6. OperationKept(d, id)
    BY <1>1 DEF HistoryKept
  <1>7. Events!Active(d, t) = {id} /\ t \in Events!Targets
    BY <1>6 DEF OperationKept, Events!Operations
  <1>8. op.type = "create" => Events!Exists(d, t) /\ Owner(was) = None
    <2> SUFFICES ASSUME op.type = "create" PROVE Events!Exists(d, t) /\ Owner(was) = None
      OBVIOUS
    <2>1. Events!Exists(d, t)
      BY <1>6 DEF OperationKept
    <2>2. OwnerKept(d, t)
      BY <1>1, <1>7, <2>1 DEF HistoryKept
    <2>3. d.resources[t].owner = None
      BY <1>3, <2>2 DEF OwnerKept
    <2> QED
      BY <2>1, <2>3 DEF Owner
  <1>9. was = d.resources[op.target] /\ (was # None <=> Events!Exists(d, t))
    BY DEF Events!Exists
  <1>10. resource = was \/ (resource # None /\ was # None /\ resource.owner = id /\ op.receipts = "adopted" /\ op.type = "create")
    OBVIOUS
  <1>11. ~Events!Terminal(op) => resource = was
    OBVIOUS
  <1> HIDE DEF m, was
  <1>12. Allowed(d, id, op, m)
    BY <1>2, <1>3, <1>4, <1>5, <1>7, <1>8, <1>9, <1>10, <1>11, EventConstants DEF Allowed, Owner
  <1> QED
    BY <1>12 DEF m

-----------------------------------------------------------------------------
(* One lemma for each transaction. *)

\* What a transaction finds.
LEMMA Committed ==
    ASSUME EventInv
    PROVE  /\ HistoryKept(memory) /\ Numbered(memory, None) /\ RecentKept(memory) /\ memory \in Events!Data
           /\ memory.lastEvent \in Nat /\ memory.resources \in [Events!Targets -> Events!Resources \cup {None}]
  <1>1. HistoryKept(memory) /\ Numbered(memory, None) /\ RecentKept(memory) /\ memory \in Events!Data
    BY DEF EventInv, HistoryKept, Limited
  <1> QED
    BY <1>1, DataFields

\* A record of an operation that begins.
LEMMA NewOperationFields ==
    ASSUME NEW type \in Events!Types, NEW t \in Events!Targets
    PROVE  LET op == Events!NewOperation(type, t)
           IN /\ op \in Events!Operations /\ op.type = type /\ op.target = t /\ op.state = "active" /\ op.reason = "none"
              /\ op.receipts = "none" /\ op.released = None /\ op.order = 0 /\ ~Events!Terminal(op)
  BY DEF Events!NewOperation, Events!Operations, Events!Types, Events!Reasons, Events!Terminal

\* A create begins with the metadata of its resource.
LEMMA BeginCreateKeeps ==
    ASSUME EventInv, NEW id \in Ids, NEW t \in Events!Targets, Events!BeginCreate(id, t)
    PROVE  Keeps
  <1> DEFINE op == Events!NewOperation("create", t)
             p == Events!Put(memory, id, op)
             mark == [op |-> id, seq |-> p.lastEvent + 1, reason |-> "none"]
             resource == [owner |-> None, mark |-> mark]
             x == [p EXCEPT !.resources[t] = resource]
  <1>1. memory \in Events!Data /\ memory.lastEvent \in Nat
    BY Committed
  <1>2. /\ op \in Events!Operations /\ op.type = "create" /\ op.target = t /\ op.state = "active" /\ op.reason = "none"
        /\ op.receipts = "none" /\ op.released = None /\ op.order = 0 /\ ~Events!Terminal(op)
    BY NewOperationFields DEF Events!Types
  <1>3. /\ Events!Accepts(memory, id) /\ Events!Active(memory, t) = {} /\ ~Events!Exists(memory, t)
        /\ Events!Commit(Events!Observed(x, id))
    BY DEF Events!BeginCreate
  <1> HIDE DEF op
  <1>4. Draft(memory, p, id, op, memory.resources[op.target])
    BY <1>1, <1>2, PutDraft
  <1> HIDE DEF p
  <1>5. p \in Events!Data /\ p.lastEvent = memory.lastEvent
    BY <1>4 DEF Draft
  <1>6. resource \in Events!Resources /\ resource # None /\ resource.owner = None
    BY <1>1, <1>5, EventConstants DEF Events!Resources, Events!Marks, Events!Reasons
  <1> HIDE DEF resource
  <1>7. /\ x \in Events!Data /\ x.ops = p.ops /\ x.retired = p.retired /\ x.events = p.events
        /\ x.lastEvent = p.lastEvent /\ x.lastOrder = p.lastOrder
        /\ \A u \in Events!Targets : x.resources[u] = IF u = t THEN resource ELSE p.resources[u]
    BY <1>5, <1>6, WithResource
  <1> HIDE DEF x
  <1>8. Draft(memory, x, id, op, resource)
    BY <1>2, <1>4, <1>7 DEF Draft
  <1>9. memory.resources[op.target] = None
    BY <1>2, <1>3 DEF Events!Exists
  <1>10. Allowed(memory, id, op, Marked(memory, id, op, resource))
    BY <1>2, <1>3, <1>6, <1>9, NewIsAllowed
  <1> QED
    BY <1>2, <1>3, <1>6, <1>8, <1>10, ObservedKeeps

\* Another operation begins.
LEMMA BeginKeeps ==
    ASSUME EventInv, NEW id \in Ids, NEW t \in Events!Targets, NEW type \in Events!Types, Events!Begin(id, t, type)
    PROVE  Keeps
  <1> DEFINE op == Events!NewOperation(type, t)
             x == Events!Put(memory, id, op)
             resource == memory.resources[t]
  <1>1. memory \in Events!Data /\ resource \in Events!Resources \cup {None}
    BY Committed
  <1>2. /\ op \in Events!Operations /\ op.type = type /\ op.target = t /\ op.state = "active" /\ op.reason = "none"
        /\ op.receipts = "none" /\ op.released = None /\ op.order = 0 /\ ~Events!Terminal(op)
    BY NewOperationFields
  <1>3. Events!Accepts(memory, id) /\ Events!Active(memory, t) = {} /\ type # "create" /\ Events!Commit(Events!Observed(x, id))
    BY DEF Events!Begin
  <1> HIDE DEF op
  <1>4. Draft(memory, x, id, op, resource)
    BY <1>1, <1>2, PutDraft
  <1> HIDE DEF x
  <1>5. Allowed(memory, id, op, Marked(memory, id, op, resource))
    BY <1>1, <1>2, <1>3, NewIsAllowed
  <1> QED
    BY <1>1, <1>2, <1>3, <1>4, <1>5, ObservedKeeps

\* An operation that ends in the transaction that accepts it.
LEMMA InstantKeeps ==
    ASSUME EventInv, NEW id \in Ids, NEW t \in Events!Targets, NEW type \in Events!Types,
           NEW state \in {"succeeded", "failed"}, NEW reason \in Events!Reasons, Events!Accepts(memory, id),
           Events!Commit(Events!Observed(Events!Ended(Events!Put(memory, id, Events!NewOperation(type, t)), id, state, reason), id))
    PROVE  Keeps
  <1> DEFINE new == Events!NewOperation(type, t)
             p == Events!Put(memory, id, new)
  <1>1. memory \in Events!Data /\ memory.resources[t] \in Events!Resources \cup {None}
    BY Committed
  <1>2. /\ new \in Events!Operations /\ new.type = type /\ new.target = t
        /\ new.receipts = "none" /\ new.released = None /\ new.order = 0
    BY NewOperationFields
  <1>3. Events!Commit(Events!Observed(Events!Ended(p, id, state, reason), id))
    OBVIOUS
  <1> HIDE DEF new
  <1>4. Draft(memory, p, id, new, memory.resources[t])
    BY <1>1, <1>2, PutDraft
  <1> HIDE DEF p
  <1> DEFINE done == Concluded(new, state, reason)
             y == Events!Ended(p, id, state, reason)
             old == memory.resources[t]
  <1>5. Draft(memory, y, id, done, old)
    BY <1>1, <1>2, <1>4, EndedDraft
  <1>6. /\ done \in Events!Operations /\ done.target = t /\ Events!Terminal(done) /\ done.order = 0
        /\ done.receipts = "none" /\ done.released = None
    BY <1>2, ConcludedFields DEF Events!Terminal
  <1>7. Events!Commit(Events!Observed(y, id)) /\ old = memory.resources[t] /\ old \in Events!Resources \cup {None}
    BY <1>1, <1>3
  <1> HIDE DEF done, y, old
  <1>8. Allowed(memory, id, done, Marked(memory, id, done, old))
    BY <1>6, <1>7, NewIsAllowed
  <1> QED
    BY <1>5, <1>6, <1>7, <1>8, ObservedKeeps

\* An operation goes on; a create may have journaled its receipts.
LEMMA CheckpointKeeps ==
    ASSUME EventInv, NEW id \in Ids, Events!Checkpoint(id)
    PROVE  Keeps
  <1> DEFINE was == memory.ops[id]
             resource == memory.resources[was.target]
  <1>1. id \in Events!Live(memory) /\ ~Events!Terminal(was)
    BY DEF Events!Checkpoint
  <1>2. PICK receipts \in {was.receipts, "journaled"} :
            /\ receipts = "journaled" => was.type = "create"
            /\ Events!Commit(Events!Observed(Events!Put(memory, id, [was EXCEPT !.receipts = receipts]), id))
    BY DEF Events!Checkpoint
  <1> DEFINE op == [was EXCEPT !.receipts = receipts]
  <1>3. HistoryKept(memory) /\ Numbered(memory, None) /\ memory \in Events!Data
    BY Committed
  <1>4. was \in Events!Operations /\ was.target \in Events!Targets /\ resource \in Events!Resources \cup {None}
    BY <1>1, <1>3, SameDraft
  <1>5. OperationKept(memory, id)
    BY <1>1, <1>3 DEF HistoryKept
  <1>6. was.reason = "none" /\ was.released = None /\ was.receipts # "adopted"
    BY <1>1, <1>5 DEF OperationKept, Events!Terminal
  <1>7. /\ op \in Events!Operations /\ op.type = was.type /\ op.target = was.target /\ op.state = was.state
        /\ op.reason = was.reason /\ op.released = was.released /\ op.order = was.order /\ op.receipts # "adopted"
    BY <1>4, <1>6 DEF Events!Operations
  <1>8. Events!Commit(Events!Observed(Events!Put(memory, id, op), id))
    BY <1>2
  <1> HIDE DEF op, was
  <1>9. Draft(memory, Events!Put(memory, id, op), id, op, resource)
    BY <1>3, <1>7, PutDraft
  <1>10. Allowed(memory, id, op, Marked(memory, id, op, resource))
    BY <1>1, <1>3, <1>4, <1>6, <1>7, NextIsAllowed DEF was
  <1> QED
    BY <1>4, <1>7, <1>8, <1>9, <1>10, ObservedKeeps

\* An operation of a resource that stays ends.
LEMMA EndKeeps ==
    ASSUME EventInv, NEW id \in Events!Live(memory), ~Events!Terminal(memory.ops[id]),
           NEW state \in {"succeeded", "failed"}, NEW reason \in Events!Reasons,
           Events!Commit(Events!Observed(Events!Ended(memory, id, state, reason), id))
    PROVE  Keeps
  <1> DEFINE was == memory.ops[id]
             old == memory.resources[was.target]
             done == Concluded(was, state, reason)
             y == Events!Ended(memory, id, state, reason)
  <1>1. HistoryKept(memory) /\ Numbered(memory, None) /\ memory \in Events!Data
    BY Committed
  <1>2. /\ id \in Ids /\ was \in Events!Operations /\ was.target \in Events!Targets
        /\ old \in Events!Resources \cup {None} /\ Draft(memory, memory, id, was, old)
    BY <1>1, SameDraft
  <1>3. OperationKept(memory, id)
    BY <1>1 DEF HistoryKept
  <1>4. was.released = None /\ was.receipts # "adopted" /\ ~Events!Terminal(was)
    BY <1>3 DEF OperationKept, Events!Terminal
  <1> HIDE DEF was, old
  <1>5. Draft(memory, y, id, done, old)
    BY <1>1, <1>2, EndedDraft
  <1>6. /\ done \in Events!Operations /\ done.target = was.target /\ Events!Terminal(done) /\ done.order = was.order
        /\ done.type = was.type /\ done.receipts # "adopted" /\ done.released = None
    BY <1>2, <1>4, ConcludedFields DEF Events!Terminal
  <1>7. was = memory.ops[id] /\ old = memory.resources[was.target] /\ Events!Commit(Events!Observed(y, id))
    BY DEF was, old
  <1> HIDE DEF done, y
  <1>8. old = memory.resources[done.target]
    BY <1>6, <1>7
  <1>9. Allowed(memory, id, done, Marked(memory, id, done, old))
    BY <1>1, <1>2, <1>6, <1>7, <1>8, NextIsAllowed
  <1> QED
    BY <1>2, <1>5, <1>6, <1>7, <1>9, ObservedKeeps

\* The receipts of a create become the inventory of its resource.
LEMMA ConfirmCreateKeeps ==
    ASSUME EventInv, NEW id \in Ids, Events!ConfirmCreate(id)
    PROVE  Keeps
  <1> DEFINE was == memory.ops[id]
             t == was.target
             old == memory.resources[t]
             adopted == [was EXCEPT !.receipts = "adopted"]
             owned == [old EXCEPT !.owner = id]
             p == [memory EXCEPT !.ops[id] = adopted]
             q == [p EXCEPT !.resources[t] = owned]
             done == Concluded(adopted, "succeeded", "none")
             y == Events!Ended(q, id, "succeeded", "none")
  <1>1. HistoryKept(memory) /\ Numbered(memory, None) /\ memory \in Events!Data
    BY Committed
  <1>2. id \in Events!Live(memory) /\ ~Events!Terminal(was) /\ was.type = "create"
    BY DEF Events!ConfirmCreate
  <1>3. was \in Events!Operations /\ t \in Events!Targets /\ old \in Events!Resources \cup {None}
    BY <1>1, <1>2, SameDraft
  <1>4. OperationKept(memory, id)
    BY <1>1, <1>2 DEF HistoryKept
  <1>5. was.released = None /\ old # None
    BY <1>2, <1>4 DEF OperationKept, Events!Exists
  <1>6. /\ adopted \in Events!Operations /\ adopted.type = "create" /\ adopted.target = t /\ adopted.receipts = "adopted"
        /\ adopted.released = None /\ adopted.order = was.order
    BY <1>2, <1>3, <1>5 DEF Events!Operations
  <1>7. owned \in Events!Resources /\ owned.owner = id /\ owned # None
    BY <1>3, <1>5, EventConstants DEF Events!Resources
  <1>8. Events!Commit(Events!Observed(y, id))
    <2>1. memory.ops \in [Ids -> Events!Operations \cup {None}] /\ memory.resources \in [Events!Targets -> Events!Resources \cup {None}]
      BY <1>1, DataFields
    <2>2. [memory EXCEPT !.ops[id].receipts = "adopted", !.resources[memory.ops[id].target].owner = id] = q
      BY <1>1, <2>1 DEF Events!Data
    <2> QED
      BY <2>2, Zenon DEF Events!ConfirmCreate
  <1>9. was = memory.ops[id] /\ old = memory.resources[t] /\ t = was.target
    OBVIOUS
  <1> HIDE DEF was, old, t, adopted, owned
  <1>10. /\ p \in Events!Data /\ p.resources = memory.resources /\ p.retired = memory.retired /\ p.events = memory.events
         /\ p.lastEvent = memory.lastEvent /\ p.lastOrder = memory.lastOrder
         /\ \A i \in Ids : p.ops[i] = IF i = id THEN adopted ELSE memory.ops[i]
    BY <1>1, <1>6, WithOperation
  <1> HIDE DEF p
  <1>11. /\ q \in Events!Data /\ q.ops = p.ops /\ q.retired = p.retired /\ q.events = p.events
         /\ q.lastEvent = p.lastEvent /\ q.lastOrder = p.lastOrder
         /\ \A u \in Events!Targets : q.resources[u] = IF u = t THEN owned ELSE p.resources[u]
    BY <1>3, <1>7, <1>10, WithResource
  <1> HIDE DEF q
  <1>12. Draft(memory, q, id, adopted, owned)
    BY <1>6, <1>10, <1>11 DEF Draft
  <1>13. "none" \in Events!Reasons /\ "succeeded" \in {"active", "succeeded", "failed"}
    BY DEF Events!Reasons
  <1>14. Draft(memory, y, id, done, owned)
    BY <1>1, <1>6, <1>12, <1>13, EndedDraft
  <1>15. /\ done \in Events!Operations /\ done.target = was.target /\ done.state = "succeeded" /\ Events!Terminal(done)
         /\ done.order = was.order /\ done.type = was.type /\ done.type = "create"
         /\ done.receipts = "adopted" /\ done.released = None
    BY <1>2, <1>6, <1>9, <1>13, ConcludedFields DEF Events!Terminal
  <1> HIDE DEF done, y
  <1>16. memory.resources[done.target] # None /\ Owner(owned) = id /\ owned \in Events!Resources \cup {None}
    BY <1>5, <1>7, <1>9, <1>15 DEF Owner
  <1>17. Allowed(memory, id, done, Marked(memory, id, done, owned))
    BY <1>1, <1>2, <1>7, <1>9, <1>15, <1>16, NextIsAllowed
  <1> QED
    BY <1>8, <1>14, <1>15, <1>16, <1>17, ObservedKeeps

\* The metadata of a resource is removed with the event.
LEMMA RemovedShape ==
    ASSUME NEW d, NEW c, NEW id, NEW op, NEW resource, Change(d, c, id, op, resource), op.target \in Events!Targets
    PROVE  Change(d, [c EXCEPT !.resources[op.target] = None], id, op, None)
  <1> DEFINE b == [c EXCEPT !.resources[op.target] = None]
  <1>1. c \in Events!Data /\ None \in Events!Resources \cup {None}
    BY DEF Change
  <1>2. /\ b \in Events!Data /\ b.ops = c.ops /\ b.retired = c.retired /\ b.events = c.events
        /\ b.lastEvent = c.lastEvent /\ b.lastOrder = c.lastOrder
        /\ \A u \in Events!Targets : b.resources[u] = IF u = op.target THEN None ELSE c.resources[u]
    BY <1>1, WithResource
  <1> HIDE DEF b
  <1>3. Change(d, b, id, op, None)
    BY <1>2 DEF Change
  <1> QED
    BY <1>3 DEF b

\* An operation that ends may remove its resource, if it releases what that owns.
LEMMA RemovalIsAllowed ==
    ASSUME NEW d, HistoryKept(d), Numbered(d, None), NEW id \in Events!Live(d), NEW op \in Events!Operations,
           ~Events!Terminal(d.ops[id]), op.order = d.ops[id].order, op.type = d.ops[id].type, op.target = d.ops[id].target,
           Events!Terminal(op), op.receipts # "adopted", op.released # None => op.type = "delete",
           Owner(d.resources[op.target]) # None => op.state = "succeeded" /\ op.released = Owner(d.resources[op.target])
    PROVE  Allowed(d, id, op, None)
  <1>1. d \in Events!Data
    BY DEF HistoryKept
  <1>2. id \in Ids /\ id \in Events!Known(d) /\ Entry(d, id) = d.ops[id] /\ ~Over(d, id)
    BY <1>1, SameDraft DEF Entry, Over, Events!Known
  <1>3. id \notin Events!Retired(d)
    BY DEF HistoryKept
  <1>4. op.order = 0
    BY <1>2, EventConstants DEF Numbered
  <1> QED
    BY <1>2, <1>3, <1>4 DEF Allowed

\* A delete releases what its resource owns.
LEMMA ConfirmDeleteKeeps ==
    ASSUME EventInv, NEW id \in Ids, Events!ConfirmDelete(id)
    PROVE  Keeps
  <1> DEFINE was == memory.ops[id]
             t == was.target
             old == memory.resources[t]
             released == IF Events!Exists(memory, t) THEN old.owner ELSE None
             freed == [was EXCEPT !.released = released]
             p == [memory EXCEPT !.ops[id] = freed]
             done == Concluded(freed, "succeeded", "none")
             y == Events!Ended(p, id, "succeeded", "none")
             c == Events!Observed(y, id)
  <1>1. HistoryKept(memory) /\ Numbered(memory, None) /\ memory \in Events!Data
    BY Committed
  <1>2. id \in Events!Live(memory) /\ ~Events!Terminal(was) /\ was.type = "delete"
    BY DEF Events!ConfirmDelete
  <1>3. was \in Events!Operations /\ t \in Events!Targets /\ old \in Events!Resources \cup {None}
    BY <1>1, <1>2, SameDraft
  <1>4. OperationKept(memory, id)
    BY <1>1, <1>2 DEF HistoryKept
  <1>5. was.receipts # "adopted"
    BY <1>2, <1>4 DEF OperationKept, Events!Terminal
  <1>6. released \in Ids \cup {None} /\ released = Owner(old)
    BY <1>3 DEF Events!Exists, Events!Resources, Owner
  <1>7. Events!Commit([c EXCEPT !.resources[t] = None])
    <2>1. memory.ops \in [Ids -> Events!Operations \cup {None}]
      BY <1>1, DataFields
    <2>2. [memory EXCEPT !.ops[id].released = released] = p
      BY <1>1, <2>1 DEF Events!Data
    <2>3. [memory EXCEPT !.ops[id].released = IF Events!Exists(memory, memory.ops[id].target) THEN memory.resources[memory.ops[id].target].owner ELSE None] = p
      BY <2>2
    <2> HIDE DEF p
    <2> QED
      BY <2>3, Zenon DEF Events!ConfirmDelete
  <1>8. was = memory.ops[id] /\ old = memory.resources[t] /\ t = was.target
    OBVIOUS
  <1> HIDE DEF was, old, t, released
  <1>9. /\ freed \in Events!Operations /\ freed.type = "delete" /\ freed.target = t /\ freed.receipts # "adopted"
        /\ freed.released = released /\ freed.order = was.order
    BY <1>2, <1>3, <1>5, <1>6, <1>8 DEF Events!Operations
  <1> HIDE DEF freed
  <1>10. /\ p \in Events!Data /\ p.resources = memory.resources /\ p.retired = memory.retired /\ p.events = memory.events
         /\ p.lastEvent = memory.lastEvent /\ p.lastOrder = memory.lastOrder
         /\ \A i \in Ids : p.ops[i] = IF i = id THEN freed ELSE memory.ops[i]
    BY <1>1, <1>9, WithOperation
  <1> HIDE DEF p
  <1>11. Draft(memory, p, id, freed, old)
    BY <1>8, <1>9, <1>10 DEF Draft
  <1>12. "none" \in Events!Reasons /\ "succeeded" \in {"active", "succeeded", "failed"}
    BY DEF Events!Reasons
  <1>13. Draft(memory, y, id, done, old)
    BY <1>1, <1>9, <1>11, <1>12, EndedDraft
  <1>14. /\ done \in Events!Operations /\ done.target = t /\ done.state = "succeeded" /\ Events!Terminal(done)
         /\ done.order = was.order /\ done.type = "delete" /\ done.receipts # "adopted" /\ done.released = released
    BY <1>9, <1>12, ConcludedFields DEF Events!Terminal
  <1> HIDE DEF done, y
  <1>15. Change(memory, c, id, done, Marked(memory, id, done, old))
    BY <1>1, <1>3, <1>13, <1>14, ObservedShape
  <1> HIDE DEF c
  <1>16. Change(memory, [c EXCEPT !.resources[done.target] = None], id, done, None)
    BY <1>3, <1>14, <1>15, RemovedShape
  <1>17. done.type = memory.ops[id].type /\ done.target = memory.ops[id].target /\ done.order = memory.ops[id].order
         /\ ~Events!Terminal(memory.ops[id]) /\ Owner(memory.resources[done.target]) = done.released
    BY <1>2, <1>6, <1>8, <1>14
  <1>18. Allowed(memory, id, done, None)
    BY <1>1, <1>2, <1>14, <1>17, RemovalIsAllowed
  <1>19. [c EXCEPT !.resources[done.target] = None] = [c EXCEPT !.resources[t] = None]
    BY <1>14
  <1>20. Events!Commit([c EXCEPT !.resources[done.target] = None])
    BY <1>7, <1>19
  <1> QED
    BY <1>16, <1>18, <1>20, TransactionKeeps, SMTT(40)

\* A create that was rolled back ends; a Sandbox goes with it.
LEMMA FailCreateKeeps ==
    ASSUME EventInv, NEW id \in Ids, Events!FailCreate(id)
    PROVE  Keeps
  <1> DEFINE was == memory.ops[id]
             t == was.target
             old == memory.resources[t]
             done == Concluded(was, "failed", "failure")
             y == Events!Ended(memory, id, "failed", "failure")
             c == Events!Appended(y, id)
  <1>1. HistoryKept(memory) /\ Numbered(memory, None) /\ memory \in Events!Data
    BY Committed
  <1>2. /\ id \in Events!Live(memory) /\ ~Events!Terminal(was) /\ was.type = "create"
        /\ Events!Commit(IF t \in Sandboxes THEN [c EXCEPT !.resources[t] = None] ELSE Events!Observed(y, id))
    BY Zenon DEF Events!FailCreate
  <1>3. "failure" \in Events!Reasons /\ "failed" \in {"active", "succeeded", "failed"} /\ "failed" \in {"succeeded", "failed"}
    BY DEF Events!Reasons
  <1>4. CASE t \notin Sandboxes
    <2>1. Events!Commit(Events!Observed(y, id))
      BY <1>2, <1>4, Zenon
    <2> QED
      BY <1>2, <1>3, <2>1, EndKeeps
  <1>5. CASE t \in Sandboxes
    <2>1. Events!Commit([c EXCEPT !.resources[t] = None])
      BY <1>2, <1>5, Zenon
    <2>2. /\ was \in Events!Operations /\ t \in Events!Targets
          /\ old \in Events!Resources \cup {None} /\ Draft(memory, memory, id, was, old)
      BY <1>1, <1>2, SameDraft
    <2>3. OperationKept(memory, id)
      BY <1>1, <1>2 DEF HistoryKept
    <2>4. was.released = None /\ was.receipts # "adopted" /\ old # None
      BY <1>2, <2>3 DEF OperationKept, Events!Terminal, Events!Exists
    <2>5. OwnerKept(memory, t)
      BY <1>1, <2>2, <2>4, SMTT(40) DEF HistoryKept, Events!Exists
    <2>6. Owner(old) = None
      BY <1>2, <2>4, <2>5 DEF OwnerKept, Owner
    <2>7. was = memory.ops[id] /\ old = memory.resources[t] /\ t = was.target
      OBVIOUS
    <2> HIDE DEF was, old, t
    <2>8. Draft(memory, y, id, done, old)
      BY <1>1, <1>3, <2>2, EndedDraft
    <2>9. /\ done \in Events!Operations /\ done.target = t /\ Events!Terminal(done) /\ done.order = was.order
          /\ done.type = was.type /\ done.receipts # "adopted" /\ done.released = None
      BY <1>3, <2>2, <2>4, <2>7, ConcludedFields, SMTT(40) DEF Events!Terminal
    <2> HIDE DEF done, y
    <2>10. Change(memory, c, id, done, old)
      BY <1>1, <2>8, <2>9, AppendedShape
    <2> HIDE DEF c
    <2>11. Change(memory, [c EXCEPT !.resources[done.target] = None], id, done, None)
      BY <2>2, <2>9, <2>10, RemovedShape
    <2>12. done.type = memory.ops[id].type /\ done.target = memory.ops[id].target /\ done.order = memory.ops[id].order
           /\ ~Events!Terminal(memory.ops[id]) /\ Owner(memory.resources[done.target]) = None
      BY <1>2, <2>6, <2>7, <2>9
    <2>13. Allowed(memory, id, done, None)
      BY <1>1, <1>2, <2>9, <2>12, RemovalIsAllowed
    <2>14. [c EXCEPT !.resources[done.target] = None] = [c EXCEPT !.resources[t] = None]
      BY <2>9
    <2>15. Events!Commit([c EXCEPT !.resources[done.target] = None])
      BY <2>1, <2>14
    <2>16. PICK e : e = [c EXCEPT !.resources[done.target] = None]
      OBVIOUS
    <2>17. Change(memory, e, id, done, None) /\ Events!Commit(e)
      BY <2>11, <2>15, <2>16, Zenon
    <2> QED
      BY <2>13, <2>17, TransactionKeeps, SMTT(30)
  <1> QED
    BY <1>4, <1>5

\* A container that stopped is recorded by an operation that begins and ends at once.
LEMMA RecordStoppedKeeps ==
    ASSUME EventInv, NEW id \in Ids, NEW t \in Events!Targets, Events!RecordStopped(id, t)
    PROVE  Keeps
  <1> DEFINE new == Events!NewOperation("other", t)
             old == memory.resources[t]
             p == Events!Put(memory, id, new)
             begun == Events!Observed(p, id)
             marked == begun.resources[t]
             done == Concluded(new, "succeeded", "none")
             y == Events!Ended(begun, id, "succeeded", "none")
             c == Events!Observed(y, id)
  <1>1. HistoryKept(memory) /\ Numbered(memory, None) /\ RecentKept(memory) /\ memory \in Events!Data
        /\ memory.lastEvent \in Nat /\ old \in Events!Resources \cup {None}
    BY Committed
  <1>2. Events!Accepts(memory, id) /\ Events!Active(memory, t) = {} /\ Events!Commit(c)
    BY DEF Events!RecordStopped
  <1>3. /\ new \in Events!Operations /\ new.type = "other" /\ new.target = t /\ new.reason = "none"
        /\ new.receipts = "none" /\ new.released = None /\ new.order = 0 /\ ~Events!Terminal(new)
    BY NewOperationFields DEF Events!Types
  <1>4. "none" \in Events!Reasons /\ "succeeded" \in {"active", "succeeded", "failed"}
    BY DEF Events!Reasons
  <1> HIDE DEF new
  <1>5. Draft(memory, p, id, new, old)
    BY <1>1, <1>3, PutDraft
  <1>6. Change(memory, begun, id, new, Marked(memory, id, new, old))
    BY <1>1, <1>3, <1>5, ObservedShape
  <1>7. Allowed(memory, id, new, Marked(memory, id, new, old))
    BY <1>1, <1>2, <1>3, NewIsAllowed
  <1> HIDE DEF begun
  <1>8. /\ HistoryKept(begun) /\ Numbered(begun, None) /\ RecentKept(begun) /\ begun.lastEvent = memory.lastEvent + 1
        /\ Remembers(memory, begun, None)
    BY <1>1, <1>3, <1>6, <1>7, ChangeKeeps
  <1>9. begun \in Events!Data /\ begun.ops[id] = new /\ new # None
    BY <1>3, <1>6, EventConstants DEF Change
  <1>10. id \in Events!Live(begun)
    BY <1>9 DEF Events!Live
  <1>11. marked \in Events!Resources \cup {None} /\ Draft(begun, begun, id, new, marked)
    BY <1>3, <1>9, <1>10, SameDraft
  <1>12. marked = begun.resources[new.target]
    BY <1>3
  <1> HIDE DEF marked
  <1>13. Draft(begun, y, id, done, marked)
    BY <1>3, <1>4, <1>9, <1>11, EndedDraft
  <1>14. /\ done \in Events!Operations /\ done.target = new.target /\ Events!Terminal(done) /\ done.order = new.order
         /\ done.type = new.type /\ done.receipts # "adopted" /\ done.released = None
    BY <1>3, <1>4, ConcludedFields DEF Events!Terminal
  <1> HIDE DEF done, y
  <1>15. Change(begun, c, id, done, Marked(begun, id, done, marked))
    BY <1>9, <1>11, <1>13, <1>14, ObservedShape
  <1>16. marked = begun.resources[done.target]
    BY <1>12, <1>14
  <1>17. Allowed(begun, id, done, Marked(begun, id, done, marked))
    BY <1>3, <1>8, <1>9, <1>10, <1>11, <1>14, <1>16, NextIsAllowed
  <1> HIDE DEF c
  <1>18. /\ HistoryKept(c) /\ Numbered(c, IF Events!Terminal(done) THEN id ELSE None) /\ RecentKept(c)
         /\ Remembers(begun, c, IF Events!Terminal(done) THEN id ELSE None) /\ c.lastEvent = begun.lastEvent + 1
    BY <1>8, <1>15, <1>17, ChangeKeeps
  <1>19. memory.lastEvent <= c.lastEvent
    BY <1>1, <1>8, <1>18
  <1>20. Remembers(memory, c, IF Events!Terminal(done) THEN id ELSE None)
    BY <1>8, <1>18, RemembersOn
  <1> QED
    BY <1>2, <1>18, <1>19, <1>20, CommittedKeeps

\* A page holds events of the log.
LEMMA PageIsCut ==
    ASSUME EventInv, NEW limit \in 1 .. 2
    PROVE  LET page == Events!Page(limit).events
           IN page \in Seq(Events!Events) /\ Len(page) \in Nat /\ \A i \in 1 .. Len(page) : \E j \in 1 .. Len(memory.events) : page[i] = memory.events[j]
  <1> DEFINE s == memory.events
             B == {i \in 1 .. Len(s) : s[i].seq > cursor}
             behind == Cardinality(B)
             from == Len(s) - behind + 1
             to == IF behind < limit + 1 THEN Len(s) ELSE from + (limit + 1) - 1
             e == SubSeq(s, from, to)
             n == IF Len(e) > limit THEN limit ELSE Len(e)
  <1>1. memory \in Events!Data
    BY Committed
  <1>2. s \in Seq(Events!Events) /\ Len(s) \in Nat
    BY <1>1, DataFields
  <1>3. behind \in 0 .. Len(s)
    <2> DEFINE m == Len(s)
    <2>1. 1 \in Int /\ m \in Int
      BY <1>2
    <2> HIDE DEF m
    <2>2. IsFiniteSet(1 .. m) /\ Cardinality(1 .. m) = IF 1 > m THEN 0 ELSE m - 1 + 1
      BY <2>1, FS_Interval
    <2>3. B \subseteq 1 .. m
      BY DEF m
    <2> HIDE DEF B
    <2>4. Cardinality(B) <= Cardinality(1 .. m) /\ IsFiniteSet(B)
      BY <2>2, <2>3, FS_Subset
    <2>5. Cardinality(B) \in Nat
      BY <2>4, FS_CardinalityType
    <2>6. m \in Nat /\ m = Len(s)
      BY <1>2 DEF m
    <2> QED
      BY <2>2, <2>4, <2>5, <2>6
  <1>4. Events!Page(limit).events = SubSeq(e, 1, n)
    BY EventCardinality DEF Events!Page, Events!EventsAfter
  <1> HIDE DEF B, behind
  <1>5. from \in 1 .. Len(s) + 1 /\ to \in Int /\ to <= Len(s) /\ (behind < limit + 1 => to = Len(s))
    BY <1>2, <1>3
  <1> HIDE DEF from, to
  <1>6. e \in Seq(Events!Events) /\ Len(e) \in Nat /\ \A i \in 1 .. Len(e) : e[i] = s[from + i - 1] /\ from + i - 1 \in 1 .. Len(s)
    BY <1>2, <1>5, SMTT(40)
  <1> HIDE DEF e
  <1>7. n \in 0 .. Len(e)
    BY <1>6
  <1> HIDE DEF n
  <1>8. Len(SubSeq(e, 1, n)) = n /\ \A i \in 1 .. n : SubSeq(e, 1, n)[i] = e[i]
    BY <1>6, <1>7
  <1>9. \A i \in 1 .. n : e[i] = s[from + i - 1] /\ from + i - 1 \in 1 .. Len(s)
    <2> TAKE i \in 1 .. n
    <2>1. i \in 1 .. Len(e)
      BY <1>6, <1>7
    <2> QED
      BY <1>6, <2>1
  <1>10. SubSeq(e, 1, n) \in Seq(Events!Events)
    BY <1>6, <1>7
  <1> DEFINE page == Events!Page(limit).events
  <1>11. page \in Seq(Events!Events) /\ Len(page) = n /\ \A i \in 1 .. n : page[i] = e[i]
    BY <1>4, <1>8, <1>10
  <1> HIDE DEF page
  <1>12. \A i \in 1 .. Len(page) : \E j \in 1 .. Len(s) : page[i] = s[j]
    BY <1>9, <1>11
  <1>13. Len(page) \in Nat
    BY <1>6, <1>7, <1>11
  <1> QED
    BY <1>11, <1>12, <1>13 DEF page

\* What does not change is remembered.
LEMMA SameRemembered ==
    ASSUME memory' = memory, HistoryKept(memory)
    PROVE  Events!IdentityStep
  BY DEF Events!IdentityStep, HistoryKept, Events!Known, Events!Live, Events!Retired

\* A client that reads stays within the log.
LEMMA ReadKeeps ==
    ASSUME EventInv, NEW limit \in 1 .. 2, Events!Read(limit)
    PROVE  Keeps
  <1> DEFINE page == Events!Page(limit).events
  <1>1. /\ HistoryKept(memory) /\ Numbered(memory, None) /\ Limited(memory) /\ full = FALSE
        /\ memory \in Events!Data /\ memory.lastEvent \in Nat /\ Len(memory.events) \in Nat /\ Events!First(memory) \in Nat
    <2>1. HistoryKept(memory) /\ Numbered(memory, None) /\ Limited(memory) /\ full = FALSE /\ memory \in Events!Data
      BY DEF EventInv, HistoryKept
    <2> QED
      BY <2>1, DataFields
  <1>2. memory' = memory /\ full' = full
    BY DEF Events!Read
  <1>3. cursor' = 0 \/ (page # <<>> /\ cursor' = page[Len(page)].seq)
    BY DEF Events!Read
  <1>4. page \in Seq(Events!Events) /\ Len(page) \in Nat /\ \A i \in 1 .. Len(page) : \E j \in 1 .. Len(memory.events) : page[i] = memory.events[j]
    BY PageIsCut
  <1> HIDE DEF page
  <1>5. Events!IdentityStep
    BY <1>1, <1>2, SameRemembered
  <1>6. CASE cursor' = 0
    <2>1. EventInv'
      BY <1>1, <1>2, <1>6 DEF EventInv
    <2> QED
      BY <1>5, <2>1 DEF Keeps
  <1>7. CASE page # <<>> /\ cursor' = page[Len(page)].seq
    <2>1. Len(page) \in 1 .. Len(page)
      BY <1>4, <1>7
    <2>2. PICK j \in 1 .. Len(memory.events) : page[Len(page)] = memory.events[j]
      BY <1>4, <2>1
    <2>3. /\ memory.events[j].seq = Events!First(memory) + j - 1
          /\ Events!First(memory) + Len(memory.events) = memory.lastEvent + 1
      BY <1>1 DEF HistoryKept, Events!WholeSuffix
    <2>4. cursor' \in 0 .. memory.lastEvent
      BY <1>1, <1>7, <2>2, <2>3, SMTT(40)
    <2>5. EventInv'
      BY <1>1, <1>2, <2>4 DEF EventInv
    <2> QED
      BY <1>5, <2>5 DEF Keeps
  <1> QED
    BY <1>3, <1>6, <1>7

\* What EventLog says of a step.
LEMMA EventLogStep ==
    ASSUME EventInv, Events!Next
    PROVE  Keeps
  <1>1. ASSUME NEW id \in Ids, NEW t \in Events!Targets, Events!BeginCreate(id, t) PROVE Keeps
    BY <1>1, BeginCreateKeeps
  <1>2. ASSUME NEW id \in Ids, NEW t \in Events!Targets, Events!RecordStopped(id, t) PROVE Keeps
    BY <1>2, RecordStoppedKeeps
  <1>3. ASSUME NEW id \in Ids, NEW t \in Events!Targets, NEW type \in Events!Types, Events!Begin(id, t, type) PROVE Keeps
    BY <1>3, BeginKeeps
  <1>4. ASSUME NEW id \in Ids, NEW t \in Events!Targets, NEW type \in Events!Types, Events!Reject(id, t, type) PROVE Keeps
    <2>1. "failed" \in {"succeeded", "failed"} /\ "conflict" \in Events!Reasons
      BY DEF Events!Reasons
    <2>2. /\ Events!Accepts(memory, id)
          /\ Events!Commit(Events!Observed(
                Events!Ended(Events!Put(memory, id, Events!NewOperation(type, t)), id, "failed", "conflict"), id))
      BY <1>4 DEF Events!Reject
    <2> QED
      BY <2>1, <2>2, InstantKeeps
  <1>5. ASSUME NEW id \in Ids, NEW t \in Events!Targets, NEW type \in Events!Types, Events!Instant(id, t, type) PROVE Keeps
    <2>1. "succeeded" \in {"succeeded", "failed"} /\ "none" \in Events!Reasons
      BY DEF Events!Reasons
    <2>2. /\ Events!Accepts(memory, id)
          /\ Events!Commit(Events!Observed(
                Events!Ended(Events!Put(memory, id, Events!NewOperation(type, t)), id, "succeeded", "none"), id))
      BY <1>5 DEF Events!Instant
    <2> QED
      BY <2>1, <2>2, InstantKeeps
  <1>6. ASSUME NEW id \in Ids, Events!Checkpoint(id) PROVE Keeps
    BY <1>6, CheckpointKeeps
  <1>7. ASSUME NEW id \in Ids, Events!ConfirmCreate(id) PROVE Keeps
    BY <1>7, ConfirmCreateKeeps
  <1>8. ASSUME NEW id \in Ids, Events!Confirm(id) PROVE Keeps
    <2>1. "succeeded" \in {"succeeded", "failed"} /\ "none" \in Events!Reasons
      BY DEF Events!Reasons
    <2>2. /\ id \in Events!Live(memory) /\ ~Events!Terminal(memory.ops[id])
          /\ Events!Commit(Events!Observed(Events!Ended(memory, id, "succeeded", "none"), id))
      BY <1>8 DEF Events!Confirm
    <2> QED
      BY <2>1, <2>2, EndKeeps
  <1>9. ASSUME NEW id \in Ids, Events!ConfirmDelete(id) PROVE Keeps
    BY <1>9, ConfirmDeleteKeeps
  <1>10. ASSUME NEW id \in Ids, Events!FailCreate(id) PROVE Keeps
    BY <1>10, FailCreateKeeps
  <1>11. ASSUME NEW id \in Ids, Events!Fail(id) PROVE Keeps
    <2>1. "failed" \in {"succeeded", "failed"} /\ "failure" \in Events!Reasons
      BY DEF Events!Reasons
    <2>2. /\ id \in Events!Live(memory) /\ ~Events!Terminal(memory.ops[id])
          /\ Events!Commit(Events!Observed(Events!Ended(memory, id, "failed", "failure"), id))
      BY <1>11 DEF Events!Fail
    <2> QED
      BY <2>1, <2>2, EndKeeps
  <1>12. ASSUME NEW limit \in 1 .. 2, Events!Read(limit) PROVE Keeps
    BY <1>12, ReadKeeps
  <1> QED
    BY <1>1, <1>2, <1>3, <1>4, <1>5, <1>6, <1>7, <1>8, <1>9, <1>10, <1>11, <1>12 DEF Events!Next

\* What the suite does of the log.
LEMMA SuiteEventStep == Next => [Events!Next]_eventVars
  BY DEF Next, eventVars

\* Nothing is kept at first.
LEMMA EventInit == Init => EventInv
  <1> SUFFICES ASSUME Init PROVE EventInv
    OBVIOUS
  <1> USE EventConstants
  <1>1. Events!Init /\ Events!EventLogAssumption
    BY DEF Init
  <1>2. /\ memory \in Events!Data /\ memory.ops = [id \in Ids |-> None] /\ memory.retired = [id \in Ids |-> None]
        /\ memory.resources = [t \in Events!Targets |-> None] /\ memory.events = <<>>
        /\ memory.lastEvent = 0 /\ memory.lastOrder = 0
    BY <1>1 DEF Events!Init, Events!Data
  <1>3. Events!Live(memory) = {} /\ Events!Retired(memory) = {} /\ Events!Known(memory) = {}
    BY <1>2 DEF Events!Live, Events!Retired, Events!Known
  <1>4. Cardinality({}) = 0 /\ Len(memory.events) = 0
    BY <1>2, FS_EmptySet
  <1>5. Events!WholeSuffix(memory) /\ Events!EventsExplained(memory)
    BY <1>2, <1>4 DEF Events!WholeSuffix, Events!EventsExplained, Events!First
  <1>6. \A t \in Events!Targets : ~Events!Exists(memory, t)
    BY <1>2 DEF Events!Exists
  <1>7. HistoryKept(memory)
    BY <1>2, <1>3, <1>4, <1>5, <1>6 DEF HistoryKept
  <1>8. Numbered(memory, None)
    BY <1>2, <1>3 DEF Numbered
  <1>9. {id \in Events!Live(memory) : Events!Terminal(memory.ops[id])} \ Events!Pinned(memory) = {}
    BY <1>3
  <1>10. Limited(memory)
    BY <1>3, <1>4, <1>9 DEF Limited, RecentKept
  <1>11. full = FALSE /\ cursor \in 0 .. memory.lastEvent
    BY <1>1, <1>2 DEF Events!Init
  <1> QED
    BY <1>7, <1>8, <1>10, <1>11 DEF EventInv

\* A step of the suite.
LEMMA EventStep == EventInv /\ [Next]_vars => Keeps
  <1> SUFFICES ASSUME EventInv, [Next]_vars PROVE Keeps
    OBVIOUS
  <1>1. CASE Events!Next
    BY <1>1, EventLogStep
  <1>2. CASE UNCHANGED eventVars
    <2>1. memory' = memory /\ full' = full /\ cursor' = cursor
      BY <1>2 DEF eventVars
    <2>2. EventInv' /\ HistoryKept(memory)
      BY <2>1 DEF EventInv
    <2> QED
      BY <2>1, <2>2, SameRemembered DEF Keeps
  <1> QED
    BY <1>1, <1>2, SuiteEventStep DEF vars

\* Every reachable history is the one the invariant describes.
THEOREM EventInvariant == Spec => []EventInv
  <1>1. EventInv /\ [Next]_vars => EventInv'
    BY EventStep DEF Keeps
  <1> QED
    BY <1>1, EventInit, PTL DEF Spec

\* retention.go: no transaction is refused because of what was cut, the sizes hold, and the
\* last operations that ended can be replayed exactly.
THEOREM RetentionSafe == Spec => []RetentionIsSafe
  <1>1. EventInv => RetentionIsSafe
    <2> SUFFICES ASSUME EventInv PROVE Events!TypeOK /\ Events!NeverRefused /\ Events!RecentReplayable
      BY DEF RetentionIsSafe
    <2>1. HistoryKept(memory) /\ Limited(memory) /\ full = FALSE /\ cursor \in 0 .. memory.lastEvent
      BY DEF EventInv
    <2>2. memory \in Events!Data /\ Events!Live(memory) \cap Events!Retired(memory) = {}
      BY <2>1 DEF HistoryKept
    <2>3. cursor \in Nat
      BY <2>1, <2>2, DataFields
    <2>4. Events!TypeOK
      BY <2>1, <2>2, <2>3, EventCardinality DEF Limited, Events!TypeOK
    <2> QED
      BY <2>1, <2>4 DEF Limited, RecentKept, Events!NeverRefused, Events!RecentReplayable
  <1> QED
    BY <1>1, EventInvariant, PTL

\* What EventsAfter finds behind a position that is no gap.
LEMMA BehindShape ==
    ASSUME EventInv, ~Events!Gap(memory, cursor), NEW limit \in 1 .. 2
    PROVE  LET n == Len(memory.events)
               from == IF cursor = 0 THEN 1 ELSE cursor - Events!First(memory) + 2
               e == Events!EventsAfter(memory, cursor, limit + 1)
           IN /\ n \in Nat /\ from \in 1 .. n + 1 /\ Events!First(memory) \in Nat \ {0} /\ cursor \in Nat
              /\ Events!First(memory) + n = memory.lastEvent + 1
              /\ e \in Seq(Events!Events) /\ Len(e) = IF n - from + 1 < limit + 1 THEN n - from + 1 ELSE limit + 1
              /\ \A i \in 1 .. Len(e) : e[i].seq = Events!First(memory) + from + i - 2
  <1> DEFINE s == memory.events
             n == Len(s)
             f == Events!First(memory)
             from == IF cursor = 0 THEN 1 ELSE cursor - f + 2
             B == {i \in 1 .. n : s[i].seq > cursor}
             to == IF n - from + 1 < limit + 1 THEN n ELSE from + (limit + 1) - 1
             e == SubSeq(s, from, to)
  <1>1. /\ memory \in Events!Data /\ memory.lastEvent \in Nat /\ cursor \in 0 .. memory.lastEvent
        /\ Events!WholeSuffix(memory)
    BY Committed DEF EventInv, HistoryKept
  <1>2. s \in Seq(Events!Events) /\ n \in Nat /\ f \in Nat /\ \A i \in 1 .. n : s[i] \in Events!Events
    BY <1>1, DataFields
  <1>3. f + n = memory.lastEvent + 1 /\ \A i \in 1 .. n : s[i].seq = f + i - 1
    BY <1>1 DEF Events!WholeSuffix
  <1>4. f # 0
    BY <1>1, <1>2 DEF Events!First, Events!Events
  <1>5. cursor # 0 => f <= cursor + 1
    BY <1>1, <1>2 DEF Events!Gap
  <1> HIDE DEF f
  <1>6. from \in 1 .. n + 1
    BY <1>1, <1>2, <1>3, <1>4, <1>5
  <1>7. B = from .. n
    <2>1. \A i \in 1 .. n : s[i].seq > cursor <=> i >= from
      <3> SUFFICES ASSUME NEW i \in 1 .. n PROVE s[i].seq > cursor <=> i >= from
        OBVIOUS
      <3>1. s[i].seq = f + i - 1
        BY <1>3
      <3> HIDE DEF s
      <3> QED
        BY <1>1, <1>2, <1>4, <3>1
    <2> HIDE DEF from, s, n
    <2> QED
      BY <1>2, <1>6, <2>1 DEF n
  <1> HIDE DEF B
  <1>8. Cardinality(B) = n - from + 1
    <2>1. from \in Int /\ n \in Int
      BY <1>2, <1>6
    <2> HIDE DEF from, n
    <2>2. Cardinality(from .. n) = IF from > n THEN 0 ELSE n - from + 1
      BY <2>1, FS_Interval
    <2> QED
      BY <1>2, <1>6, <1>7, <2>2 DEF n
  <1>9. Events!EventsAfter(memory, cursor, limit + 1) = e
    <2>1. Events!EventsAfter(memory, cursor, limit + 1) =
             SubSeq(s, n - Cardinality(B) + 1, IF Cardinality(B) < limit + 1 THEN n ELSE n - Cardinality(B) + 1 + (limit + 1) - 1)
      BY EventCardinality DEF Events!EventsAfter, B
    <2>2. n - Cardinality(B) + 1 = from
      BY <1>2, <1>6, <1>8
    <2> HIDE DEF from, n, s
    <2> QED
      BY <1>8, <2>1, <2>2
  <1>10. to \in 0 .. n /\ to - from + 1 = (IF n - from + 1 < limit + 1 THEN n - from + 1 ELSE limit + 1) /\ to >= from - 1
    <2> HIDE DEF n, from
    <2> QED
      BY <1>2, <1>6 DEF n
  <1> HIDE DEF to, from
  <1>11. /\ e \in Seq(Events!Events) /\ Len(e) = to - from + 1
         /\ \A i \in 1 .. Len(e) : e[i] = s[from + i - 1] /\ from + i - 1 \in 1 .. n
    BY <1>2, <1>6, <1>10
  <1> HIDE DEF e
  <1>12. \A i \in 1 .. Len(e) : e[i].seq = f + from + i - 2
    <2> TAKE i \in 1 .. Len(e)
    <2>1. e[i].seq = f + (from + i - 1) - 1 /\ i \in Int
      BY <1>3, <1>11
    <2> HIDE DEF e
    <2> QED
      BY <1>2, <1>6, <2>1
  <1>13. cursor \in Nat
    BY <1>1
  <1> QED
    BY <1>2, <1>3, <1>4, <1>6, <1>9, <1>10, <1>11, <1>12, <1>13 DEF f, from

\* A page of a client that has no gap is contiguous, and says whether there are more.
LEMMA PageIsTaken ==
    ASSUME EventInv, ~Events!Gap(memory, cursor), NEW limit \in 1 .. 2
    PROVE  LET page == Events!Page(limit)
           IN /\ Events!Taken(limit)
              /\ page.more <=> /\ memory.lastEvent > cursor + Len(page.events)
                               /\ cursor = 0 => Len(memory.events) > limit
  <1> DEFINE n == Len(memory.events)
             f == Events!First(memory)
             from == IF cursor = 0 THEN 1 ELSE cursor - f + 2
             behind == n - from + 1
             e == Events!EventsAfter(memory, cursor, limit + 1)
             cut == IF Len(e) > limit THEN limit ELSE Len(e)
             p == SubSeq(e, 1, cut)
  <1>1. /\ n \in Nat /\ from \in 1 .. n + 1 /\ f \in Nat \ {0} /\ cursor \in Nat
        /\ f + n = memory.lastEvent + 1
        /\ e \in Seq(Events!Events) /\ Len(e) = IF n - from + 1 < limit + 1 THEN n - from + 1 ELSE limit + 1
        /\ \A i \in 1 .. Len(e) : e[i].seq = f + from + i - 2
    BY BehindShape
  <1>2. from = (IF cursor = 0 THEN 1 ELSE cursor - f + 2)
    OBVIOUS
  <1>3. /\ Events!Page(limit).events = p /\ Events!Page(limit).more = (Len(e) > limit)
        /\ Events!Page(limit).valid = Events!Contiguous(cursor, e)
    BY DEF Events!Page
  <1>4. n = Len(memory.events)
    OBVIOUS
  <1>5. memory.lastEvent \in Nat
    BY Committed
  <1> HIDE DEF n, f, from, e
  <1>6. Len(e) \in Nat
    BY <1>1
  <1>7. cut \in 0 .. Len(e) /\ cut = IF behind > limit THEN limit ELSE behind
    BY <1>1, <1>6
  <1>8. (Len(e) > limit) <=> behind > limit
    BY <1>1
  <1> HIDE DEF cut
  <1>9. Len(p) = cut /\ \A i \in 1 .. cut : p[i] = e[i]
    BY <1>1, <1>6, <1>7, SMTT(40)
  <1> HIDE DEF p
  <1>10. \A i \in 1 .. Len(e) : (cursor = 0 /\ i = 1) \/ e[i].seq = 1 + (IF i = 1 THEN cursor ELSE e[i - 1].seq)
    <2> TAKE i \in 1 .. Len(e)
    <2>1. e[i].seq = f + from + i - 2
      BY <1>1
    <2>2. CASE i = 1
      BY <1>1, <1>2, <2>1, <2>2
    <2>3. CASE i # 1
      <3>1. i - 1 \in 1 .. Len(e)
        BY <1>6, <2>3
      <3>2. e[i - 1].seq = f + from + (i - 1) - 2
        BY <1>1, <3>1
      <3> QED
        BY <1>1, <1>6, <2>1, <2>3, <3>2
    <2> QED
      BY <2>2, <2>3
  <1>11. Events!Contiguous(cursor, e)
    BY <1>10 DEF Events!Contiguous
  <1>12. Events!Contiguous(cursor, p)
    <2> SUFFICES ASSUME NEW i \in 1 .. Len(p)
                 PROVE  (cursor = 0 /\ i = 1) \/ p[i].seq = 1 + (IF i = 1 THEN cursor ELSE p[i - 1].seq)
      BY DEF Events!Contiguous
    <2>1. i \in 1 .. Len(e) /\ i \in 1 .. cut /\ (i # 1 => i - 1 \in 1 .. cut)
      BY <1>6, <1>7, <1>9
    <2>2. p[i] = e[i] /\ (i # 1 => p[i - 1] = e[i - 1])
      BY <1>9, <2>1
    <2> QED
      BY <1>10, <2>1, <2>2
  <1>13. behind > limit => Len(p) = limit
    BY <1>7, <1>9
  <1>14. behind > limit <=> memory.lastEvent > cursor + Len(p) /\ (cursor = 0 => n > limit)
    <2>1. CASE cursor = 0
      BY <1>1, <1>2, <1>5, <1>7, <1>9, <2>1
    <2>2. CASE cursor # 0
      <3>1. behind = memory.lastEvent - cursor
        BY <1>1, <1>2, <1>5, <2>2, SMTT(40)
      <3> HIDE DEF behind
      <3> QED
        BY <1>1, <1>5, <1>7, <1>9, <2>2, <3>1
    <2> QED
      BY <2>1, <2>2
  <1>15. Events!Taken(limit)
    BY <1>3, <1>8, <1>11, <1>12, <1>13 DEF Events!Taken
  <1> QED
    BY <1>3, <1>4, <1>8, <1>14, <1>15

\* Only a client moves its position.
LEMMA PositionStep ==
    ASSUME EventInv, Events!Next, cursor # 0, cursor' > cursor
    PROVE  Events!First(memory) <= cursor + 1
  <1>1. cursor \in Nat /\ Events!First(memory) \in Nat /\ memory.lastEvent \in Nat
    <2>1. memory \in Events!Data /\ cursor \in 0 .. memory.lastEvent
      BY Committed DEF EventInv
    <2> QED
      BY <2>1, DataFields
  <1>2. ASSUME NEW d, Events!Commit(d) PROVE FALSE
    BY <1>1, <1>2 DEF Events!Commit
  <1>3. ASSUME NEW limit \in 1 .. 2, Events!Read(limit) PROVE Events!First(memory) <= cursor + 1
    <2>1. ~Events!Gap(memory, cursor)
      BY <1>1, <1>3 DEF Events!Read
    <2> QED
      BY <1>1, <2>1 DEF Events!Gap
  <1>4. ASSUME NEW id \in Ids, NEW t \in Events!Targets, Events!BeginCreate(id, t) \/ Events!RecordStopped(id, t) PROVE FALSE
    BY <1>2, <1>4, Zenon DEF Events!BeginCreate, Events!RecordStopped
  <1>5. ASSUME NEW id \in Ids, NEW t \in Events!Targets, NEW type \in Events!Types,
               Events!Begin(id, t, type) \/ Events!Reject(id, t, type) \/ Events!Instant(id, t, type)
        PROVE  FALSE
    BY <1>2, <1>5, Zenon DEF Events!Begin, Events!Reject, Events!Instant
  <1>6. ASSUME NEW id \in Ids,
               \/ Events!Checkpoint(id) \/ Events!ConfirmCreate(id) \/ Events!Confirm(id)
               \/ Events!ConfirmDelete(id) \/ Events!FailCreate(id) \/ Events!Fail(id)
        PROVE  FALSE
    BY <1>2, <1>6, Zenon DEF Events!Checkpoint, Events!ConfirmCreate, Events!Confirm, Events!ConfirmDelete, Events!FailCreate, Events!Fail
  <1> QED
    BY <1>3, <1>4, <1>5, <1>6 DEF Events!Next

\* EventsAfter and applyRetention: a client that follows the log misses no event unnoticed,
\* and no compaction changes what a kept operation or its tombstone says.
THEOREM FollowerMissesNothing == Spec => NothingMissed
  <1>1. EventInv /\ [Next]_vars => [Events!IdentityStep]_(Events!vars)
    BY EventStep DEF Keeps
  <1>2. EventInv /\ [Next]_vars => [cursor # 0 /\ cursor' > cursor => Events!First(memory) <= cursor + 1]_(Events!vars)
    <2> SUFFICES ASSUME EventInv, [Next]_vars
                 PROVE  (cursor # 0 /\ cursor' > cursor => Events!First(memory) <= cursor + 1) \/ UNCHANGED eventVars
      BY DEF Events!vars, eventVars
    <2> QED
      BY PositionStep, SuiteEventStep DEF vars
  <1>3. EventInv => \A limit \in 1 .. 2 :
                       LET page == Events!Page(limit)
                       IN Events!Gap(memory, cursor) \/ (Events!Taken(limit)
                             /\ (page.more <=> memory.lastEvent > cursor + Len(page.events) /\ (cursor = 0 => Len(memory.events) > limit)))
    BY PageIsTaken
  <1>4. Spec => Events!NothingMissed
    BY <1>2, <1>3, EventInvariant, PTL DEF Spec, Events!NothingMissed
  <1>5. Spec => Events!IdentityKept
    BY <1>1, EventInvariant, PTL DEF Spec, Events!IdentityKept
  <1> QED
    BY <1>4, <1>5 DEF NothingMissed

-----------------------------------------------------------------------------
(* The log of an Attempt.                                                   *)

\* The failures that the log may meet.
LogFaults == [death |-> DeathFaults, power |-> PowerFaults]

\* What the log counts is what the theorems count.
LEMMA LogCardinality == \A S : Log!Cardinality(S) = Cardinality(S)
  BY DEF Cardinality, Log!Cardinality, IsFiniteSet, Log!IsFiniteSet

\* What a position of the file may hold; TypeOK bounds the part by the size of the frame.
Cells == [frame : Log!Frames, part : Nat]

\* The cells begin with the frames of L, the i-th of which ends at at[i].
Fits(cells, L, at) ==
    /\ at \in [0 .. Len(L) -> Nat] /\ at[0] = 0
    /\ \A i \in 1 .. Len(L) : at[i] = at[i - 1] + L[i].size + 1
    /\ at[Len(L)] <= Len(cells)
    /\ \A i \in 1 .. Len(L) : \A p \in 1 .. L[i].size + 1 : cells[at[i - 1] + p] = Log!Cell(L[i], p)

\* f has the positions that follow those of L.
Follows(L, f) ==
    f \in Log!Frames /\ f.cursor = Len(L) + 1 /\ f.sequence = Cardinality(Log!Of(f.stream, L)) + 1

\* Behind m there is nothing or a part of f, of which the marker is never without the
\* data.
Rest(cells, L, m, f) ==
    \/ Len(cells) = m
    \/ /\ Follows(L, f) /\ Len(cells) > m /\ Len(cells) <= m + f.size + 1 /\ cells[m + 1].frame = f
       /\ Len(cells) = m + f.size + 1 => \A p \in 1 .. f.size : cells[m + p] = Log!Cell(f, p)

\* The frame behind m is whole, but perhaps for its marker.
Complete(m, f) == Len(file) > m /\ Len(file) = m + f.size + 1

\* What is synced has all that was acknowledged, and nothing behind it but a part of one frame.
Synced(L, at, f, g) ==
    /\ Fits(disk, L, at) /\ Rest(disk, L, at[Len(L)], g)
    /\ \A h \in acked : h.cursor <= Len(L) /\ L[h.cursor] = h
    /\ Complete(at[Len(L)], f) =>
          /\ disk = file \/ disk = SubSeq(file, 1, Len(file) - 1)
          /\ (peril = "power" /\ writer.step = "closed") => disk = file

\* The wrapper died before the marker of the last frame was synced.
Unsynced(L, m, f) ==
    /\ peril = "death" /\ Len(L) > 0 /\ disk = SubSeq(file, 1, m - 1)
    /\ \A h \in acked : h.cursor < Len(L) /\ L[h.cursor] = h
    /\ ~Complete(m, f)

\* Where the Store is.
Place(L, m, f) ==
    /\ IF writer.step = "closed" THEN writer = Log!Closed ELSE writer.index = L /\ writer.confirmed = m
    /\ writer.step \in {"truncated", "ready", "closing"} => Len(file) = m
    /\ writer.step \in Log!Appending =>
          /\ Follows(L, f) /\ writer.frame = f /\ \A p \in 1 .. Len(file) - m : file[m + p] = Log!Cell(f, p)
    /\ writer.step = "write" => Len(file) < m + f.size
    /\ writer.step \in {"sync", "marker"} => Len(file) = m + f.size
    /\ writer.step \in {"syncmarker", "publish"} => Complete(m, f)
    /\ writer.step \in {"marker", "publish"} => disk = file

\* The file is the frames of L and a rest.
LogShape(L, at, f, g) ==
    /\ Log!Ordered(L) /\ Fits(file, L, at) /\ Rest(file, L, at[Len(L)], f)
    /\ Synced(L, at, f, g) \/ Unsynced(L, at[Len(L)], f)
    /\ Place(L, at[Len(L)], f)

\* What the variables may hold; no Open has met a corrupt file.
LogTyped ==
    /\ file \in Seq(Cells) /\ disk \in Seq(Cells)
    /\ writer \in [step : Log!Steps, confirmed : Nat, frame : Log!Frames \cup {Log!NoFrame}, index : Seq(Log!Frames)]
    /\ acked \subseteq Log!Frames /\ corrupt = FALSE
    /\ reader \in [Tails -> [step : {"idle", "scan"}, size : Nat]]
    /\ served \subseteq Log!Frames /\ peril \in Log!Perils /\ deaths \in 0 .. LogFaults[peril]
    /\ \A cells \in {file, disk} : \A i \in 1 .. Len(cells) : cells[i].part <= cells[i].frame.size + 1

\* The inductive invariant of the log.
LogInv == LogTyped /\ \E L \in Seq(Log!Frames) : \E at, f, g : LogShape(L, at, f, g)

-----------------------------------------------------------------------------
(* The log: counting.                                                       *)

\* A set of numbers up to n that is not empty has a last one.
LEMMA LastOf ==
    ASSUME NEW n \in Nat, NEW S \in SUBSET (0 .. n), S # {}
    PROVE  \E k \in S : \A l \in S : l <= k
  <1> DEFINE Below == {p \in Nat \X Nat : p[1] < p[2]}
             T == {n - l : l \in S}
  <1>1. IsWellFoundedOn(Below, Nat)
    <2>1. OpToRel(<, Nat) = Below
      BY DEF OpToRel
    <2> QED
      BY <2>1, NatLessThanWellFounded, Zenon
  <1> HIDE DEF Below
  <1>2. T \subseteq Nat /\ T # {}
    <2>1. \A l \in S : n - l \in Nat
      OBVIOUS
    <2> QED
      BY <2>1
  <1>3. PICK t \in T : \A u \in T : <<u, t>> \notin Below
    BY <1>1, <1>2, WFMin
  <1>4. ASSUME NEW u \in T PROVE t <= u
    <2>1. ~(u < t)
      BY <1>2, <1>3, <1>4 DEF Below
    <2> QED
      BY <1>2, <1>4, <2>1
  <1>5. PICK k \in S : t = n - k
    BY <1>3
  <1>6. ASSUME NEW l \in S PROVE l <= k
    BY <1>4, <1>5, <1>6
  <1> QED
    BY <1>6

\* The first k members of a sequence.
LEMMA PrefixIs ==
    ASSUME NEW S, NEW s \in Seq(S), NEW k \in 0 .. Len(s)
    PROVE  SubSeq(s, 1, k) \in Seq(S) /\ Len(SubSeq(s, 1, k)) = k /\ \A i \in 1 .. k : SubSeq(s, 1, k)[i] = s[i]
  <1>1. k \in Int /\ \A i \in 1 .. k : s[i] \in S
    OBVIOUS
  <1>2. /\ SubSeq(s, 1, k) \in Seq(S) /\ Len(SubSeq(s, 1, k)) = (IF 1 <= k THEN k - 1 + 1 ELSE 0)
        /\ \A i \in 1 .. k - 1 + 1 : SubSeq(s, 1, k)[i] = s[1 + i - 1]
    BY <1>1, SubSeqProperties
  <1>3. (IF 1 <= k THEN k - 1 + 1 ELSE 0) = k /\ k - 1 + 1 = k
    BY <1>1
  <1>4. \A i \in 1 .. k : 1 + i - 1 = i
    OBVIOUS
  <1> QED
    BY <1>2, <1>3, <1>4

\* What holds at the end, and at a position if at the next one, holds everywhere.
LEMMA FromTheEnd ==
    ASSUME NEW n \in Nat, NEW G, n \in G,
           \A k \in 0 .. n - 1 : k + 1 \in G => k \in G
    PROVE  0 .. n \subseteq G
  <1> DEFINE S == {k \in 0 .. n : k \notin G}
  <1>1. ASSUME S # {} PROVE FALSE
    <2>1. S \in SUBSET (0 .. n)
      OBVIOUS
    <2> HIDE DEF S
    <2>2. PICK k \in S : \A l \in S : l <= k
      BY <1>1, <2>1, LastOf
    <2>3. k \in 0 .. n /\ k \notin G
      BY <2>2 DEF S
    <2>4. k # n /\ k \in 0 .. n - 1
      BY <2>3
    <2>5. k + 1 \in S
      BY <2>3, <2>4 DEF S
    <2>6. k + 1 <= k
      BY <2>2, <2>5
    <2> QED
      BY <2>3, <2>6
  <1> QED
    BY <1>1

-----------------------------------------------------------------------------
(* The log: the scan.                                                       *)

\* What the walk finds at an offset, if w is what it finds behind it.
Piece(cells, w, offset) ==
    IF offset = Len(cells) THEN Log!Stop(offset, "whole")
    ELSE IF offset + cells[offset + 1].frame.size + 1 > Len(cells) THEN Log!Stop(offset, "tail")
    ELSE IF \E i \in 1 .. cells[offset + 1].frame.size : cells[offset + i] # Log!Cell(cells[offset + 1].frame, i)
         THEN Log!Stop(offset, "corrupt")
    ELSE IF cells[offset + cells[offset + 1].frame.size + 1]
              # Log!Cell(cells[offset + 1].frame, cells[offset + 1].frame.size + 1)
         THEN Log!Stop(offset, IF offset + cells[offset + 1].frame.size + 1 = Len(cells) THEN "torn" ELSE "corrupt")
    ELSE [w[offset + cells[offset + 1].frame.size + 1] EXCEPT !.frames = <<cells[offset + 1].frame>> \o @]

\* The frame at an offset.
LEMMA CellAt ==
    ASSUME NEW cells \in Seq(Cells), NEW i \in 1 .. Len(cells), Log!LogAssumption
    PROVE  /\ cells[i] \in Cells /\ cells[i].frame \in Log!Frames /\ cells[i].part \in Nat
           /\ cells[i].frame.size \in Nat /\ cells[i].frame.size > 0
  <1>1. cells[i] \in Cells
    OBVIOUS
  <1>2. cells[i].frame \in Log!Frames /\ cells[i].part \in Nat
    BY <1>1 DEF Cells
  <1>3. cells[i].frame.size \in Sizes
    BY <1>2 DEF Log!Frames
  <1>4. \A x \in Sizes : x \in Nat /\ x > 0
    BY DEF Log!LogAssumption
  <1> QED
    BY <1>1, <1>2, <1>3, <1>4, Zenon

\* A piece depends on what is behind it alone.
LEMMA PieceSame ==
    ASSUME NEW cells \in Seq(Cells), NEW w, NEW v, NEW offset \in 0 .. Len(cells), Log!LogAssumption,
           \A e \in offset + 1 .. Len(cells) : w[e] = v[e]
    PROVE  Piece(cells, w, offset) = Piece(cells, v, offset)
  <1>0. Len(cells) \in Nat
    OBVIOUS
  <1>1. CASE offset = Len(cells)
    BY <1>1 DEF Piece
  <1>2. CASE offset # Len(cells) /\ offset + cells[offset + 1].frame.size + 1 > Len(cells)
    BY <1>2 DEF Piece
  <1>3. CASE offset # Len(cells) /\ ~(offset + cells[offset + 1].frame.size + 1 > Len(cells))
    <2>1. offset + 1 \in 1 .. Len(cells)
      BY <1>0, <1>3
    <2>2. cells[offset + 1].frame.size \in Nat
      BY <2>1, CellAt
    <2>3. offset + cells[offset + 1].frame.size + 1 \in offset + 1 .. Len(cells)
      BY <1>0, <1>3, <2>2
    <2>4. w[offset + cells[offset + 1].frame.size + 1] = v[offset + cells[offset + 1].frame.size + 1]
      BY <2>3
    <2> QED
      BY <1>3, <2>4, Zenon DEF Piece
  <1> QED
    BY <1>1, <1>2, <1>3

\* The walk exists: what it finds at an offset is a piece of what it finds behind it.
LEMMA WalkIs ==
    ASSUME NEW cells \in Seq(Cells), Log!LogAssumption
    PROVE  /\ DOMAIN Log!Walk(cells) = 0 .. Len(cells)
           /\ \A offset \in 0 .. Len(cells) : Log!Walk(cells)[offset] = Piece(cells, Log!Walk(cells), offset)
  <1> DEFINE n == Len(cells)
             W(k) == \E w : w = [offset \in k .. n |-> Piece(cells, w, offset)]
             G == {k \in 0 .. n : W(k)}
  <1>0. n \in Nat
    OBVIOUS
  <1>1. n \in G
    <2> DEFINE w == [offset \in n .. n |-> Log!Stop(n, "whole")]
    <2>1. \A offset \in n .. n : Piece(cells, w, offset) = Log!Stop(n, "whole")
      BY <1>0 DEF Piece
    <2>2. w = [offset \in n .. n |-> Piece(cells, w, offset)]
      BY <2>1
    <2> HIDE DEF w
    <2>3. W(n)
      BY <2>2
    <2> QED
      BY <1>0, <2>3
  <1>2. ASSUME NEW k \in 0 .. n - 1, k + 1 \in G
        PROVE  k \in G
    <2>1. PICK w : w = [offset \in k + 1 .. n |-> Piece(cells, w, offset)]
      BY <1>2
    <2> DEFINE v == [offset \in k .. n |-> IF offset = k THEN Piece(cells, w, k) ELSE w[offset]]
    <2>2. \A offset \in k + 1 .. n : offset \in k .. n /\ offset # k
      BY <1>0
    <2>3. \A e \in k + 1 .. n : w[e] = v[e]
      BY <2>2
    <2> HIDE DEF n
    <2>4. ASSUME NEW offset \in k .. n
          PROVE  v[offset] = Piece(cells, v, offset)
      <3>1. \A e \in offset + 1 .. n : w[e] = v[e]
        BY <1>0, <2>3, <2>4
      <3>2. offset \in 0 .. n
        BY <1>0, <2>4
      <3> HIDE DEF v
      <3>3. Piece(cells, w, offset) = Piece(cells, v, offset)
        BY <3>1, <3>2, PieceSame DEF n
      <3>4. v[offset] = Piece(cells, w, offset)
        <4>1. CASE offset = k
          BY <4>1, <2>4 DEF v
        <4>2. CASE offset # k
          <5>1. offset \in k + 1 .. n
            BY <1>0, <2>4, <4>2
          <5>2. w[offset] = Piece(cells, w, offset)
            BY <2>1, <5>1, Zenon
          <5> QED
            BY <2>4, <4>2, <5>2 DEF v
        <4> QED
          BY <4>1, <4>2
      <3> QED
        BY <3>3, <3>4
    <2>5. v = [offset \in k .. n |-> Piece(cells, v, offset)]
      BY <2>4
    <2> HIDE DEF v
    <2>6. k \in 0 .. n
      BY <1>0
    <2> QED
      BY <2>5, <2>6
  <1> HIDE DEF W
  <1>3. 0 .. n \subseteq G
    <2> HIDE DEF G, n
    <2> QED
      BY <1>0, <1>1, <1>2, FromTheEnd
  <1>4. W(0)
    BY <1>0, <1>3
  <1>5. PICK w : w = [offset \in 0 .. n |-> Piece(cells, w, offset)]
    BY <1>4 DEF W
  <1>6. Log!Walk(cells) = [offset \in 0 .. n |-> Piece(cells, Log!Walk(cells), offset)]
    BY <1>5, Zenon DEF Log!Walk, Piece
  <1> QED
    BY <1>6, Zenon

\* What a scan returns.
Verdicts == {"whole", "tail", "torn", "corrupt"}
ScanResults(cells) == [frames : Seq(Log!Frames), valid : 0 .. Len(cells), verdict : Verdicts]

\* A walk that stops has found nothing there.
LEMMA StopTyped ==
    ASSUME NEW cells \in Seq(Cells), NEW offset \in 0 .. Len(cells), NEW verdict \in Verdicts
    PROVE  Log!Stop(offset, verdict) \in ScanResults(cells)
  BY DEF Log!Stop, ScanResults

\* Whatever the cells are, a scan returns frames, an offset and a verdict.
LEMMA WalkTyped ==
    ASSUME NEW cells \in Seq(Cells), Log!LogAssumption
    PROVE  \A offset \in 0 .. Len(cells) : Log!Walk(cells)[offset] \in ScanResults(cells)
  <1> DEFINE n == Len(cells)
             G == {k \in 0 .. n : \A e \in k .. n : Log!Walk(cells)[e] \in ScanResults(cells)}
  <1>0. n \in Nat
    OBVIOUS
  <1>1. ASSUME NEW k \in 0 .. n, \A e \in k + 1 .. n : Log!Walk(cells)[e] \in ScanResults(cells)
        PROVE  Log!Walk(cells)[k] \in ScanResults(cells)
    <2>1. Log!Walk(cells)[k] = Piece(cells, Log!Walk(cells), k)
      BY WalkIs
    <2>2. \A v \in Verdicts : Log!Stop(k, v) \in ScanResults(cells)
      BY StopTyped
    <2>3. CASE k = n \/ k + cells[k + 1].frame.size + 1 > n
      BY <2>1, <2>2, <2>3 DEF Piece, Verdicts
    <2>4. CASE ~(k = n \/ k + cells[k + 1].frame.size + 1 > n)
      <3>1. k + 1 \in 1 .. n
        BY <1>0, <2>4
      <3>2. PICK f : f = cells[k + 1].frame
        OBVIOUS
      <3>3. f \in Log!Frames /\ f.size \in Nat
        BY <3>1, <3>2, CellAt
      <3>4. PICK end : end = k + f.size + 1
        OBVIOUS
      <3>5. end \in k + 1 .. n
        BY <1>0, <2>4, <3>2, <3>3, <3>4
      <3>6. Log!Walk(cells)[end] \in ScanResults(cells)
        BY <1>1, <3>5
      <3>7. <<f>> \o Log!Walk(cells)[end].frames \in Seq(Log!Frames)
        BY <3>3, <3>6 DEF ScanResults
      <3>8. [Log!Walk(cells)[end] EXCEPT !.frames = <<f>> \o @] \in ScanResults(cells)
        BY <3>6, <3>7 DEF ScanResults
      <3>9. Log!Walk(cells)[k] \in {Log!Stop(k, v) : v \in Verdicts} \cup {[Log!Walk(cells)[end] EXCEPT !.frames = <<f>> \o @]}
        BY <2>1, <2>4, <3>2, <3>4 DEF Piece, Verdicts
      <3> QED
        BY <2>2, <3>8, <3>9
    <2> QED
      BY <2>3, <2>4
  <1>2. n \in G
    <2>1. \A e \in n + 1 .. n : FALSE
      BY <1>0
    <2>2. \A e \in n .. n : e = n
      BY <1>0
    <2>3. Log!Walk(cells)[n] \in ScanResults(cells)
      BY <1>0, <1>1, <2>1
    <2> QED
      BY <1>0, <2>2, <2>3
  <1>3. ASSUME NEW k \in 0 .. n - 1, k + 1 \in G
        PROVE  k \in G
    <2>1. k \in 0 .. n /\ \A e \in k .. n : e = k \/ e \in k + 1 .. n
      BY <1>0
    <2>2. \A e \in k + 1 .. n : Log!Walk(cells)[e] \in ScanResults(cells)
      BY <1>3
    <2>3. Log!Walk(cells)[k] \in ScanResults(cells)
      BY <1>1, <2>1, <2>2
    <2> QED
      BY <2>1, <2>2, <2>3
  <1>4. 0 .. n \subseteq G
    <2> HIDE DEF G, n
    <2> QED
      BY <1>0, <1>2, <1>3, FromTheEnd
  <1> QED
    BY <1>0, <1>4

\* So does the scan of a page.
LEMMA ScanTyped ==
    ASSUME NEW cells \in Seq(Cells), Log!LogAssumption
    PROVE  Log!ScanFramePage(cells) \in ScanResults(cells)
  <1>1. 0 \in 0 .. Len(cells)
    OBVIOUS
  <1>2. Log!Walk(cells)[0] \in ScanResults(cells)
    BY <1>1, WalkTyped
  <1>3. Log!Stop(0, "corrupt") \in ScanResults(cells)
    BY <1>1, StopTyped DEF Verdicts
  <1> QED
    BY <1>2, <1>3 DEF Log!ScanFramePage

\* The frames that the cells begin with end one after the other.
LEMMA FitsEnds ==
    ASSUME NEW cells \in Seq(Cells), NEW L \in Seq(Log!Frames), NEW at, Fits(cells, L, at), Log!LogAssumption
    PROVE  \A i \in 0 .. Len(L) : at[i] \in 0 .. at[Len(L)] /\ at[i] \in 0 .. Len(cells)
  <1> DEFINE n == Len(L)
             G == {k \in 0 .. n : at[k] <= at[n]}
  <1>0. n \in Nat /\ Len(cells) \in Nat /\ at \in [0 .. n -> Nat] /\ at[n] <= Len(cells)
    BY DEF Fits
  <1>1. n \in G
    BY <1>0
  <1>2. ASSUME NEW k \in 0 .. n - 1, k + 1 \in G
        PROVE  k \in G
    <2>1. k + 1 \in 1 .. n /\ k \in 0 .. n /\ (k + 1) - 1 = k
      BY <1>0
    <2>2. at[k + 1] = at[k] + L[k + 1].size + 1
      BY <2>1 DEF Fits
    <2>3. L[k + 1] \in Log!Frames
      BY <2>1
    <2>4. L[k + 1].size \in Nat
      BY <2>3 DEF Log!Frames, Log!LogAssumption
    <2>5. at[k] \in Nat /\ at[k + 1] \in Nat /\ at[n] \in Nat /\ at[k + 1] <= at[n]
      BY <1>0, <1>2, <2>1
    <2> QED
      BY <2>1, <2>2, <2>4, <2>5
  <1>3. 0 .. n \subseteq G
    <2> HIDE DEF G, n
    <2> QED
      BY <1>0, <1>1, <1>2, FromTheEnd
  <1>4. ASSUME NEW i \in 0 .. n PROVE at[i] \in Nat /\ at[i] <= at[n] /\ at[n] \in Nat
    BY <1>0, <1>3, <1>4
  <1> QED
    BY <1>0, <1>4

\* Where the walk stops behind the frames L, a walk from any of them on finds the rest of
\* L.
LEMMA WalkFits ==
    ASSUME NEW cells \in Seq(Cells), NEW L \in Seq(Log!Frames), NEW at, Fits(cells, L, at), Log!LogAssumption,
           NEW v, Log!Walk(cells)[at[Len(L)]] = Log!Stop(at[Len(L)], v)
    PROVE  Log!Walk(cells)[0] = [frames |-> L, valid |-> at[Len(L)], verdict |-> v]
  <1> DEFINE n == Len(L)
             m == at[Len(L)]
             G == {k \in 0 .. n : Log!Walk(cells)[at[k]] = [frames |-> SubSeq(L, k + 1, n), valid |-> m, verdict |-> v]}
  <1>0. n \in Nat /\ Len(cells) \in Nat
    OBVIOUS
  <1>1. n \in G
    <2>1. SubSeq(L, n + 1, n) = <<>>
      BY <1>0, SubSeqEmpty
    <2>2. n \in 0 .. n
      BY <1>0
    <2> QED
      BY <2>1, <2>2 DEF Log!Stop
  <1>2. ASSUME NEW k \in 0 .. n - 1, k + 1 \in G
        PROVE  k \in G
    <2>1. k + 1 \in 1 .. n /\ k \in 0 .. n /\ k + 1 \in 0 .. n /\ (k + 1) - 1 = k /\ n \in k + 1 .. n
      BY <1>0
    <2>2. PICK f, o, e : f = L[k + 1] /\ o = at[k] /\ e = at[k + 1]
      OBVIOUS
    <2>3. f \in Log!Frames /\ f.size \in Nat
      <3>1. f \in Log!Frames
        BY <2>1, <2>2
      <3> QED
        BY <3>1 DEF Log!Frames, Log!LogAssumption
    <2>4. e = o + f.size + 1 /\ \A p \in 1 .. f.size + 1 : cells[o + p] = Log!Cell(f, p)
      BY <2>1, <2>2 DEF Fits
    <2>5. o \in 0 .. Len(cells) /\ e \in 0 .. Len(cells)
      BY <2>1, <2>2, FitsEnds
    <2>6. cells[o + 1] = Log!Cell(f, 1) /\ cells[e] = Log!Cell(f, f.size + 1) /\ e = o + (f.size + 1)
      <3>1. 1 \in 1 .. f.size + 1 /\ f.size + 1 \in 1 .. f.size + 1 /\ o + (f.size + 1) = o + f.size + 1
        BY <2>3, <2>5
      <3> QED
        BY <2>4, <3>1
    <2>7. cells[o + 1].frame = f
      BY <2>6 DEF Log!Cell
    <2>8. \A i \in 1 .. f.size : cells[o + i] = Log!Cell(f, i)
      BY <2>3, <2>4
    <2>9. o # Len(cells) /\ ~(o + f.size + 1 > Len(cells))
      BY <2>3, <2>4, <2>5
    <2>10. Piece(cells, Log!Walk(cells), o) = [Log!Walk(cells)[e] EXCEPT !.frames = <<f>> \o @]
      <3>1. cells[o + f.size + 1] = Log!Cell(f, f.size + 1)
        BY <2>4, <2>6
      <3> QED
        BY <2>4, <2>7, <2>8, <2>9, <3>1, Zenon DEF Piece
    <2>11. Log!Walk(cells)[e] = [frames |-> SubSeq(L, (k + 1) + 1, n), valid |-> m, verdict |-> v]
      BY <1>2, <2>2
    <2>12. <<f>> \o SubSeq(L, (k + 1) + 1, n) = SubSeq(L, k + 1, n)
      BY <2>1, <2>2, SubSeqRecursiveFirst
    <2>13. Log!Walk(cells)[o] = [frames |-> SubSeq(L, k + 1, n), valid |-> m, verdict |-> v]
      <3>1. Log!Walk(cells)[o] = [Log!Walk(cells)[e] EXCEPT !.frames = <<f>> \o @]
        BY <2>5, <2>10, WalkIs
      <3>2. PICK a : a = SubSeq(L, (k + 1) + 1, n)
        OBVIOUS
      <3> HIDE DEF n, m
      <3>3. PICK W, b : W = Log!Walk(cells)[e] /\ b = <<f>> \o a
        OBVIOUS
      <3>4. W = [frames |-> a, valid |-> m, verdict |-> v]
        BY <2>11, <3>2, <3>3
      <3>5. [W EXCEPT !.frames = b] = [frames |-> b, valid |-> m, verdict |-> v]
        BY <3>4
      <3>6. W.frames = a
        BY <3>4
      <3> QED
        BY <2>12, <3>1, <3>2, <3>3, <3>5, <3>6, Zenon
    <2> QED
      BY <2>1, <2>2, <2>13
  <1>3. 0 .. n \subseteq G
    <2> HIDE DEF G, n
    <2> QED
      BY <1>0, <1>1, <1>2, FromTheEnd
  <1>4. 0 \in G /\ at[0] = 0
    BY <1>0, <1>3 DEF Fits
  <1>5. SubSeq(L, 0 + 1, n) = L
    BY SubSeqFull
  <1> QED
    BY <1>4, <1>5

\* A scan returns the frames up to where the walk stops, if they are in order.
LEMMA ScanFits ==
    ASSUME NEW cells \in Seq(Cells), NEW L \in Seq(Log!Frames), NEW at, Fits(cells, L, at), Log!Ordered(L), Log!LogAssumption,
           NEW v, Log!Walk(cells)[at[Len(L)]] = Log!Stop(at[Len(L)], v)
    PROVE  Log!ScanFramePage(cells) = [frames |-> L, valid |-> at[Len(L)], verdict |-> v]
  <1>1. PICK m : m = at[Len(L)]
    OBVIOUS
  <1>2. Log!Walk(cells)[0] = [frames |-> L, valid |-> m, verdict |-> v]
    BY <1>1, WalkFits
  <1>3. [frames |-> L, valid |-> m, verdict |-> v].frames = L
    OBVIOUS
  <1> QED
    BY <1>1, <1>2, <1>3, Zenon DEF Log!ScanFramePage

\* Where the walk stops: at the end,
LEMMA StopsWhole ==
    ASSUME NEW cells \in Seq(Cells), NEW m \in Nat, Len(cells) = m, Log!LogAssumption
    PROVE  Log!Walk(cells)[m] = Log!Stop(m, "whole")
  BY WalkIs DEF Piece

\* in a frame that is not complete,
LEMMA StopsTail ==
    ASSUME NEW cells \in Seq(Cells), NEW m \in Nat, NEW f \in Log!Frames, cells[m + 1].frame = f,
           Len(cells) > m, Len(cells) < m + f.size + 1, Log!LogAssumption
    PROVE  Log!Walk(cells)[m] = Log!Stop(m, "tail")
  <1>1. f.size \in Nat
    BY DEF Log!Frames, Log!LogAssumption
  <1>2. m \in 0 .. Len(cells) /\ m # Len(cells) /\ m + f.size + 1 > Len(cells)
    BY <1>1
  <1>3. Log!Walk(cells)[m] = Piece(cells, Log!Walk(cells), m)
    BY <1>2, WalkIs
  <1> QED
    BY <1>2, <1>3 DEF Piece

\* and at a marker that is not valid.
LEMMA StopsTorn ==
    ASSUME NEW cells \in Seq(Cells), NEW m \in Nat, NEW f \in Log!Frames, cells[m + 1].frame = f, Log!LogAssumption,
           Len(cells) >= m + f.size + 1, \A p \in 1 .. f.size : cells[m + p] = Log!Cell(f, p),
           cells[m + f.size + 1] # Log!Cell(f, f.size + 1)
    PROVE  Log!Walk(cells)[m] = Log!Stop(m, IF m + f.size + 1 = Len(cells) THEN "torn" ELSE "corrupt")
  <1>1. f.size \in Nat
    BY DEF Log!Frames, Log!LogAssumption
  <1>2. m \in 0 .. Len(cells) /\ m # Len(cells) /\ ~(m + f.size + 1 > Len(cells))
    BY <1>1
  <1>3. Log!Walk(cells)[m] = Piece(cells, Log!Walk(cells), m)
    BY <1>2, WalkIs
  <1> QED
    BY <1>2, <1>3, Zenon DEF Piece

-----------------------------------------------------------------------------
(* The log: the frames of the cells.                                        *)

\* What fits some cells fits all cells that begin as they do.
LEMMA FitsOn ==
    ASSUME NEW cells \in Seq(Cells), NEW more \in Seq(Cells), NEW L \in Seq(Log!Frames), NEW at,
           Fits(cells, L, at), Log!LogAssumption, at[Len(L)] <= Len(more),
           \A i \in 1 .. at[Len(L)] : more[i] = cells[i]
    PROVE  Fits(more, L, at)
  <1>1. ASSUME NEW i \in 1 .. Len(L), NEW p \in 1 .. L[i].size + 1
        PROVE  more[at[i - 1] + p] = Log!Cell(L[i], p)
    <2>1. i \in 0 .. Len(L) /\ i - 1 \in 0 .. Len(L)
      OBVIOUS
    <2>2. at[i] \in 0 .. at[Len(L)] /\ at[i - 1] \in 0 .. at[Len(L)]
      BY <2>1, FitsEnds
    <2>3. at[i] = at[i - 1] + L[i].size + 1
      BY DEF Fits
    <2>4. L[i] \in Log!Frames
      OBVIOUS
    <2>5. L[i].size \in Nat /\ at[Len(L)] \in Nat
      <3>1. L[i].size \in Nat
        BY <2>4 DEF Log!Frames, Log!LogAssumption
      <3>2. Len(L) \in 0 .. Len(L) /\ at \in [0 .. Len(L) -> Nat]
        BY DEF Fits
      <3> QED
        BY <3>1, <3>2
    <2>6. at[i - 1] + p \in 1 .. at[Len(L)]
      BY <2>2, <2>3, <2>5
    <2>7. cells[at[i - 1] + p] = Log!Cell(L[i], p)
      BY DEF Fits
    <2> QED
      BY <2>6, <2>7
  <1> QED
    BY <1>1 DEF Fits

\* No frames fit all cells.
LEMMA FitsNone ==
    ASSUME NEW cells \in Seq(Cells)
    PROVE  Fits(cells, <<>>, [i \in 0 .. 0 |-> 0])
  BY DEF Fits

\* A frame more, with its marker.
LEMMA FitsMore ==
    ASSUME NEW cells \in Seq(Cells), NEW L \in Seq(Log!Frames), NEW at, Fits(cells, L, at), Log!LogAssumption,
           NEW f \in Log!Frames, Len(cells) >= at[Len(L)] + f.size + 1,
           \A p \in 1 .. f.size + 1 : cells[at[Len(L)] + p] = Log!Cell(f, p)
    PROVE  \E to : /\ Fits(cells, Append(L, f), to)
                   /\ to[Len(Append(L, f))] = at[Len(L)] + f.size + 1
  <1> DEFINE n == Len(L)
             K == Append(L, f)
             to == [i \in 0 .. n + 1 |-> IF i = n + 1 THEN at[n] + f.size + 1 ELSE at[i]]
  <1>1. n \in Nat /\ K \in Seq(Log!Frames) /\ Len(K) = n + 1 /\ K[n + 1] = f /\ \A i \in 1 .. n : K[i] = L[i]
    OBVIOUS
  <1>2. f.size \in Nat
    BY DEF Log!Frames, Log!LogAssumption
  <1>3. at \in [0 .. n -> Nat] /\ at[n] \in Nat
    BY <1>1 DEF Fits
  <1> HIDE DEF K
  <1>4. to \in [0 .. n + 1 -> Nat] /\ to[0] = 0 /\ to[n + 1] = at[n] + f.size + 1 /\ to[n] = at[n]
    <2>1. at[0] = 0 /\ n + 1 # 0 /\ n # n + 1
      BY <1>1 DEF Fits
    <2>2. n \in 0 .. n + 1 /\ n + 1 \in 0 .. n + 1 /\ 0 \in 0 .. n + 1
      BY <1>1
    <2>3. at[n] + f.size + 1 \in Nat
      BY <1>2, <1>3
    <2>4. \A i \in 0 .. n + 1 : i # n + 1 => at[i] \in Nat
      BY <1>1, <1>3
    <2> QED
      BY <2>1, <2>2, <2>3, <2>4
  <1>5. \A i \in 0 .. n : to[i] = at[i]
    BY <1>1
  <1> HIDE DEF to
  <1>6. ASSUME NEW i \in 1 .. n + 1
        PROVE  /\ to[i] = to[i - 1] + K[i].size + 1
               /\ \A p \in 1 .. K[i].size + 1 : cells[to[i - 1] + p] = Log!Cell(K[i], p)
    <2>1. CASE i = n + 1
      <3>1. i - 1 = n /\ K[i] = f
        BY <1>1, <2>1
      <3> QED
        BY <1>4, <2>1, <3>1
    <2>2. CASE i # n + 1
      <3>1. i \in 1 .. n /\ i \in 0 .. n /\ i - 1 \in 0 .. n
        BY <1>1, <2>2
      <3>2. K[i] = L[i] /\ to[i] = at[i] /\ to[i - 1] = at[i - 1]
        BY <1>1, <1>5, <3>1
      <3> QED
        BY <3>1, <3>2 DEF Fits
    <2> QED
      BY <2>1, <2>2
  <1>7. Fits(cells, K, to) /\ to[Len(K)] = at[n] + f.size + 1
    BY <1>1, <1>4, <1>6 DEF Fits
  <1> QED
    BY <1>7 DEF K

\* A frame less.
LEMMA FitsLess ==
    ASSUME NEW cells \in Seq(Cells), NEW L \in Seq(Log!Frames), NEW at, Fits(cells, L, at), Log!LogAssumption, Len(L) > 0
    PROVE  \E K \in Seq(Log!Frames) : \E to :
               /\ Len(K) = Len(L) - 1 /\ \A i \in 1 .. Len(K) : K[i] = L[i]
               /\ Fits(cells, K, to) /\ to[Len(K)] = at[Len(L) - 1]
  <1> DEFINE n == Len(L)
             K == SubSeq(L, 1, n - 1)
             to == [i \in 0 .. n - 1 |-> at[i]]
  <1>0. n \in Nat /\ n - 1 \in Nat /\ n - 1 \in 0 .. n /\ \A i \in 1 .. n - 1 : L[i] \in Log!Frames
    OBVIOUS
  <1>1. K \in Seq(Log!Frames) /\ Len(K) = n - 1 /\ \A i \in 1 .. n - 1 : K[i] = L[i]
    BY <1>0, PrefixIs
  <1>2. at \in [0 .. n -> Nat] /\ at[n - 1] \in 0 .. Len(cells)
    <2>1. at[n - 1] \in 0 .. Len(cells)
      BY <1>0, FitsEnds
    <2> QED
      BY <2>1 DEF Fits
  <1> HIDE DEF K
  <1>3. to \in [0 .. n - 1 -> Nat] /\ \A i \in 0 .. n - 1 : to[i] = at[i]
    BY <1>0, <1>2
  <1> HIDE DEF to
  <1>4. ASSUME NEW i \in 1 .. n - 1
        PROVE  i \in 1 .. n /\ K[i] = L[i] /\ to[i] = at[i] /\ to[i - 1] = at[i - 1]
    BY <1>0, <1>1, <1>3, <1>4
  <1>5. to[0] = 0 /\ to[n - 1] = at[n - 1] /\ to[n - 1] <= Len(cells)
    BY <1>0, <1>1, <1>2, <1>3 DEF Fits
  <1>6. ASSUME NEW i \in 1 .. n - 1
        PROVE  /\ to[i] = to[i - 1] + K[i].size + 1
               /\ \A p \in 1 .. K[i].size + 1 : cells[to[i - 1] + p] = Log!Cell(K[i], p)
    BY <1>4, <1>6 DEF Fits
  <1>7. Fits(cells, K, to)
    BY <1>1, <1>3, <1>5, <1>6 DEF Fits
  <1> QED
    BY <1>1, <1>5, <1>7

-----------------------------------------------------------------------------
(* The log: the order of frames.                                            *)

\* The frames of a stream among finitely many are finitely many.
LEMMA OfFinite ==
    ASSUME NEW L \in Seq(Log!Frames), NEW stream
    PROVE  /\ Log!Of(stream, L) \subseteq 1 .. Len(L) /\ IsFiniteSet(Log!Of(stream, L))
           /\ Cardinality(Log!Of(stream, L)) \in Nat /\ Cardinality(Log!Of(stream, L)) <= Len(L)
  <1>1. Log!Of(stream, L) \subseteq 1 .. Len(L) /\ Len(L) \in Nat
    BY DEF Log!Of
  <1>2. IsFiniteSet(1 .. Len(L)) /\ Cardinality(1 .. Len(L)) = Len(L)
    <2>1. 1 \in Int /\ Len(L) \in Int
      BY <1>1
    <2>2. IsFiniteSet(1 .. Len(L)) /\ Cardinality(1 .. Len(L)) = (IF 1 > Len(L) THEN 0 ELSE Len(L) - 1 + 1)
      BY <2>1, FS_Interval, Zenon
    <2>3. (IF 1 > Len(L) THEN 0 ELSE Len(L) - 1 + 1) = Len(L)
      BY <1>1
    <2> QED
      BY <2>2, <2>3
  <1>3. /\ IsFiniteSet(Log!Of(stream, L))
        /\ Cardinality(Log!Of(stream, L)) <= Cardinality(1 .. Len(L))
    BY <1>1, <1>2, FS_Subset
  <1> QED
    BY <1>1, <1>2, <1>3, FS_CardinalityType

\* A frame with the positions that follow keeps the order.
LEMMA FollowsOrdered ==
    ASSUME NEW L \in Seq(Log!Frames), NEW f, Follows(L, f), Log!Ordered(L)
    PROVE  Log!Ordered(Append(L, f))
  <1> DEFINE n == Len(L)
             K == Append(L, f)
  <1>1. n \in Nat /\ f \in Log!Frames /\ K \in Seq(Log!Frames) /\ Len(K) = n + 1 /\ K[n + 1] = f /\ \A i \in 1 .. n : K[i] = L[i]
    BY DEF Follows
  <1>2. DOMAIN K = 1 .. n + 1 /\ DOMAIN L = 1 .. n
    BY <1>1
  <1> HIDE DEF K
  <1>3. ASSUME NEW i \in 1 .. n
        PROVE  K[i].cursor = i /\ K[i].sequence = Cardinality(Log!Of(K[i].stream, K) \cap (1 .. i))
    <2>1. Log!Of(K[i].stream, K) \cap (1 .. i) = Log!Of(L[i].stream, L) \cap (1 .. i)
      BY <1>1, <1>2, <1>3 DEF Log!Of
    <2> QED
      BY <1>1, <1>2, <2>1, LogCardinality DEF Log!Ordered
  <1>4. f.cursor = n + 1 /\ f.sequence = Cardinality(Log!Of(f.stream, K) \cap (1 .. n + 1))
    <2>1. Log!Of(f.stream, K) \cap (1 .. n + 1) = Log!Of(f.stream, L) \cup {n + 1}
      BY <1>1, <1>2 DEF Log!Of
    <2>2. n + 1 \notin Log!Of(f.stream, L)
      BY <1>1, <1>2 DEF Log!Of
    <2>3. Cardinality(Log!Of(f.stream, L) \cup {n + 1}) = Cardinality(Log!Of(f.stream, L)) + 1
      BY <2>2, OfFinite, FS_AddElement
    <2> QED
      BY <2>1, <2>3 DEF Follows
  <1>5. \A i \in 1 .. n + 1 : i = n + 1 \/ i \in 1 .. n
    BY <1>1
  <1>6. \A i \in 1 .. n + 1 : K[i].cursor = i /\ K[i].sequence = Cardinality(Log!Of(K[i].stream, K) \cap (1 .. i))
    BY <1>1, <1>3, <1>4, <1>5
  <1>7. Log!Ordered(K)
    BY <1>2, <1>6, LogCardinality DEF Log!Ordered
  <1> QED
    BY <1>7 DEF K

\* The first frames of an ordered log are in order.
LEMMA FewerOrdered ==
    ASSUME NEW L \in Seq(Log!Frames), Log!Ordered(L), NEW K \in Seq(Log!Frames), Len(K) <= Len(L),
           \A i \in 1 .. Len(K) : K[i] = L[i]
    PROVE  Log!Ordered(K)
  <1>1. DOMAIN K = 1 .. Len(K) /\ DOMAIN L = 1 .. Len(L) /\ Len(K) \in Nat /\ Len(L) \in Nat
    OBVIOUS
  <1>2. ASSUME NEW i \in 1 .. Len(K)
        PROVE  K[i].cursor = i /\ K[i].sequence = Cardinality(Log!Of(K[i].stream, K) \cap (1 .. i))
    <2>1. i \in 1 .. Len(L) /\ K[i] = L[i]
      BY <1>1
    <2>2. Log!Of(K[i].stream, K) \cap (1 .. i) = Log!Of(L[i].stream, L) \cap (1 .. i)
      BY <1>1, <2>1 DEF Log!Of
    <2> QED
      BY <1>1, <2>1, <2>2, LogCardinality DEF Log!Ordered
  <1> QED
    BY <1>1, <1>2, LogCardinality DEF Log!Ordered

-----------------------------------------------------------------------------
(* The log: what a power loss leaves of the file.                           *)

\* Two sequences begin with the same n members if their prefixes are the same.
LEMMA PrefixSame ==
    ASSUME NEW S, NEW s \in Seq(S), NEW t \in Seq(S), NEW n \in Nat, n <= Len(s), n <= Len(t)
    PROVE  SubSeq(s, 1, n) = SubSeq(t, 1, n) <=> \A i \in 1 .. n : s[i] = t[i]
  <1>1. n \in 0 .. Len(s) /\ n \in 0 .. Len(t)
    OBVIOUS
  <1>2. /\ SubSeq(s, 1, n) \in Seq(S) /\ Len(SubSeq(s, 1, n)) = n /\ \A i \in 1 .. n : SubSeq(s, 1, n)[i] = s[i]
        /\ SubSeq(t, 1, n) \in Seq(S) /\ Len(SubSeq(t, 1, n)) = n /\ \A i \in 1 .. n : SubSeq(t, 1, n)[i] = t[i]
    BY <1>1, PrefixIs
  <1>3. ASSUME \A i \in 1 .. n : s[i] = t[i] PROVE SubSeq(s, 1, n) = SubSeq(t, 1, n)
    <2>1. \A i \in 1 .. n : SubSeq(s, 1, n)[i] = SubSeq(t, 1, n)[i]
      BY <1>2, <1>3
    <2> QED
      BY <1>2, <2>1, SeqEqual
  <1>4. ASSUME SubSeq(s, 1, n) = SubSeq(t, 1, n), NEW i \in 1 .. n PROVE s[i] = t[i]
    BY <1>2, <1>4
  <1> QED
    BY <1>3, <1>4

\* Common is the length of the longest common beginning.
LEMMA CommonIs ==
    ASSUME file \in Seq(Cells), disk \in Seq(Cells)
    PROVE  /\ Log!Common \in 0 .. Len(disk) /\ Log!Common <= Len(file)
           /\ \A i \in 1 .. Log!Common : file[i] = disk[i]
           /\ \A k \in 0 .. Len(disk) : k <= Len(file) /\ (\A i \in 1 .. k : file[i] = disk[i]) => k <= Log!Common
  <1> DEFINE S == {n \in 0 .. Len(disk) : n <= Len(file) /\ \A i \in 1 .. n : file[i] = disk[i]}
             Is(n) == /\ n <= Len(file) /\ SubSeq(file, 1, n) = SubSeq(disk, 1, n)
                      /\ (n < Len(file) /\ n < Len(disk)) => file[n + 1] # disk[n + 1]
  <1>0. Len(disk) \in Nat /\ Len(file) \in Nat
    OBVIOUS
  <1>1. \E n \in 0 .. Len(disk) : Is(n)
    <2>1. 0 \in S /\ S \in SUBSET (0 .. Len(disk))
      BY <1>0
    <2>2. PICK n \in S : \A l \in S : l <= n
      <3> HIDE DEF S
      <3> QED
        BY <1>0, <2>1, LastOf
    <2>3. n \in 0 .. Len(disk) /\ n <= Len(file) /\ \A i \in 1 .. n : file[i] = disk[i]
      BY <2>2
    <2>4. SubSeq(file, 1, n) = SubSeq(disk, 1, n)
      BY <1>0, <2>3, PrefixSame
    <2>5. ASSUME n < Len(file), n < Len(disk), file[n + 1] = disk[n + 1] PROVE FALSE
      <3>1. n + 1 \in 0 .. Len(disk) /\ n + 1 <= Len(file) /\ \A i \in 1 .. n + 1 : i = n + 1 \/ i \in 1 .. n
        BY <1>0, <2>3, <2>5
      <3>2. n + 1 \in S
        BY <2>3, <2>5, <3>1
      <3>3. n + 1 <= n
        BY <2>2, <3>2
      <3> QED
        BY <2>3, <3>3
    <2> QED
      BY <2>3, <2>4, <2>5
  <1>2. Log!Common \in 0 .. Len(disk) /\ Is(Log!Common)
    BY <1>1, Zenon DEF Log!Common
  <1>3. PICK n : n = Log!Common
    OBVIOUS
  <1>4. n \in 0 .. Len(disk) /\ Is(n)
    BY <1>2, <1>3
  <1>5. \A i \in 1 .. n : file[i] = disk[i]
    BY <1>0, <1>4, PrefixSame
  <1>6. ASSUME NEW k \in 0 .. Len(disk), k <= Len(file), \A i \in 1 .. k : file[i] = disk[i]
        PROVE  k <= n
    <2>1. ASSUME n < k PROVE FALSE
      <3>1. n < Len(file) /\ n < Len(disk) /\ n + 1 \in 1 .. k
        BY <1>0, <1>4, <1>6, <2>1
      <3> QED
        BY <1>4, <1>6, <3>1
    <2> QED
      BY <1>4, <2>1
  <1> QED
    BY <1>3, <1>4, <1>5, <1>6

\* A power loss leaves a beginning of the file or of what is synced; only what the file
\* does not share with it may be garbled.
LEMMA OutcomeIs ==
    ASSUME file \in Seq(Cells), disk \in Seq(Cells), NEW cells \in Log!Outcomes
    PROVE  \E src \in {file, disk} :
               /\ cells \in Seq(Cells) /\ Len(cells) \in Log!Common .. Len(src)
               /\ \A i \in 1 .. Len(cells) :
                      \/ cells[i] = src[i]
                      \/ src = file /\ i > Log!Common /\ cells[i] = Log!Cell(src[i].frame, 0)
  <1>0. Log!Common \in Nat
    BY CommonIs
  <1>a. PICK src \in {file, disk} :
             \E n \in Log!Common .. Len(src) :
                 \E garbled \in SUBSET {i \in Log!Common + 1 .. n : src = file /\ src[i].part # 1} :
                     cells = Log!Garble(SubSeq(src, 1, n), garbled)
    <2> DEFINE Garbled(src, n) == {Log!Garble(SubSeq(src, 1, n), garbled) :
                                       garbled \in SUBSET {i \in Log!Common + 1 .. n : src = file /\ src[i].part # 1}}
               From(src) == UNION {Garbled(src, n) : n \in Log!Common .. Len(src)}
    <2>1. Log!Outcomes = UNION {From(src) : src \in {file, disk}}
      BY Zenon DEF Log!Outcomes
    <2> HIDE DEF From
    <2>2. PICK src \in {file, disk} : cells \in From(src)
      BY <2>1
    <2> USE DEF From
    <2> HIDE DEF Garbled
    <2>3. PICK n \in Log!Common .. Len(src) : cells \in Garbled(src, n)
      BY <2>2
    <2>4. \E garbled \in SUBSET {i \in Log!Common + 1 .. n : src = file /\ src[i].part # 1} :
              cells = Log!Garble(SubSeq(src, 1, n), garbled)
      BY <2>3, Zenon DEF Garbled
    <2> QED
      BY <2>3, <2>4, Zenon
  <1>b. PICK n \in Log!Common .. Len(src) :
             \E garbled \in SUBSET {i \in Log!Common + 1 .. n : src = file /\ src[i].part # 1} :
                 cells = Log!Garble(SubSeq(src, 1, n), garbled)
    BY <1>a
  <1>1. PICK garbled \in SUBSET {i \in Log!Common + 1 .. n : src = file /\ src[i].part # 1} :
             cells = Log!Garble(SubSeq(src, 1, n), garbled)
    BY <1>b
  <1>2. n \in 0 .. Len(src) /\ src \in Seq(Cells)
    BY <1>0
  <1>3. /\ SubSeq(src, 1, n) \in Seq(Cells) /\ Len(SubSeq(src, 1, n)) = n
        /\ \A i \in 1 .. n : SubSeq(src, 1, n)[i] = src[i]
    BY <1>2, PrefixIs
  <1>4. cells = [i \in 1 .. n |-> IF i \in garbled THEN Log!Cell(src[i].frame, 0) ELSE src[i]]
    <2>1. DOMAIN SubSeq(src, 1, n) = 1 .. n
      BY <1>3
    <2> QED
      BY <1>1, <1>3, <2>1 DEF Log!Garble
  <1>5. ASSUME NEW i \in 1 .. n
        PROVE  src[i] \in Cells /\ Log!Cell(src[i].frame, 0) \in Cells
    <2>1. src[i] \in Cells
      BY <1>2
    <2> QED
      BY <2>1 DEF Cells, Log!Cell
  <1>6. cells \in [1 .. n -> Cells]
    BY <1>4, <1>5
  <1>7. cells \in Seq(Cells) /\ Len(cells) = n
    BY <1>2, <1>6, SeqDef
  <1>8. ASSUME NEW i \in garbled PROVE src = file /\ i > Log!Common
    BY <1>0, <1>1, <1>8
  <1> QED
    BY <1>4, <1>7, <1>8

-----------------------------------------------------------------------------
(* The log: the shape of the log.                                           *)

\* The end of the frames is a position of the cells.
LEMMA EndIs ==
    ASSUME NEW cells \in Seq(Cells), NEW L \in Seq(Log!Frames), NEW at, Fits(cells, L, at), Log!LogAssumption
    PROVE  at[Len(L)] \in Nat /\ at[Len(L)] <= Len(cells) /\ Len(cells) \in Nat
  <1>1. Len(L) \in 0 .. Len(L)
    OBVIOUS
  <1> QED
    BY <1>1 DEF Fits

\* A frame that follows has a size.
LEMMA FollowsSize ==
    ASSUME NEW L, NEW f, Follows(L, f), Log!LogAssumption
    PROVE  f \in Log!Frames /\ f.size \in Nat /\ f.size > 0
  <1>1. f \in Log!Frames /\ f.size \in Sizes
    BY DEF Follows, Log!Frames
  <1>2. \A x \in Sizes : x \in Nat /\ x > 0
    BY DEF Log!LogAssumption
  <1> QED
    BY <1>1, <1>2

\* The scan finds the frames of L alone, or f as well.
FindsAll(cells, L, m) ==
    \E v \in {"whole", "tail", "torn"} :
        /\ Log!ScanFramePage(cells) = [frames |-> L, valid |-> m, verdict |-> v]
        /\ v = "whole" => Len(cells) = m
FindsNext(cells, L, m, f) ==
    /\ Follows(L, f) /\ Len(cells) = m + f.size + 1 /\ Log!Ordered(Append(L, f))
    /\ \A p \in 1 .. f.size + 1 : cells[m + p] = Log!Cell(f, p)
    /\ Log!ScanFramePage(cells) = [frames |-> Append(L, f), valid |-> Len(cells), verdict |-> "whole"]

\* A scan of frames with a rest returns the frames, and one more if that is whole.
LEMMA ScanRest ==
    ASSUME NEW cells \in Seq(Cells), NEW L \in Seq(Log!Frames), NEW at, Fits(cells, L, at), Log!Ordered(L), Log!LogAssumption,
           NEW f, NEW m, m = at[Len(L)], Rest(cells, L, m, f)
    PROVE  FindsAll(cells, L, m) \/ FindsNext(cells, L, m, f)
  <1>0. m \in Nat /\ m <= Len(cells) /\ Len(cells) \in Nat
    BY EndIs
  <1>1. CASE Len(cells) = m
    BY <1>0, <1>1, StopsWhole, ScanFits DEF FindsAll
  <1>2. CASE Len(cells) # m
    <2>1. /\ Follows(L, f) /\ Len(cells) > m /\ Len(cells) <= m + f.size + 1 /\ cells[m + 1].frame = f
          /\ Len(cells) = m + f.size + 1 => \A p \in 1 .. f.size : cells[m + p] = Log!Cell(f, p)
      BY <1>2 DEF Rest
    <2>2. f \in Log!Frames /\ f.size \in Nat /\ f.size > 0
      BY <2>1, FollowsSize
    <2>3. CASE Len(cells) # m + f.size + 1
      <3>1. Len(cells) < m + f.size + 1
        BY <1>0, <2>1, <2>2, <2>3
      <3>2. Log!Walk(cells)[m] = Log!Stop(m, "tail")
        BY <1>0, <2>1, <2>2, <3>1, StopsTail
      <3> QED
        BY <3>2, ScanFits DEF FindsAll
    <2>4. CASE Len(cells) = m + f.size + 1 /\ cells[m + f.size + 1] # Log!Cell(f, f.size + 1)
      <3>1. Log!Walk(cells)[m] = Log!Stop(m, "torn")
        BY <1>0, <2>1, <2>2, <2>4, StopsTorn
      <3> QED
        BY <3>1, ScanFits DEF FindsAll
    <2>5. CASE Len(cells) = m + f.size + 1 /\ cells[m + f.size + 1] = Log!Cell(f, f.size + 1)
      <3>1. ASSUME NEW p \in 1 .. f.size + 1 PROVE cells[m + p] = Log!Cell(f, p)
        <4>1. CASE p = f.size + 1
          <5>1. m + (f.size + 1) = m + f.size + 1
            <6>1. PICK k : k = f.size
              OBVIOUS
            <6>2. m + (k + 1) = m + k + 1
              BY <1>0, <2>2, <6>1
            <6> QED
              BY <6>1, <6>2
          <5> QED
            BY <2>5, <4>1, <5>1
        <4>2. CASE p # f.size + 1
          <5>1. p \in 1 .. f.size
            BY <2>2, <4>2
          <5> QED
            BY <2>1, <2>5, <5>1
        <4> QED
          BY <4>1, <4>2
      <3>2. PICK to : Fits(cells, Append(L, f), to) /\ to[Len(Append(L, f))] = m + f.size + 1
        <4>1. Len(cells) >= at[Len(L)] + f.size + 1 /\ \A p \in 1 .. f.size + 1 : cells[at[Len(L)] + p] = Log!Cell(f, p)
          <5>1. Len(cells) >= m + f.size + 1
            BY <1>0, <2>5
          <5> QED
            BY <3>1, <5>1
        <4>2. \E to : Fits(cells, Append(L, f), to) /\ to[Len(Append(L, f))] = at[Len(L)] + f.size + 1
          BY <2>2, <4>1, FitsMore, Zenon
        <4> QED
          BY <4>2
      <3>3. PICK K : K = Append(L, f)
        OBVIOUS
      <3>4. Log!Ordered(K) /\ K \in Seq(Log!Frames)
        BY <2>1, <2>2, <3>3, FollowsOrdered
      <3>5. to[Len(K)] = Len(cells) /\ Fits(cells, K, to)
        BY <2>5, <3>2, <3>3
      <3>6. Log!Walk(cells)[to[Len(K)]] = Log!Stop(to[Len(K)], "whole")
        BY <1>0, <3>5, StopsWhole
      <3>7. Log!ScanFramePage(cells) = [frames |-> K, valid |-> to[Len(K)], verdict |-> "whole"]
        BY <3>4, <3>5, <3>6, ScanFits
      <3> QED
        BY <2>1, <2>5, <3>1, <3>3, <3>4, <3>5, <3>7 DEF FindsNext
    <2> QED
      BY <2>3, <2>4, <2>5
  <1> QED
    BY <1>1, <1>2

\* Cut behind the frames, the file keeps them, and so does what is synced.
LEMMA CutKeeps ==
    ASSUME LogTyped, NEW L \in Seq(Log!Frames), NEW at, NEW f, NEW g, LogShape(L, at, f, g), Log!LogAssumption,
           file' = SubSeq(file, 1, at[Len(L)]), UNCHANGED <<disk, acked, peril>>
    PROVE  /\ file' \in Seq(Cells) /\ Len(file') = at[Len(L)] /\ Fits(file', L, at)
           /\ \A i \in 1 .. Len(file') : file'[i].part <= file'[i].frame.size + 1
           /\ Rest(file', L, at[Len(L)], f)
           /\ Synced(L, at, f, g)' \/ Unsynced(L, at[Len(L)], f)'
  <1>1. PICK m : m = at[Len(L)]
    OBVIOUS
  <1>2. file \in Seq(Cells) /\ disk \in Seq(Cells) /\ Fits(file, L, at)
    BY DEF LogTyped, LogShape
  <1>3. m \in Nat /\ m <= Len(file) /\ Len(file) \in Nat
    BY <1>1, <1>2, EndIs
  <1>4. file' \in Seq(Cells) /\ Len(file') = m /\ \A i \in 1 .. m : file'[i] = file[i]
    BY <1>1, <1>2, <1>3, PrefixIs
  <1>5. Fits(file', L, at)
    <2>1. at[Len(L)] <= Len(file') /\ \A i \in 1 .. at[Len(L)] : file'[i] = file[i]
      BY <1>1, <1>3, <1>4
    <2> QED
      BY <1>2, <1>4, <2>1, FitsOn, Zenon
  <1>6. Rest(file', L, m, f) /\ ~Complete(m, f)'
    BY <1>1, <1>3, <1>4 DEF Rest, Complete
  <1>7. ASSUME Synced(L, at, f, g) PROVE Synced(L, at, f, g)'
    BY <1>1, <1>6, <1>7 DEF Synced, Complete
  <1>8. ASSUME Unsynced(L, m, f) PROVE Unsynced(L, m, f)'
    <2>1. disk = SubSeq(file', 1, m - 1)
      <3>1. m - 1 \in Nat
        <4>1. m > 0
          <5>1. Len(L) \in 1 .. Len(L) /\ Len(L) - 1 \in 0 .. Len(L)
            BY <1>8 DEF Unsynced
          <5>2. at[Len(L)] = at[Len(L) - 1] + L[Len(L)].size + 1
            BY <1>2, <5>1 DEF Fits
          <5>3. at[Len(L) - 1] \in Nat
            BY <1>2, <5>1 DEF Fits
          <5>4. L[Len(L)] \in Log!Frames
            BY <5>1
          <5>5. L[Len(L)].size \in Nat
            BY <5>4 DEF Log!Frames, Log!LogAssumption
          <5> QED
            BY <1>1, <5>2, <5>3, <5>5
        <4> QED
          BY <1>3, <4>1
      <3>2. m - 1 <= Len(file) /\ m - 1 <= Len(file') /\ \A i \in 1 .. m - 1 : file'[i] = file[i]
        BY <1>3, <1>4, <3>1
      <3>3. SubSeq(file', 1, m - 1) = SubSeq(file, 1, m - 1)
        BY <1>2, <1>4, <3>1, <3>2, PrefixSame
      <3> QED
        BY <1>8, <3>3 DEF Unsynced
    <2> QED
      BY <1>6, <1>8, <2>1 DEF Unsynced
  <1>9. ASSUME NEW i \in 1 .. Len(file')
        PROVE  file'[i].part <= file'[i].frame.size + 1
    BY <1>3, <1>4, <1>9 DEF LogTyped
  <1> QED
    BY <1>1, <1>4, <1>5, <1>6, <1>7, <1>8, <1>9 DEF LogShape

\* What is in the file when it is synced lasts.
LEMMA SyncKeeps ==
    ASSUME LogTyped, NEW L \in Seq(Log!Frames), NEW at, NEW f, NEW g, LogShape(L, at, f, g), Log!LogAssumption,
           disk' = file, UNCHANGED <<file, acked>>
    PROVE  Synced(L, at, f, f)'
  <1>1. \A h \in acked : h.cursor <= Len(L) /\ L[h.cursor] = h
    <2>1. CASE Synced(L, at, f, g)
      BY <2>1 DEF Synced
    <2>2. CASE Unsynced(L, at[Len(L)], f)
      <3>1. ASSUME NEW h \in acked PROVE h.cursor <= Len(L)
        <4>1. h.cursor \in Nat /\ h.cursor < Len(L)
          BY <2>2 DEF LogTyped, Unsynced, Log!Frames
        <4> QED
          BY <4>1
      <3> QED
        BY <2>2, <3>1 DEF Unsynced
    <2> QED
      BY <2>1, <2>2 DEF LogShape
  <1> QED
    BY <1>1 DEF LogShape, Synced, Fits, Rest

\* What the shape says of the file, whatever is synced.
LEMMA ShapeIs ==
    ASSUME LogTyped, NEW L \in Seq(Log!Frames), NEW at, NEW f, NEW g, LogShape(L, at, f, g), Log!LogAssumption,
           NEW m, m = at[Len(L)]
    PROVE  /\ file \in Seq(Cells) /\ disk \in Seq(Cells) /\ Len(file) \in Nat /\ Len(disk) \in Nat
           /\ m \in Nat /\ m <= Len(file) /\ Log!Ordered(L) /\ Fits(file, L, at) /\ Rest(file, L, m, f)
           /\ Synced(L, at, f, g) \/ Unsynced(L, m, f)
           /\ Place(L, m, f)
           /\ \A h \in acked : h \in Log!Frames /\ h.cursor \in 1 .. Len(L) /\ L[h.cursor] = h
  <1>1. file \in Seq(Cells) /\ disk \in Seq(Cells) /\ Fits(file, L, at)
    BY DEF LogTyped, LogShape
  <1>2. ASSUME NEW h \in acked
        PROVE  h \in Log!Frames /\ h.cursor \in 1 .. Len(L) /\ L[h.cursor] = h
    <2>1. h \in Log!Frames /\ h.cursor \in Nat /\ h.cursor > 0
      BY DEF LogTyped, Log!Frames
    <2>2. CASE Synced(L, at, f, g)
      BY <2>1, <2>2 DEF Synced
    <2>3. CASE Unsynced(L, at[Len(L)], f)
      BY <2>1, <2>3 DEF Unsynced
    <2> QED
      BY <2>2, <2>3 DEF LogShape
  <1>3. m \in Nat /\ m <= Len(file) /\ Len(file) \in Nat /\ Len(disk) \in Nat
    BY <1>1, EndIs
  <1> QED
    BY <1>1, <1>2, <1>3 DEF LogShape

\* A log of a shape satisfies the invariant.
LEMMA ShapeKept ==
    ASSUME LogTyped', NEW L \in Seq(Log!Frames), NEW at, NEW f, NEW g, LogShape(L, at, f, g)'
    PROVE  LogInv'
  BY DEF LogInv

\* Nothing is in the log at first.
LEMMA LogInit ==
    ASSUME Log!LogAssumption, Log!Init
    PROVE  LogInv
  <1> DEFINE at == [i \in 0 .. 0 |-> 0]
  <1>1. LogTyped
    <2>1. Log!Closed \in [step : Log!Steps, confirmed : Nat, frame : Log!Frames \cup {Log!NoFrame}, index : Seq(Log!Frames)]
      BY DEF Log!Closed, Log!Steps
    <2>2. deaths \in 0 .. LogFaults[peril]
      BY DEF Log!Init, Log!LogAssumption, LogFaults
    <2>3. <<>> \in Seq(Cells) /\ Len(<<>>) = 0
      OBVIOUS
    <2> QED
      BY <2>1, <2>2, <2>3 DEF Log!Init, LogTyped
  <1>2. <<>> \in Seq(Log!Frames) /\ Len(<<>>) = 0 /\ <<>> \in Seq(Cells) /\ at[0] = 0
    OBVIOUS
  <1>3. Fits(<<>>, <<>>, at)
    BY <1>2, FitsNone
  <1> HIDE DEF at
  <1>4. LogShape(<<>>, at, Log!NoFrame, Log!NoFrame)
    <2>1. Log!Ordered(<<>>)
      BY DEF Log!Ordered
    <2>2. Rest(<<>>, <<>>, 0, Log!NoFrame)
      BY <1>2 DEF Rest
    <2>3. Synced(<<>>, at, Log!NoFrame, Log!NoFrame)
      BY <1>2, <1>3, <2>2 DEF Synced, Complete, Log!Init
    <2>4. Place(<<>>, 0, Log!NoFrame)
      BY DEF Place, Log!Init, Log!Closed, Log!Appending
    <2> QED
      BY <1>2, <1>3, <2>1, <2>2, <2>3, <2>4 DEF LogShape, Log!Init
  <1> QED
    BY <1>1, <1>2, <1>4 DEF LogInv

-----------------------------------------------------------------------------
(* The log: Open.                                                           *)

\* An open keeps the frames of the file, with the last one if that is whole, and
\* never takes it for corrupt.
LEMMA OpenLog ==
    ASSUME LogInv, Log!LogAssumption, Log!Open
    PROVE  LogInv'
  <1>1. PICK L \in Seq(Log!Frames) : \E at, f, g : LogShape(L, at, f, g)
    BY DEF LogInv
  <1>2. PICK at, f, g : LogShape(L, at, f, g)
    BY <1>1
  <1>3. PICK m : m = at[Len(L)]
    OBVIOUS
  <1>4. LogTyped
    BY DEF LogInv
  <1>5. /\ file \in Seq(Cells) /\ disk \in Seq(Cells) /\ Len(file) \in Nat /\ m \in Nat /\ m <= Len(file)
        /\ Log!Ordered(L) /\ Fits(file, L, at) /\ Rest(file, L, m, f)
        /\ Synced(L, at, f, g) \/ Unsynced(L, m, f)
        /\ \A h \in acked : h \in Log!Frames /\ h.cursor \in 1 .. Len(L) /\ L[h.cursor] = h
    BY <1>2, <1>3, <1>4, ShapeIs
  <1>6. PICK scan : scan = Log!ScanFramePage(file)
    OBVIOUS
  <1>7. /\ writer.step = "closed" /\ UNCHANGED <<disk, acked, reader, served, deaths, peril>>
        /\ \/ scan.verdict = "whole" /\ writer' = Log!Opened("ready", scan) /\ UNCHANGED <<file, corrupt>>
           \/ /\ scan.verdict \in {"tail", "torn"} /\ file' = SubSeq(file, 1, scan.valid)
              /\ writer' = Log!Opened("truncated", scan) /\ UNCHANGED corrupt
           \/ scan.verdict = "corrupt" /\ corrupt' = TRUE /\ UNCHANGED <<file, writer>>
    BY <1>6 DEF Log!Open
  <1>8. ASSUME NEW step \in {"ready", "truncated"}, scan.frames \in Seq(Log!Frames), scan.valid \in Nat,
               writer' = Log!Opened(step, scan)
        PROVE  /\ writer' \in [step : Log!Steps, confirmed : Nat, frame : Log!Frames \cup {Log!NoFrame}, index : Seq(Log!Frames)]
               /\ writer'.step = step /\ writer'.index = scan.frames /\ writer'.confirmed = scan.valid
    BY <1>8 DEF Log!Opened, Log!Closed, Log!Steps
  <1>9. ASSUME NEW v \in {"whole", "tail", "torn"}, v = "whole" => Len(file) = m,
               scan = [frames |-> L, valid |-> m, verdict |-> v]
        PROVE  LogInv'
    <2>1. scan.frames = L /\ scan.valid = m /\ scan.verdict = v
      BY <1>9
    <2>2. CASE v = "whole"
      <3>1. Len(file) = m /\ writer' = Log!Opened("ready", scan) /\ UNCHANGED <<file, disk, acked, corrupt, reader, served, deaths, peril>>
        BY <1>7, <1>9, <2>1, <2>2
      <3>2. /\ writer' \in [step : Log!Steps, confirmed : Nat, frame : Log!Frames \cup {Log!NoFrame}, index : Seq(Log!Frames)]
            /\ writer'.step = "ready" /\ writer'.index = L /\ writer'.confirmed = m
        BY <1>5, <1>8, <2>1, <3>1
      <3>3. LogTyped'
        BY <1>4, <3>1, <3>2 DEF LogTyped
      <3>4. Synced(L, at, f, g)' \/ Unsynced(L, m, f)'
        BY <1>3, <1>5, <3>1 DEF Synced, Unsynced, Complete
      <3>5. Place(L, m, f)'
        BY <3>1, <3>2 DEF Place, Log!Appending
      <3>6. LogShape(L, at, f, g)'
        BY <1>3, <1>5, <3>1, <3>4, <3>5 DEF LogShape
      <3> QED
        BY <3>3, <3>6, ShapeKept
    <2>3. CASE v # "whole"
      <3>1. /\ writer' = Log!Opened("truncated", scan) /\ file' = SubSeq(file, 1, m)
            /\ UNCHANGED <<disk, acked, corrupt, reader, served, deaths, peril>>
        BY <1>7, <1>9, <2>1, <2>3
      <3>2. /\ writer' \in [step : Log!Steps, confirmed : Nat, frame : Log!Frames \cup {Log!NoFrame}, index : Seq(Log!Frames)]
            /\ writer'.step = "truncated" /\ writer'.index = L /\ writer'.confirmed = m
        BY <1>5, <1>8, <2>1, <3>1
      <3>3. /\ file' \in Seq(Cells) /\ Len(file') = m /\ Fits(file', L, at)
            /\ \A i \in 1 .. Len(file') : file'[i].part <= file'[i].frame.size + 1
            /\ Rest(file', L, m, f)
            /\ Synced(L, at, f, g)' \/ Unsynced(L, m, f)'
        BY <1>2, <1>3, <1>4, <3>1, CutKeeps
      <3>4. LogTyped'
        BY <1>4, <3>1, <3>2, <3>3 DEF LogTyped
      <3>5. Place(L, m, f)'
        BY <3>2, <3>3 DEF Place, Log!Appending
      <3>6. LogShape(L, at, f, g)'
        BY <1>3, <1>5, <3>3, <3>5 DEF LogShape
      <3> QED
        BY <3>4, <3>6, ShapeKept
    <2> QED
      BY <2>2, <2>3
  <1>10. ASSUME Follows(L, f), Len(file) = m + f.size + 1, Log!Ordered(Append(L, f)),
                \A p \in 1 .. f.size + 1 : file[m + p] = Log!Cell(f, p),
                scan = [frames |-> Append(L, f), valid |-> Len(file), verdict |-> "whole"]
         PROVE  LogInv'
    <2>1. f \in Log!Frames /\ f.size \in Nat /\ f.size > 0
      BY <1>10, FollowsSize
    <2>2. PICK K : K = Append(L, f)
      OBVIOUS
    <2>3. /\ K \in Seq(Log!Frames) /\ Len(K) = Len(L) + 1 /\ Len(L) \in Nat /\ \A i \in 1 .. Len(L) : K[i] = L[i]
      BY <2>1, <2>2
    <2>4. PICK to : Fits(file, K, to) /\ to[Len(K)] = Len(file)
      <3>1. Len(file) >= at[Len(L)] + f.size + 1 /\ \A p \in 1 .. f.size + 1 : file[at[Len(L)] + p] = Log!Cell(f, p)
        <4>1. Len(file) >= m + f.size + 1
          BY <1>5, <1>10
        <4> QED
          BY <1>3, <1>10, <4>1
      <3>2. \E to : Fits(file, Append(L, f), to) /\ to[Len(Append(L, f))] = at[Len(L)] + f.size + 1
        <4>1. file \in Seq(Cells) /\ Fits(file, L, at) /\ f \in Log!Frames
          BY <1>5, <2>1
        <4> QED
          BY <3>1, <4>1, FitsMore, Zenon
      <3> QED
        BY <1>3, <1>10, <2>2, <3>2
    <2>5. scan.frames = K /\ scan.valid = Len(file) /\ scan.verdict = "whole"
      BY <1>10, <2>2
    <2>6. writer' = Log!Opened("ready", scan) /\ UNCHANGED <<file, disk, acked, corrupt, reader, served, deaths, peril>>
      BY <1>7, <2>5
    <2>7. /\ writer' \in [step : Log!Steps, confirmed : Nat, frame : Log!Frames \cup {Log!NoFrame}, index : Seq(Log!Frames)]
          /\ writer'.step = "ready" /\ writer'.index = K /\ writer'.confirmed = Len(file)
      BY <1>5, <1>8, <2>3, <2>5, <2>6
    <2>8. LogTyped'
      BY <1>4, <2>6, <2>7 DEF LogTyped
    <2>9. Complete(m, f) /\ ~Complete(Len(file), f)'
      BY <1>5, <1>10, <2>1, <2>6 DEF Complete
    <2>10. Synced(L, at, f, g)
      BY <1>5, <2>9 DEF Unsynced
    <2>11. Rest(file, K, Len(file), f)
      BY DEF Rest
    <2>12. \A h \in acked : h.cursor < Len(K) /\ K[h.cursor] = h
      BY <1>5, <2>3
    <2>13. Synced(K, to, f, f)' \/ Unsynced(K, Len(file), f)'
      <3>1. CASE disk = file
        <4>1. \A h \in acked : h.cursor <= Len(K) /\ K[h.cursor] = h
          BY <1>5, <2>3
        <4>2. Synced(K, to, f, f)'
          BY <2>4, <2>6, <2>9, <2>11, <3>1, <4>1 DEF Synced
        <4> QED
          BY <4>2
      <3>2. CASE disk # file
        <4>1. disk = SubSeq(file, 1, Len(file) - 1) /\ peril # "power"
          BY <1>3, <1>7, <2>9, <2>10, <3>2 DEF Synced
        <4>2. peril = "death"
          BY <1>4, <4>1 DEF LogTyped, Log!Perils
        <4>3. Len(K) > 0
          BY <2>3
        <4>4. Unsynced(K, Len(file), f)'
          BY <2>6, <2>9, <2>12, <4>1, <4>2, <4>3 DEF Unsynced
        <4> QED
          BY <4>4
      <3> QED
        BY <3>1, <3>2
    <2>14. Place(K, Len(file), f)'
      BY <2>6, <2>7 DEF Place, Log!Appending
    <2>15. Log!Ordered(K)
      BY <1>10, <2>2
    <2>16. LogShape(K, to, f, f)'
      BY <2>4, <2>6, <2>11, <2>13, <2>14, <2>15 DEF LogShape
    <2> QED
      BY <2>3, <2>8, <2>16, ShapeKept
  <1>11. FindsAll(file, L, m) \/ FindsNext(file, L, m, f)
    BY <1>3, <1>5, ScanRest
  <1>12. CASE FindsAll(file, L, m)
    BY <1>6, <1>9, <1>12 DEF FindsAll
  <1>13. CASE FindsNext(file, L, m, f)
    BY <1>6, <1>10, <1>13 DEF FindsNext
  <1> QED
    BY <1>11, <1>12, <1>13

-----------------------------------------------------------------------------
(* The log: the steps that write nothing.                                   *)

\* What a Store holds.
Stores == [step : Log!Steps, confirmed : Nat, frame : Log!Frames \cup {Log!NoFrame}, index : Seq(Log!Frames)]

\* A Store that moves on keeps the log, if it is where the shape says; e is the frame it
\* will append.
LEMMA StoreMoves ==
    ASSUME LogTyped, LogTyped', Log!LogAssumption, NEW L \in Seq(Log!Frames), NEW at, NEW f, NEW g, LogShape(L, at, f, g),
           NEW m, m = at[Len(L)], NEW e, e = f \/ Len(file) = m,
           UNCHANGED <<file, disk, acked, peril>>, Place(L, m, e)',
           writer'.step = "closed" => writer.step = "closed" \/ peril = "death" \/ Len(file) = m
    PROVE  LogInv'
  <1>1. /\ m \in Nat /\ Log!Ordered(L) /\ Fits(file, L, at) /\ Rest(file, L, m, f)
        /\ Synced(L, at, f, g) \/ Unsynced(L, m, f)
    BY ShapeIs
  <1>2. Rest(file, L, m, e)
    BY <1>1 DEF Rest
  <1>3. ASSUME Synced(L, at, f, g)
        PROVE  Synced(L, at, e, g)'
    <2>1. /\ Fits(disk, L, at) /\ Rest(disk, L, at[Len(L)], g)
          /\ \A h \in acked : h.cursor <= Len(L) /\ L[h.cursor] = h
      BY <1>3 DEF Synced
    <2>2. ASSUME Complete(m, e)'
          PROVE  /\ disk = file \/ disk = SubSeq(file, 1, Len(file) - 1)
                 /\ (peril = "power" /\ writer'.step = "closed") => disk = file
      <3>1. Complete(m, e) /\ Len(file) # m /\ e = f
        BY <1>1, <2>2 DEF Complete
      <3> QED
        BY <1>3, <3>1 DEF Synced
    <2> QED
      BY <2>1, <2>2 DEF Synced
  <1>4. ASSUME Unsynced(L, m, f)
        PROVE  Unsynced(L, m, e)'
    BY <1>1, <1>4 DEF Unsynced, Complete
  <1>5. LogShape(L, at, e, g)'
    BY <1>1, <1>2, <1>3, <1>4 DEF LogShape
  <1> QED
    BY <1>5, ShapeKept

\* So does one that has synced the file.
LEMMA SyncMoves ==
    ASSUME LogTyped, LogTyped', Log!LogAssumption, NEW L \in Seq(Log!Frames), NEW at, NEW f, NEW g, LogShape(L, at, f, g),
           NEW m, m = at[Len(L)],
           disk' = file, UNCHANGED <<file, acked, peril>>, Place(L, m, f)'
    PROVE  LogInv'
  <1>1. Synced(L, at, f, f)'
    BY SyncKeeps
  <1>2. LogShape(L, at, f, f)'
    BY <1>1 DEF LogShape
  <1> QED
    BY <1>2, ShapeKept

\* A step of the Store alone keeps the types.
LEMMA GotoTyped ==
    ASSUME LogTyped, NEW step \in Log!Steps, Log!Goto(step)
    PROVE  writer' \in Stores /\ writer' = [writer EXCEPT !.step = step] /\ writer'.step = step
           /\ writer'.index = writer.index /\ writer'.confirmed = writer.confirmed /\ writer'.frame = writer.frame
  BY DEF LogTyped, Log!Goto, Stores

\* Closed, the Store has nothing.
LEMMA ClosedIs ==
    ASSUME NEW L, NEW m, NEW f, writer' = Log!Closed
    PROVE  writer' \in Stores /\ writer'.step = "closed" /\ Place(L, m, f)'
  BY DEF Log!Closed, Stores, Log!Steps, Place, Log!Appending

\* The failures that are counted stay below their bound.
LEMMA FaultTyped ==
    ASSUME LogTyped, Log!LogAssumption, Log!Fault, UNCHANGED peril
    PROVE  deaths' \in 0 .. LogFaults'[peril']
  <1>1. LogFaults[peril] \in Nat /\ deaths \in 0 .. LogFaults[peril]
    BY DEF LogTyped, Log!LogAssumption, LogFaults, Log!Perils
  <1> QED
    BY <1>1 DEF Log!Fault, LogFaults

\* The cut is synced before Open returns.
LEMMA TruncateLog ==
    ASSUME LogInv, Log!LogAssumption, Log!TruncateIncompleteTail
    PROVE  LogInv'
  <1>1. PICK L \in Seq(Log!Frames) : \E at, f, g : LogShape(L, at, f, g)
    BY DEF LogInv
  <1>2. PICK at, f, g : LogShape(L, at, f, g)
    BY <1>1
  <1>3. PICK m : m = at[Len(L)]
    OBVIOUS
  <1>4. LogTyped
    BY DEF LogInv
  <1>5. /\ writer.step = "truncated" /\ disk' = file /\ Log!Goto("ready")
        /\ UNCHANGED <<file, acked, corrupt, reader, served, deaths, peril>>
    BY DEF Log!TruncateIncompleteTail, Log!Goto
  <1>6. /\ writer' \in Stores /\ writer'.step = "ready"
        /\ writer'.index = writer.index /\ writer'.confirmed = writer.confirmed
    BY <1>4, <1>5, GotoTyped DEF Log!Steps
  <1>7. LogTyped'
    BY <1>4, <1>5, <1>6 DEF LogTyped, Stores
  <1>8. Place(L, m, f)
    BY <1>2, <1>3 DEF LogShape
  <1>9. Place(L, m, f)'
    BY <1>5, <1>6, <1>8 DEF Place, Log!Appending
  <1> QED
    BY <1>2, <1>3, <1>4, <1>5, <1>7, <1>9, SyncMoves

\* An Open that fails there leaves the cut file.
LEMMA OpenFailsLog ==
    ASSUME LogInv, Log!LogAssumption, Log!OpenFails
    PROVE  LogInv'
  <1>1. PICK L \in Seq(Log!Frames) : \E at, f, g : LogShape(L, at, f, g)
    BY DEF LogInv
  <1>2. PICK at, f, g : LogShape(L, at, f, g)
    BY <1>1
  <1>3. PICK m : m = at[Len(L)]
    OBVIOUS
  <1>4. LogTyped
    BY DEF LogInv
  <1>5. /\ writer.step = "truncated" /\ writer' = Log!Closed /\ Log!Fault
        /\ UNCHANGED <<file, disk, acked, corrupt, reader, served, peril>>
    BY DEF Log!OpenFails
  <1>6. writer' \in Stores /\ Place(L, m, f)'
    BY <1>5, ClosedIs
  <1>7. LogTyped'
    BY <1>4, <1>5, <1>6, FaultTyped DEF LogTyped, Stores
  <1>8. Len(file) = m
    BY <1>2, <1>3, <1>5 DEF LogShape, Place
  <1> QED
    BY <1>2, <1>3, <1>4, <1>5, <1>6, <1>7, <1>8, StoreMoves

\* A Store that failed appends nothing until it was reopened, and is cut first.
LEMMA AppendFailsLog ==
    ASSUME LogInv, Log!LogAssumption, Log!AppendFails \/ Log!CloseFails
    PROVE  LogInv'
  <1>1. PICK L \in Seq(Log!Frames) : \E at, f, g : LogShape(L, at, f, g)
    BY DEF LogInv
  <1>2. PICK at, f, g : LogShape(L, at, f, g)
    BY <1>1
  <1>3. PICK m : m = at[Len(L)]
    OBVIOUS
  <1>4. LogTyped
    BY DEF LogInv
  <1>5. /\ writer.step \in Log!Appending \cup {"closing"} /\ Log!Goto("poisoned") /\ Log!Fault
        /\ UNCHANGED <<file, disk, acked, corrupt, reader, served, peril>>
    BY DEF Log!AppendFails, Log!CloseFails
  <1>6. /\ writer' \in Stores /\ writer'.step = "poisoned"
        /\ writer'.index = writer.index /\ writer'.confirmed = writer.confirmed
    BY <1>4, <1>5, GotoTyped DEF Log!Steps
  <1>7. LogTyped'
    BY <1>4, <1>5, <1>6, FaultTyped DEF LogTyped, Stores
  <1>8. Place(L, m, f)
    BY <1>2, <1>3 DEF LogShape
  <1>9. Place(L, m, f)'
    BY <1>5, <1>6, <1>8 DEF Place, Log!Appending
  <1> QED
    BY <1>2, <1>3, <1>4, <1>5, <1>6, <1>7, <1>9, StoreMoves

\* The next frame has the next positions.
LEMMA AppendLog ==
    ASSUME LogInv, Log!LogAssumption, NEW stream \in Streams, NEW size \in Sizes, Log!AppendFrame(stream, size)
    PROVE  LogInv'
  <1>1. PICK L \in Seq(Log!Frames) : \E at, f, g : LogShape(L, at, f, g)
    BY DEF LogInv
  <1>2. PICK at, f, g : LogShape(L, at, f, g)
    BY <1>1
  <1>3. PICK m : m = at[Len(L)]
    OBVIOUS
  <1>4. LogTyped
    BY DEF LogInv
  <1>5. Place(L, m, f) /\ m \in Nat
    BY <1>2, <1>3, <1>4, ShapeIs
  <1>6. writer.step = "ready" /\ writer.index = L /\ writer.confirmed = m /\ Len(file) = m
    BY <1>5 DEF Log!AppendFrame, Place
  <1>7. PICK e : e = [cursor |-> Len(L) + 1, stream |-> stream,
                      sequence |-> Cardinality(Log!Of(stream, L)) + 1, size |-> size]
    OBVIOUS
  <1>8. Follows(L, e) /\ e \in Log!Frames
    <2>1. Cardinality(Log!Of(stream, L)) \in Nat /\ Cardinality(Log!Of(stream, L)) <= Len(L)
      BY OfFinite
    <2>2. Len(L) \in Nat /\ Len(L) < MaxFrames /\ MaxFrames \in Nat
      BY <1>6 DEF Log!AppendFrame, Log!LogAssumption
    <2>3. Cardinality(Log!Of(stream, L)) + 1 \in 1 .. MaxFrames /\ Len(L) + 1 \in 1 .. MaxFrames
      BY <2>1, <2>2
    <2>4. e \in Log!Frames
      BY <1>7, <2>3 DEF Log!Frames
    <2> QED
      BY <1>7, <2>4 DEF Follows
  <1>9. /\ writer' = [writer EXCEPT !.step = "write", !.frame = e]
        /\ UNCHANGED <<file, disk, acked, corrupt, reader, served, deaths, peril>>
    BY <1>6, <1>7, LogCardinality DEF Log!AppendFrame
  <1>10. /\ writer' \in Stores /\ writer'.step = "write" /\ writer'.frame = e
         /\ writer'.index = L /\ writer'.confirmed = m
    BY <1>4, <1>6, <1>8, <1>9 DEF LogTyped, Stores, Log!Steps
  <1>11. LogTyped'
    BY <1>4, <1>9, <1>10 DEF LogTyped, Stores
  <1>12. Place(L, m, e)'
    <2>1. e.size \in Nat /\ e.size > 0
      BY <1>8, FollowsSize
    <2>2. Len(file) < m + e.size /\ \A p \in 1 .. Len(file) - m : FALSE
      BY <1>5, <1>6, <2>1
    <2> QED
      BY <1>8, <1>9, <1>10, <2>2 DEF Place, Log!Appending
  <1> QED
    BY <1>2, <1>3, <1>4, <1>6, <1>9, <1>10, <1>11, <1>12, StoreMoves

\* The data of a frame is synced before its marker is written, and the marker before it
\* is published.
LEMMA SyncLog ==
    ASSUME LogInv, Log!LogAssumption, Log!Sync \/ Log!SyncMarker
    PROVE  LogInv'
  <1>1. PICK L \in Seq(Log!Frames) : \E at, f, g : LogShape(L, at, f, g)
    BY DEF LogInv
  <1>2. PICK at, f, g : LogShape(L, at, f, g)
    BY <1>1
  <1>3. PICK m : m = at[Len(L)]
    OBVIOUS
  <1>4. LogTyped
    BY DEF LogInv
  <1>5. PICK step : /\ (writer.step = "sync" /\ step = "marker") \/ (writer.step = "syncmarker" /\ step = "publish")
                    /\ disk' = file /\ Log!Goto(step)
                    /\ UNCHANGED <<file, acked, corrupt, reader, served, deaths, peril>>
    BY DEF Log!Sync, Log!SyncMarker
  <1>6. /\ writer' \in Stores /\ writer'.step = step /\ writer'.frame = writer.frame
        /\ writer'.index = writer.index /\ writer'.confirmed = writer.confirmed
    BY <1>4, <1>5, GotoTyped DEF Log!Steps
  <1>7. LogTyped'
    BY <1>4, <1>5, <1>6 DEF LogTyped, Stores
  <1>8. Place(L, m, f)
    BY <1>2, <1>3 DEF LogShape
  <1>9. Place(L, m, f)'
    BY <1>5, <1>6, <1>8 DEF Place, Log!Appending, Complete
  <1> QED
    BY <1>2, <1>3, <1>4, <1>5, <1>7, <1>9, SyncMoves

\* A Store closes with the file it confirmed.
LEMMA CloseLog ==
    ASSUME LogInv, Log!LogAssumption, Log!Close
    PROVE  LogInv'
  <1>1. PICK L \in Seq(Log!Frames) : \E at, f, g : LogShape(L, at, f, g)
    BY DEF LogInv
  <1>2. PICK at, f, g : LogShape(L, at, f, g)
    BY <1>1
  <1>3. PICK m : m = at[Len(L)]
    OBVIOUS
  <1>4. LogTyped
    BY DEF LogInv
  <1>5. Place(L, m, f) /\ m \in Nat /\ Log!Ordered(L)
    BY <1>2, <1>3, <1>4, ShapeIs
  <1>6. UNCHANGED <<disk, acked, corrupt, reader, served, deaths, peril>>
    BY DEF Log!Close
  <1>7. CASE writer.step = "ready"
    <2>1. writer' = Log!Closed /\ UNCHANGED file /\ Len(file) = m
      BY <1>5, <1>7 DEF Log!Close, Place
    <2>2. writer' \in Stores /\ Place(L, m, f)'
      BY <2>1, ClosedIs
    <2>3. LogTyped'
      BY <1>4, <1>6, <2>1, <2>2 DEF LogTyped, Stores
    <2> QED
      BY <1>2, <1>3, <1>4, <1>6, <2>1, <2>2, <2>3, StoreMoves
  <1>8. CASE writer.step # "ready"
    <2>1. writer.step = "poisoned" /\ file' = SubSeq(file, 1, m) /\ Log!Goto("closing")
      BY <1>5, <1>8 DEF Log!Close, Place, Log!Goto
    <2>2. /\ writer' \in Stores /\ writer'.step = "closing"
          /\ writer'.index = writer.index /\ writer'.confirmed = writer.confirmed
      BY <1>4, <2>1, GotoTyped DEF Log!Steps
    <2>3. /\ file' \in Seq(Cells) /\ Len(file') = m /\ Fits(file', L, at)
          /\ \A i \in 1 .. Len(file') : file'[i].part <= file'[i].frame.size + 1
          /\ Rest(file', L, m, f)
          /\ Synced(L, at, f, g)' \/ Unsynced(L, m, f)'
      BY <1>2, <1>3, <1>4, <1>6, <2>1, CutKeeps
    <2>4. LogTyped'
      BY <1>4, <1>6, <2>2, <2>3 DEF LogTyped, Stores
    <2>5. Place(L, m, f)'
      BY <1>5, <2>1, <2>2, <2>3 DEF Place, Log!Appending
    <2>6. LogShape(L, at, f, g)'
      BY <1>3, <1>5, <2>3, <2>5 DEF LogShape
    <2> QED
      BY <2>4, <2>6, ShapeKept
  <1> QED
    BY <1>7, <1>8

\* The cut is synced before the lock is released.
LEMMA CloseSyncLog ==
    ASSUME LogInv, Log!LogAssumption, Log!CloseSync
    PROVE  LogInv'
  <1>1. PICK L \in Seq(Log!Frames) : \E at, f, g : LogShape(L, at, f, g)
    BY DEF LogInv
  <1>2. PICK at, f, g : LogShape(L, at, f, g)
    BY <1>1
  <1>3. PICK m : m = at[Len(L)]
    OBVIOUS
  <1>4. LogTyped
    BY DEF LogInv
  <1>5. /\ disk' = file /\ writer' = Log!Closed
        /\ UNCHANGED <<file, acked, corrupt, reader, served, deaths, peril>>
    BY DEF Log!CloseSync
  <1>6. writer' \in Stores /\ Place(L, m, f)'
    BY <1>5, ClosedIs
  <1>7. LogTyped'
    BY <1>4, <1>5, <1>6 DEF LogTyped, Stores
  <1> QED
    BY <1>2, <1>3, <1>4, <1>5, <1>6, <1>7, SyncMoves

\* A wrapper that dies leaves what it wrote.
LEMMA DieLog ==
    ASSUME LogInv, Log!LogAssumption, Log!Die
    PROVE  LogInv'
  <1>1. PICK L \in Seq(Log!Frames) : \E at, f, g : LogShape(L, at, f, g)
    BY DEF LogInv
  <1>2. PICK at, f, g : LogShape(L, at, f, g)
    BY <1>1
  <1>3. PICK m : m = at[Len(L)]
    OBVIOUS
  <1>4. LogTyped
    BY DEF LogInv
  <1>5. peril = "death" /\ writer' = Log!Closed /\ Log!Fault /\ UNCHANGED <<file, disk, acked, corrupt, reader, served, peril>>
    BY DEF Log!Die
  <1>6. writer' \in Stores /\ Place(L, m, f)'
    BY <1>5, ClosedIs
  <1>7. LogTyped'
    BY <1>4, <1>5, <1>6, FaultTyped DEF LogTyped, Stores
  <1> QED
    BY <1>2, <1>3, <1>4, <1>5, <1>6, <1>7, StoreMoves

-----------------------------------------------------------------------------
(* The log: the writes.                                                     *)

\* The cells from one position to another are as many as they should be.
LEMMA SpanIs ==
    ASSUME NEW m \in Nat, NEW n \in Nat, m <= n
    PROVE  Cardinality(m + 1 .. n) = n - m
  <1>1. m + 1 \in Int /\ n \in Int
    OBVIOUS
  <1>2. Cardinality(m + 1 .. n) = (IF m + 1 > n THEN 0 ELSE n - (m + 1) + 1)
    BY <1>1, FS_Interval, Zenon
  <1>3. (IF m + 1 > n THEN 0 ELSE n - (m + 1) + 1) = n - m
    OBVIOUS
  <1> QED
    BY <1>2, <1>3

\* The positions of a frame behind m.
LEMMA WithinRest ==
    ASSUME NEW m \in Nat, NEW k \in Nat, NEW p \in 1 .. k
    PROVE  p \in 1 .. (m + k + 1) - m
  OBVIOUS

\* A position behind m that is not the new one is one of before.
LEMMA BeforeLast ==
    ASSUME NEW l \in Nat, NEW m \in Nat, m <= l, NEW p \in 1 .. (l + 1) - m, p # l - m + 1
    PROVE  p \in 1 .. l - m /\ m + p \in 1 .. l
  OBVIOUS

\* One cell more of the frame that is appended.
LEMMA WroteCell ==
    ASSUME LogTyped, Log!LogAssumption, NEW L \in Seq(Log!Frames), NEW at, NEW f, NEW g, LogShape(L, at, f, g),
           NEW m, m = at[Len(L)], writer.step \in {"write", "marker"}, writer'.step # "closed",
           NEW n, n = Len(file) - m + 1, file' = file \o <<Log!Cell(f, n)>>, UNCHANGED <<disk, acked, peril>>
    PROVE  /\ Len(file') = Len(file) + 1 /\ file' \in Seq(Cells)
           /\ \A i \in 1 .. Len(file') : file'[i].part <= file'[i].frame.size + 1
           /\ \A p \in 1 .. Len(file') - m : file'[m + p] = Log!Cell(f, p)
           /\ Fits(file', L, at) /\ Rest(file', L, m, f)
           /\ Synced(L, at, f, g)' \/ Unsynced(L, m, f)'
  <1>1. /\ file \in Seq(Cells) /\ disk \in Seq(Cells) /\ Len(file) \in Nat /\ Len(disk) \in Nat /\ m \in Nat
        /\ m <= Len(file) /\ Fits(file, L, at)
        /\ Synced(L, at, f, g) \/ Unsynced(L, m, f)
        /\ Place(L, m, f)
    BY ShapeIs
  <1>2. Follows(L, f) /\ \A p \in 1 .. Len(file) - m : file[m + p] = Log!Cell(f, p)
    BY <1>1 DEF Place, Log!Appending
  <1>3. f \in Log!Frames /\ f.size \in Nat /\ f.size > 0
    BY <1>2, FollowsSize
  <1>4. Len(file) <= m + f.size /\ (writer.step = "write" => Len(file) < m + f.size)
        /\ (writer.step = "marker" => disk = file)
    BY <1>1, <1>3 DEF Place
  <1>5. n \in Nat /\ n <= f.size + 1 /\ m + n = Len(file) + 1
    BY <1>1, <1>3, <1>4
  <1>6. Log!Cell(f, n) \in Cells /\ Log!Cell(f, n).part = n /\ Log!Cell(f, n).frame = f
    BY <1>3, <1>5 DEF Cells, Log!Cell
  <1>7. /\ file' \in Seq(Cells) /\ Len(file') = Len(file) + 1 /\ file'[Len(file) + 1] = Log!Cell(f, n)
        /\ \A i \in 1 .. Len(file) : file'[i] = file[i]
    BY <1>1, <1>6
  <1>8. ASSUME NEW i \in 1 .. Len(file') PROVE file'[i].part <= file'[i].frame.size + 1
    <2>1. CASE i = Len(file) + 1
      BY <1>5, <1>6, <1>7, <2>1
    <2>2. CASE i # Len(file) + 1
      <3>1. i \in 1 .. Len(file)
        <4>1. PICK l, q : l = Len(file) /\ q = Len(file')
          OBVIOUS
        <4>2. l \in Nat /\ q = l + 1 /\ i \in 1 .. q /\ i # l + 1
          BY <1>1, <1>7, <2>2, <4>1
        <4> QED
          BY <4>1, <4>2
      <3> QED
        BY <1>7, <3>1 DEF LogTyped
    <2> QED
      BY <2>1, <2>2
  <1>9. ASSUME NEW p \in 1 .. Len(file') - m PROVE file'[m + p] = Log!Cell(f, p)
    <2>1. CASE p = n
      BY <1>5, <1>7, <2>1
    <2>2. CASE p # n
      <3>1. p \in 1 .. Len(file) - m /\ m + p \in 1 .. Len(file)
        <4>1. PICK l, q : l = Len(file) /\ q = Len(file')
          OBVIOUS
        <4>2. l \in Nat /\ q = l + 1 /\ p \in 1 .. q - m /\ p # n /\ n = l - m + 1
          BY <1>1, <1>7, <2>2, <4>1
        <4>3. m \in Nat /\ m <= l
          BY <1>1, <4>1
        <4>4. q - m = (l + 1) - m /\ n = l - m + 1
          BY <4>2, Zenon
        <4>5. p \in 1 .. q - m /\ p # n
          BY <4>2, Zenon
        <4>6. p \in 1 .. (l + 1) - m /\ p # l - m + 1
          BY <4>4, <4>5, Zenon
        <4>7. p \in 1 .. l - m /\ m + p \in 1 .. l
          BY <4>2, <4>3, <4>6, BeforeLast
        <4> QED
          BY <4>1, <4>7
      <3> QED
        BY <1>2, <1>7, <3>1
    <2> QED
      BY <2>1, <2>2
  <1>10. Fits(file', L, at)
    <2>1. at[Len(L)] <= Len(file') /\ \A i \in 1 .. at[Len(L)] : file'[i] = file[i]
      BY <1>1, <1>7
    <2> QED
      BY <1>1, <1>7, <2>1, FitsOn, Zenon
  <1>11. Rest(file', L, m, f)
    <2>1. Len(file') > m /\ Len(file') <= m + f.size + 1 /\ 1 \in 1 .. Len(file') - m
      <3>1. PICK l, q, k : l = Len(file) /\ q = Len(file') /\ k = f.size
        OBVIOUS
      <3>2. l \in Nat /\ q = l + 1 /\ k \in Nat /\ l <= m + k /\ m \in Nat /\ m <= l
        BY <1>1, <1>3, <1>4, <1>7, <3>1
      <3>3. q > m /\ q <= m + k + 1 /\ 1 \in 1 .. q - m
        BY <3>2
      <3> QED
        BY <3>1, <3>3
    <2>2. file'[m + 1].frame = f
      <3>1. file'[m + 1] = Log!Cell(f, 1)
        BY <1>9, <2>1
      <3>2. Log!Cell(f, 1).frame = f
        BY DEF Log!Cell
      <3> QED
        BY <3>1, <3>2, Zenon
    <2>3. Len(file') = m + f.size + 1 => \A p \in 1 .. f.size : file'[m + p] = Log!Cell(f, p)
      <3>1. PICK q, k : q = Len(file') /\ k = f.size
        OBVIOUS
      <3>2. k \in Nat /\ m \in Nat /\ (q = m + k + 1 => \A p \in 1 .. k : p \in 1 .. q - m)
        <4>1. k \in Nat /\ m \in Nat
          BY <1>1, <1>3, <3>1
        <4>2. \A p \in 1 .. k : p \in 1 .. (m + k + 1) - m
          BY <4>1, WithinRest
        <4> QED
          BY <4>1, <4>2, Zenon
      <3> QED
        BY <1>9, <3>1, <3>2
    <2> QED
      BY <1>2, <2>1, <2>2, <2>3 DEF Rest
  <1>12. ASSUME writer.step = "write" PROVE ~Complete(m, f)'
    BY <1>1, <1>3, <1>4, <1>7, <1>12 DEF Complete
  <1>13. SubSeq(file', 1, Len(file)) = file
    <2>1. SubSeq(file', 1, Len(file)) = SubSeq(file, 1, Len(file))
      BY <1>1, <1>7, PrefixSame
    <2> QED
      BY <1>1, <2>1, SubSeqFull
  <1>14. ASSUME Synced(L, at, f, g) PROVE Synced(L, at, f, g)'
    <2>1. ASSUME Complete(m, f)' PROVE disk = SubSeq(file', 1, Len(file') - 1)
      <3>1. disk = file /\ Len(file') - 1 = Len(file)
        BY <1>1, <1>4, <1>7, <1>12, <2>1
      <3> QED
        BY <1>13, <3>1
    <2> QED
      BY <1>14, <2>1 DEF Synced
  <1>15. ASSUME Unsynced(L, m, f) PROVE Unsynced(L, m, f)'
    <2>1. m > 0
      <3>1. Len(L) \in 1 .. Len(L) /\ Len(L) - 1 \in 0 .. Len(L) /\ L[Len(L)] \in Log!Frames
        BY <1>15 DEF Unsynced
      <3>2. at[Len(L)] = at[Len(L) - 1] + L[Len(L)].size + 1 /\ at[Len(L) - 1] \in Nat
        BY <1>1, <3>1 DEF Fits
      <3>3. L[Len(L)].size \in Nat
        BY <3>1 DEF Log!Frames, Log!LogAssumption
      <3> QED
        BY <3>2, <3>3
    <2>2. disk = SubSeq(file', 1, m - 1)
      <3>1. m - 1 \in Nat /\ m - 1 <= Len(file) /\ m - 1 <= Len(file') /\ \A i \in 1 .. m - 1 : file'[i] = file[i]
        BY <1>1, <1>7, <2>1
      <3>2. SubSeq(file', 1, m - 1) = SubSeq(file, 1, m - 1)
        BY <1>1, <1>7, <3>1, PrefixSame
      <3> QED
        BY <1>15, <3>2 DEF Unsynced
    <2>3. writer.step = "write"
      <3>1. ASSUME disk = file PROVE FALSE
        <4>1. m - 1 \in 0 .. Len(file)
          BY <1>1, <2>1
        <4>2. Len(SubSeq(file, 1, m - 1)) = m - 1
          BY <1>1, <4>1, PrefixIs
        <4> QED
          BY <1>1, <1>15, <3>1, <4>2 DEF Unsynced
      <3> QED
        BY <1>4, <3>1
    <2> QED
      BY <1>12, <1>15, <2>2, <2>3 DEF Unsynced
  <1> QED
    BY <1>1, <1>7, <1>8, <1>9, <1>10, <1>11, <1>14, <1>15

\* A cell of the data is written, perhaps the last one.
LEMMA WriteLog ==
    ASSUME LogInv, Log!LogAssumption, Log!WriteFull
    PROVE  LogInv'
  <1>1. PICK L \in Seq(Log!Frames) : \E at, f, g : LogShape(L, at, f, g)
    BY DEF LogInv
  <1>2. PICK at, f, g : LogShape(L, at, f, g)
    BY <1>1
  <1>3. PICK m : m = at[Len(L)]
    OBVIOUS
  <1>4. LogTyped
    BY DEF LogInv
  <1>5. Place(L, m, f) /\ m \in Nat /\ Log!Ordered(L) /\ Len(file) \in Nat /\ m <= Len(file)
    BY <1>2, <1>3, <1>4, ShapeIs
  <1>6. /\ writer.step = "write" /\ writer.index = L /\ writer.confirmed = m /\ writer.frame = f /\ Follows(L, f)
        /\ Len(file) < m + f.size /\ \A p \in 1 .. Len(file) - m : file[m + p] = Log!Cell(f, p)
    BY <1>5 DEF Log!WriteFull, Place, Log!Appending
  <1>7. Cardinality(Log!Written) = Len(file) - m
    <2>1. ASSUME NEW i \in m + 1 .. Len(file) PROVE file[i].frame = f
      <3>1. i - m \in 1 .. Len(file) - m /\ m + (i - m) = i
        BY <1>5
      <3>2. file[m + (i - m)] = Log!Cell(f, i - m)
        BY <1>6, <3>1
      <3>3. file[i] = Log!Cell(f, i - m)
        BY <3>1, <3>2
      <3> QED
        BY <3>3 DEF Log!Cell
    <2>2. Log!Written = m + 1 .. Len(file)
      BY <1>6, <2>1 DEF Log!Written
    <2> QED
      BY <1>5, <2>2, SpanIs
  <1>8. PICK n : n = Len(file) - m + 1
    OBVIOUS
  <1>9. PICK step : step = IF n = f.size THEN "sync" ELSE "write"
    OBVIOUS
  <1>10. /\ file' = file \o <<Log!Cell(f, n)>> /\ Log!Goto(step)
         /\ UNCHANGED <<disk, acked, corrupt, reader, served, deaths, peril>>
    BY <1>6, <1>7, <1>8, <1>9, LogCardinality DEF Log!WriteFull
  <1>11. /\ writer' \in Stores /\ writer'.step = step /\ writer'.frame = f
         /\ writer'.index = L /\ writer'.confirmed = m
    BY <1>4, <1>6, <1>9, <1>10, GotoTyped DEF Log!Steps
  <1>12. /\ Len(file') = Len(file) + 1 /\ file' \in Seq(Cells)
         /\ \A i \in 1 .. Len(file') : file'[i].part <= file'[i].frame.size + 1
         /\ \A p \in 1 .. Len(file') - m : file'[m + p] = Log!Cell(f, p)
         /\ Fits(file', L, at) /\ Rest(file', L, m, f)
         /\ Synced(L, at, f, g)' \/ Unsynced(L, m, f)'
    BY <1>2, <1>3, <1>4, <1>6, <1>8, <1>9, <1>10, <1>11, WroteCell
  <1>13. LogTyped'
    BY <1>4, <1>10, <1>11, <1>12 DEF LogTyped, Stores
  <1>14. Place(L, m, f)'
    <2>1. f.size \in Nat
      BY <1>6, FollowsSize
    <2>2. step = "write" => Len(file') < m + f.size
      BY <1>5, <1>6, <1>8, <1>9, <1>12, <2>1
    <2>3. step = "sync" => Len(file') = m + f.size
      BY <1>5, <1>6, <1>8, <1>9, <1>12, <2>1
    <2> QED
      BY <1>6, <1>9, <1>11, <1>12, <2>2, <2>3 DEF Place, Log!Appending
  <1>15. LogShape(L, at, f, g)'
    BY <1>3, <1>5, <1>12, <1>14 DEF LogShape
  <1> QED
    BY <1>13, <1>15, ShapeKept

\* The marker is written when the data is synced.
LEMMA MarkerLog ==
    ASSUME LogInv, Log!LogAssumption, Log!WriteMarker
    PROVE  LogInv'
  <1>1. PICK L \in Seq(Log!Frames) : \E at, f, g : LogShape(L, at, f, g)
    BY DEF LogInv
  <1>2. PICK at, f, g : LogShape(L, at, f, g)
    BY <1>1
  <1>3. PICK m : m = at[Len(L)]
    OBVIOUS
  <1>4. LogTyped
    BY DEF LogInv
  <1>5. Place(L, m, f) /\ m \in Nat /\ Log!Ordered(L) /\ Len(file) \in Nat /\ m <= Len(file)
    BY <1>2, <1>3, <1>4, ShapeIs
  <1>6. /\ writer.step = "marker" /\ writer.index = L /\ writer.confirmed = m /\ writer.frame = f /\ Follows(L, f)
        /\ Len(file) = m + f.size
    BY <1>5 DEF Log!WriteMarker, Place, Log!Appending
  <1>7. f.size \in Nat
    BY <1>6, FollowsSize
  <1>8. PICK n : n = Len(file) - m + 1
    OBVIOUS
  <1>9. n = f.size + 1
    BY <1>5, <1>6, <1>7, <1>8
  <1>10. /\ file' = file \o <<Log!Cell(f, n)>> /\ Log!Goto("syncmarker")
         /\ UNCHANGED <<disk, acked, corrupt, reader, served, deaths, peril>>
    BY <1>6, <1>9 DEF Log!WriteMarker
  <1>11. /\ writer' \in Stores /\ writer'.step = "syncmarker" /\ writer'.frame = f
         /\ writer'.index = L /\ writer'.confirmed = m
    BY <1>4, <1>6, <1>10, GotoTyped DEF Log!Steps
  <1>12. /\ Len(file') = Len(file) + 1 /\ file' \in Seq(Cells)
         /\ \A i \in 1 .. Len(file') : file'[i].part <= file'[i].frame.size + 1
         /\ \A p \in 1 .. Len(file') - m : file'[m + p] = Log!Cell(f, p)
         /\ Fits(file', L, at) /\ Rest(file', L, m, f)
         /\ Synced(L, at, f, g)' \/ Unsynced(L, m, f)'
    BY <1>2, <1>3, <1>4, <1>6, <1>8, <1>10, <1>11, WroteCell
  <1>13. LogTyped'
    BY <1>4, <1>10, <1>11, <1>12 DEF LogTyped, Stores
  <1>14. Place(L, m, f)'
    <2>1. Complete(m, f)'
      BY <1>5, <1>6, <1>7, <1>12 DEF Complete
    <2> QED
      BY <1>6, <1>11, <1>12, <2>1 DEF Place, Log!Appending
  <1>15. LogShape(L, at, f, g)'
    BY <1>3, <1>5, <1>12, <1>14 DEF LogShape
  <1> QED
    BY <1>13, <1>15, ShapeKept

\* A frame is acknowledged when it is in the file and synced.
LEMMA PublishLog ==
    ASSUME LogInv, Log!LogAssumption, Log!Publish
    PROVE  LogInv'
  <1>1. PICK L \in Seq(Log!Frames) : \E at, f, g : LogShape(L, at, f, g)
    BY DEF LogInv
  <1>2. PICK at, f, g : LogShape(L, at, f, g)
    BY <1>1
  <1>3. PICK m : m = at[Len(L)]
    OBVIOUS
  <1>4. LogTyped
    BY DEF LogInv
  <1>5. /\ file \in Seq(Cells) /\ Len(file) \in Nat /\ m \in Nat /\ m <= Len(file) /\ Fits(file, L, at) /\ Log!Ordered(L)
        /\ Place(L, m, f) /\ \A h \in acked : h \in Log!Frames /\ h.cursor \in 1 .. Len(L) /\ L[h.cursor] = h
    BY <1>2, <1>3, <1>4, ShapeIs
  <1>6. /\ writer.step = "publish" /\ writer.index = L /\ writer.confirmed = m /\ writer.frame = f /\ Follows(L, f)
        /\ Complete(m, f) /\ disk = file /\ \A p \in 1 .. Len(file) - m : file[m + p] = Log!Cell(f, p)
    BY <1>5 DEF Log!Publish, Place, Log!Appending
  <1>7. f \in Log!Frames /\ f.size \in Nat /\ f.size > 0
    BY <1>6, FollowsSize
  <1>8. Len(file) = m + f.size + 1
    BY <1>6 DEF Complete
  <1>9. PICK K : K = Append(L, f)
    OBVIOUS
  <1>10. /\ K \in Seq(Log!Frames) /\ Len(K) = Len(L) + 1 /\ Len(L) \in Nat /\ K[Len(L) + 1] = f
         /\ \A i \in 1 .. Len(L) : K[i] = L[i]
    BY <1>7, <1>9
  <1>11. PICK to : Fits(file, K, to) /\ to[Len(K)] = Len(file)
    <2>1. Len(file) >= at[Len(L)] + f.size + 1 /\ \A p \in 1 .. f.size + 1 : file[at[Len(L)] + p] = Log!Cell(f, p)
      <3>1. Len(file) - m = f.size + 1 /\ Len(file) >= m + f.size + 1
        BY <1>5, <1>7, <1>8
      <3> QED
        BY <1>3, <1>6, <3>1
    <2>2. file \in Seq(Cells) /\ Fits(file, L, at) /\ f \in Log!Frames
      BY <1>5, <1>7
    <2>3. \E to : Fits(file, Append(L, f), to) /\ to[Len(Append(L, f))] = at[Len(L)] + f.size + 1
      BY <2>1, <2>2, FitsMore, Zenon
    <2> QED
      BY <1>3, <1>8, <1>9, <2>3
  <1>12. /\ acked' = acked \cup {f} /\ UNCHANGED <<file, disk, corrupt, reader, served, deaths, peril>>
         /\ writer' = [writer EXCEPT !.step = "ready", !.frame = Log!NoFrame, !.confirmed = Len(file), !.index = K]
    BY <1>6, <1>8, <1>9 DEF Log!Publish
  <1>13. writer' \in Stores /\ writer'.step = "ready" /\ writer'.index = K /\ writer'.confirmed = Len(file)
    BY <1>4, <1>5, <1>10, <1>12 DEF LogTyped, Stores, Log!Steps
  <1>14. LogTyped'
    BY <1>4, <1>7, <1>12, <1>13 DEF LogTyped, Stores
  <1>15. \A h \in acked' : h.cursor <= Len(K) /\ K[h.cursor] = h
    <2>1. f.cursor = Len(K) /\ K[f.cursor] = f
      BY <1>6, <1>10 DEF Follows
    <2>2. \A h \in acked : h.cursor <= Len(K) /\ K[h.cursor] = h
      BY <1>5, <1>10
    <2> QED
      BY <1>10, <1>12, <2>1, <2>2
  <1>16. Rest(file, K, Len(file), f) /\ ~Complete(Len(file), f)'
    BY <1>5, <1>12 DEF Rest, Complete
  <1>17. Synced(K, to, f, f)'
    BY <1>6, <1>11, <1>12, <1>15, <1>16 DEF Synced
  <1>18. Place(K, Len(file), f)'
    BY <1>12, <1>13 DEF Place, Log!Appending
  <1>19. Log!Ordered(K)
    BY <1>5, <1>6, <1>9, FollowsOrdered
  <1>20. LogShape(K, to, f, f)'
    BY <1>11, <1>12, <1>16, <1>17, <1>18, <1>19 DEF LogShape
  <1> QED
    BY <1>10, <1>14, <1>20, ShapeKept

-----------------------------------------------------------------------------
(* The log: the readers.                                                    *)

\* A reader changes nothing, and what it serves are frames.
LEMMA ReadLog ==
    ASSUME LogInv, Log!LogAssumption, NEW r \in Tails, Log!Snapshot(r) \/ Log!Read(r)
    PROVE  LogInv'
  <1>1. PICK L \in Seq(Log!Frames) : \E at, f, g : LogShape(L, at, f, g)
    BY DEF LogInv
  <1>2. PICK at, f, g : LogShape(L, at, f, g)
    BY <1>1
  <1>3. PICK m : m = at[Len(L)]
    OBVIOUS
  <1>4. LogTyped
    BY DEF LogInv
  <1>5. Place(L, m, f) /\ file \in Seq(Cells) /\ Len(file) \in Nat
    BY <1>2, <1>3, <1>4, ShapeIs
  <1>6. UNCHANGED <<file, disk, writer, acked, corrupt, deaths, peril>>
    BY DEF Log!Snapshot, Log!Read
  <1>7. reader' \in [Tails -> [step : {"idle", "scan"}, size : Nat]]
    <2>1. reader \in [Tails -> [step : {"idle", "scan"}, size : Nat]]
      BY <1>4 DEF LogTyped
    <2>2. PICK l : l = Len(file)
      OBVIOUS
    <2>3. \/ reader' = [reader EXCEPT ![r] = [step |-> "scan", size |-> l]]
          \/ reader' = [reader EXCEPT ![r] = [step |-> "idle", size |-> 0]]
      BY <2>2 DEF Log!Snapshot, Log!Read
    <2>4. l \in Nat
      BY <1>5, <2>2
    <2>5. [step |-> "scan", size |-> l] \in [step : {"idle", "scan"}, size : Nat]
      BY <2>4
    <2>6. [step |-> "idle", size |-> 0] \in [step : {"idle", "scan"}, size : Nat]
      OBVIOUS
    <2>7. PICK d : d \in [step : {"idle", "scan"}, size : Nat] /\ reader' = [reader EXCEPT ![r] = d]
      BY <2>3, <2>5, <2>6, Zenon
    <2> QED
      BY <2>1, <2>7
  <1>8. served' \subseteq Log!Frames
    <2>1. CASE Log!Read(r)
      <3>1. PICK size : size = reader[r].size
        OBVIOUS
      <3>2. size \in Nat
        BY <1>4, <3>1 DEF LogTyped
      <3>3. CASE Len(file) < size
        BY <1>4, <1>5, <2>1, <3>1, <3>2, <3>3 DEF Log!Read, LogTyped
      <3>4. CASE Len(file) >= size
        <4>1. size \in 0 .. Len(file)
          BY <1>5, <3>2, <3>4
        <4>2. SubSeq(file, 1, size) \in Seq(Cells)
          BY <1>5, <4>1, PrefixIs
        <4>3. PICK scan : scan = Log!ScanFramePage(SubSeq(file, 1, size))
          OBVIOUS
        <4>4. scan.frames \in Seq(Log!Frames)
          BY <4>2, <4>3, ScanTyped DEF ScanResults
        <4>5. {scan.frames[i] : i \in DOMAIN scan.frames} \subseteq Log!Frames
          BY <4>4
        <4>6. served' = served \cup (IF scan.verdict \in {"whole", "tail"}
                                     THEN {scan.frames[i] : i \in DOMAIN scan.frames} ELSE {})
          BY <1>5, <2>1, <3>1, <3>2, <3>4, <4>3 DEF Log!Read
        <4> QED
          BY <1>4, <4>5, <4>6 DEF LogTyped
      <3> QED
        BY <1>5, <3>2, <3>3, <3>4
    <2>2. CASE Log!Snapshot(r)
      BY <1>4, <2>2 DEF Log!Snapshot, LogTyped
    <2> QED
      BY <2>1, <2>2
  <1>9. LogTyped'
    BY <1>4, <1>6, <1>7, <1>8 DEF LogTyped
  <1>10. Place(L, m, f)'
    BY <1>5, <1>6 DEF Place, Complete, Log!Appending
  <1> QED
    BY <1>2, <1>3, <1>4, <1>6, <1>9, <1>10, StoreMoves

-----------------------------------------------------------------------------
(* The log: what a power loss leaves of the frames.                         *)

\* A frame has data.
LEMMA FrameSize ==
    ASSUME NEW f \in Log!Frames, Log!LogAssumption
    PROVE  f.size \in Nat /\ f.size > 0
  <1>1. f.size \in Sizes /\ \A x \in Sizes : x \in Nat /\ x > 0
    BY DEF Log!Frames, Log!LogAssumption
  <1> QED
    BY <1>1

\* Cells that begin with the same frames are the same as far as those go.
LEMMA FitsAgree ==
    ASSUME NEW cells \in Seq(Cells), NEW more \in Seq(Cells), NEW L \in Seq(Log!Frames), NEW at,
           Fits(cells, L, at), Fits(more, L, at), Log!LogAssumption
    PROVE  \A i \in 1 .. at[Len(L)] : cells[i] = more[i]
  <1> DEFINE n == Len(L)
             Same(k) == \A i \in 1 .. at[k] : cells[i] = more[i]
             S == {k \in 0 .. n : Same(k)}
  <1>0. n \in Nat /\ at[0] = 0 /\ at \in [0 .. n -> Nat]
    BY DEF Fits
  <1>1. 0 \in S
    BY <1>0
  <1>2. PICK k \in S : \A l \in S : l <= k
    <2>1. S \in SUBSET (0 .. n)
      OBVIOUS
    <2> HIDE DEF S, n
    <2> QED
      BY <1>0, <1>1, <2>1, LastOf
  <1>3. k \in 0 .. n /\ Same(k)
    BY <1>2
  <1>4. ASSUME k # n PROVE FALSE
    <2>1. k + 1 \in 1 .. n /\ k + 1 \in 0 .. n /\ (k + 1) - 1 = k
      BY <1>0, <1>3, <1>4
    <2>2. PICK x, a, b : x = L[k + 1] /\ a = at[k] /\ b = at[k + 1]
      OBVIOUS
    <2>3. x.size \in Nat /\ a \in Nat /\ b \in Nat
      <3>1. x \in Log!Frames
        BY <2>1, <2>2
      <3>2. a \in Nat /\ b \in Nat
        BY <1>0, <1>3, <2>1, <2>2
      <3> QED
        BY <3>1, <3>2, FrameSize
    <2>4. b = a + x.size + 1 /\ \A p \in 1 .. x.size + 1 : cells[a + p] = Log!Cell(x, p) /\ more[a + p] = Log!Cell(x, p)
      BY <2>1, <2>2 DEF Fits
    <2>5. ASSUME NEW i \in 1 .. b PROVE cells[i] = more[i]
      <3>1. CASE i <= a
        <4>1. i \in 1 .. a
          BY <2>3, <3>1
        <4> QED
          BY <1>3, <2>2, <4>1
      <3>2. CASE ~(i <= a)
        <4>1. i - a \in 1 .. x.size + 1 /\ a + (i - a) = i
          BY <2>3, <2>4, <3>2
        <4>2. cells[a + (i - a)] = Log!Cell(x, i - a) /\ more[a + (i - a)] = Log!Cell(x, i - a)
          BY <2>4, <4>1
        <4> QED
          BY <4>1, <4>2
      <3> QED
        BY <3>1, <3>2
    <2>6. k + 1 \in S
      BY <2>1, <2>2, <2>5
    <2>7. k + 1 <= k
      BY <1>2, <2>6
    <2> QED
      BY <1>0, <1>3, <2>7
  <1> QED
    BY <1>3, <1>4

\* The cells that a power loss leaves are cells.
LEMMA OutcomeTyped ==
    ASSUME LogTyped, Log!LogAssumption, NEW cells \in Log!Outcomes
    PROVE  cells \in Seq(Cells) /\ \A i \in 1 .. Len(cells) : cells[i].part <= cells[i].frame.size + 1
  <1>1. file \in Seq(Cells) /\ disk \in Seq(Cells)
    BY DEF LogTyped
  <1>2. PICK src \in {file, disk} :
            /\ cells \in Seq(Cells) /\ Len(cells) \in Log!Common .. Len(src)
            /\ \A i \in 1 .. Len(cells) :
                   \/ cells[i] = src[i]
                   \/ src = file /\ i > Log!Common /\ cells[i] = Log!Cell(src[i].frame, 0)
    BY <1>1, OutcomeIs
  <1>3. src \in Seq(Cells) /\ \A i \in 1 .. Len(src) : src[i].part <= src[i].frame.size + 1
    BY <1>1 DEF LogTyped
  <1>4. ASSUME NEW i \in 1 .. Len(cells) PROVE cells[i].part <= cells[i].frame.size + 1
    <2>1. i \in 1 .. Len(src)
      <3>1. PICK n, k : n = Len(cells) /\ k = Len(src)
        OBVIOUS
      <3>2. n \in Nat /\ k \in Nat /\ n <= k
        <4>1. Log!Common \in Nat
          BY <1>1, CommonIs
        <4> QED
          BY <1>2, <1>3, <3>1, <4>1
      <3> QED
        BY <3>1, <3>2
    <2>2. CASE cells[i] = src[i]
      BY <1>3, <2>1, <2>2
    <2>3. CASE cells[i] = Log!Cell(src[i].frame, 0)
      <3>1. src[i].frame \in Log!Frames
        BY <1>3, <2>1, CellAt
      <3>2. cells[i].part = 0 /\ cells[i].frame = src[i].frame
        BY <2>3 DEF Log!Cell
      <3>3. src[i].frame.size \in Nat
        BY <3>1, FrameSize
      <3> QED
        BY <3>2, <3>3
    <2> QED
      BY <1>2, <2>2, <2>3
  <1> QED
    BY <1>2, <1>4

\* What is synced is there whatever is lost, and behind it at most a part of one frame.
LEMMA OutcomeRest ==
    ASSUME LogTyped, Log!LogAssumption, NEW L \in Seq(Log!Frames), NEW at, NEW f, NEW g, LogShape(L, at, f, g),
           Synced(L, at, f, g), NEW m, m = at[Len(L)], NEW cells \in Log!Outcomes
    PROVE  Fits(cells, L, at) /\ \E e \in {f, g} : Rest(cells, L, m, e)
  <1>1. /\ file \in Seq(Cells) /\ disk \in Seq(Cells) /\ Len(file) \in Nat /\ Len(disk) \in Nat /\ m \in Nat
        /\ m <= Len(file) /\ Fits(file, L, at) /\ Rest(file, L, m, f)
    BY ShapeIs
  <1>2. Fits(disk, L, at) /\ Rest(disk, L, m, g) /\ m <= Len(disk)
    BY <1>1, EndIs DEF Synced
  <1>3. PICK src \in {file, disk} :
            /\ cells \in Seq(Cells) /\ Len(cells) \in Log!Common .. Len(src)
            /\ \A i \in 1 .. Len(cells) :
                   \/ cells[i] = src[i]
                   \/ src = file /\ i > Log!Common /\ cells[i] = Log!Cell(src[i].frame, 0)
    BY <1>1, OutcomeIs
  <1>4. PICK c : c = Log!Common
    OBVIOUS
  <1>5. /\ c \in Nat
        /\ \A k \in 0 .. Len(disk) : k <= Len(file) /\ (\A i \in 1 .. k : file[i] = disk[i]) => k <= c
    BY <1>1, <1>4, CommonIs
  <1>6. m <= c
    <2>1. \A i \in 1 .. m : file[i] = disk[i]
      BY <1>1, <1>2, FitsAgree
    <2> QED
      BY <1>1, <1>2, <1>5, <2>1
  <1>7. PICK n : n = Len(cells)
    OBVIOUS
  <1>8. n \in Nat /\ c <= n /\ n <= Len(src)
    BY <1>3, <1>4, <1>5, <1>7
  <1>9. Fits(cells, L, at)
    <2>1. ASSUME NEW i \in 1 .. m PROVE cells[i] = src[i]
      <3>1. i \in 1 .. n /\ ~(i > c)
        BY <1>1, <1>5, <1>6, <1>8
      <3> QED
        BY <1>3, <1>4, <1>7, <3>1
    <2>2. src \in Seq(Cells) /\ Fits(src, L, at) /\ at[Len(L)] <= Len(cells)
      BY <1>1, <1>2, <1>5, <1>6, <1>7, <1>8
    <2>3. cells \in Seq(Cells) /\ \A i \in 1 .. at[Len(L)] : cells[i] = src[i]
      BY <1>3, <2>1
    <2> QED
      BY <2>2, <2>3, FitsOn, Zenon
  <1>10. CASE n = m
    BY <1>7, <1>9, <1>10 DEF Rest
  <1>11. CASE n # m
    <2>1. n > m /\ m + 1 \in 1 .. n
      BY <1>1, <1>5, <1>6, <1>8, <1>11
    <2>2. CASE src = disk
      <3>1. Len(disk) # m
        BY <1>1, <1>8, <2>1, <2>2
      <3>2. /\ Follows(L, g) /\ Len(disk) <= m + g.size + 1 /\ disk[m + 1].frame = g
            /\ Len(disk) = m + g.size + 1 => \A p \in 1 .. g.size : disk[m + p] = Log!Cell(g, p)
        BY <1>2, <3>1 DEF Rest
      <3>3. g.size \in Nat
        BY <3>2, FollowsSize
      <3>4. PICK k : k = g.size
        OBVIOUS
      <3>5. n <= m + k + 1 /\ (n = m + k + 1 => Len(disk) = m + k + 1 /\ \A p \in 1 .. k : m + p \in 1 .. n)
        BY <1>1, <1>8, <2>2, <3>2, <3>3, <3>4
      <3>6. ASSUME NEW i \in 1 .. n PROVE cells[i] = disk[i]
        <4>1. src = file => disk = file
          BY <2>2
        <4>2. CASE src # file
          BY <1>3, <1>7, <2>2, <3>6, <4>2
        <4>3. CASE src = file
          <5>1. Len(disk) <= c
            BY <1>1, <1>5, <2>2, <4>3
          <5>2. ~(i > c)
            BY <1>1, <1>5, <1>8, <2>2, <3>6, <5>1
          <5> QED
            BY <1>3, <1>4, <1>7, <2>2, <3>6, <5>2
        <4> QED
          BY <4>2, <4>3
      <3>7. cells[m + 1].frame = g
        BY <2>1, <3>2, <3>6
      <3>8. n = m + k + 1 => \A p \in 1 .. k : cells[m + p] = Log!Cell(g, p)
        BY <3>2, <3>4, <3>5, <3>6
      <3>9. Rest(cells, L, m, g)
        BY <1>7, <2>1, <3>2, <3>4, <3>5, <3>7, <3>8 DEF Rest
      <3> QED
        BY <1>9, <3>9
    <2>3. CASE src = file
      <3>1. Len(file) # m
        BY <1>1, <1>8, <2>1, <2>3
      <3>2. /\ Follows(L, f) /\ Len(file) > m /\ Len(file) <= m + f.size + 1 /\ file[m + 1].frame = f
            /\ Len(file) = m + f.size + 1 => \A p \in 1 .. f.size : file[m + p] = Log!Cell(f, p)
        BY <1>1, <3>1 DEF Rest
      <3>3. f.size \in Nat
        BY <3>2, FollowsSize
      <3>4. PICK k : k = f.size
        OBVIOUS
      <3>5. n <= m + k + 1 /\ (n = m + k + 1 => Len(file) = m + k + 1 /\ \A p \in 1 .. k : m + p \in 1 .. n)
        BY <1>1, <1>8, <2>3, <3>2, <3>3, <3>4
      <3>6. cells[m + 1].frame = f
        <4>1. cells[m + 1] = file[m + 1] \/ cells[m + 1] = Log!Cell(file[m + 1].frame, 0)
          BY <1>3, <1>7, <2>1, <2>3
        <4>2. Log!Cell(file[m + 1].frame, 0).frame = file[m + 1].frame
          BY DEF Log!Cell
        <4> QED
          BY <3>2, <4>1, <4>2
      <3>7. ASSUME n = m + k + 1, NEW p \in 1 .. k PROVE cells[m + p] = Log!Cell(f, p)
        <4>1. Complete(m, f)
          BY <3>2, <3>4, <3>5, <3>7 DEF Complete
        <4>2. disk = file \/ disk = SubSeq(file, 1, Len(file) - 1)
          BY <4>1 DEF Synced
        <4>3. PICK l : l = Len(file)
          OBVIOUS
        <4>4. l = m + k + 1 /\ l - 1 \in 0 .. l /\ l - 1 = m + k
          <5>1. m \in Nat /\ k \in Nat /\ l = m + k + 1
            BY <1>1, <3>3, <3>4, <3>5, <3>7, <4>3, Zenon
          <5> QED
            BY <5>1
        <4>5. Len(SubSeq(file, 1, l - 1)) = l - 1 /\ \A i \in 1 .. l - 1 : SubSeq(file, 1, l - 1)[i] = file[i]
          BY <1>1, <4>3, <4>4, PrefixIs
        <4>6. l - 1 \in 0 .. Len(disk) /\ \A i \in 1 .. l - 1 : file[i] = disk[i]
          <5>1. CASE disk = file
            BY <1>1, <4>3, <4>4, <5>1
          <5>2. CASE disk = SubSeq(file, 1, l - 1)
            BY <1>1, <4>3, <4>4, <4>5, <5>2
          <5> QED
            BY <4>2, <4>3, <5>1, <5>2
        <4>7. l - 1 <= c
          BY <1>1, <1>5, <4>3, <4>4, <4>6
        <4>8. m + p \in 1 .. n /\ ~(m + p > c)
          <5>1. k \in Nat
            BY <3>3, <3>4
          <5>2. m + p <= m + k
            BY <1>1, <5>1
          <5> QED
            BY <1>1, <1>5, <3>5, <3>7, <4>4, <4>7, <5>1, <5>2
        <4>9. cells[m + p] = file[m + p]
          BY <1>3, <1>4, <1>7, <2>3, <4>8
        <4> QED
          BY <3>2, <3>4, <3>5, <3>7, <4>9
      <3>8. Rest(cells, L, m, f)
        BY <1>7, <2>1, <3>2, <3>4, <3>5, <3>6, <3>7 DEF Rest
      <3> QED
        BY <1>9, <3>8
    <2> QED
      BY <2>2, <2>3
  <1> QED
    BY <1>10, <1>11

\* A power loss keeps what was synced.
LEMMA PowerLog ==
    ASSUME LogInv, Log!LogAssumption, Log!PowerLoss
    PROVE  LogInv'
  <1>1. PICK L \in Seq(Log!Frames) : \E at, f, g : LogShape(L, at, f, g)
    BY DEF LogInv
  <1>2. PICK at, f, g : LogShape(L, at, f, g)
    BY <1>1
  <1>3. PICK m : m = at[Len(L)]
    OBVIOUS
  <1>4. LogTyped
    BY DEF LogInv
  <1>5. /\ Log!Ordered(L) /\ (Synced(L, at, f, g) \/ Unsynced(L, m, f))
        /\ \A h \in acked : h \in Log!Frames /\ h.cursor \in 1 .. Len(L) /\ L[h.cursor] = h
    BY <1>2, <1>3, <1>4, ShapeIs
  <1>6. PICK cells \in Log!Outcomes : file' = cells
    BY DEF Log!PowerLoss
  <1>7. /\ peril = "power" /\ disk' = cells /\ writer' = Log!Closed /\ Log!Fault
        /\ reader' = [r \in Tails |-> [step |-> "idle", size |-> 0]] /\ UNCHANGED <<acked, corrupt, served, peril>>
    BY <1>6 DEF Log!PowerLoss
  <1>8. Synced(L, at, f, g)
    BY <1>2, <1>3, <1>7 DEF LogShape, Unsynced
  <1>9. Fits(cells, L, at) /\ \E e \in {f, g} : Rest(cells, L, m, e)
    BY <1>2, <1>3, <1>4, <1>8, OutcomeRest
  <1>10. PICK e : Rest(cells, L, m, e)
    BY <1>9
  <1>11. cells \in Seq(Cells) /\ \A i \in 1 .. Len(cells) : cells[i].part <= cells[i].frame.size + 1
    BY <1>4, OutcomeTyped
  <1>12. writer' \in Stores /\ Place(L, m, e)'
    BY <1>7, ClosedIs
  <1>13. LogTyped'
    <2>1. reader' \in [Tails -> [step : {"idle", "scan"}, size : Nat]]
      BY <1>7
    <2> QED
      BY <1>4, <1>6, <1>7, <1>11, <1>12, <2>1, FaultTyped DEF LogTyped, Stores
  <1>14. Synced(L, at, e, e)'
    <2>1. \A h \in acked' : h.cursor <= Len(L) /\ L[h.cursor] = h
      BY <1>5, <1>7
    <2> QED
      BY <1>3, <1>6, <1>7, <1>9, <1>10, <2>1 DEF Synced
  <1>15. Log!Ordered(L)
    BY <1>2 DEF LogShape
  <1>16. LogShape(L, at, e, e)'
    BY <1>3, <1>6, <1>9, <1>10, <1>12, <1>14, <1>15 DEF LogShape
  <1> QED
    BY <1>13, <1>16, ShapeKept

-----------------------------------------------------------------------------
(* The log: what the invariant implies.                                     *)

\* Unsynced, the last marker may be lost, and the last frame with it, but no other.
LEMMA OutcomeUnsynced ==
    ASSUME LogTyped, Log!LogAssumption, NEW L \in Seq(Log!Frames), NEW at, NEW f, NEW g, LogShape(L, at, f, g),
           NEW m, m = at[Len(L)], Unsynced(L, m, f), NEW cells \in Log!Outcomes
    PROVE  \/ Fits(cells, L, at) /\ Rest(cells, L, m, f)
           \/ \E A \in Seq(Log!Frames) : /\ Len(A) = Len(L) - 1 /\ \A i \in 1 .. Len(A) : A[i] = L[i]
                                     /\ Log!ScanFramePage(cells).frames = A
  <1>1. /\ file \in Seq(Cells) /\ disk \in Seq(Cells) /\ Len(file) \in Nat /\ Len(disk) \in Nat /\ m \in Nat
        /\ m <= Len(file) /\ Log!Ordered(L) /\ Fits(file, L, at) /\ Rest(file, L, m, f)
    BY ShapeIs
  <1>2. Len(L) > 0 /\ disk = SubSeq(file, 1, m - 1) /\ ~Complete(m, f)
    BY DEF Unsynced
  <1>3. PICK src \in {file, disk} :
            /\ cells \in Seq(Cells) /\ Len(cells) \in Log!Common .. Len(src)
            /\ \A i \in 1 .. Len(cells) :
                   \/ cells[i] = src[i]
                   \/ src = file /\ i > Log!Common /\ cells[i] = Log!Cell(src[i].frame, 0)
    BY <1>1, OutcomeIs
  <1>4. PICK A \in Seq(Log!Frames) : \E to :
            /\ Len(A) = Len(L) - 1 /\ \A i \in 1 .. Len(A) : A[i] = L[i]
            /\ Fits(file, A, to) /\ to[Len(A)] = at[Len(L) - 1]
    BY <1>1, <1>2, FitsLess
  <1>5. PICK to :
            /\ Len(A) = Len(L) - 1 /\ \A i \in 1 .. Len(A) : A[i] = L[i]
            /\ Fits(file, A, to) /\ to[Len(A)] = at[Len(L) - 1]
    BY <1>4
  <1>6. PICK x, a : x = L[Len(L)] /\ a = at[Len(L) - 1]
    OBVIOUS
  <1>7. x \in Log!Frames /\ x.size \in Nat /\ x.size > 0
    <2>1. Len(L) \in 1 .. Len(L)
      BY <1>2
    <2>2. x \in Log!Frames
      BY <1>6, <2>1
    <2> QED
      BY <2>2, FrameSize
  <1>8. a \in Nat /\ m = a + x.size + 1 /\ \A p \in 1 .. x.size + 1 : file[a + p] = Log!Cell(x, p)
    <2>1. Len(L) \in 1 .. Len(L) /\ Len(L) - 1 \in 0 .. Len(L)
      BY <1>2
    <2>2. a \in Nat
      BY <1>1, <1>6, <2>1 DEF Fits
    <2>3. m = a + x.size + 1 /\ \A p \in 1 .. x.size + 1 : file[a + p] = Log!Cell(x, p)
      BY <1>1, <1>6, <2>1 DEF Fits
    <2> QED
      BY <2>2, <2>3
  <1>9. PICK k : k = x.size
    OBVIOUS
  <1>10. k \in Nat /\ k > 0 /\ m = a + k + 1 /\ m - 1 \in Nat /\ m - 1 = a + k /\ a + (k + 1) = m
    BY <1>1, <1>7, <1>8, <1>9
  <1>11. Len(disk) = m - 1 /\ \A i \in 1 .. m - 1 : disk[i] = file[i]
    <2>1. m - 1 \in 0 .. Len(file)
      BY <1>1, <1>10
    <2> QED
      BY <1>1, <1>2, <2>1, PrefixIs
  <1>12. PICK c : c = Log!Common
    OBVIOUS
  <1>13. c \in Nat /\ m - 1 <= c
    <2>1. /\ c \in Nat
          /\ \A j \in 0 .. Len(disk) : j <= Len(file) /\ (\A i \in 1 .. j : file[i] = disk[i]) => j <= c
      BY <1>1, <1>12, CommonIs
    <2>2. m - 1 \in 0 .. Len(disk) /\ m - 1 <= Len(file)
      BY <1>1, <1>10, <1>11
    <2> QED
      BY <1>11, <2>1, <2>2
  <1>14. PICK n : n = Len(cells)
    OBVIOUS
  <1>15. n \in Nat /\ m - 1 <= n /\ n <= Len(src)
    <2>1. n \in c .. Len(src) /\ Len(src) \in Nat
      BY <1>1, <1>3, <1>12, <1>14
    <2> QED
      BY <1>10, <1>13, <2>1
  <1>16. ASSUME NEW i \in 1 .. m - 1 PROVE cells[i] = file[i]
    <2>1. i \in 1 .. n /\ ~(i > c)
      BY <1>10, <1>13, <1>15
    <2>2. cells[i] = src[i]
      BY <1>3, <1>12, <1>14, <2>1
    <2> QED
      BY <1>11, <2>2
  <1>17. ASSUME n > m - 1 PROVE src = file /\ n >= m /\ n <= Len(file)
    BY <1>1, <1>10, <1>11, <1>15, <1>17
  <1>18. CASE n >= m /\ cells[m] = Log!Cell(x, k + 1)
    <2>1. src = file /\ n <= Len(file)
      BY <1>1, <1>17, <1>15, <1>18
    <2>2. file[m] = Log!Cell(x, k + 1)
      <3>1. k + 1 \in 1 .. k + 1
        BY <1>10
      <3>2. file[a + (k + 1)] = Log!Cell(x, k + 1)
        BY <1>8, <1>9, <3>1
      <3> QED
        BY <1>10, <3>2
    <2>3. ASSUME NEW i \in 1 .. m PROVE cells[i] = file[i]
      <3>1. CASE i = m
        BY <1>18, <2>2, <3>1
      <3>2. CASE i # m
        <4>1. i \in 1 .. m - 1
          BY <1>1, <3>2
        <4> QED
          BY <1>16, <4>1
      <3> QED
        BY <3>1, <3>2
    <2>4. Fits(cells, L, at)
      <3>1. at[Len(L)] <= Len(cells) /\ \A i \in 1 .. at[Len(L)] : cells[i] = file[i]
        BY <1>14, <1>18, <2>3
      <3>2. file \in Seq(Cells) /\ Fits(file, L, at) /\ cells \in Seq(Cells)
        BY <1>1, <1>3
      <3> QED
        BY <3>1, <3>2, FitsOn, Zenon
    <2>5. Rest(cells, L, m, f)
      <3>1. CASE n = m
        BY <1>14, <3>1 DEF Rest
      <3>2. CASE n # m
        <4>1. n > m /\ m + 1 \in 1 .. n /\ Len(file) > m
          BY <1>1, <1>15, <1>18, <2>1, <3>2
        <4>2. Follows(L, f) /\ Len(file) <= m + f.size + 1 /\ file[m + 1].frame = f
          BY <1>1, <4>1 DEF Rest
        <4>3. Len(file) # m + f.size + 1
          BY <1>2, <4>1 DEF Complete
        <4>4. PICK l, s : l = Len(file) /\ s = f.size
          OBVIOUS
        <4>5. s \in Nat /\ l \in Nat /\ l <= m + s + 1 /\ l # m + s + 1 /\ n <= l
          BY <1>1, <2>1, <4>2, <4>3, <4>4, FollowsSize
        <4>6. n <= m + s + 1 /\ n # m + s + 1
          BY <1>1, <1>15, <4>5
        <4>7. cells[m + 1].frame = f
          <5>1. cells[m + 1] = file[m + 1] \/ cells[m + 1] = Log!Cell(file[m + 1].frame, 0)
            BY <1>3, <1>14, <2>1, <4>1
          <5>2. Log!Cell(file[m + 1].frame, 0).frame = file[m + 1].frame
            BY DEF Log!Cell
          <5> QED
            BY <4>2, <5>1, <5>2
        <4> QED
          BY <1>14, <4>1, <4>2, <4>4, <4>6, <4>7 DEF Rest
      <3> QED
        BY <3>1, <3>2
    <2> QED
      BY <2>4, <2>5
  <1>19. CASE ~(n >= m /\ cells[m] = Log!Cell(x, k + 1))
    <2>1. Fits(cells, A, to) /\ Log!Ordered(A) /\ to[Len(A)] = a
      <3>1. to[Len(A)] <= Len(cells) /\ \A i \in 1 .. to[Len(A)] : cells[i] = file[i]
        <4>1. to[Len(A)] = a
          BY <1>5, <1>6
        <4>2. a <= n /\ \A i \in 1 .. a : i \in 1 .. m - 1
          BY <1>8, <1>10, <1>15
        <4> QED
          BY <1>14, <1>16, <4>1, <4>2
      <3>2. file \in Seq(Cells) /\ Fits(file, A, to) /\ cells \in Seq(Cells)
        BY <1>1, <1>3, <1>5
      <3>3. Fits(cells, A, to)
        BY <3>1, <3>2, FitsOn, Zenon
      <3>4. Len(A) <= Len(L)
        BY <1>5
      <3>5. Log!Ordered(A)
        BY <1>1, <1>5, <3>4, FewerOrdered
      <3> QED
        BY <1>5, <1>6, <3>3, <3>5
    <2>2. cells[a + 1].frame = x /\ \A p \in 1 .. k : cells[a + p] = Log!Cell(x, p)
      <3>1. ASSUME NEW p \in 1 .. k PROVE cells[a + p] = Log!Cell(x, p)
        <4>1. a + p \in 1 .. m - 1 /\ p \in 1 .. k + 1
          BY <1>8, <1>10
        <4>2. file[a + p] = Log!Cell(x, p)
          BY <1>8, <1>9, <4>1
        <4> QED
          BY <1>16, <4>1, <4>2
      <3>2. 1 \in 1 .. k
        BY <1>10
      <3>3. cells[a + 1] = Log!Cell(x, 1)
        BY <3>1, <3>2
      <3>4. Log!Cell(x, 1).frame = x
        BY DEF Log!Cell
      <3> QED
        BY <3>1, <3>3, <3>4, Zenon
    <2>3. PICK v : Log!Walk(cells)[a] = Log!Stop(a, v)
      <3>1. CASE n >= m
        <4>1. cells[a + x.size + 1] # Log!Cell(x, x.size + 1) /\ Len(cells) >= a + x.size + 1
          BY <1>8, <1>9, <1>14, <1>19, <3>1
        <4>2. \A p \in 1 .. x.size : cells[a + p] = Log!Cell(x, p)
          BY <1>9, <2>2
        <4>3. Log!Walk(cells)[a] = Log!Stop(a, IF a + x.size + 1 = Len(cells) THEN "torn" ELSE "corrupt")
          BY <1>3, <1>7, <1>8, <2>2, <4>1, <4>2, StopsTorn
        <4> QED
          BY <4>3
      <3>2. CASE ~(n >= m)
        <4>1. n > a /\ n < a + k + 1
          BY <1>1, <1>8, <1>10, <1>15, <3>2
        <4>2. Log!Walk(cells)[a] = Log!Stop(a, "tail")
          BY <1>3, <1>7, <1>8, <1>9, <1>14, <2>2, <4>1, StopsTail
        <4> QED
          BY <4>2
      <3> QED
        BY <3>1, <3>2
    <2>4. Log!ScanFramePage(cells) = [frames |-> A, valid |-> to[Len(A)], verdict |-> v]
      BY <1>3, <2>1, <2>3, ScanFits
    <2>5. Log!ScanFramePage(cells).frames = A
      BY <2>4
    <2> QED
      BY <1>5, <2>5
  <1> QED
    BY <1>18, <1>19

\* A frame that is among those of L is among the frames that the scan finds.
LEMMA FindsKept ==
    ASSUME NEW cells, NEW L \in Seq(Log!Frames), NEW m, NEW f, FindsAll(cells, L, m) \/ FindsNext(cells, L, m, f),
           NEW h, h.cursor \in 1 .. Len(L), L[h.cursor] = h, Log!LogAssumption
    PROVE  h.cursor <= Len(Log!ScanFramePage(cells).frames) /\ Log!ScanFramePage(cells).frames[h.cursor] = h
  <1>1. CASE FindsAll(cells, L, m)
    <2>1. Log!ScanFramePage(cells).frames = L
      BY <1>1 DEF FindsAll
    <2> QED
      BY <2>1
  <1>2. CASE FindsNext(cells, L, m, f)
    <2>1. Log!ScanFramePage(cells).frames = Append(L, f) /\ f \in Log!Frames
      BY <1>2 DEF FindsNext, Follows
    <2> QED
      BY <2>1
  <1> QED
    BY <1>1, <1>2

\* What was acknowledged lasts.
LEMMA AckedKept ==
    ASSUME LogInv, Log!LogAssumption
    PROVE  Log!AckedLasts
  <1>1. PICK L \in Seq(Log!Frames) : \E at, f, g : LogShape(L, at, f, g)
    BY DEF LogInv
  <1>2. PICK at, f, g : LogShape(L, at, f, g)
    BY <1>1
  <1>3. PICK m : m = at[Len(L)]
    OBVIOUS
  <1>4. LogTyped
    BY DEF LogInv
  <1>5. /\ Log!Ordered(L) /\ (Synced(L, at, f, g) \/ Unsynced(L, m, f))
        /\ \A h \in acked : h \in Log!Frames /\ h.cursor \in 1 .. Len(L) /\ L[h.cursor] = h
    BY <1>2, <1>3, <1>4, ShapeIs
  <1>6. Log!Ordered(L)
    BY <1>2 DEF LogShape
  <1>7. ASSUME NEW cells \in Log!Outcomes, NEW h \in acked
        PROVE  h.cursor <= Len(Log!ScanFramePage(cells).frames) /\ Log!ScanFramePage(cells).frames[h.cursor] = h
    <2>1. cells \in Seq(Cells)
      BY <1>4, OutcomeTyped
    <2>2. h.cursor \in 1 .. Len(L) /\ L[h.cursor] = h
      BY <1>5
    <2>3. ASSUME NEW e, Fits(cells, L, at), Rest(cells, L, m, e)
          PROVE  h.cursor <= Len(Log!ScanFramePage(cells).frames) /\ Log!ScanFramePage(cells).frames[h.cursor] = h
      <3>1. FindsAll(cells, L, m) \/ FindsNext(cells, L, m, e)
        BY <1>3, <1>6, <2>1, <2>3, ScanRest
      <3> QED
        BY <2>2, <3>1, FindsKept
    <2>4. CASE Synced(L, at, f, g)
      <3>1. Fits(cells, L, at) /\ \E e \in {f, g} : Rest(cells, L, m, e)
        BY <1>2, <1>3, <1>4, <2>4, OutcomeRest
      <3> QED
        BY <2>3, <3>1
    <2>5. CASE Unsynced(L, m, f)
      <3>1. CASE Fits(cells, L, at) /\ Rest(cells, L, m, f)
        BY <2>3, <3>1
      <3>2. ASSUME NEW A \in Seq(Log!Frames), Len(A) = Len(L) - 1, \A i \in 1 .. Len(A) : A[i] = L[i],
                   Log!ScanFramePage(cells).frames = A
            PROVE  h.cursor <= Len(Log!ScanFramePage(cells).frames) /\ Log!ScanFramePage(cells).frames[h.cursor] = h
        <4>1. h.cursor < Len(L)
          BY <2>5 DEF Unsynced
        <4>2. h.cursor \in 1 .. Len(A)
          BY <2>2, <3>2, <4>1
        <4> QED
          BY <2>2, <3>2, <4>2
      <3>3. \/ Fits(cells, L, at) /\ Rest(cells, L, m, f)
            \/ \E A \in Seq(Log!Frames) : /\ Len(A) = Len(L) - 1 /\ \A i \in 1 .. Len(A) : A[i] = L[i]
                                      /\ Log!ScanFramePage(cells).frames = A
        BY <1>2, <1>3, <1>4, <2>5, OutcomeUnsynced
      <3> QED
        BY <3>1, <3>2, <3>3
    <2> QED
      BY <1>2, <1>3, <2>4, <2>5 DEF LogShape
  <1> QED
    BY <1>7, Zenon DEF Log!AckedLasts, Log!Lasts

\* The index is that of the file up to the confirmed size.
LEMMA IndexKept ==
    ASSUME LogInv, Log!LogAssumption
    PROVE  Log!IndexIsFile
  <1>1. PICK L \in Seq(Log!Frames) : \E at, f, g : LogShape(L, at, f, g)
    BY DEF LogInv
  <1>2. PICK at, f, g : LogShape(L, at, f, g)
    BY <1>1
  <1>3. PICK m : m = at[Len(L)]
    OBVIOUS
  <1>4. LogTyped
    BY DEF LogInv
  <1>5. /\ file \in Seq(Cells) /\ Len(file) \in Nat /\ m \in Nat /\ m <= Len(file) /\ Fits(file, L, at) /\ Log!Ordered(L)
        /\ Place(L, m, f)
    BY <1>2, <1>3, <1>4, ShapeIs
  <1>6. ASSUME writer.step \notin {"closed", "truncated"}
        PROVE  LET scan == Log!ScanFramePage(SubSeq(file, 1, writer.confirmed)) IN
               scan.verdict = "whole" /\ scan.frames = writer.index
    <2>1. writer.index = L /\ writer.confirmed = m
      BY <1>5, <1>6 DEF Place
    <2>2. PICK cells : cells = SubSeq(file, 1, m)
      OBVIOUS
    <2>3. cells \in Seq(Cells) /\ Len(cells) = m /\ \A i \in 1 .. m : cells[i] = file[i]
      <3>1. m \in 0 .. Len(file)
        BY <1>5
      <3> QED
        BY <1>5, <2>2, <3>1, PrefixIs
    <2>4. Fits(cells, L, at)
      <3>1. at[Len(L)] <= Len(cells) /\ \A i \in 1 .. at[Len(L)] : cells[i] = file[i]
        BY <1>3, <1>5, <2>3
      <3>2. file \in Seq(Cells) /\ Fits(file, L, at) /\ cells \in Seq(Cells)
        BY <1>5, <2>3
      <3> QED
        BY <3>1, <3>2, FitsOn, Zenon
    <2>5. Log!Walk(cells)[m] = Log!Stop(m, "whole")
      BY <1>5, <2>3, StopsWhole
    <2>6. Log!ScanFramePage(cells) = [frames |-> L, valid |-> at[Len(L)], verdict |-> "whole"]
      BY <1>3, <1>5, <2>3, <2>4, <2>5, ScanFits
    <2>7. Log!ScanFramePage(cells).verdict = "whole" /\ Log!ScanFramePage(cells).frames = L
      BY <2>6
    <2> QED
      BY <2>1, <2>2, <2>7
  <1> QED
    BY <1>6 DEF Log!IndexIsFile

\* The invariant implies the types.
LEMMA LogTypes ==
    ASSUME LogInv, Log!LogAssumption
    PROVE  Log!TypeOK
  <1>1. PICK L \in Seq(Log!Frames) : \E at, f, g : LogShape(L, at, f, g)
    BY DEF LogInv
  <1>2. PICK at, f, g : LogShape(L, at, f, g)
    BY <1>1
  <1>3. PICK m : m = at[Len(L)]
    OBVIOUS
  <1>4. LogTyped
    BY DEF LogInv
  <1>5. Len(file) \in Nat /\ m \in Nat /\ m <= Len(file) /\ Place(L, m, f)
    BY <1>2, <1>3, <1>4, ShapeIs
  <1>6. writer.confirmed \in 0 .. Len(file)
    <2>1. CASE writer.step = "closed"
      BY <1>5, <2>1 DEF Place, Log!Closed
    <2>2. CASE writer.step # "closed"
      BY <1>5, <2>2 DEF Place
    <2> QED
      BY <2>1, <2>2
  <1>7. ASSUME NEW cells \in {file, disk}, NEW i \in 1 .. Len(cells)
        PROVE  cells[i].frame \in Log!Frames /\ cells[i].part \in 0 .. cells[i].frame.size + 1
    <2>1. cells \in Seq(Cells) /\ cells[i].part <= cells[i].frame.size + 1
      BY <1>4 DEF LogTyped
    <2>2. cells[i].frame \in Log!Frames /\ cells[i].part \in Nat /\ cells[i].frame.size \in Nat
      BY <2>1, CellAt
    <2> QED
      BY <2>1, <2>2
  <1> QED
    BY <1>4, <1>6, <1>7 DEF LogTyped, Log!TypeOK, LogFaults

\* Each step keeps the invariant.
LEMMA LogStep ==
    ASSUME LogInv, Log!LogAssumption, Log!Next \/ UNCHANGED logVars
    PROVE  LogInv'
  <1>1. ASSUME NEW stream \in Streams, NEW size \in Sizes, Log!AppendFrame(stream, size) PROVE LogInv'
    BY <1>1, AppendLog
  <1>2. ASSUME NEW r \in Tails, Log!Snapshot(r) \/ Log!Read(r) PROVE LogInv'
    BY <1>2, ReadLog
  <1>3. CASE UNCHANGED logVars
    <2>1. PICK L \in Seq(Log!Frames) : \E at, f, g : LogShape(L, at, f, g)
      BY DEF LogInv
    <2>2. PICK at, f, g : LogShape(L, at, f, g)
      BY <2>1
    <2>3. LogTyped'
      BY <1>3 DEF LogInv, LogTyped, logVars
    <2>4. LogShape(L, at, f, g)'
      BY <1>3, <2>2 DEF LogShape, Synced, Unsynced, Place, Complete, logVars
    <2> QED
      BY <2>3, <2>4, ShapeKept
  <1>4. CASE Log!Next
    BY <1>1, <1>2, <1>4, OpenLog, TruncateLog, OpenFailsLog, WriteLog, SyncLog, MarkerLog, PublishLog, AppendFailsLog,
       CloseLog, CloseSyncLog, DieLog, PowerLog DEF Log!Next
  <1> QED
    BY <1>3, <1>4
\* What the suite does to the log is a step of the log.
LEMMA SuiteLogStep == Next => [Log!Next]_logVars
  BY DEF Next, logVars

\* The log begins with its invariant.
LEMMA SuiteLogInit == Init /\ StorageAssumption => LogInv
  BY LogInit DEF Init, StorageAssumption

\* The invariant of the log: the file, and what of it is synced, are the frames of one ordered log and at
\* most a part of one frame more, however often the Store fails, its process dies or the machine loses power.
THEOREM LogInvariant == Spec => []LogInv
  <1>1. LogInv /\ [Next]_vars => LogInv'
    <2> SUFFICES ASSUME LogInv, [Next]_vars PROVE LogInv'
      OBVIOUS
    <2>1. Log!LogAssumption
      BY StorageAssumption DEF StorageAssumption
    <2>2. Log!Next \/ UNCHANGED logVars
      BY SuiteLogStep DEF vars
    <2> QED
      BY <2>1, <2>2, LogStep
  <1> QED
    BY <1>1, SuiteLogInit, StorageAssumption, PTL DEF Spec

\* Append, Open and Read of the Store: a frame whose Append returned stays readable and the log can be opened
\* again, whatever fails, dies or loses power, and an open Store's index is that of its file.
THEOREM CommittedKept == Spec => []CommittedLasts
  <1>1. LogInv => CommittedLasts
    <2>1. Log!LogAssumption
      BY StorageAssumption DEF StorageAssumption
    <2> QED
      BY <2>1, LogTypes, AckedKept, IndexKept DEF CommittedLasts, LogInv, LogTyped, Log!OpensAgain
  <1> QED
    BY <1>1, LogInvariant, PTL
=============================================================================
