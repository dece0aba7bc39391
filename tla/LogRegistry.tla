----------------------------- MODULE LogRegistry ----------------------------
(***************************************************************************)
(* The process-local registry that leads a log request to the files of one    *)
(* Container Attempt (src/internal/daemon/logs.go), and the service methods    *)
(* that keep it (src/internal/daemon/service.go).                             *)
(*                                                                         *)
(* One Container ID is created and deleted again and again.  An incarnation    *)
(* is named by the owner key of its create; its init config lies in a         *)
(* directory of its own and stays there after the delete.  Creates and         *)
(* deletes hold the Container's lock over the engine call and the update of    *)
(* the registry that follows.  A log request takes no lock: between its        *)
(* steps the Container may be deleted and created anew.  The daemon may die    *)
(* at any point; the registry is lost, and refilled by scans of the configs.   *)
(***************************************************************************)
EXTENDS Naturals

CONSTANTS
    MaxOwners, \* bound on the incarnations of the Container
    SameIDs,   \* an incarnation may carry the Attempt ID of an earlier one
    Calls,     \* mutations of the Container that may be under way
    Readers,   \* log requests that may be under way
    MaxReads,  \* bound on the log requests
    MaxFaults, \* bound on deaths of the daemon
    None       \* no owner, no call

Owners == 1 .. MaxOwners

\* Identity is what a log request names: Container and Attempt ID.
Identity(o) == IF SameIDs THEN 1 ELSE o
Identities == {Identity(o) : o \in Owners}

RegistryAssumption ==
    /\ MaxOwners \in Nat /\ MaxReads \in Nat /\ MaxFaults \in Nat
    /\ SameIDs \in BOOLEAN /\ None \notin Owners \cup Calls

VARIABLES
    record,  \* durable: the incarnation in the metadata and how far it got
    used,    \* durable: number of incarnations so far
    configs, \* on disk: the owners with an init config
    owners,  \* [Identities -> bound owner]
    epochs,  \* [Identities -> epoch of the last delete]
    nextRevision,
    call,    \* [Calls -> the mutation under way]
    holder,  \* the call that holds the Container's lock
    refused, \* a RegisterAttempt met another owner
    promised, \* the incarnation whose create this daemon has answered
    read,    \* [Readers -> the log request under way]
    reads, faults

vars == <<record, used, configs, owners, epochs, nextRevision, call, holder, refused, promised, read, reads, faults>>
disk == <<record, used, configs>>
registry == <<owners, epochs, nextRevision>>
answers == <<refused, promised>>
mutations == <<call, holder, answers>>
requests == <<read, reads>>

States == {"none", "creating", "live", "failed"}
CallSteps == {"idle", "launch", "commit", "register", "remove", "unregister", "replay"}
ReadSteps == {"idle", "lookup", "epoch", "scan", "publish", "open", "answered"}
Answers == {"none", "frames", "missing", "unsafe", "conflict"}

\* The type invariant of LogRegistry: only the holder of the lock is under way.
TypeOK ==
    /\ record \in [state : States, owner : Owners \cup {None}]
    /\ used \in 0 .. MaxOwners /\ configs \subseteq Owners
    /\ owners \in [Identities -> Owners \cup {None}]
    /\ epochs \in [Identities -> Nat] /\ nextRevision \in Nat
    /\ call \in [Calls -> [step : CallSteps, owner : Owners \cup {None}]]
    /\ holder \in Calls \cup {None} /\ refused \in BOOLEAN /\ promised \in Owners \cup {None}
    /\ \A c \in Calls : c # holder => call[c].step = "idle"
    /\ read \in [Readers -> [step : ReadSteps, id : Identities \cup {None}, epoch : Nat,
                             owner : Owners \cup {None}, answer : Answers,
                             calm : BOOLEAN, stale : BOOLEAN]]
    /\ reads \in 0 .. MaxReads /\ faults \in 0 .. MaxFaults

Absent == [state |-> "none", owner |-> None]
NoCall == [step |-> "idle", owner |-> None]
NoRead == [step |-> "idle", id |-> None, epoch |-> 0, owner |-> None, answer |-> "none",
           calm |-> FALSE, stale |-> FALSE]

NewLogRegistry ==
    /\ owners = [i \in Identities |-> None] /\ epochs = [i \in Identities |-> 0] /\ nextRevision = 0

Init ==
    /\ record = Absent /\ used = 0 /\ configs = {} /\ NewLogRegistry
    /\ call = [c \in Calls |-> NoCall] /\ holder = None /\ refused = FALSE /\ promised = None
    /\ read = [r \in Readers |-> NoRead] /\ reads = 0 /\ faults = 0

-----------------------------------------------------------------------------
(* What a request can have seen: history for the properties                   *)

\* A request under way is calm as long as the metadata stay as they are.
Record(new) ==
    /\ record' = new /\ UNCHANGED reads
    /\ read' = [r \in Readers |-> [read[r] EXCEPT !.calm = @ /\ read[r].step = "answered"]]

\* A scan that is under way when its incarnation is unregistered is stale.
Outdate(id) ==
    /\ UNCHANGED reads
    /\ read' = [r \in Readers |->
           [read[r] EXCEPT !.stale = @ \/ (read[r].id = id /\ read[r].step \in {"scan", "publish"})]]

-----------------------------------------------------------------------------
(* The registry                                                              *)

Bind(id, o) ==
    /\ nextRevision' = nextRevision + 1
    /\ owners' = [owners EXCEPT ![id] = o] /\ UNCHANGED epochs

\* RegisterAttempt: idempotent, and never in the place of another owner.
RegisterAttempt(id, o) ==
    IF owners[id] = None THEN Bind(id, o) /\ UNCHANGED refused
    ELSE refused' = (refused \/ owners[id] # o) /\ UNCHANGED registry

\* UnregisterAttempt removes the binding of this owner only; where there is
\* none it still advances the epoch, against scans that are under way.
UnregisterAttempt(id, o) ==
    \/ /\ owners[id] \in {o, None} /\ nextRevision' = nextRevision + 1
       /\ epochs' = [epochs EXCEPT ![id] = nextRevision + 1]
       /\ owners' = [owners EXCEPT ![id] = None]
    \/ owners[id] \notin {o, None} /\ UNCHANGED registry

-----------------------------------------------------------------------------
(* CreateContainer and DeleteContainer of the service                        *)

Lock(c) == holder = None /\ call[c].step = "idle" /\ holder' = c

\* The lock is kept to the end of the registry's update.
Unlock(c) == call' = [call EXCEPT ![c] = NoCall] /\ holder' = None
Goto(c, step, o) == call' = [call EXCEPT ![c] = [step |-> step, owner |-> o]]

\* A create of an absent Container begins an incarnation.
BeginCreate(c) ==
    /\ record = Absent /\ used < MaxOwners /\ Lock(c) /\ Goto(c, "launch", used + 1)
    /\ used' = used + 1 /\ Record([state |-> "creating", owner |-> used + 1])
    /\ UNCHANGED <<configs, registry, answers, faults>>

\* The init config is written by the launch of the wrapper.
Launch(c) ==
    /\ call[c].step = "launch" /\ configs' = configs \cup {call[c].owner}
    /\ Goto(c, "commit", call[c].owner)
    /\ UNCHANGED <<record, used, registry, holder, answers, requests, faults>>

CommitCreate(c) ==
    /\ call[c].step = "commit" /\ Record([state |-> "live", owner |-> call[c].owner])
    /\ Goto(c, "register", call[c].owner)
    /\ UNCHANGED <<used, configs, registry, holder, answers, faults>>

\* A create is rolled back before or after the launch: the Attempt stays as a
\* failed one, no later delete of it succeeds, and nothing is unregistered.
FailCreate(c) ==
    /\ call[c].step \in {"launch", "commit"} /\ Record([state |-> "failed", owner |-> call[c].owner])
    /\ Unlock(c) /\ UNCHANGED <<used, configs, registry, answers, faults>>

\* The same create under another operation ID finds the Container there.
CreateNoop(c) ==
    /\ record.state = "live" /\ Lock(c) /\ Goto(c, "register", record.owner)
    /\ UNCHANGED <<disk, registry, answers, requests, faults>>

Register(c) ==
    /\ call[c].step = "register" /\ RegisterAttempt(Identity(call[c].owner), call[c].owner)
    /\ promised' = IF owners[Identity(call[c].owner)] \in {None, call[c].owner} THEN call[c].owner ELSE promised
    /\ Unlock(c) /\ UNCHANGED <<disk, requests, faults>>

BeginDelete(c) ==
    /\ record.state = "live" /\ Lock(c) /\ Goto(c, "remove", record.owner)
    /\ UNCHANGED <<disk, registry, answers, requests, faults>>

\* The verified delete removes the metadata; the config stays on disk.
ConfirmDelete(c) ==
    /\ call[c].step = "remove" /\ Record(Absent) /\ Goto(c, "unregister", call[c].owner)
    /\ promised' = None /\ UNCHANGED <<used, configs, registry, holder, refused, faults>>

\* The delete may also fail, or its caller give up.
AbandonDelete(c) ==
    /\ call[c].step = "remove" /\ Unlock(c)
    /\ UNCHANGED <<disk, registry, answers, requests, faults>>

Unregister(c) ==
    /\ call[c].step = "unregister" /\ UnregisterAttempt(Identity(call[c].owner), call[c].owner)
    /\ Outdate(Identity(call[c].owner)) /\ Unlock(c) /\ UNCHANGED <<disk, answers, faults>>

\* The replay of an old create or delete takes the lock, is answered from the
\* operation, and never touches the registry.
Replay(c) ==
    /\ Lock(c) /\ \E o \in 1 .. used : o # record.owner /\ Goto(c, "replay", o)
    /\ UNCHANGED <<disk, registry, answers, requests, faults>>

AnswerReplay(c) ==
    /\ call[c].step = "replay" /\ Unlock(c)
    /\ UNCHANGED <<disk, registry, answers, requests, faults>>

-----------------------------------------------------------------------------
(* LogsAfter: metadata, binding or scan, files                               *)

Step(r, step) == read' = [read EXCEPT ![r].step = step]
Answer(r, answer) == read' = [read EXCEPT ![r].step = "answered", ![r].answer = answer]

\* The request must name the Attempt of the metadata.
LogsAfter(r) ==
    /\ reads < MaxReads /\ reads' = reads + 1 /\ read[r].step = "idle" /\ record # Absent
    /\ read' = [read EXCEPT ![r] = [NoRead EXCEPT !.step = "lookup", !.id = Identity(record.owner),
                                        !.calm = record.state = "live"]]
    /\ UNCHANGED <<disk, registry, mutations, faults>>

\* Locate trusts a binding, and scans where there is none.
Locate(r) ==
    /\ read[r].step = "lookup"
    /\ LET o == owners[read[r].id] IN
       IF o = None THEN Step(r, "epoch")
       ELSE read' = [read EXCEPT ![r].step = "open", ![r].owner = o]
    /\ UNCHANGED <<disk, registry, mutations, reads, faults>>

discoveryEpoch(r) ==
    /\ read[r].step = "epoch"
    /\ read' = [read EXCEPT ![r].step = "scan", ![r].epoch = epochs[read[r].id]]
    /\ UNCHANGED <<disk, registry, mutations, reads, faults>>

\* The scan reads the configs of all owners; two of one identity are unsafe.
discoverOwner(r) ==
    /\ read[r].step = "scan"
    /\ LET matched == {o \in configs : Identity(o) = read[r].id} IN
       \/ matched = {} /\ Answer(r, "missing")
       \/ (\E o, p \in matched : o # p) /\ Answer(r, "unsafe")
       \/ \E o \in matched : /\ matched = {o}
                             /\ read' = [read EXCEPT ![r].step = "publish", ![r].owner = o]
    /\ UNCHANGED <<disk, registry, mutations, reads, faults>>

\* Mutant: the epoch is not looked at.
Mut_NoEpoch(r) ==
    /\ read[r].step = "publish" /\ Step(r, "open")
    /\ IF owners[read[r].id] = None THEN Bind(read[r].id, read[r].owner) ELSE UNCHANGED registry
    /\ UNCHANGED <<disk, mutations, reads, faults>>

\* What was found is published only if no delete came in between.
registerDiscoveredAttempt(r) ==
    /\ read[r].step = "publish"
    /\ LET id == read[r].id IN
       \/ epochs[id] # read[r].epoch /\ Answer(r, "missing") /\ UNCHANGED registry
       \/ /\ epochs[id] = read[r].epoch /\ owners[id] = None
          /\ Bind(id, read[r].owner) /\ Step(r, "open")
       \/ /\ epochs[id] = read[r].epoch /\ owners[id] = read[r].owner
          /\ Step(r, "open") /\ UNCHANGED registry
       \/ /\ epochs[id] = read[r].epoch /\ owners[id] \notin {None, read[r].owner}
          /\ Answer(r, "conflict") /\ UNCHANGED registry
    /\ UNCHANGED <<disk, mutations, reads, faults>>

\* The log opens beneath the directory of the owner; frames carry the identity
\* only, so they pass for any owner of it.
openOwnerSource(r) ==
    /\ read[r].step = "open" /\ Answer(r, IF read[r].owner \in configs THEN "frames" ELSE "missing")
    /\ UNCHANGED <<disk, registry, mutations, reads, faults>>

Return(r) ==
    /\ read[r].step = "answered" /\ read' = [read EXCEPT ![r] = NoRead]
    /\ UNCHANGED <<disk, registry, mutations, reads, faults>>

-----------------------------------------------------------------------------
(* The daemon dies; it serves again once Reconcile has settled the record.    *)

\* It completes or rolls back a create, and completes or leaves a delete.
Reconciled ==
    CASE record.state = "creating" -> {[record EXCEPT !.state = s] : s \in {"live", "failed"}}
      [] record.state = "live" /\ (\E c \in Calls : call[c].step = "remove") -> {Absent, record}
      [] OTHER -> {record}

Restart ==
    /\ faults < MaxFaults /\ faults' = faults + 1
    /\ record' \in Reconciled /\ UNCHANGED <<used, refused, reads>> /\ promised' = None
    /\ configs' = IF record'.state = "live" THEN configs \cup {record'.owner} ELSE configs
    /\ owners' = [i \in Identities |-> None] /\ epochs' = [i \in Identities |-> 0] /\ nextRevision' = 0
    /\ call' = [c \in Calls |-> NoCall] /\ holder' = None
    /\ read' = [r \in Readers |-> NoRead]

Next ==
    \/ \E c \in Calls :
           \/ BeginCreate(c) \/ Launch(c) \/ CommitCreate(c) \/ FailCreate(c) \/ CreateNoop(c)
           \/ Register(c) \/ BeginDelete(c) \/ ConfirmDelete(c) \/ AbandonDelete(c) \/ Unregister(c)
           \/ Replay(c) \/ AnswerReplay(c)
    \/ \E r \in Readers :
           \/ LogsAfter(r) \/ Locate(r) \/ discoveryEpoch(r) \/ discoverOwner(r)
           \/ registerDiscoveredAttempt(r) \/ openOwnerSource(r) \/ Return(r)
    \/ Restart

Spec == Init /\ [][Next]_vars

-----------------------------------------------------------------------------
(* Properties                                                                *)

\* A scan that captured its epoch before a delete was unregistered does not
\* publish what it found and opens nothing (advanceRegistrationEpochLocked and
\* registerDiscoveredAttempt, src/internal/daemon/logs.go).
StaleScanEnds == \A r \in Readers : read[r].stale => read[r].step # "open"

\* A create that the engine has completed is never answered with
\* ErrLogAlreadyRegistered because of an incarnation before it.
NeverRefused == ~refused

\* Once a create has registered its owner, the Container stays bound to its incarnation until
\* a delete removes the metadata, whatever older operations are replayed and
\* whatever is scanned meanwhile (the Replay guards of the service).
StaysBound == promised # None => owners[Identity(promised)] = promised

\* A log request during which the metadata of a live Container did not change
\* is answered with its frames, whether the binding was there or had to be
\* found by a scan, next to other scans (Locate, src/internal/daemon/logs.go).
CalmReadsSucceed ==
    \A r \in Readers : read[r].step = "answered" /\ read[r].calm => read[r].answer = "frames"

=============================================================================
