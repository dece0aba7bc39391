----------------------------- MODULE MCStorage -----------------------------
(***************************************************************************)
(* The four modules about what is kept: the state file, the event log with   *)
(* its retention, the log of an Attempt, and the registry that finds it.       *)
(*                                                                         *)
(* They share no state, so a property of one holds of all four together if     *)
(* and only if it holds of the one.  `subject' says whose behaviour this is;    *)
(* the variables of the others keep their initial values, which makes the       *)
(* instance the sum of the four and not their product.  The registry is here     *)
(* twice, under constants that must not be mixed: "registry" and "reuse" are     *)
(* one registry under fresh and under reused IDs.                                *)
(***************************************************************************)
EXTENDS Naturals, Sequences, FiniteSets, TLC

CONSTANTS
    Daemons, NoFile, MaxVersion, FileFaults,                                          \* of FileStore
    Ids, Sandboxes, Containers, TerminalLimit, IdentityLimit, EventLimit, MaxEvents,  \* of EventLog
    Streams, Sizes, Tails, MaxFrames, DeathFaults, PowerFaults,                       \* of LogStore
    Calls, Scans, MaxOwners, MaxReads, Restarts,                                      \* of LogRegistry
    None

VARIABLES
    subject,
    shown, kept, temp, status, pc, work, data, lock, last, promised, faults, \* FileStore
    memory, cursor, full,                                                    \* EventLog
    file, disk, writer, acked, corrupt, reader, served, deaths, peril,       \* LogStore
    record, used, configs, owners, epochs, nextRevision, call, holder,       \* LogRegistry
    refused, lasting, read, reads, restarts

fileVars == <<shown, kept, temp, status, pc, work, data, lock, last, promised, faults>>
eventVars == <<memory, cursor, full>>
logVars == <<file, disk, writer, acked, corrupt, reader, served, deaths, peril>>
registryVars ==
    <<record, used, configs, owners, epochs, nextRevision, call, holder, refused, lasting, read, reads, restarts>>
vars == <<subject, fileVars, eventVars, logVars, registryVars>>

File == INSTANCE FileStore WITH MaxFaults <- FileFaults

Events == INSTANCE EventLog WITH data <- memory, refused <- full

Log ==
    INSTANCE LogStore WITH
        Readers <- Tails, MaxFaults <- [death |-> DeathFaults, power |-> PowerFaults],
        refused <- corrupt, faults <- deaths

Registry ==
    INSTANCE LogRegistry WITH
        SameIDs <- FALSE, Readers <- Scans, MaxFaults <- Restarts, promised <- lasting, faults <- restarts

Reuse ==
    INSTANCE LogRegistry WITH
        SameIDs <- TRUE, Readers <- Scans, MaxFaults <- Restarts, promised <- lasting, faults <- restarts

ASSUME StorageAssumption ==
    /\ File!FileStoreAssumption /\ Events!EventLogAssumption
    /\ Log!LogAssumption
    /\ Registry!RegistryAssumption /\ Reuse!RegistryAssumption

Init ==
    /\ subject \in {"file", "events", "log", "registry", "reuse"}
    /\ File!Init /\ (subject = "file" \/ shown = NoFile)
    /\ Events!Init
    /\ Log!Init /\ (subject = "log" \/ peril = "death")
    /\ IF subject = "reuse" THEN Reuse!Init ELSE Registry!Init

Next ==
    /\ UNCHANGED subject
    /\ \/ subject = "file" /\ File!Next /\ UNCHANGED <<eventVars, logVars, registryVars>>
       \/ subject = "events" /\ Events!Next /\ UNCHANGED <<fileVars, logVars, registryVars>>
       \/ subject = "log" /\ Log!Next /\ UNCHANGED <<fileVars, eventVars, registryVars>>
       \/ subject = "registry" /\ Registry!Next /\ UNCHANGED <<fileVars, eventVars, logVars>>
       \/ subject = "reuse" /\ Reuse!Next /\ UNCHANGED <<fileVars, eventVars, logVars>>

Spec == Init /\ [][Next]_vars

\* IDs are interchangeable.
Symmetry == Permutations(Ids)

-----------------------------------------------------------------------------
(* Properties *)

\* The file store (state/file.go) is a durable register: whatever daemons are
\* killed, calls fail and power is lost, it serves the last promised version or
\* the one whose replacement was cut short, and then keeps to it.  No state file is
\* torn, no two daemons own it, and what View serves is what a power loss would leave.
ImplementsRegister ==
    /\ [](File!TypeOK /\ File!NeverTorn /\ File!OneOwner /\ File!ServedIsDurable)
    /\ File!ImplementsRegister

\* Retention (state/retention.go) costs no transaction and no replay: whatever
\* was cut, the validation of the next candidate finds every record it asks for,
\* and the last operations that ended can be replayed exactly.
RetentionIsSafe == subject = "events" => Events!TypeOK /\ Events!NeverRefused /\ Events!RecentReplayable

\* A client that follows the event log (EventsAfter) misses no event unnoticed, and
\* no compaction changes what a kept operation or its retired form says.
NothingMissed == Events!NothingMissed /\ Events!IdentityKept

\* A frame whose Append returned stays readable and the log can be opened again,
\* whichever write, sync or process fails (logstore/store.go), and an open Store's
\* index is that of its file.
CommittedLasts ==
    subject = "log" => Log!TypeOK /\ Log!AckedLasts /\ Log!OpensAgain /\ Log!IndexIsFile

\* A scan of the file system that overlaps a delete publishes nothing
\* (registerDiscoveredAttempt), no create meets the binding of another, a log
\* request during which the metadata is at rest is answered with frames, and a
\* binding that a create has registered stays until the delete
\* (src/internal/daemon/logs.go).
LogsAreFound ==
    /\ subject = "registry" =>
           Registry!TypeOK /\ Registry!NeverRefused /\ Registry!StaleScanEnds /\ Registry!CalmReadsSucceed
    /\ subject = "reuse" => Reuse!StaysBound
=============================================================================
