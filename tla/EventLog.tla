----------------------------- MODULE EventLog -----------------------------
(***************************************************************************)
(* Retention (src/internal/state/retention.go) and the history a Store keeps: *)
(* operation records, tombstones of retired ones, and the global event log.   *)
(*                                                                         *)
(* Every transaction of the lifecycle produces a candidate, retention cuts    *)
(* it to the policy, validate() judges the result, and the Store publishes it *)
(* or refuses the transaction.  What is cut must never be missed: an ID must   *)
(* not be accepted twice, an inventory must keep the operation it came from,   *)
(* and the marks resources keep of events must stay explicable.               *)
(*                                                                         *)
(* The transactions are those of src/internal/lifecycle, reduced to what they  *)
(* do to this history.  One ends at most one operation.  Generations and the   *)
(* phases behind them are the subject of Lifecycle.                          *)
(***************************************************************************)
EXTENDS Naturals, Sequences, FiniteSets

CONSTANTS
    Ids,            \* operation IDs
    Sandboxes,      \* targets of kind Sandbox
    Containers,     \* targets of kind Container
    TerminalLimit,  \* RetentionPolicy: full terminal records
    IdentityLimit,  \* RetentionPolicy: records and tombstones
    EventLimit,     \* RetentionPolicy: events
    MaxEvents,      \* bound on the number of events
    None            \* absence of a record

Targets == Sandboxes \cup Containers

VARIABLES
    data,     \* the committed data: see Data
    cursor,   \* last sequence a client of ListEvents was given, 0 at first
    refused   \* the Store refused the candidate of some transaction

vars == <<data, cursor, refused>>

Reasons == {"none", "conflict", "failure"}
Terminal(op) == op.state # "active"

Operations ==
    [type : {"create", "delete", "other"}, target : Targets,
     state : {"active", "succeeded", "failed"}, reason : Reasons,
     receipts : {"none", "journaled", "adopted"}, released : Ids \cup {None}, order : Nat]
Tombstones == [type : {"create", "delete", "other"}, target : Targets, reason : Reasons, order : Nat \ {0}]
Marks == [op : Ids, seq : Nat \ {0}, reason : Reasons]
Events == [seq : Nat \ {0}, op : Ids, type : {"create", "delete", "other"}, target : Targets, reason : Reasons]
Resources == [owner : Ids \cup {None}, mark : Marks]

\* RetentionPolicy.Validate; what is not there is None.
EventLogAssumption ==
    /\ TerminalLimit \in Nat \ {0} /\ EventLimit \in Nat \ {0} /\ MaxEvents \in Nat
    /\ IdentityLimit \in Nat /\ IdentityLimit >= TerminalLimit
    /\ IsFiniteSet(Ids) /\ Sandboxes \cap Containers = {}
    /\ None \notin Ids \cup Operations \cup Tombstones \cup Resources

\* memoryData; firstEventSequence is derived.
Data ==
    [ops : [Ids -> Operations \cup {None}], retired : [Ids -> Tombstones \cup {None}],
     resources : [Targets -> Resources \cup {None}], events : Seq(Events),
     lastEvent : Nat, lastOrder : Nat]

Live(d) == {id \in Ids : d.ops[id] # None}
Retired(d) == {id \in Ids : d.retired[id] # None}
Known(d) == Live(d) \cup Retired(d)
Active(d, t) == {id \in Live(d) : d.ops[id].target = t /\ ~Terminal(d.ops[id])}
Exists(d, t) == d.resources[t] # None

\* nextAvailableEventSequence
First(d) == IF d.events = <<>> THEN d.lastEvent + 1 ELSE d.events[1].seq

-----------------------------------------------------------------------------
(* Retention. *)

\* Mutant: every terminal operation may be retired.
Mut_NoPins(d) == {}

\* liveInventoryOwnerOperations: the creates whose receipts are still owned.
Pinned(d) == {d.resources[t].owner : t \in {t \in Targets : Exists(d, t)}} \ {None}

\* assignTerminalSequences
Ordered(d) ==
    LET new == {id \in Live(d) : Terminal(d.ops[id]) /\ d.ops[id].order = 0}
    IN [d EXCEPT !.ops = [id \in Ids |-> IF id \in new THEN [d.ops[id] EXCEPT !.order = d.lastOrder + 1] ELSE d.ops[id]],
                 !.lastOrder = @ + Cardinality(new)]

\* applyRetention: the oldest terminal operations beyond the limit.
Expired(d) ==
    LET candidates == {id \in Live(d) : Terminal(d.ops[id])} \ Pinned(d)
    IN {id \in candidates : Cardinality({j \in candidates : d.ops[j].order > d.ops[id].order}) >= TerminalLimit}

Tombstone(op) == [type |-> op.type, target |-> op.target, reason |-> op.reason, order |-> op.order]

Compacted(d) ==
    [d EXCEPT !.ops = [id \in Ids |-> IF id \in Expired(d) THEN None ELSE d.ops[id]],
              !.retired = [id \in Ids |-> IF id \in Expired(d) THEN Tombstone(d.ops[id]) ELSE d.retired[id]]]

\* The events of a contiguous suffix are kept.
Trimmed(d) ==
    IF Len(d.events) <= EventLimit THEN d
    ELSE [d EXCEPT !.events = SubSeq(@, Len(@) - EventLimit + 1, Len(@))]

-----------------------------------------------------------------------------
(* validate() *)

WholeSuffix(d) ==
    /\ First(d) + Len(d.events) = d.lastEvent + 1
    /\ \A i \in 1 .. Len(d.events) : d.events[i].seq = First(d) + i - 1

EventsExplained(d) ==
    \A i \in 1 .. Len(d.events) :
        LET e == d.events[i]
            r == IF e.op \in Live(d) THEN d.ops[e.op] ELSE d.retired[e.op]
        IN r # None /\ r.type = e.type /\ r.target = e.target

OrdersWhole(d) ==
    LET orders == [id \in Known(d) |-> IF id \in Live(d) THEN d.ops[id].order ELSE d.retired[id].order]
        ended == {id \in Known(d) : id \in Live(d) => Terminal(d.ops[id])}
    IN /\ \A id \in Known(d) : id \in ended <=> orders[id] # 0
       /\ {orders[id] : id \in ended} = 1 .. d.lastOrder
       /\ Cardinality(ended) = d.lastOrder

\* validateObservationReference: a mark names a retained event, or an operation
\* of this resource that ended with the mark's reason.
MarksExplained(d) ==
    \A t \in {t \in Targets : Exists(d, t)} :
        LET mark == d.resources[t].mark
            r == IF mark.op \in Live(d) THEN d.ops[mark.op] ELSE d.retired[mark.op]
        IN IF mark.seq >= First(d)
           THEN \E i \in 1 .. Len(d.events) :
                    d.events[i].seq = mark.seq /\ d.events[i].op = mark.op /\ d.events[i].reason = mark.reason
           ELSE r # None /\ r.reason = mark.reason /\ r.target = t

\* createHasCompleteVerifiedRelease
ReleasedBy(d, create) == {id \in Live(d) : d.ops[id].state = "succeeded" /\ d.ops[id].released = create}

\* validateOwnershipGraph
OwnershipExplained(d) ==
    /\ \A t \in {t \in Targets : Exists(d, t)} :
           LET owner == d.resources[t].owner
           IN owner # None => owner \in Live(d) /\ d.ops[owner].target = t /\ d.ops[owner].receipts = "adopted"
    /\ \A id \in {id \in Live(d) : d.ops[id].receipts = "adopted"} :
           \/ ReleasedBy(d, id) # {}
           \/ Exists(d, d.ops[id].target) /\ d.resources[d.ops[id].target].owner = id

Valid(d) == WholeSuffix(d) /\ EventsExplained(d) /\ OrdersWhole(d) /\ MarksExplained(d) /\ OwnershipExplained(d)

WithinCapacity(d) == Cardinality(Known(d)) <= IdentityLimit

\* Update, after its callback.
Commit(candidate) ==
    LET d == Ordered(candidate)
        kept == Trimmed(Compacted(d))
    IN /\ candidate.lastEvent <= MaxEvents
       /\ IF WithinCapacity(d) /\ Valid(kept) THEN data' = kept /\ UNCHANGED refused
          ELSE refused' = TRUE /\ UNCHANGED data
       /\ UNCHANGED cursor

-----------------------------------------------------------------------------
(* What the transactions are made of. *)

\* PutOperation of a new record
Accepts(d, id) == id \notin Known(d) /\ Cardinality(Known(d)) < IdentityLimit

Put(d, id, op) == [d EXCEPT !.ops[id] = op]

NewOperation(type, t) ==
    [type |-> type, target |-> t, state |-> "active", reason |-> "none",
     receipts |-> "none", released |-> None, order |-> 0]

\* AppendEvent
Appended(d, id) ==
    LET op == d.ops[id]
        e == [seq |-> d.lastEvent + 1, op |-> id, type |-> op.type, target |-> op.target, reason |-> op.reason]
    IN [d EXCEPT !.events = Append(@, e), !.lastEvent = @ + 1]

\* observeEventTarget: the resource, if there is one, is marked with the event.
Observed(d, id) ==
    LET e == Appended(d, id)
        t == d.ops[id].target
    IN IF Exists(d, t)
       THEN [e EXCEPT !.resources[t].mark = [op |-> id, seq |-> e.lastEvent, reason |-> d.ops[id].reason]]
       ELSE e

Ended(d, id, state, reason) == [d EXCEPT !.ops[id].state = state, !.ops[id].reason = reason]

-----------------------------------------------------------------------------
(* The transactions. *)

Init ==
    /\ data = [ops |-> [id \in Ids |-> None], retired |-> [id \in Ids |-> None],
               resources |-> [t \in Targets |-> None], events |-> <<>>, lastEvent |-> 0, lastOrder |-> 0]
    /\ cursor = 0 /\ refused = FALSE

\* BeginSandboxCreate, BeginContainerCreate
BeginCreate(id, t) ==
    /\ Accepts(data, id) /\ Active(data, t) = {} /\ ~Exists(data, t)
    /\ LET d == Put(data, id, NewOperation("create", t))
           mark == [op |-> id, seq |-> d.lastEvent + 1, reason |-> "none"]
       IN Commit(Observed([d EXCEPT !.resources[t] = [owner |-> None, mark |-> mark]], id))

\* The other Begin methods; a delete may find no metadata.
Begin(id, t, type) ==
    /\ Accepts(data, id) /\ Active(data, t) = {}
    /\ type # "create" /\ (Exists(data, t) \/ type = "delete")
    /\ Commit(Observed(Put(data, id, NewOperation(type, t)), id))

\* persistOperationConflict
Reject(id, t, type) ==
    /\ Accepts(data, id) /\ Active(data, t) # {}
    /\ (Exists(data, t) \/ type = "delete")
    /\ Commit(Observed(Ended(Put(data, id, NewOperation(type, t)), id, "failed", "conflict"), id))

\* persistContainerNoop, ReconcileCondition: an operation of one transaction.
Instant(id, t, type) ==
    /\ Accepts(data, id) /\ Active(data, t) = {} /\ Exists(data, t) /\ type # "delete"
    /\ Commit(Observed(Ended(Put(data, id, NewOperation(type, t)), id, "succeeded", "none"), id))

\* recordStoppedInTx: one transaction with two events.
RecordStopped(id, t) ==
    /\ Accepts(data, id) /\ Active(data, t) = {} /\ Exists(data, t) /\ t \in Containers
    /\ LET begun == Observed(Put(data, id, NewOperation("other", t)), id)
       IN Commit(Observed(Ended(begun, id, "succeeded", "none"), id))

\* CheckpointOperation; a create journals what it acquired.
Checkpoint(id) ==
    /\ id \in Live(data) /\ ~Terminal(data.ops[id]) /\ Exists(data, data.ops[id].target)
    /\ \E receipts \in {data.ops[id].receipts, "journaled"} :
           /\ receipts = "journaled" => data.ops[id].type = "create"
           /\ Commit(Observed(Put(data, id, [data.ops[id] EXCEPT !.receipts = receipts]), id))

\* The Confirm methods of creates: receipts become the resource's inventory.
ConfirmCreate(id) ==
    /\ id \in Live(data) /\ ~Terminal(data.ops[id]) /\ data.ops[id].type = "create"
    /\ data.ops[id].receipts = "journaled"
    /\ LET d == [data EXCEPT !.ops[id].receipts = "adopted", !.resources[data.ops[id].target].owner = id]
       IN Commit(Observed(Ended(d, id, "succeeded", "none"), id))

\* The Confirm methods of the operations that leave their resource.
Confirm(id) ==
    /\ id \in Live(data) /\ ~Terminal(data.ops[id]) /\ data.ops[id].type = "other"
    /\ Commit(Observed(Ended(data, id, "succeeded", "none"), id))

\* The Confirm methods of deletes: the inventory is released and the metadata
\* removed, after the event was observed.
ConfirmDelete(id) ==
    /\ id \in Live(data) /\ ~Terminal(data.ops[id]) /\ data.ops[id].type = "delete"
    /\ LET t == data.ops[id].target
           released == IF Exists(data, t) THEN data.resources[t].owner ELSE None
           d == Observed(Ended([data EXCEPT !.ops[id].released = released], id, "succeeded", "none"), id)
       IN Commit([d EXCEPT !.resources[t] = None])

\* FailSandboxCreateAfterRollback removes the metadata, FailContainerCreate-
\* AfterRollback keeps it.
FailCreate(id) ==
    /\ id \in Live(data) /\ ~Terminal(data.ops[id]) /\ data.ops[id].type = "create"
    /\ LET t == data.ops[id].target
           d == Ended(data, id, "failed", "failure")
       IN Commit(IF t \in Sandboxes THEN [Appended(d, id) EXCEPT !.resources[t] = None] ELSE Observed(d, id))

\* FailActiveOperation, ConfirmStartFailure
Fail(id) ==
    /\ id \in Live(data) /\ ~Terminal(data.ops[id]) /\ data.ops[id].type # "create"
    /\ Exists(data, data.ops[id].target)
    /\ Commit(Observed(Ended(data, id, "failed", "failure"), id))

-----------------------------------------------------------------------------
(* A client that follows the log. *)

\* Mutant: the boundary of the gap is off by one.
Mut_Gap(d, after) == after # 0 /\ (after > d.lastEvent \/ after + 2 < First(d))

\* EventsAfter: the position is outside of what is kept.
Gap(d, after) == after # 0 /\ (after > d.lastEvent \/ after + 1 < First(d))

\* The first events behind a position.
EventsAfter(d, after, limit) ==
    LET behind == Cardinality({i \in 1 .. Len(d.events) : d.events[i].seq > after})
        from == Len(d.events) - behind + 1
    IN SubSeq(d.events, from, IF behind < limit THEN Len(d.events) ELSE from + limit - 1)

\* validateEventPage, and the client's validateEventResponse: no event is left out, but
\* before the first one of a client that has no position.
Contiguous(after, page) ==
    \A i \in 1 .. Len(page) :
        (after = 0 /\ i = 1) \/ page[i].seq = 1 + (IF i = 1 THEN after ELSE page[i - 1].seq)

\* handleEvents reads one event more than it sends, to say whether there are more.
Page(limit) ==
    LET events == EventsAfter(data, cursor, limit + 1)
    IN [valid |-> Contiguous(cursor, events), more |-> Len(events) > limit,
        events |-> SubSeq(events, 1, IF Len(events) > limit THEN limit ELSE Len(events))]

\* Client.Events takes the page it asked for.
Taken(limit) ==
    LET page == Page(limit)
    IN page.valid /\ Contiguous(cursor, page.events) /\ (page.more => Len(page.events) = limit)

\* A client asks for a page; with a gap it starts again at the first event.
Read(limit) ==
    LET events == Page(limit).events
    IN /\ \/ Gap(data, cursor) /\ cursor' = 0
          \/ ~Gap(data, cursor) /\ Taken(limit) /\ events # <<>> /\ cursor' = events[Len(events)].seq
       /\ UNCHANGED <<data, refused>>

Types == {"create", "delete", "other"}

Next ==
    \/ \E id \in Ids, t \in Targets :
           \/ BeginCreate(id, t) \/ RecordStopped(id, t)
           \/ \E type \in Types : Begin(id, t, type) \/ Reject(id, t, type) \/ Instant(id, t, type)
    \/ \E id \in Ids :
           Checkpoint(id) \/ ConfirmCreate(id) \/ Confirm(id) \/ ConfirmDelete(id) \/ FailCreate(id) \/ Fail(id)
    \/ \E limit \in 1 .. 2 : Read(limit)

Spec == Init /\ [][Next]_vars

-----------------------------------------------------------------------------
(* Properties. *)

\* The type invariant of memoryData, with the sizes retention promises.
TypeOK ==
    /\ data \in Data /\ Len(data.events) <= EventLimit /\ Live(data) \cap Retired(data) = {}
    /\ Cardinality({id \in Live(data) : Terminal(data.ops[id])} \ Pinned(data)) <= TerminalLimit
    /\ cursor \in Nat /\ refused \in BOOLEAN

\* Retention never makes the Store refuse a transaction: whatever was cut, the
\* validation of the next candidate finds every record it asks for, and an
\* operation that was accepted can end even when no identity is left.
NeverRefused == ~refused

\* The last TerminalLimit operations that ended can still be replayed exactly.
RecentReplayable == \A id \in Retired(data) : data.retired[id].order + TerminalLimit <= data.lastOrder

\* An ID that was used is never free again and never names another operation,
\* before and after it was retired.
IdentityStep ==
    \A id \in Known(data) :
        /\ id \in Known(data)'
        /\ id \in Retired(data) => data.retired'[id] = data.retired[id]
        /\ id \in Live(data) =>
               LET r == IF id \in Live(data)' THEN data.ops'[id] ELSE data.retired'[id]
               IN /\ r.target = data.ops[id].target /\ r.type = data.ops[id].type
                  /\ Terminal(data.ops[id]) => r.reason = data.ops[id].reason /\ r.order = data.ops[id].order
IdentityKept == [][IdentityStep]_vars

\* A client that follows the log misses no event without being told: the log
\* its page is cut from still holds the event after the last one it was given.  No
\* page is refused, and one that says there is no more brings it to the end.
NothingMissed ==
    /\ [][cursor # 0 /\ cursor' > cursor => First(data) <= cursor + 1]_vars
    /\ [](\A limit \in 1 .. 2 :
             LET page == Page(limit)
             IN Gap(data, cursor) \/ (Taken(limit) /\ (page.more <=> data.lastEvent > cursor + Len(page.events)
                                                                   /\ (cursor = 0 => Len(data.events) > limit))))
=============================================================================
