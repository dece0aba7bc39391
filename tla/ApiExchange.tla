---------------------------- MODULE ApiExchange ----------------------------
(***************************************************************************)
(* How a mutation of one Container travels: the client library               *)
(* (src/pkg/client), HTTP over the Unix socket (src/internal/server),          *)
(* the daemon's service and its error mapping (src/internal/daemon), the        *)
(* operation record that answers it, and back.                                *)
(*                                                                         *)
(* Users choose the operation ID, and may use one again, with the same verb or    *)
(* another.  An attempt may be lost, delayed, cut or answered after its client     *)
(* left; the daemon may die at any step; recovery, the watchers and retention      *)
(* act on the same records meanwhile.  The work of the engine under the target lock  *)
(* ends in one step here (Settle; AttemptEngine has its steps).                  *)
(***************************************************************************)
EXTENDS Naturals, FiniteSets

CONSTANTS
    Users,       \* callers of the client library
    IDs,         \* operation IDs they may choose
    Links,       \* HTTP exchanges that may exist at a time
    Retries,     \* client.Config.TransportRetries
    MaxCalls     \* bound on calls

ApiAssumption == {Retries, MaxCalls} \subseteq Nat

VARIABLES
    call,     \* [Users -> the method call of the client library]
    link,     \* [Links -> one transport attempt of a call]
    op,       \* [IDs -> the operation record]
    pair,     \* the Container/Attempt pair: its phase, and whether it has a host-owner binding
    told,     \* [IDs -> the terminal answers the server gave for the ID]: an observation, read by no action
    calls     \* calls so far

vars == <<call, link, op, pair, told, calls>>
server == <<op, pair, told>>

Verbs == {"create", "start", "kill", "delete"}

\* A success carries the pair as the operation left it; a failure is the reason of a
\* durably failed operation (mapOperationFailure); an error is any other answer:
\* whatever its code, it says nothing of the operation's end and ends the call.
Answer(kind, what) == [kind |-> kind, what |-> what]
Success(phase) == Answer("success", phase)
Failure(reason) == Answer("failure", reason)
Error == Answer("error", "any")
NoAnswer == Answer("none", "none")

Idle == [at |-> "idle", verb |-> "none", id |-> "none", attempt |-> 0]
Free == [at |-> "free", user |-> "none", verb |-> "none", id |-> "none", answer |-> NoAnswer]
Entry(verb, state, reply) == [verb |-> verb, state |-> state, rollback |-> FALSE, reply |-> reply]
Unknown == Entry("none", "none", NoAnswer)

Terminal == {"succeeded", "failed"}
Active == {i \in IDs : op[i].state = "active"}
Working == {x \in Links : link[x].at = "working"}

\* The type invariant: also, a record has its reply exactly when it is terminal,
\* and one request at a time holds the target lock.
TypeOK ==
    /\ \A u \in Users : call[u].at \in {"idle", "lost", "waiting"} /\ call[u].attempt \in 0 .. Retries
    /\ \A x \in Links : link[x].at \in {"free", "sent", "working", "answered"}
    /\ \A i \in IDs : op[i].state \in Terminal <=> op[i].reply # NoAnswer
    /\ pair.phase \in {"absent", "creating", "created", "running", "stopped"}
    /\ Cardinality(Working) <= 1
    /\ calls \in 0 .. MaxCalls

Init ==
    /\ call = [u \in Users |-> Idle] /\ link = [x \in Links |-> Free]
    /\ op = [i \in IDs |-> Unknown] /\ told = [i \in IDs |-> {}]
    /\ pair \in {[phase |-> "absent", bound |-> FALSE], [phase |-> "stopped", bound |-> FALSE]}
             \union [phase : {"created", "running", "stopped"}, bound : {TRUE}]
    /\ calls = 0

-----------------------------------------------------------------------------
(* The client (client.go, cmd/mydocker/main.go).                             *)

\* doJSON makes an attempt: the same operation ID, a fresh request ID.
Attempt(u, x, verb, i) ==
    link[x] = Free /\ link' = [link EXCEPT ![x] = [Free EXCEPT !.at = "sent", !.user = u, !.verb = verb, !.id = i]]

\* A command with an operation ID: a new one, or one the user names again.
Ask(u, x, verb, i) ==
    /\ call[u].at = "idle" /\ calls < MaxCalls /\ Attempt(u, x, verb, i)
    /\ call' = [call EXCEPT ![u] = [at |-> "waiting", verb |-> verb, id |-> i, attempt |-> 0]]
    /\ calls' = calls + 1 /\ UNCHANGED server

Retry(u, x) ==
    /\ call[u].at = "lost" /\ Attempt(u, x, call[u].verb, call[u].id)
    /\ call' = [call EXCEPT ![u].at = "waiting", ![u].attempt = @ + 1]
    /\ UNCHANGED <<server, calls>>

\* What the endpoint's method accepts of a success (validateContainerCall,
\* validateReturnedPhase).
Accepts(verb, phase) ==
    CASE verb = "create" -> phase = "created"
      [] verb = "start" -> phase \in {"running", "stopped"}
      [] verb = "kill" -> phase = "stopped"
      [] verb = "delete" -> TRUE

\* decodeResponse: a complete answer ends the call, be it a success, refused or an
\* error, retryable or not: the library retries the transport only.
Receive(x) ==
    /\ link[x].at = "answered"
    /\ call' = [call EXCEPT ![link[x].user] = Idle] /\ link' = [link EXCEPT ![x] = Free]
    /\ UNCHANGED <<server, calls>>

\* The next state of a call whose attempt ended in a transport error: not connected,
\* cut, timed out, or a body that ended early (TransportError).  doJSON tries
\* again; it returns when no attempt is left or the caller's context is over.
AfterLoss(c) ==
    {Idle} \union (IF c.attempt < Retries THEN {[c EXCEPT !.at = "lost"]} ELSE {})

\* The request of the lost attempt may still be on its way, or at work.
Lose(x) ==
    /\ link[x].user # "none"
    /\ link' = [link EXCEPT ![x] = IF @.at = "answered" THEN Free ELSE [@ EXCEPT !.user = "none"]]
    /\ \E c \in AfterLoss(call[link[x].user]) : call' = [call EXCEPT ![link[x].user] = c]
    /\ UNCHANGED <<server, calls>>

-----------------------------------------------------------------------------
(* The handlers (handler.go, service.go) up to the engine's answer.          *)

\* The server writes its answer, if anybody still waits for it.
Reply(x, answer) ==
    link' = [link EXCEPT ![x] = IF @.user = "none" THEN Free ELSE [@ EXCEPT !.at = "answered", !.answer = answer]]

\* An answer that is the operation's last word.
Tell(x, answer) == Reply(x, answer) /\ told' = [told EXCEPT ![link[x].id] = @ \union {answer}]

\* The handler's context ended before it reached the Store: nothing was done.
Expire(x) ==
    /\ link[x].at = "sent" /\ Reply(x, Error)
    /\ UNCHANGED <<call, server, calls>>

\* A handler gets the target lock and looks its ID up.
Handle(x) ==
    /\ link[x].at = "sent" /\ Working = {}
    /\ UNCHANGED <<call, calls>>

\* The ID is a tombstone, or belongs to another intent.
Refuse(x) ==
    LET r == op[link[x].id] IN
    /\ Handle(x) /\ UNCHANGED server
    /\ r.state = "retired" \/ (r.state # "none" /\ r.verb # link[x].verb)
    /\ Reply(x, Error)

\* Mutant: a replay answers what the pair is now.
Mut_ReplayNow(x) ==
    LET r == op[link[x].id] IN
    /\ Handle(x) /\ r.state \in Terminal /\ r.verb = link[x].verb
    /\ Tell(x, IF r.state = "failed" THEN r.reply ELSE Success(pair.phase)) /\ UNCHANGED <<op, pair>>

\* The ID is terminal: its stored reply, whatever the pair is now.
Replay(x) ==
    LET r == op[link[x].id] IN
    /\ Handle(x) /\ r.state \in Terminal /\ r.verb = link[x].verb
    /\ Tell(x, r.reply) /\ UNCHANGED <<op, pair>>

\* The ID is active: the work goes on where it was left.
Resume(x) ==
    /\ Handle(x) /\ op[link[x].id].state = "active" /\ op[link[x].id].verb = link[x].verb
    /\ link' = [link EXCEPT ![x].at = "working"] /\ UNCHANGED server

\* The ID is new.
Fresh(x) == Handle(x) /\ op[link[x].id] = Unknown

\* The record of a new operation.
Record(x, state, reply) == op' = [op EXCEPT ![link[x].id] = Entry(link[x].verb, state, reply)]

\* Another operation owns the Container: the rejection is recorded, unless there is no
\* pair to record it on.
Conflict(x) ==
    /\ Fresh(x) /\ Active # {} /\ UNCHANGED pair
    /\ IF pair.phase = "absent" /\ link[x].verb # "delete"
       THEN Reply(x, Error) /\ UNCHANGED <<op, told>>
       ELSE Record(x, "failed", Failure("conflict")) /\ Tell(x, Failure("conflict"))

\* Service.CreateContainer answers a create that is no replay only when it has a
\* host-owner binding and the log registry takes it.
Created(x, phase, bound) ==
    \/ Reply(x, Error) /\ UNCHANGED told
    \/ bound /\ Tell(x, Success(phase))

\* What the verb wanted is already so: a terminal operation of its own.
Noop(x) ==
    LET verb == link[x].verb IN
    /\ Fresh(x) /\ Active = {} /\ UNCHANGED pair
    /\ \/ verb = "create" /\ pair.phase # "absent" /\ Created(x, pair.phase, pair.bound)
       \/ verb = "start" /\ pair.phase = "running" /\ Tell(x, Success("running"))
       \/ verb = "kill" /\ pair.phase = "stopped" /\ Tell(x, Success("stopped"))
    /\ Record(x, "succeeded", Success(pair.phase))

\* The phases an intent may begin in.
Begins(verb) ==
    CASE verb = "create" -> {"absent"}
      [] verb = "start" -> {"created"}
      [] verb = "kill" -> {"running"}
      [] verb = "delete" -> {"absent", "created", "stopped"}

\* The intent is persisted and the handler goes to work.
Begin(x) ==
    LET verb == link[x].verb IN
    /\ Fresh(x) /\ Active = {} /\ pair.phase \in Begins(verb)
    /\ Record(x, "active", NoAnswer) /\ link' = [link EXCEPT ![x].at = "working"] /\ UNCHANGED told
    /\ pair' = CASE verb = "create" -> [phase |-> "creating", bound |-> FALSE]
                 [] verb = "delete" /\ pair.phase = "created" -> [pair EXCEPT !.phase = "stopped"]
                 [] OTHER -> pair

\* No such pair, not in its phase, its process cannot be verified; for a create,
\* a pair with another intent, or a Sandbox that takes none: nothing is recorded, and
\* the ID stays free.
Reject(x) ==
    LET verb == link[x].verb IN
    /\ Fresh(x) /\ Active = {} /\ UNCHANGED server
    /\ \/ verb = "create"
       \/ verb = "start" /\ pair.phase \notin {"created", "running"}
       \/ verb = "kill" /\ pair.phase # "stopped"
       \/ verb = "delete" /\ pair.phase = "running"
    /\ Reply(x, Error)

-----------------------------------------------------------------------------
(* The engine's work on an active operation.                                 *)

End(i, state, reply) == op' = [op EXCEPT ![i] = Entry(op[i].verb, state, reply)]
Succeed(i, phase, bound) ==
    End(i, "succeeded", Success(IF phase = "absent" THEN "none" ELSE phase)) /\ pair' = [phase |-> phase, bound |-> bound]
Fail(i, reason, p) == End(i, "failed", Failure(reason)) /\ pair' = p

\* It ends: a create in a prepared pair or, rolled back, in a stopped one; a start in a
\* running or ended workload, or in one that could not start; a kill in an ended
\* one; a delete without the pair, which takes the receipts of a created one.
Settle(i) ==
    LET verb == op[i].verb IN
    \/ /\ verb = "create"
       /\ \/ ~op[i].rollback /\ Succeed(i, "created", TRUE)
          \/ \E r \in {"precondition", "internal", "cleanup"} : Fail(i, r, [phase |-> "stopped", bound |-> FALSE])
    \/ /\ verb = "start"
       /\ \/ \E phase \in {"running", "stopped"} : Succeed(i, phase, TRUE)
          \/ Fail(i, "internal", [pair EXCEPT !.phase = "stopped"])
    \/ verb = "kill" /\ Succeed(i, "stopped", TRUE)
    \/ verb = "delete" /\ (pair.phase = "absent" \/ pair.bound) /\ Succeed(i, "absent", FALSE)

\* Or it stays active, a create perhaps in its rollback.
Stay(i) ==
    /\ \/ UNCHANGED op
       \/ op[i].verb = "create" /\ op' = [op EXCEPT ![i].rollback = TRUE]
    /\ UNCHANGED pair

\* The handler's work ends.  Service.CreateContainer registers the log and
\* Service.DeleteContainer removes it before they answer a success.
Finish(x) ==
    LET i == link[x].id IN
    /\ link[x].at = "working" /\ Settle(i)
    /\ \/ Tell(x, op'[i].reply)
       \/ /\ op'[i].state = "succeeded"
          /\ link[x].verb = "create" \/ (link[x].verb = "delete" /\ pair.bound)
          /\ Reply(x, Error) /\ UNCHANGED told
    /\ UNCHANGED <<call, calls>>

\* An outage, a deadline, or an inverse that failed: an error, and the ID may resume.
Falter(x) ==
    /\ link[x].at = "working" /\ Stay(link[x].id)
    /\ Reply(x, Error)
    /\ UNCHANGED <<call, told, calls>>

-----------------------------------------------------------------------------
(* What else moves the records.                                              *)

\* Recovery, the kill watcher: an active operation settles, stays, or fails for a
\* resource that is gone and leaves the pair as it is.
Reconcile(i) ==
    /\ Working = {} /\ i \in Active
    /\ \/ Settle(i) \/ Stay(i)
       \/ op[i].verb \in {"start", "kill"} /\ Fail(i, "cleanup", pair)
    /\ UNCHANGED <<call, link, told, calls>>

\* The terminal watcher records the end of the workload.
Watch ==
    /\ Working = {} /\ Active = {} /\ pair.phase = "running"
    /\ pair' = [pair EXCEPT !.phase = "stopped"] /\ UNCHANGED <<call, link, op, told, calls>>

\* Retention keeps the tombstone of a terminal operation.
Retire(i) ==
    /\ op[i].state \in Terminal
    /\ op' = [op EXCEPT ![i] = Entry(op[i].verb, "retired", NoAnswer)]
    /\ UNCHANGED <<call, link, pair, told, calls>>

\* The daemon dies and another one serves: every attempt is lost.  What it had begun
\* stays active.
Crash ==
    /\ link' = [x \in Links |-> Free]
    /\ LET next(u) == IF call[u].at = "waiting" THEN AfterLoss(call[u]) ELSE {call[u]} IN
       call' \in {c \in [Users -> UNION {next(u) : u \in Users}] : \A u \in Users : c[u] \in next(u)}
    /\ UNCHANGED <<server, calls>>

Next ==
    \/ \E u \in Users, x \in Links : Retry(u, x) \/ \E verb \in Verbs, i \in IDs : Ask(u, x, verb, i)
    \/ \E x \in Links :
          \/ Receive(x) \/ Lose(x) \/ Expire(x)
          \/ Refuse(x) \/ Replay(x) \/ Resume(x) \/ Conflict(x) \/ Noop(x) \/ Begin(x) \/ Reject(x)
          \/ Finish(x) \/ Falter(x)
    \/ \E i \in IDs : Reconcile(i) \/ Retire(i)
    \/ Watch \/ Crash

Spec == Init /\ [][Next]_vars

-----------------------------------------------------------------------------
(* Properties.                                                               *)

\* However attempts were lost, repeated, overtaken or cut by a crash, an operation ID
\* is given one terminal answer ever, which is what its record says while it is
\* kept (lifecycle/coordinator.go resolveOperation, daemon/errors.go).
OneAnswer ==
    \A i \in IDs :
       /\ Cardinality(told[i]) <= 1
       /\ \A a \in told[i] : op[i].state # "retired" => op[i].reply = a

\* What the server calls a success, the method of the client library that asked takes
\* for one, whatever befell the pair since.  A create that found a pair another ID
\* had made may be refused (validateReturnedPhase).
SuccessIsAccepted ==
    \A x \in Links :
       link[x].answer.kind = "success" /\ link[x].verb # "create" => Accepts(link[x].verb, link[x].answer.what)

AnswersAreExact == TypeOK /\ OneAnswer /\ SuccessIsAccepted

=============================================================================
