---------------------------- MODULE SocketLease ----------------------------
(***************************************************************************)
(* How daemons share the public name of the API socket                       *)
(* (src/internal/server/socket.go).  A daemon leases the directory, removes   *)
(* the socket a dead daemon left, binds a socket below a private directory,    *)
(* tightens its mode, renames it to the public name without replacement and   *)
(* probes it.  It removes a name by moving it into a private directory first  *)
(* and comparing there: what is not the expected socket is moved back.        *)
(*                                                                         *)
(* Each system call is a step.  Daemons may die between any two, and another  *)
(* process that does not know of the lease may put a listening socket of its   *)
(* own at the name or take it away.  Paths, types and owners of the directory  *)
(* are taken to be right; empty private directories are left out.             *)
(***************************************************************************)
EXTENDS Naturals, Sequences

CONSTANTS
    Daemons,    \* daemon processes
    Foreign,    \* the other process
    MaxSockets, \* bound on the sockets ever bound
    MaxForeign, \* bound on the steps of the other process
    MaxFaults,  \* bound on failed calls and deaths of daemons
    None        \* no socket, no holder

SocketAssumption ==
    /\ MaxSockets \in Nat /\ MaxForeign \in Nat /\ MaxFaults \in Nat
    /\ Foreign \notin Daemons /\ None \notin Daemons \cup Nat

VARIABLES
    public,     \* the socket the public name leads to, or None
    made,       \* who bound each socket; a socket is its number in this list
    listening,  \* sockets with a listener behind them
    tight,      \* sockets whose mode was set
    orphans,    \* sockets whose name was left behind when their listener ended
    unlinked,   \* sockets that lost their last name to a daemon
    lease,      \* the daemon that holds the flock of the directory
    step,       \* [Daemons -> next system call]
    own,        \* [Daemons -> the socket it bound, or None]
    expected,   \* [Daemons -> the socket it wants to remove, or None]
    claimed,    \* [Daemons -> the socket it moved into a private directory]
    foreigns,   \* steps of the other process so far
    faults      \* failures and deaths so far

vars == <<public, made, listening, tight, orphans, unlinked, lease, step, own, expected, claimed, foreigns, faults>>
sockets == <<made, listening, tight, orphans, unlinked>>
budget == <<foreigns, faults>>

Ids == 1 .. MaxSockets
Steps == {"off", "look", "dial", "quarantine", "compare", "bind", "tighten", "publish", "verify", "probe",
          "serving", "shut", "leave"}

\* The type invariant of SocketLease: also, what a daemon runs it runs under
\* the lease.
TypeOK ==
    /\ public \in Ids \cup {None} /\ made \in Seq(Daemons \cup {Foreign}) /\ Len(made) <= MaxSockets
    /\ listening \cup tight \cup orphans \cup unlinked \subseteq 1 .. Len(made)
    /\ lease \in Daemons \cup {None} /\ step \in [Daemons -> Steps]
    /\ {own, expected, claimed} \subseteq [Daemons -> Ids \cup {None}]
    /\ \A d \in Daemons : step[d] # "off" <=> lease = d
    /\ foreigns \in 0 .. MaxForeign /\ faults \in 0 .. MaxFaults

Init ==
    /\ public = None /\ made = <<>>
    /\ listening = {} /\ tight = {} /\ orphans = {} /\ unlinked = {}
    /\ lease = None /\ step = [d \in Daemons |-> "off"]
    /\ own = [d \in Daemons |-> None] /\ expected = [d \in Daemons |-> None]
    /\ claimed = [d \in Daemons |-> None] /\ foreigns = 0 /\ faults = 0

\* verifyUnixSocketAt and probePublishedUnixSocket: what the name leads to.
NamesOwn(d) == public = own[d]
Answered == public \in listening

At(d, here) == step[d] = here
Goto(d, there) == step' = [step EXCEPT ![d] = there]

\* The start is given up before a socket was bound: the lease goes.
GiveUp(d) == Goto(d, "off") /\ lease' = None /\ own' = [own EXCEPT ![d] = None]
             /\ UNCHANGED <<sockets, public, expected, claimed>>

\* discard: an unpublished socket and its listener go, then the lease.
Discard(d) ==
    /\ Goto(d, "off") /\ lease' = None
    /\ listening' = listening \ {own[d]} /\ unlinked' = unlinked \cup {own[d]}
    /\ own' = [own EXCEPT ![d] = None] /\ UNCHANGED <<public, made, tight, orphans, expected, claimed>>

\* discardPublished and Close: remove the name, close the listener, then leave.
Withdraw(d) ==
    /\ Goto(d, "quarantine") /\ expected' = [expected EXCEPT ![d] = own[d]]
    /\ UNCHANGED <<sockets, public, lease, own, claimed>>

\* openSocketParent: without the lease the start fails.
LockSocketParent(d) ==
    /\ At(d, "off") /\ lease = None /\ Goto(d, "look") /\ lease' = d
    /\ UNCHANGED <<sockets, public, own, expected, claimed, budget>>

\* removeOwnedStaleSocket: which socket is at the name.
Look(d) ==
    /\ At(d, "look") /\ expected' = [expected EXCEPT ![d] = public]
    /\ Goto(d, IF public = None THEN "bind" ELSE "dial")
    /\ UNCHANGED <<sockets, public, lease, own, claimed, budget>>

\* removeOwnedStaleSocket: somebody who answers at the name ends the start; a
\* refused call, or no name any more, allows the removal of what was seen.
Dial(d) ==
    /\ At(d, "dial") /\ UNCHANGED budget
    /\ IF Answered THEN GiveUp(d)
       ELSE Goto(d, "quarantine") /\ UNCHANGED <<sockets, public, lease, own, expected, claimed>>

\* The removal is over: a stale socket makes room for the own one, the own one
\* lets its listener close.
Removed(d) == Goto(d, IF own[d] = None THEN "bind" ELSE "shut") /\ UNCHANGED <<lease, own, expected>>
NotRemoved(d) ==
    IF own[d] = None
    THEN Goto(d, "off") /\ lease' = None /\ UNCHANGED <<own, expected>>
    ELSE Goto(d, "shut") /\ UNCHANGED <<lease, own, expected>>

\* removeExpectedUnixSocket: whatever is at the name moves away.
Quarantine(d) ==
    /\ At(d, "quarantine") /\ UNCHANGED <<sockets, budget>>
    /\ IF public = None THEN Removed(d) /\ UNCHANGED <<public, claimed>>
       ELSE /\ claimed' = [claimed EXCEPT ![d] = public] /\ public' = None
            /\ Goto(d, "compare") /\ UNCHANGED <<lease, own, expected>>

\* Mutant: what was moved is unlinked unseen.
Mut_Unlinks(d) ==
    /\ At(d, "compare") /\ claimed' = [claimed EXCEPT ![d] = None] /\ UNCHANGED <<budget, made, listening, tight, orphans>>
    /\ unlinked' = unlinked \cup {claimed[d]} /\ UNCHANGED public /\ Removed(d)

\* removeExpectedUnixSocket: the expected socket is unlinked; another one moves
\* back if the name is still free and stays in the private directory if not.
Compare(d) ==
    /\ At(d, "compare") /\ claimed' = [claimed EXCEPT ![d] = None] /\ UNCHANGED <<budget, made, listening, tight, orphans>>
    /\ \/ /\ claimed[d] = expected[d]
          /\ unlinked' = unlinked \cup {claimed[d]} /\ UNCHANGED public /\ Removed(d)
       \/ /\ claimed[d] # expected[d] /\ public = None
          /\ public' = claimed[d] /\ UNCHANGED unlinked /\ NotRemoved(d)
       \/ /\ claimed[d] # expected[d] /\ public # None
          /\ UNCHANGED <<public, unlinked>> /\ NotRemoved(d)

Fresh == Len(made) + 1

\* newStagedUnixListenerAt: a listening socket in the private directory, with
\* the mode the umask gives it.
Bind(d) ==
    /\ At(d, "bind") /\ Len(made) < MaxSockets
    /\ made' = Append(made, d) /\ listening' = listening \cup {Fresh}
    /\ own' = [own EXCEPT ![d] = Fresh] /\ Goto(d, "tighten")
    /\ UNCHANGED <<public, tight, orphans, unlinked, lease, expected, claimed, budget>>

\* newStagedUnixListenerAt: the mode is set and read back.
Tighten(d) ==
    /\ At(d, "tighten") /\ tight' = tight \cup {own[d]} /\ Goto(d, "publish")
    /\ UNCHANGED <<public, made, listening, orphans, unlinked, lease, own, expected, claimed, budget>>

\* publish: the rename does not replace.
Publish(d) ==
    /\ At(d, "publish") /\ UNCHANGED budget
    /\ IF public # None THEN Discard(d)
       ELSE /\ public' = own[d] /\ Goto(d, "verify") /\ UNCHANGED <<sockets, lease, own, expected, claimed>>

\* publish: the name leads to the socket.
Verify(d) ==
    /\ At(d, "verify") /\ UNCHANGED budget
    /\ IF NamesOwn(d) THEN Goto(d, "probe") /\ UNCHANGED <<sockets, public, lease, own, expected, claimed>>
       ELSE Withdraw(d)

\* probePublishedUnixSocket: somebody answers at the name.
Probe(d) ==
    /\ At(d, "probe") /\ UNCHANGED budget
    /\ IF Answered THEN Goto(d, "serving") /\ UNCHANGED <<sockets, public, lease, own, expected, claimed>>
       ELSE Withdraw(d)

\* Close of the published listener.
Close(d) == At(d, "serving") /\ Withdraw(d) /\ UNCHANGED budget

\* Close and discardPublished: the listener, once its name was dealt with.
CloseListener(d) ==
    /\ At(d, "shut") /\ listening' = listening \ {own[d]} /\ Goto(d, "leave")
    /\ UNCHANGED <<public, made, tight, orphans, unlinked, lease, own, expected, claimed, budget>>

\* Close and discardPublished: the lease goes last.
Unlock(d) == At(d, "leave") /\ GiveUp(d) /\ UNCHANGED budget

Orphaned(i) == orphans' = IF i = None THEN orphans ELSE orphans \cup {i}

\* A call fails: the start ends the way its step provides.
FailStart(d) ==
    /\ faults < MaxFaults /\ faults' = faults + 1 /\ UNCHANGED foreigns
    /\ \/ step[d] \in {"look", "dial", "bind"} /\ GiveUp(d)
       \/ step[d] \in {"tighten", "publish"} /\ Discard(d)
       \/ step[d] \in {"verify", "probe"} /\ Withdraw(d)

\* No private directory for the removal: the name stays.
FailRemove(d) ==
    /\ At(d, "quarantine") /\ faults < MaxFaults /\ faults' = faults + 1 /\ UNCHANGED foreigns
    /\ NotRemoved(d) /\ Orphaned(own[d]) /\ UNCHANGED <<public, made, listening, tight, unlinked, claimed>>

\* The process dies: its flock and its listener go, names stay.
Die(d) ==
    /\ ~At(d, "off") /\ faults < MaxFaults /\ faults' = faults + 1 /\ UNCHANGED foreigns
    /\ Goto(d, "off") /\ lease' = None
    /\ listening' = listening \ {own[d]} /\ Orphaned(own[d])
    /\ own' = [own EXCEPT ![d] = None] /\ claimed' = [claimed EXCEPT ![d] = None]
    /\ UNCHANGED <<public, made, tight, unlinked, expected>>

\* The other process puts a listening socket at the name.
ForeignPublish ==
    /\ foreigns < MaxForeign /\ foreigns' = foreigns + 1 /\ Len(made) < MaxSockets
    /\ made' = Append(made, Foreign) /\ listening' = listening \cup {Fresh} /\ public' = Fresh
    /\ UNCHANGED <<tight, orphans, unlinked, lease, step, own, expected, claimed, faults>>

\* The other process removes the name.
ForeignUnlink ==
    /\ foreigns < MaxForeign /\ foreigns' = foreigns + 1 /\ public # None /\ public' = None
    /\ UNCHANGED <<sockets, lease, step, own, expected, claimed, faults>>

\* The other process ends; its names stay.
ForeignDie ==
    /\ foreigns < MaxForeign /\ foreigns' = foreigns + 1
    /\ LET his == {i \in listening : made[i] = Foreign}
       IN his # {} /\ listening' = listening \ his
    /\ UNCHANGED <<public, made, tight, orphans, unlinked, lease, step, own, expected, claimed, faults>>

Proceed(d) ==
    \/ LockSocketParent(d) \/ Look(d) \/ Dial(d) \/ Quarantine(d) \/ Compare(d) \/ Bind(d) \/ Tighten(d)
    \/ Publish(d) \/ Verify(d) \/ Probe(d) \/ CloseListener(d) \/ Unlock(d)

Next ==
    \/ \E d \in Daemons : Proceed(d) \/ Close(d) \/ FailStart(d) \/ FailRemove(d) \/ Die(d)
    \/ ForeignPublish \/ ForeignUnlink \/ ForeignDie

\* A daemon goes on, and one that ended is started again.
Fairness == \A d \in Daemons : WF_vars(Proceed(d))

Spec == Init /\ [][Next]_vars
FairSpec == Spec /\ Fairness

-----------------------------------------------------------------------------
(* What follows states what the users of the name may rely on.               *)

Daemon(i) == i # None /\ made[i] \in Daemons

\* socket.go:235: the name a serving daemon published is not taken by another
\* daemon, nor by the removal of a stale socket that was under way; only the
\* other process can do that.
ServingIsNamed ==
    \A d \in Daemons : At(d, "serving") /\ foreigns = 0 => public = own[d] /\ own[d] \in listening

\* socket.go:237: in an orderly shutdown a client that finds the name also
\* finds a listener; the name outlives it only after a death or a failed
\* removal.
NamedListens == Daemon(public) => public \in listening \cup orphans

\* socket.go:56: no client ever reaches a daemon through the mode of the umask.
PublicIsTight == Daemon(public) => public \in tight

\* socket.go:480: a daemon unlinks what it bound itself or what nobody listens
\* on any more, and no live socket that took the name meanwhile.
LiveKept == [][\A i \in unlinked' \ unlinked : i \in listening => \E d \in Daemons : own[d] = i]_vars

\* socket.go:480: a live socket that was moved by mistake is back at its name
\* when the removal ends, unless a newer one took the name.
MovedIsBack ==
    [][\A d \in Daemons :
          claimed[d] \in listening /\ claimed[d] # own[d] /\ claimed'[d] = None /\ faults' = faults
             => public' # None]_vars

\* socket.go:566: the socket a dead daemon left never keeps the next one from
\* serving; another process that takes the name does.
RestartServes == []<>((\E d \in Daemons : At(d, "serving")) \/ Len(made) = MaxSockets \/ foreigns # 0)
=============================================================================
