------------------------------ MODULE MCDaemon ------------------------------
(***************************************************************************)
(* What keeps a daemon going: the target locks of its engine (TargetLocks),     *)
(* the name of its socket (SocketLease), its run from startup to exit          *)
(* (DaemonRun) and the intents it must settle (Lifecycle).                      *)
(*                                                                         *)
(* They share no state.  `subject' says whose behaviour this is; the variables *)
(* of the others keep their initial values, so that the instance is the sum of   *)
(* the four and not their product.                                            *)
(***************************************************************************)
EXTENDS TargetLocks, Sequences

CONSTANTS
    Daemons, Foreign, MaxSockets, MaxForeign, MaxFaults, \* of SocketLease
    Calls,                                               \* requests of DaemonRun
    Sandboxes, Containers, Ops, Specs                    \* of Lifecycle

VARIABLES
    subject,
    public, made, listening, tight, orphans, unlinked, lease, place, own, expected, claimed, foreigns,
    faults,                                                                            \* SocketLease
    main, signalled, store, mayClose, serve, request, watchers, cancelled, waitMsg, watchMsg, drain,
    timer, failed,                                                                     \* DaemonRun
    sandbox, pair, op                                                                  \* Lifecycle

socketVars ==
    <<public, made, listening, tight, orphans, unlinked, lease, place, own, expected, claimed, foreigns, faults>>
runVars ==
    <<main, signalled, store, mayClose, serve, request, watchers, cancelled, waitMsg, watchMsg, drain, timer, failed>>
lifeVars == <<sandbox, pair, op>>
daemonVars == <<subject, vars, socketVars, runVars, lifeVars>>

Socket == INSTANCE SocketLease WITH step <- place
Run == INSTANCE DaemonRun WITH Requests <- Calls
Life == INSTANCE Lifecycle

ASSUME DaemonAssumption == Socket!SocketAssumption /\ Life!DistinctIDs

DaemonInit ==
    subject \in {"locks", "socket", "run", "intents"} /\ Init /\ Socket!Init /\ Run!Init /\ Life!Init

DaemonNext ==
    /\ UNCHANGED subject
    /\ \/ subject = "locks" /\ Next /\ UNCHANGED <<socketVars, runVars, lifeVars>>
       \/ subject = "socket" /\ Socket!Next /\ UNCHANGED <<vars, runVars, lifeVars>>
       \/ subject = "run" /\ Run!Next /\ UNCHANGED <<vars, socketVars, lifeVars>>
       \/ subject = "intents" /\ Life!Next /\ UNCHANGED <<vars, socketVars, runVars>>

\* The fairness of the modules whose liveness is checked here.
DaemonFairness ==
    /\ \A c \in Callers :
          /\ WF_vars(subject = "locks" /\ Unlock(c)) /\ WF_vars(subject = "locks" /\ Drop(c))
          /\ SF_vars(subject = "locks" /\ Acquire(c))
    /\ \A d \in Daemons : WF_socketVars(subject = "socket" /\ Socket!Proceed(d))
    /\ WF_runVars(subject = "run" /\ Run!MainStep)
    /\ WF_runVars(subject = "run" /\ Run!TimerFires)
    /\ WF_runVars(subject = "run" /\ Run!ServerStep)
    /\ \A o \in Ops : WF_lifeVars(subject = "intents" /\ Life!Drive(o))

DaemonSpec == DaemonInit /\ [][DaemonNext]_daemonVars /\ DaemonFairness

-----------------------------------------------------------------------------
(* Properties.  IsMutex is that of TargetLocks.                              *)

\* The name of the socket (server/socket.go): what a serving daemon published
\* stays at the name, a client that finds the name finds a listener, and none
\* through the mode of the umask.  No daemon unlinks a live socket of another, or
\* keeps it from its name when it moved it by mistake.
NameIsServed ==
    /\ [](Socket!TypeOK /\ Socket!ServingIsNamed /\ Socket!NamedListens /\ Socket!PublicIsTight)
    /\ Socket!LiveKept /\ Socket!MovedIsBack

\* A daemon that exits without an error has answered all it accepted and closed
\* its Store behind its last watcher, and a part that stopped by itself is
\* an error of the daemon (src/cmd/mydockerd/main.go).
CleanExitIsComplete ==
    Run!TypeOK /\ Run!CleanExitIsComplete /\ Run!FailureReported

\* A signal, or the end of one part, ends the whole daemon, even while requests
\* wait for locks or grace periods, and none closes the Store under a request or
\* a watcher that may still use it.  A method that waits for a target gets it, and
\* the socket a dead daemon left never keeps the next one from serving; a process
\* that is not a daemon and takes the name does.
Ends ==
    /\ subject = "locks" => Served
    /\ subject = "socket" => Socket!RestartServes
    /\ Run!CloseIsQuiet
    /\ subject = "run" => Run!Ends

\* Every persisted intent settles: whatever checkpoints, crashes and recovery
\* left behind, the Coordinator still accepts some way to end the operation
\* (lifecycle/checkpoint.go, failure.go, reconcile.go).
IntentsSettle == Life!IntentsSettle
=============================================================================
