---------------------------- MODULE RollbackStack ----------------------------
(***************************************************************************)
(* The stack of named inverses of src/internal/rollback/rollback.go.  A caller *)
(* pushes the inverse of each resource it acquires; Run seals the stack and    *)
(* calls the inverses that have not succeeded, the last one first.            *)
(*                                                                         *)
(* Several goroutines may run the stack at once; the mutex is released while   *)
(* an inverse is called.  The records of the stack are saved at any time, and  *)
(* after a crash Restore builds the stack from them.  As the comment of Begin   *)
(* asks, the caller saves the sealed stack before it runs it.                *)
(* The engine saves such records too, but calls its inverses itself; see       *)
(* Acquisition.                                                             *)
(***************************************************************************)
EXTENDS Naturals, Sequences

CONSTANTS
    Names,     \* resources that may be acquired, by the name of their step
    Runners,   \* goroutines that may call Run
    MaxFaults  \* bound on failed inverses and crashes

RollbackAssumption == MaxFaults \in Nat

VARIABLES
    held,    \* resources acquired and not released
    failed,  \* resources of which an inverse has failed
    steps,   \* the steps, in the order of acquisition
    sealed, running,
    saved,   \* the records saved last
    run,     \* [Runners -> progress of the call of Run]
    faults

vars == <<held, failed, steps, sealed, running, saved, run, faults>>

Step == [name : Names, succeeded : BOOLEAN]
Record == [name : Names, succeeded : BOOLEAN, started : BOOLEAN]
Idle == [pc |-> "idle", index |-> 0, clean |-> TRUE]
Pushed == {steps[i].name : i \in DOMAIN steps}

\* The type invariant of RollbackStack; no name is pushed twice.
TypeOK ==
    /\ held \subseteq Names /\ failed \subseteq Names
    /\ steps \in Seq(Step) /\ saved \in Seq(Record)
    /\ \A i, j \in DOMAIN steps : i # j => steps[i].name # steps[j].name
    /\ sealed \in BOOLEAN /\ running \in BOOLEAN
    /\ run \in [Runners -> [pc : {"idle", "begun", "loop", "inverse", "mark", "reported"},
                            index : Nat, clean : BOOLEAN]]
    /\ \A r \in Runners : run[r].pc \in {"inverse", "mark"} => run[r].index \in DOMAIN steps
    /\ faults \in 0 .. MaxFaults

Init ==
    /\ held = {} /\ failed = {} /\ steps = <<>> /\ sealed = FALSE /\ running = FALSE
    /\ saved = <<>> /\ run = [r \in Runners |-> Idle] /\ faults = 0

Fault == faults < MaxFaults /\ faults' = faults + 1

-----------------------------------------------------------------------------
\* The caller acquires a resource that it does not hold.
Acquire(n) ==
    /\ n \notin held \cup Pushed /\ held' = held \cup {n}
    /\ UNCHANGED <<failed, steps, sealed, running, saved, run, faults>>

\* Push: not after the stack was sealed, and each name once.
Push(n) ==
    /\ n \in held \ Pushed /\ ~sealed
    /\ steps' = Append(steps, [name |-> n, succeeded |-> FALSE])
    /\ UNCHANGED <<held, failed, sealed, running, saved, run, faults>>

\* Begin seals the stack.
Begin ==
    /\ ~sealed /\ sealed' = TRUE
    /\ UNCHANGED <<held, failed, steps, running, saved, run, faults>>

\* The records that are saved hold every step of the sealed stack: what a caller
\* has to see to before it calls an inverse.
Covered == sealed /\ Len(saved) = Len(steps) /\ \A i \in DOMAIN saved : saved[i].started

\* Run is called; its own Begin finds the stack sealed.
Call(r) ==
    /\ run[r].pc \in {"idle", "reported"} /\ Covered
    /\ run' = [run EXCEPT ![r] = [Idle EXCEPT !.pc = "begun"]]
    /\ UNCHANGED <<held, failed, steps, sealed, running, saved, faults>>

\* Run: one call runs the stack, and another one reports a failure.
Run(r) ==
    /\ run[r].pc = "begun"
    /\ \/ /\ ~running /\ running' = TRUE
          /\ run' = [run EXCEPT ![r].pc = "loop", ![r].index = Len(steps)]
       \/ /\ running /\ UNCHANGED running
          /\ run' = [run EXCEPT ![r].pc = "reported", ![r].clean = FALSE]
    /\ UNCHANGED <<held, failed, steps, sealed, saved, faults>>

\* The next step down is called, or passed over if it has succeeded.
Visit(r) ==
    /\ run[r].pc = "loop" /\ run[r].index > 0
    /\ run' = IF steps[run[r].index].succeeded
              THEN [run EXCEPT ![r].index = @ - 1]
              ELSE [run EXCEPT ![r].pc = "inverse"]
    /\ UNCHANGED <<held, failed, steps, sealed, running, saved, faults>>

\* The inverse releases its resource, if that is held still, or fails: then the
\* run goes on with the next step down.
Inverse(r) ==
    /\ run[r].pc = "inverse"
    /\ \/ /\ held' = held \ {steps[run[r].index].name}
          /\ run' = [run EXCEPT ![r].pc = "mark"] /\ UNCHANGED <<failed, faults>>
       \/ /\ Fault /\ failed' = failed \cup {steps[run[r].index].name}
          /\ run' = [run EXCEPT ![r].pc = "loop", ![r].index = @ - 1, ![r].clean = FALSE]
          /\ UNCHANGED held
    /\ UNCHANGED <<steps, sealed, running, saved>>

\* The step is marked.
Mark(r) ==
    /\ run[r].pc = "mark"
    /\ steps' = [steps EXCEPT ![run[r].index].succeeded = TRUE]
    /\ run' = [run EXCEPT ![r].pc = "loop", ![r].index = @ - 1]
    /\ UNCHANGED <<held, failed, sealed, running, saved, faults>>

\* The report of a run that visited every step.
Report(r) ==
    /\ run[r].pc = "loop" /\ run[r].index = 0
    /\ running' = FALSE /\ run' = [run EXCEPT ![r].pc = "reported"]
    /\ UNCHANGED <<held, failed, steps, sealed, saved, faults>>

\* Snapshot, which the caller saves.
Snapshot ==
    /\ saved' = [i \in DOMAIN steps |->
         [name |-> steps[i].name, succeeded |-> steps[i].succeeded, started |-> sealed]]
    /\ UNCHANGED <<held, failed, steps, sealed, running, run, faults>>

\* A crash, and Restore from the records: a step that was started seals the stack.
Restore ==
    /\ Fault
    /\ steps' = [i \in DOMAIN saved |-> [name |-> saved[i].name, succeeded |-> saved[i].succeeded]]
    /\ sealed' = (\E i \in DOMAIN saved : saved[i].started)
    /\ running' = FALSE /\ run' = [r \in Runners |-> Idle]
    /\ UNCHANGED <<held, failed, saved>>

-----------------------------------------------------------------------------
Proceed(r) == Run(r) \/ Visit(r) \/ Inverse(r) \/ Mark(r) \/ Report(r)

Next ==
    \/ \E n \in Names : Acquire(n) \/ Push(n)
    \/ \E r \in Runners : Call(r) \/ Proceed(r)
    \/ Begin \/ Snapshot \/ Restore

Spec == Init /\ [][Next]_vars

\* A sealed stack is saved, a run goes on, and the stack is run again and again.
Fairness ==
    /\ WF_vars(sealed /\ Snapshot)
    /\ \A r \in Runners : WF_vars(Proceed(r)) /\ WF_vars(Call(r))
LiveSpec == Spec /\ Fairness

-----------------------------------------------------------------------------
(* What the stack promises                                                  *)

\* At most one goroutine is inside an inverse, although the mutex is not held
\* there: inverses are idempotent, not safe for concurrent use (Stack.running).
OneInverseAtATime ==
    \A r, s \in Runners : run[r].pc \in {"inverse", "mark"} /\ run[s].pc \in {"inverse", "mark"} => r = s

\* A Run that reports no failure leaves no resource held whose inverse is in the
\* stack, also of a stack that was restored (Report.Err).
CleanIsReleased ==
    \A r \in Runners : run[r].pc = "reported" /\ run[r].clean => held \cap Pushed = {}

\* A resource is released before one acquired later only if the inverse of the
\* later one has failed, over any number of runs, crashes and restored stacks.
LastInFirstOut ==
    \A i, j \in DOMAIN steps :
        i < j /\ steps[i].name \notin held /\ steps[j].name \in held => steps[j].name \in failed

\* Once a stack is sealed, its runs release every resource in it, or a crash
\* restores a stack that was not sealed when it was saved.
SealedIsReleased == sealed ~> (held \cap Pushed = {} \/ ~sealed)
=============================================================================
