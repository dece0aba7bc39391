-------------------------- MODULE ProcessIdentity --------------------------
(***************************************************************************)
(* How the daemon acts on a process it does not hold: the evidence kept of a    *)
(* launched wrapper (PID, boot, start time, cgroup leaf, executable) and the    *)
(* short-lived pidfd opened around two readings of it                          *)
(* (src/internal/isolation/process.go), the confirmation that the process is in  *)
(* its leaf (src/internal/cgroupv2/manager.go), and the launcher's signals and   *)
(* removals made of them (src/internal/slim/launcher_actions.go).              *)
(*                                                                         *)
(* A call is a list of the steps it has left, one system call each; between     *)
(* two of them processes are born, die, are reaped, and a PID passes to another  *)
(* process.  procfs is read one file at a time.  The kernel is external: start   *)
(* times of one boot differ (two processes with one PID are never born in one    *)
(* clock tick), and a pidfd stays bound to the process it was opened for.       *)
(***************************************************************************)
EXTENDS Naturals, Sequences, FiniteSets

CONSTANTS
    Callers,         \* the daemon's goroutines
    Pids,            \* process numbers
    Leaves,          \* cgroup leaves of the daemon
    MaxBirths,       \* bound on processes
    MaxReplacements, \* bound on replacements of the executable file
    MaxReboots,      \* bound on reboots of the host
    MaxFaults,       \* bound on failing system calls, timeouts and daemon restarts
    None

Processes == 1..MaxBirths
Elsewhere == "elsewhere"   \* any cgroup that is not the daemon's
Shim == "shim"             \* the daemon's executable file
Replaced == "shim (deleted)"

Records == [life : {"alive", "zombie", "gone"}, pid : Pids, boot : 0..MaxReboots, start : Processes,
            leaf : Leaves \cup {Elsewhere}, exe : {Shim, Replaced, "other"}]

\* What is not there is None: no process, operation or verdict is.
IdentityAssumption ==
    /\ {MaxBirths, MaxReplacements, MaxReboots, MaxFaults} \subseteq Nat /\ Pids # {}
    /\ None \notin Records \cup Nat \cup {"launch", "signal", "remove", "absent", "removed", "gone", "unreadable"}

VARIABLES
    boot,          \* the boot of the host
    tick,          \* the clock of this boot: births so far
    process,       \* [Processes -> None or a process]
    fds,           \* [Callers -> [handle, probe -> None or a process]]: the open pidfds
    saved,         \* the evidence kept in receipts and journals
    calls,         \* [Callers -> what each one does]
    replacements,  \* replacements of the executable so far
    faults         \* faults so far

vars == <<boot, tick, process, fds, saved, calls, replacements, faults>>
host == <<boot, tick, process, replacements>>

Born == {p \in Processes : process[p] # None}
Running(p) == p \in Born /\ process[p].life = "alive"
Exists(p) == p \in Born /\ process[p].life \in {"alive", "zombie"}
Holders(pid) == {p \in Born : process[p].pid = pid /\ Exists(p)}
FreePid(pid) == Holders(pid) = {}

\* ProcessEvidence: what is kept of a process.
Evidences == [pid : Pids, boot : 0..MaxReboots, start : Processes \cup {0}, leaf : Leaves \cup {Elsewhere, None},
              exe : {Shim, Replaced, "other", None}]

-----------------------------------------------------------------------------
(* What the calls consist of.                                                *)

Steps == {"stat", "cgroup", "exe", "same", "image", "present", "recheck", "open", "bound", "live", "members",
          "deliver", "kill", "exit", "close", "save"}

\* readProcessEvidence, file by file.
ReadEvidence == <<"stat", "cgroup", "exe">>

\* Mutant: a process is recognised by its pidfd alone.
Mut_VerifyPidfdOnly == <<"live">>

\* verifyLocked: the pidfd is live and procfs still shows the evidence.
Verify == <<"live">> \o ReadEvidence \o <<"same">>

\* openVerifiedProcessHandle.
OpenVerified == <<"open", "bound">> \o Verify

\* ProcessEvidencePresent.
Present == ReadEvidence \o <<"present">> \o OpenVerified \o <<"close">>

\* confirmProcessMembership: the list of members between two verifications.
Confirm == Verify \o <<"members">> \o Verify

\* restoreActionProcess.
RestoreAction == Present \o OpenVerified \o Verify \o Confirm

\* signalLauncherAction.
SignalAction == RestoreAction \o Verify \o <<"deliver", "close">>

\* removeLauncherAction: terminateProcess, then waitProcessAbsent.
RemoveAction == RestoreAction \o Verify \o <<"kill", "exit">> \o Present

\* CaptureProcessHandleFromPIDFDExecutable and the launch around it, up to the
\* write of the journal.
Capture == <<"bound">> \o ReadEvidence \o <<"image">> \o Verify \o Confirm \o <<"save", "close">>

-----------------------------------------------------------------------------
Blank == [pid |-> CHOOSE pid \in Pids : TRUE, boot |-> 0, start |-> 0, leaf |-> None, exe |-> None]

\* A reading that found no process (ENOENT, ESRCH), and one that failed.
Gone == [Blank EXCEPT !.exe = "gone"]
Unreadable == [Blank EXCEPT !.exe = "unreadable"]

Idle == [op |-> None, todo |-> <<>>, of |-> None, leaf |-> None, ev |-> Blank, got |-> Blank, probing |-> FALSE,
         verdict |-> None, hit |-> None]

\* Receipts and journals: the evidence kept, the process it was taken from and
\* the leaf that process was launched in.
References == [ev : Evidences, of : Processes, leaf : Leaves]

\* The type invariant of ProcessIdentity: also, one process holds a PID.
TypeOK ==
    /\ boot \in 0..MaxReboots /\ tick \in 0..MaxBirths
    /\ replacements \in 0..MaxReplacements /\ faults \in 0..MaxFaults
    /\ \A p \in Born : process[p] \in Records
    /\ \A pid \in Pids : Cardinality(Holders(pid)) <= 1
    /\ fds \in [Callers -> [handle : Processes \cup {None}, probe : Processes \cup {None}]]
    /\ saved \subseteq References
    /\ \A c \in Callers :
          /\ calls[c].op \in {None, "launch", "signal", "remove"} /\ calls[c].probing \in BOOLEAN
          /\ \A k \in DOMAIN calls[c].todo : calls[c].todo[k] \in Steps
          /\ calls[c].of \in Processes \cup {None} /\ calls[c].leaf \in Leaves \cup {None}
          /\ calls[c].ev \in Evidences /\ calls[c].got \in Evidences \cup {Gone, Unreadable}
          /\ calls[c].verdict \in {None, "error", "absent", "removed", "done"}
          /\ calls[c].hit \in Processes \cup {None}

Init ==
    /\ boot = 0 /\ tick = 0 /\ process = [p \in Processes |-> None]
    /\ fds = [c \in Callers |-> [handle |-> None, probe |-> None]]
    /\ saved = {} /\ calls = [c \in Callers |-> Idle] /\ replacements = 0 /\ faults = 0

-----------------------------------------------------------------------------
(* The host.                                                                 *)

Child(pid, leaf, exe) ==
    [life |-> "alive", pid |-> pid, boot |-> boot, start |-> tick + 1, leaf |-> leaf, exe |-> exe]

Unborn == {p \in Processes : process[p] = None}
NextOf(S) == CHOOSE p \in S : \A q \in S : p <= q

Birth(p, pid, leaf, exe) ==
    /\ Unborn # {} /\ p = NextOf(Unborn) /\ FreePid(pid) /\ tick' = tick + 1
    /\ process' = [process EXCEPT ![p] = Child(pid, leaf, exe)]
    /\ UNCHANGED <<boot, replacements>>

\* Somebody forks: a wrapper in its leaf or a stranger elsewhere.
Spawn(pid, leaf, exe) ==
    /\ UNCHANGED <<fds, saved, calls, faults>>
    /\ \E p \in Processes : Birth(p, pid, leaf, exe)

Die(p) ==
    /\ Running(p) /\ process' = [process EXCEPT ![p].life = "zombie"]
    /\ UNCHANGED <<boot, tick, replacements, fds, saved, calls, faults>>

\* The parent waits for it: the daemon's Wait goroutine, which does so at once,
\* or init.  The PID is free again.
Reap(p) ==
    /\ Exists(p) /\ process[p].life = "zombie" /\ process' = [process EXCEPT ![p].life = "gone"]
    /\ UNCHANGED <<boot, tick, replacements, fds, saved, calls, faults>>

\* The executable file is replaced by another one of the same name, as an
\* upgrade does: /proc/PID/exe of whatever still runs the old one says so.
Replace ==
    /\ replacements < MaxReplacements /\ replacements' = replacements + 1
    /\ process' = [p \in Processes |->
                      IF p \in Born /\ process[p].exe = Shim THEN [process[p] EXCEPT !.exe = Replaced]
                      ELSE process[p]]
    /\ UNCHANGED <<boot, tick, fds, saved, calls, faults>>

NoCalls ==
    /\ calls' = [c \in Callers |-> Idle]
    /\ fds' = [c \in Callers |-> [handle |-> None, probe |-> None]]

\* The daemon starts again: what it wrote is left.
Restart ==
    /\ (\E c \in Callers : calls[c].op # None) /\ NoCalls /\ UNCHANGED <<host, saved>>
    /\ faults < MaxFaults /\ faults' = faults + 1

\* So does the host.
Reboot ==
    /\ boot < MaxReboots /\ boot' = boot + 1 /\ tick' = 0 /\ NoCalls
    /\ process' = [p \in Processes |-> IF p \in Born THEN [process[p] EXCEPT !.life = "gone"] ELSE None]
    /\ UNCHANGED <<replacements, saved, faults>>

-----------------------------------------------------------------------------
(* The steps of a call.                                                      *)

Fd(c) == IF calls[c].probing THEN fds[c].probe ELSE fds[c].handle
WithFd(c, p) ==
    fds' = [fds EXCEPT ![c] = IF calls[c].probing THEN [@ EXCEPT !.probe = p] ELSE [@ EXCEPT !.handle = p]]

At(c, s) == calls[c].todo # <<>> /\ Head(calls[c].todo) = s
Skip(c, n) == SubSeq(calls[c].todo, n + 1, Len(calls[c].todo))
Advance(c) == calls' = [calls EXCEPT ![c].todo = Tail(@)]

\* A call returns; what it deferred closes its descriptors.
End(c, verdict) ==
    /\ calls' = [calls EXCEPT ![c] = [Idle EXCEPT !.verdict = verdict, !.of = calls[c].of]]
    /\ fds' = [fds EXCEPT ![c] = [handle |-> None, probe |-> None]]

\* What follows the close of the probe.
Rest(c) ==
    LET todo == calls[c].todo
        k == CHOOSE k \in DOMAIN todo : todo[k] = "close" /\ \A j \in 1..(k - 1) : todo[j] # "close"
    IN SubSeq(todo, k + 1, Len(todo))

Terminating(c) ==
    /\ calls[c].op = "remove" /\ \E k \in DOMAIN calls[c].todo : calls[c].todo[k] = "kill"
    /\ Len(calls[c].todo) <= Len(Verify) + 2 + Len(Present)

Abandoned(c) == calls[c].op = "launch" /\ Running(calls[c].of)

\* A step fails.  The probe of ProcessEvidencePresent looks at procfs again, the
\* termination of a removal goes on waiting for the exit, a launch aborts its
\* child, and anything else returns the error.
Fail(c) ==
    \/ /\ calls[c].probing /\ UNCHANGED host /\ WithFd(c, None)
       /\ calls' = [calls EXCEPT ![c].probing = FALSE, ![c].todo = ReadEvidence \o <<"recheck">> \o Rest(c)]
    \/ /\ ~calls[c].probing /\ Terminating(c) /\ UNCHANGED <<host, fds>>
       /\ calls' = [calls EXCEPT ![c].todo = <<"exit">> \o Present]
    \/ /\ ~calls[c].probing /\ Abandoned(c) /\ End(c, "error")
       /\ process' = [process EXCEPT ![calls[c].of].life = "zombie"] /\ UNCHANGED <<boot, tick, replacements>>
    \/ ~calls[c].probing /\ ~Terminating(c) /\ ~Abandoned(c) /\ UNCHANGED host /\ End(c, "error")

\* A reading finds the PID's process or no longer does; the files that are left
\* are not read then.
Reading(c, step) == At(c, step) /\ UNCHANGED <<host, fds, saved, faults>>
Missing(c, left) == calls' = [calls EXCEPT ![c].got = Gone, ![c].todo = Skip(c, left)]
Holding(c) == Holders(calls[c].ev.pid)

\* /proc/PID/stat: whoever has the PID, and since when.
ReadStat(c) ==
    /\ Reading(c, "stat")
    /\ \/ Holding(c) = {} /\ Missing(c, 3)
       \/ \E p \in Holding(c) :
             calls' = [calls EXCEPT ![c].todo = Tail(@),
                          ![c].got = [pid |-> process[p].pid, boot |-> boot, start |-> process[p].start, leaf |-> None,
                                      exe |-> None]]

\* /proc/PID/cgroup.
ReadCgroup(c) ==
    /\ Reading(c, "cgroup")
    /\ \/ Holding(c) = {} /\ Missing(c, 2)
       \/ \E p \in Holding(c) : calls' = [calls EXCEPT ![c].todo = Tail(@), ![c].got.leaf = process[p].leaf]

\* /proc/PID/exe: a zombie has none.
ReadExe(c) ==
    /\ Reading(c, "exe")
    /\ \/ {p \in Holding(c) : Running(p)} = {} /\ Missing(c, 1)
       \/ \E p \in Holding(c) :
             Running(p) /\ calls' = [calls EXCEPT ![c].todo = Tail(@), ![c].got.exe = process[p].exe]

\* verifyLocked compares the evidence.
Same(c) ==
    /\ At(c, "same") /\ UNCHANGED <<saved, faults>>
    /\ \/ calls[c].got = calls[c].ev /\ Advance(c) /\ UNCHANGED <<host, fds>>
       \/ calls[c].got # calls[c].ev /\ Fail(c)

\* The capture of a child takes the evidence it reads, if the executable is the
\* one that was launched.
Image(c) ==
    LET got == calls[c].got
    IN /\ At(c, "image") /\ UNCHANGED <<saved, faults>>
       /\ \/ got \in Evidences /\ got.exe = Shim /\ UNCHANGED <<host, fds>>
             /\ calls' = [calls EXCEPT ![c].ev = got, ![c].todo = Tail(@)]
          \/ ~(got \in Evidences /\ got.exe = Shim) /\ Fail(c)

\* Mutant: any reading that does not show the process means that it is gone.
Mut_NotFoundIsAbsent(c) ==
    /\ At(c, "present") /\ UNCHANGED <<host, saved, faults>>
    /\ \/ calls[c].got # calls[c].ev /\ End(c, IF Rest(c) = <<>> THEN "removed" ELSE "absent")
       \/ calls[c].got = calls[c].ev /\ UNCHANGED fds
          /\ calls' = [calls EXCEPT ![c].probing = TRUE, ![c].todo = Tail(@)]

\* ProcessEvidencePresent, the first reading: gone or another one, unknown, or
\* to be probed.
Decide(c) ==
    /\ At(c, "present") /\ UNCHANGED <<host, saved, faults>>
    /\ \/ calls[c].got \notin {calls[c].ev, Unreadable} /\ End(c, IF Rest(c) = <<>> THEN "removed" ELSE "absent")
       \/ calls[c].got = Unreadable /\ End(c, "error")
       \/ calls[c].got = calls[c].ev /\ UNCHANGED fds
          /\ calls' = [calls EXCEPT ![c].probing = TRUE, ![c].todo = Tail(@)]

\* ProcessEvidencePresent, the reading after a probe that failed.
Recheck(c) ==
    /\ At(c, "recheck") /\ UNCHANGED <<host, saved, faults>>
    /\ \/ /\ calls[c].got \notin {calls[c].ev, Unreadable}
          /\ End(c, IF Tail(calls[c].todo) = <<>> THEN "removed" ELSE "absent")
       \/ calls[c].got \in {calls[c].ev, Unreadable} /\ End(c, "error")

\* pidfd_open.
OpenPidfd(c) ==
    /\ At(c, "open") /\ UNCHANGED <<saved, faults>>
    /\ \/ \E p \in Holding(c) : WithFd(c, p) /\ Advance(c) /\ UNCHANGED host
       \/ Holding(c) = {} /\ Fail(c)

\* The Pid of the descriptor, or the signal 0 sent to it: the process exists.
Bound(c) ==
    /\ At(c, "bound") \/ At(c, "live")
    /\ UNCHANGED <<saved, faults>>
    /\ \/ Exists(Fd(c)) /\ Advance(c) /\ UNCHANGED <<host, fds>>
       \/ ~Exists(Fd(c)) /\ Fail(c)

\* cgroup.procs of the leaf lists the PID.
Members(c) ==
    LET members == {process[p].pid : p \in {p \in Processes : Running(p) /\ process[p].leaf = calls[c].leaf}}
    IN /\ At(c, "members") /\ UNCHANGED <<saved, faults>>
       /\ \/ calls[c].ev.pid \in members /\ Advance(c) /\ UNCHANGED <<host, fds>>
          \/ calls[c].ev.pid \notin members /\ Fail(c)

\* pidfd_send_signal of a signal that the keeper handles.
Deliver(c) ==
    /\ At(c, "deliver") /\ UNCHANGED <<saved, faults>>
    /\ \/ Exists(Fd(c)) /\ UNCHANGED <<host, fds>>
          /\ calls' = [calls EXCEPT ![c].hit = Fd(c), ![c].todo = Tail(@)]
       \/ ~Exists(Fd(c)) /\ Fail(c)

\* pidfd_send_signal of SIGKILL.
Kill(c) ==
    /\ At(c, "kill") /\ UNCHANGED <<boot, tick, replacements, fds, saved, faults>>
    /\ \/ Exists(Fd(c))
          /\ process' = [process EXCEPT ![Fd(c)].life = "zombie"]
          /\ calls' = [calls EXCEPT ![c].hit = Fd(c), ![c].todo = Tail(@)]
       \/ ~Exists(Fd(c)) /\ Advance(c) /\ UNCHANGED process

\* WaitForExit: signal 0 finds no process any more, or the time is up because
\* nothing killed it.
AwaitExit(c) ==
    /\ At(c, "exit") /\ Advance(c) /\ UNCHANGED <<host, fds, saved, faults>>
    /\ ~Exists(Fd(c)) \/ Running(Fd(c))

\* The probe is closed: the process is present.  A removal polls until it is gone
\* or, when it still runs, until the time is up.  Without a probe the call is
\* done.
Close(c) ==
    /\ At(c, "close") /\ UNCHANGED <<host, saved, faults>>
    /\ \/ calls[c].probing /\ Rest(c) # <<>> /\ WithFd(c, None)
          /\ calls' = [calls EXCEPT ![c].probing = FALSE, ![c].todo = Tail(@)]
       \/ calls[c].probing /\ Rest(c) = <<>> /\ ~Running(calls[c].of) /\ WithFd(c, None)
          /\ calls' = [calls EXCEPT ![c].probing = FALSE, ![c].todo = Present]
       \/ calls[c].probing /\ Rest(c) = <<>> /\ Running(calls[c].of) /\ End(c, "error")
       \/ ~calls[c].probing /\ End(c, "done")

\* The journal names the child.
Save(c) ==
    /\ At(c, "save") /\ Advance(c) /\ UNCHANGED <<host, fds, faults>>
    /\ saved' = saved \cup {[ev |-> calls[c].ev, of |-> calls[c].of, leaf |-> calls[c].leaf]}

\* A system call fails in a way that says nothing, or a wait times out.
Fault(c) ==
    LET step == Head(calls[c].todo)
        left == [stat |-> 3, cgroup |-> 2, exe |-> 1]
    IN /\ calls[c].todo # <<>> /\ faults < MaxFaults /\ faults' = faults + 1 /\ UNCHANGED saved
       /\ \/ step \in DOMAIN left /\ UNCHANGED <<host, fds>>
             /\ calls' = [calls EXCEPT ![c].got = Unreadable, ![c].todo = Skip(c, left[step])]
          \/ step \in {"open", "bound", "live", "members", "deliver"} /\ Fail(c)
          \/ step \in {"kill", "exit"} /\ Advance(c) /\ UNCHANGED <<host, fds>>

-----------------------------------------------------------------------------
(* The calls.                                                                *)

\* A wrapper is forked into its leaf; the fork returns its PID and its pidfd.
Launch(c, pid, leaf) ==
    /\ calls[c].op = None /\ UNCHANGED <<saved, faults>>
    /\ \E p \in Processes :
          /\ Birth(p, pid, leaf, Shim)
          /\ fds' = [fds EXCEPT ![c].handle = p]
          /\ calls' = [calls EXCEPT ![c] = [Idle EXCEPT !.op = "launch", !.todo = Capture, !.of = p, !.leaf = leaf,
                                                        !.ev.pid = pid]]

Act(c, op, todo, reference) ==
    /\ calls[c].op = None /\ UNCHANGED <<host, fds, saved, faults>>
    /\ calls' = [calls EXCEPT ![c] = [Idle EXCEPT !.op = op, !.todo = todo, !.of = reference.of,
                                                  !.leaf = reference.leaf, !.ev = reference.ev]]

Signal(c, reference) == Act(c, "signal", SignalAction, reference)

\* Removals of one owner are serialized.
Remove(c, reference) ==
    /\ \A d \in Callers : calls[d].op = "remove" => calls[d].of # reference.of
    /\ Act(c, "remove", RemoveAction, reference)

Step(c) ==
    \/ ReadStat(c) \/ ReadCgroup(c) \/ ReadExe(c) \/ Same(c) \/ Image(c) \/ Decide(c) \/ Recheck(c)
    \/ OpenPidfd(c) \/ Bound(c) \/ Members(c) \/ Deliver(c) \/ Kill(c) \/ AwaitExit(c) \/ Close(c) \/ Save(c)

Next ==
    \/ \E c \in Callers : Step(c) \/ Fault(c)
    \/ \E c \in Callers, pid \in Pids, leaf \in Leaves : Launch(c, pid, leaf)
    \/ \E c \in Callers, r \in saved : Signal(c, r) \/ Remove(c, r)
    \/ \E pid \in Pids, leaf \in Leaves \cup {Elsewhere}, exe \in {Shim, "other"} : Spawn(pid, leaf, exe)
    \/ \E p \in Processes : Die(p) \/ Reap(p)
    \/ Replace \/ Restart \/ Reboot

\* A call goes on, a process that ended is waited for, and a removal is asked
\* for again until it succeeds; requests run in goroutines of their own, so other
\* calls do not keep it out (a strong fairness here, where goroutines are few).
Fairness ==
    /\ \A c \in Callers : WF_vars(Step(c))
    /\ \A p \in Processes : WF_vars(Reap(p))
    /\ \A p \in Processes : SF_vars(\E c \in Callers, r \in saved : r.of = p /\ Remove(c, r))

Spec == Init /\ [][Next]_vars /\ Fairness

-----------------------------------------------------------------------------
(* Properties.                                                               *)

\* A signal reaches the process whose evidence was kept and no other one: not
\* the one that has its PID now, in this boot or another one (Signal,
\* verifyLocked, openVerifiedProcessHandle).
SignalsTheOwner == \A c \in Callers : calls[c].hit \in {None, calls[c].of}

\* What a launch writes into its journal is the evidence of the child it forked,
\* in the leaf it asked for, even when the child dies while it is read
\* (CaptureProcessHandleFromPIDFDExecutable, confirmProcessMembership).
SavedNamesTheChild ==
    \A r \in saved :
       r.ev.pid = process[r.of].pid /\ r.ev.boot = process[r.of].boot /\ r.ev.start = process[r.of].start
       /\ r.ev.leaf = process[r.of].leaf /\ r.ev.leaf = r.leaf

\* A process that is reported absent, or removed, has ended
\* (ProcessEvidencePresent, removeLauncherAction).
AbsentIsDead == \A c \in Callers : calls[c].verdict \in {"absent", "removed"} => ~Running(calls[c].of)

\* The daemon has a pidfd open only while a call uses it: the handle of a call
\* at work and the probe of one that probes (Close and the deferred closes).
DescriptorsAreHeld ==
    \A c \in Callers :
       /\ fds[c].handle # None => calls[c].op # None
       /\ fds[c].probe # None => calls[c].probing

\* A wrapper whose removal is asked for until it succeeds ends, and the removal
\* says so (removeLauncherAction), unless its executable was replaced.
RemovalEnds ==
    \A p \in Processes :
       (\E r \in saved : r.of = p) ~> ~Running(p) \/ replacements # 0
=============================================================================
