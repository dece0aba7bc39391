---------------------------- MODULE TargetLocks ----------------------------
(***************************************************************************)
(* The lock per target of the engine (src/internal/engine/engine.go), which  *)
(* every method takes for as long as it runs.  A key has an entry only while  *)
(* somebody uses it: the entry counts its holder and its waiters, and who    *)
(* leaves last deletes it.  An entry is therefore fetched, locked, unlocked   *)
(* and dropped in four steps, with other callers between any two of them.    *)
(* What happens under locks.mu is one step.  src/internal/daemon/service.go   *)
(* keeps a second table of the same form for its Container locks.            *)
(***************************************************************************)
EXTENDS Naturals, FiniteSets

CONSTANTS
    Callers,   \* goroutines that run a method
    Keys,      \* targets
    Entries,   \* targetLock objects of the heap
    None       \* no key, entry or caller

ASSUME LocksAssumption ==
    /\ IsFiniteSet(Callers)
    /\ None \notin Callers /\ None \notin Keys /\ None \notin Entries

VARIABLES
    locks,   \* [Keys -> the entry of the key, or None]
    refs,    \* [Entries -> the count of its users]
    owner,   \* [Entries -> the caller that has its mutex, or None]
    step,    \* [Callers -> where the caller is]
    key,     \* [Callers -> the key it asked for]
    entry    \* [Callers -> the entry it fetched]

vars == <<locks, refs, owner, step, key, entry>>

Steps == {"idle", "waiting", "holding", "dropping"}

\* The type invariant of TargetLocks: a caller points at an entry exactly while
\* it uses one.
TypeOK ==
    /\ locks \in [Keys -> Entries \cup {None}]
    /\ refs \in [Entries -> Nat] /\ owner \in [Entries -> Callers \cup {None}]
    /\ step \in [Callers -> Steps]
    /\ key \in [Callers -> Keys \cup {None}] /\ entry \in [Callers -> Entries \cup {None}]
    /\ \A c \in Callers : (step[c] = "idle" <=> entry[c] = None) /\ (step[c] = "idle" <=> key[c] = None)

Init ==
    /\ locks = [k \in Keys |-> None]
    /\ refs = [e \in Entries |-> 0] /\ owner = [e \in Entries |-> None]
    /\ step = [c \in Callers |-> "idle"]
    /\ key = [c \in Callers |-> None] /\ entry = [c \in Callers |-> None]

\* Who points at an entry.
Users(e) == {c \in Callers : entry[c] = e}

\* An allocation returns an object that nothing points at.
Fresh(e) == (\A k \in Keys : locks[k] # e) /\ Users(e) = {}

\* lock, under mu: the entry of the key, made when there is none, gets a user.
Fetch(c, k) ==
    /\ step[c] = "idle"
    /\ \E e \in Entries :
          /\ IF locks[k] = None THEN Fresh(e) ELSE e = locks[k]
          /\ locks' = [locks EXCEPT ![k] = e]
          /\ refs' = [refs EXCEPT ![e] = IF locks[k] = None THEN 1 ELSE refs[e] + 1]
          /\ owner' = [owner EXCEPT ![e] = IF locks[k] = None THEN None ELSE owner[e]]
          /\ entry' = [entry EXCEPT ![c] = e]
    /\ step' = [step EXCEPT ![c] = "waiting"] /\ key' = [key EXCEPT ![c] = k]

\* lock: the mutex of the entry is free and goes to the caller.
Acquire(c) ==
    /\ step[c] = "waiting" /\ owner[entry[c]] = None
    /\ owner' = [owner EXCEPT ![entry[c]] = c]
    /\ step' = [step EXCEPT ![c] = "holding"] /\ UNCHANGED <<locks, refs, key, entry>>

\* The release function, before mu: the mutex is free again.
Unlock(c) ==
    /\ step[c] = "holding"
    /\ owner' = [owner EXCEPT ![entry[c]] = None]
    /\ step' = [step EXCEPT ![c] = "dropping"] /\ UNCHANGED <<locks, refs, key, entry>>

\* Mutant: whoever leaves deletes the entry.
Mut_DropAlways(c) ==
    /\ step[c] = "dropping"
    /\ refs' = [refs EXCEPT ![entry[c]] = refs[entry[c]] - 1]
    /\ locks' = [locks EXCEPT ![key[c]] = IF locks[key[c]] = entry[c] THEN None ELSE locks[key[c]]]
    /\ step' = [step EXCEPT ![c] = "idle"]
    /\ key' = [key EXCEPT ![c] = None] /\ entry' = [entry EXCEPT ![c] = None] /\ UNCHANGED owner

\* The release function, under mu: the last user deletes the entry.
Drop(c) ==
    /\ step[c] = "dropping"
    /\ refs' = [refs EXCEPT ![entry[c]] = refs[entry[c]] - 1]
    /\ locks' = IF refs[entry[c]] = 1 /\ locks[key[c]] = entry[c]
                THEN [locks EXCEPT ![key[c]] = None] ELSE locks
    /\ step' = [step EXCEPT ![c] = "idle"]
    /\ key' = [key EXCEPT ![c] = None] /\ entry' = [entry EXCEPT ![c] = None] /\ UNCHANGED owner

Next == \E c \in Callers : Acquire(c) \/ Unlock(c) \/ Drop(c) \/ \E k \in Keys : Fetch(c, k)

\* Methods return and release what they took.  sync.Mutex hands itself over to
\* a waiter that has waited long enough, hence strong fairness.
Fairness == \A c \in Callers : WF_vars(Unlock(c)) /\ WF_vars(Drop(c)) /\ SF_vars(Acquire(c))

Spec == Init /\ [][Next]_vars
FairSpec == Spec /\ Fairness

-----------------------------------------------------------------------------
(* What follows states what a keyed lock must give.                          *)

\* engine.go:261: two methods never run on one target, although the entry of a
\* key may be deleted and made anew while others still point at the old one.
MutualExclusion ==
    \A c, d \in Callers : step[c] = "holding" /\ step[d] = "holding" /\ key[c] = key[d] => c = d

\* target_locks_test.go:51: keys nobody uses do not accumulate, and an entry
\* somebody uses is in the table.
TableIsUsed ==
    /\ \A k \in Keys : locks[k] # None => Users(locks[k]) # {}
    /\ \A c \in Callers : step[c] # "idle" => locks[key[c]] = entry[c]

\* engine.go: to the methods the table is a mutex per target (KeyedMutex).
M == INSTANCE KeyedMutex WITH
        wants <- [c \in Callers |-> IF step[c] = "waiting" THEN key[c] ELSE None],
        holds <- [c \in Callers |-> IF step[c] = "holding" THEN key[c] ELSE None]
IsMutex == M!Spec

\* lock returns at last, whoever else uses the key.
Served == \A c \in Callers : step[c] = "waiting" ~> step[c] = "holding"
=============================================================================
