---------------------------- MODULE DaemonProofs ----------------------------
(***************************************************************************)
(* Proofs about what keeps a daemon going: its target locks, for any callers,  *)
(* keys and entries, its run, for any requests, and the name of its socket, for *)
(* any daemons, sockets, faults and steps of another process.                 *)
(*                                                                         *)
(* The count of an entry is the number of callers that point at it, so the   *)
(* last one to leave deletes an entry nobody else has fetched (Counted);     *)
(* hence whoever uses a key points at the one entry of the key (InTable) and *)
(* a holder is the owner of that entry's mutex (OwnerHolds).                 *)
(*                                                                         *)
(* A daemon reports no error, and closes its Store, only behind a shutdown that *)
(* drained every request and watchers that ended (RunPlace).                   *)
(*                                                                         *)
(* A daemon works on the name only under the lease, so all others are off; what *)
(* it knows about the name at each place (SocketOf) is that it removes its own  *)
(* socket, or one it saw dead: while it may unlink that one, the name does not  *)
(* lead to it if it listens, and sockets are never bound twice.                 *)
(***************************************************************************)
EXTENDS MCDaemon, FiniteSetTheorems, TLAPS

-----------------------------------------------------------------------------
(* The target locks.                                                         *)

Counted == \A e \in Entries : refs[e] = Cardinality(Users(e))
InTable == \A c \in Callers : step[c] # "idle" => locks[key[c]] = entry[c]
Separate == \A j, k \in Keys : locks[j] # None /\ locks[j] = locks[k] => j = k
UsedOnly == \A k \in Keys : locks[k] # None => Users(locks[k]) # {}
OwnerHolds == \A c \in Callers : step[c] = "holding" => owner[entry[c]] = c

LocksInv == TypeOK /\ Counted /\ InTable /\ Separate /\ UsedOnly /\ OwnerHolds

\* The users of an entry are finitely many.
LEMMA UsersFinite ==
    \A e : IsFiniteSet(Users(e)) /\ Cardinality(Users(e)) \in Nat
  <1>1. \A e : Users(e) \in SUBSET Callers
    BY DEF Users
  <1>2. \A e : IsFiniteSet(Users(e))
    BY <1>1, FS_Subset, LocksAssumption DEF LocksAssumption
  <1> QED
    BY <1>2, FS_CardinalityType

\* What a caller uses is an entry, a key and their slot of the table.
LEMMA UsesEntry ==
    ASSUME TypeOK, NEW c \in Callers, step[c] # "idle"
    PROVE  entry[c] \in Entries /\ key[c] \in Keys /\ c \in Users(entry[c])
  BY DEF TypeOK, Users

\* A fetch adds the caller to the users of one entry.
LEMMA FetchUsers ==
    ASSUME TypeOK, NEW c \in Callers, NEW e \in Entries, step[c] = "idle",
           entry' = [entry EXCEPT ![c] = e]
    PROVE  /\ Users(e)' = Users(e) \cup {c} /\ c \notin Users(e)
           /\ \A f \in Entries \ {e} : Users(f)' = Users(f)
  <1>1. entry[c] = None /\ entry \in [Callers -> Entries \cup {None}]
    BY DEF TypeOK
  <1>2. \A d \in Callers : entry'[d] = IF d = c THEN e ELSE entry[d]
    BY <1>1
  <1>3. \A f \in Entries : f # None
    BY LocksAssumption DEF LocksAssumption
  <1> QED
    BY <1>1, <1>2, <1>3 DEF Users

\* A drop takes the caller from the users of its entry.
LEMMA DropUsers ==
    ASSUME TypeOK, NEW c \in Callers, NEW e \in Entries, entry[c] = e,
           entry' = [entry EXCEPT ![c] = None]
    PROVE  /\ Users(e)' = Users(e) \ {c} /\ c \in Users(e)
           /\ \A f \in Entries \ {e} : Users(f)' = Users(f)
  <1>1. entry \in [Callers -> Entries \cup {None}]
    BY DEF TypeOK
  <1>2. \A d \in Callers : entry'[d] = IF d = c THEN None ELSE entry[d]
    BY <1>1
  <1>3. \A f \in Entries : f # None
    BY LocksAssumption DEF LocksAssumption
  <1> QED
    BY <1>1, <1>2, <1>3 DEF Users

-----------------------------------------------------------------------------
(* The steps keep the inductive invariant.                                   *)

\* No lock is held at first.
LEMMA InitInv == Init => LocksInv
  <1> SUFFICES ASSUME Init PROVE LocksInv
    OBVIOUS
  <1>1. TypeOK
    BY DEF Init, TypeOK, Steps
  <1>2. \A e \in Entries : Users(e) = {}
    BY LocksAssumption DEF Init, Users, LocksAssumption
  <1>3. Counted
    BY <1>2, FS_EmptySet DEF Counted, Init
  <1>4. InTable /\ Separate /\ UsedOnly /\ OwnerHolds
    BY DEF Init, InTable, Separate, UsedOnly, OwnerHolds
  <1> QED
    BY <1>1, <1>3, <1>4 DEF LocksInv

\* A caller takes a reference to the lock of its key.
LEMMA FetchKeeps ==
    ASSUME LocksInv, NEW c \in Callers, NEW k \in Keys, Fetch(c, k)
    PROVE  LocksInv'
  <1> USE DEF LocksInv
  <1>1. PICK e \in Entries :
            /\ IF locks[k] = None THEN Fresh(e) ELSE e = locks[k]
            /\ locks' = [locks EXCEPT ![k] = e]
            /\ refs' = [refs EXCEPT ![e] = IF locks[k] = None THEN 1 ELSE refs[e] + 1]
            /\ owner' = [owner EXCEPT ![e] = IF locks[k] = None THEN None ELSE owner[e]]
            /\ entry' = [entry EXCEPT ![c] = e]
    BY DEF Fetch
  <1>2. step[c] = "idle" /\ step' = [step EXCEPT ![c] = "waiting"] /\ key' = [key EXCEPT ![c] = k]
    BY DEF Fetch
  <1>3. /\ Users(e)' = Users(e) \cup {c} /\ c \notin Users(e)
        /\ \A f \in Entries \ {e} : Users(f)' = Users(f)
    BY <1>1, <1>2, FetchUsers
  <1>4. e # None /\ k # None /\ c # None
    BY LocksAssumption DEF LocksAssumption
  <1>5. TypeOK'
    <2>1. locks' \in [Keys -> Entries \cup {None}] /\ refs' \in [Entries -> Nat]
      BY <1>1 DEF TypeOK
    <2>2. owner' \in [Entries -> Callers \cup {None}]
      BY <1>1 DEF TypeOK
    <2>3. step' \in [Callers -> Steps] /\ key' \in [Callers -> Keys \cup {None}]
      BY <1>2 DEF TypeOK, Steps
    <2>4. entry' \in [Callers -> Entries \cup {None}]
      BY <1>1 DEF TypeOK
    <2>5. \A d \in Callers : (step'[d] = "idle" <=> entry'[d] = None) /\ (step'[d] = "idle" <=> key'[d] = None)
      BY <1>1, <1>2, <1>4 DEF TypeOK
    <2> QED
      BY <2>1, <2>2, <2>3, <2>4, <2>5 DEF TypeOK
  <1>6. locks[k] = None => Users(e) = {}
    BY <1>1 DEF Fresh
  <1>7. Counted'
    <2>1. refs'[e] = IF locks[k] = None THEN 1 ELSE refs[e] + 1
      BY <1>1 DEF TypeOK
    <2>2. Cardinality(Users(e) \cup {c}) = Cardinality(Users(e)) + 1
      BY <1>3, UsersFinite, FS_AddElement
    <2>3. refs'[e] = Cardinality(Users(e)')
      <3>1. CASE locks[k] = None
        BY <3>1, <1>3, <1>6, <2>1, <2>2, FS_EmptySet
      <3>2. CASE locks[k] # None
        BY <3>2, <1>3, <2>1, <2>2 DEF Counted
      <3> QED
        BY <3>1, <3>2
    <2>4. \A f \in Entries \ {e} : refs'[f] = Cardinality(Users(f)')
      BY <1>1, <1>3 DEF Counted, TypeOK
    <2> QED
      BY <2>3, <2>4 DEF Counted
  <1>8. InTable'
    <2> SUFFICES ASSUME NEW d \in Callers, step'[d] # "idle" PROVE locks'[key'[d]] = entry'[d]
      BY DEF InTable
    <2>1. CASE d = c
      BY <2>1, <1>1, <1>2 DEF TypeOK
    <2>2. CASE d # c
      <3>1. step[d] # "idle" /\ key'[d] = key[d] /\ entry'[d] = entry[d]
        BY <2>2, <1>1, <1>2 DEF TypeOK
      <3>2. entry[d] \in Entries /\ key[d] \in Keys /\ d \in Users(entry[d])
        BY <3>1, UsesEntry
      <3>3. locks[key[d]] = entry[d]
        BY <3>1 DEF InTable
      <3>4. CASE key[d] = k
        BY <3>1, <3>2, <3>3, <3>4, <1>1, LocksAssumption DEF TypeOK, LocksAssumption
      <3>5. CASE key[d] # k
        BY <3>1, <3>2, <3>3, <3>5, <1>1 DEF TypeOK
      <3> QED
        BY <3>4, <3>5
    <2> QED
      BY <2>1, <2>2
  <1>9. Separate'
    <2>1. \A j \in Keys \ {k} : locks[j] # e
      BY <1>1, <1>4 DEF Fresh, Separate
    <2>2. \A j \in Keys : locks'[j] = IF j = k THEN e ELSE locks[j]
      BY <1>1 DEF TypeOK
    <2> QED
      BY <2>1, <2>2 DEF Separate
  <1>10. UsedOnly'
    <2>1. \A j \in Keys : locks'[j] = IF j = k THEN e ELSE locks[j]
      BY <1>1 DEF TypeOK
    <2>2. \A f \in Entries : Users(f) # {} => Users(f)' # {}
      BY <1>3
    <2>3. \A j \in Keys : locks[j] # None => locks[j] \in Entries
      BY DEF TypeOK
    <2> SUFFICES ASSUME NEW j \in Keys, locks'[j] # None PROVE Users(locks[j])' # {}
      BY DEF UsedOnly
    <2>4. CASE j = k
      <3>1. (locks[j])' = e
        BY <2>1, <2>4
      <3> QED
        BY <3>1, <1>3 DEF Users
    <2>5. CASE j # k
      <3>1. PICK g \in Entries : g = locks[j] /\ g = (locks[j])' /\ Users(g) # {}
        BY <2>1, <2>3, <2>5 DEF UsedOnly
      <3>2. Users(g)' # {}
        BY <2>2, <3>1
      <3> QED
        BY <3>1, <3>2 DEF Users
    <2> QED
      BY <2>4, <2>5
  <1>11. OwnerHolds'
    <2> SUFFICES ASSUME NEW d \in Callers, step'[d] = "holding" PROVE owner'[entry'[d]] = d
      BY DEF OwnerHolds
    <2>1. d # c /\ step[d] = "holding" /\ entry'[d] = entry[d]
      BY <1>1, <1>2 DEF TypeOK
    <2>2. entry[d] \in Entries /\ d \in Users(entry[d]) /\ owner[entry[d]] = d
      BY <2>1, UsesEntry DEF OwnerHolds
    <2>3. owner'[entry[d]] = owner[entry[d]]
      <3>1. CASE locks[k] = None
        <4>1. entry[d] # e
          BY <3>1, <1>6, <2>2
        <4> QED
          BY <4>1, <2>2, <1>1 DEF TypeOK
      <3>2. CASE locks[k] # None
        BY <3>2, <2>2, <1>1 DEF TypeOK
      <3> QED
        BY <3>1, <3>2
    <2> QED
      BY <2>1, <2>2, <2>3
  <1> QED
    BY <1>5, <1>7, <1>8, <1>9, <1>10, <1>11

\* It gets the lock.
LEMMA AcquireKeeps ==
    ASSUME LocksInv, NEW c \in Callers, Acquire(c)
    PROVE  LocksInv'
  <1> USE DEF LocksInv
  <1>1. /\ step[c] = "waiting" /\ owner[entry[c]] = None
        /\ owner' = [owner EXCEPT ![entry[c]] = c] /\ step' = [step EXCEPT ![c] = "holding"]
        /\ locks' = locks /\ refs' = refs /\ key' = key /\ entry' = entry
    BY DEF Acquire
  <1>2. entry[c] \in Entries
    BY <1>1, UsesEntry
  <1>3. TypeOK'
    <2>1. owner' \in [Entries -> Callers \cup {None}] /\ step' \in [Callers -> Steps]
      BY <1>1 DEF TypeOK, Steps
    <2>2. \A d \in Callers : step'[d] = "idle" <=> step[d] = "idle"
      BY <1>1 DEF TypeOK
    <2> QED
      BY <1>1, <2>1, <2>2 DEF TypeOK
  <1>4. \A e : Users(e)' = Users(e)
    BY <1>1 DEF Users
  <1>5. Counted' /\ Separate'
    BY <1>1, <1>4 DEF Counted, Separate
  <1>6. UsedOnly'
    BY <1>1 DEF UsedOnly, Users
  <1>7. InTable'
    BY <1>1 DEF InTable, TypeOK
  <1>8. OwnerHolds'
    <2> SUFFICES ASSUME NEW d \in Callers, step'[d] = "holding" PROVE owner'[entry'[d]] = d
      BY DEF OwnerHolds
    <2>1. CASE d = c
      BY <2>1, <1>1, <1>2 DEF TypeOK
    <2>2. CASE d # c
      <3>1. step[d] = "holding" /\ owner[entry[d]] = d
        BY <2>2, <1>1 DEF TypeOK, OwnerHolds
      <3>2. d # None /\ entry[d] # entry[c]
        BY <3>1, <1>1, LocksAssumption DEF LocksAssumption
      <3>3. entry[d] \in Entries
        BY <3>1, UsesEntry
      <3> QED
        BY <3>1, <3>2, <3>3, <1>1 DEF TypeOK
    <2> QED
      BY <2>1, <2>2
  <1> QED
    BY <1>3, <1>5, <1>6, <1>7, <1>8

\* It unlocks.
LEMMA UnlockKeeps ==
    ASSUME LocksInv, NEW c \in Callers, Unlock(c)
    PROVE  LocksInv'
  <1> USE DEF LocksInv
  <1>1. /\ step[c] = "holding"
        /\ owner' = [owner EXCEPT ![entry[c]] = None] /\ step' = [step EXCEPT ![c] = "dropping"]
        /\ locks' = locks /\ refs' = refs /\ key' = key /\ entry' = entry
    BY DEF Unlock
  <1>2. entry[c] \in Entries
    BY <1>1, UsesEntry
  <1>3. TypeOK'
    <2>1. owner' \in [Entries -> Callers \cup {None}] /\ step' \in [Callers -> Steps]
      BY <1>1 DEF TypeOK, Steps
    <2>2. \A d \in Callers : step'[d] = "idle" <=> step[d] = "idle"
      BY <1>1 DEF TypeOK
    <2> QED
      BY <1>1, <2>1, <2>2 DEF TypeOK
  <1>4. \A e : Users(e)' = Users(e)
    BY <1>1 DEF Users
  <1>5. Counted' /\ Separate'
    BY <1>1, <1>4 DEF Counted, Separate
  <1>6. UsedOnly'
    BY <1>1 DEF UsedOnly, Users
  <1>7. InTable'
    BY <1>1 DEF InTable, TypeOK
  <1>8. OwnerHolds'
    <2> SUFFICES ASSUME NEW d \in Callers, step'[d] = "holding" PROVE owner'[entry'[d]] = d
      BY DEF OwnerHolds
    <2>1. d # c /\ step[d] = "holding" /\ owner[entry[d]] = d /\ owner[entry[c]] = c
      BY <1>1 DEF TypeOK, OwnerHolds
    <2>2. entry[d] # entry[c] /\ entry[d] \in Entries
      BY <2>1, UsesEntry
    <2> QED
      BY <2>1, <2>2, <1>1 DEF TypeOK
  <1> QED
    BY <1>3, <1>5, <1>6, <1>7, <1>8

\* The last reference removes the lock from the table.
LEMMA DropKeeps ==
    ASSUME LocksInv, NEW c \in Callers, Drop(c)
    PROVE  LocksInv'
  <1> USE DEF LocksInv
  <1> DEFINE e == entry[c]
             k == key[c]
  <1>1. /\ step[c] = "dropping" /\ refs' = [refs EXCEPT ![e] = refs[e] - 1]
        /\ locks' = IF refs[e] = 1 /\ locks[k] = e THEN [locks EXCEPT ![k] = None] ELSE locks
        /\ step' = [step EXCEPT ![c] = "idle"]
        /\ key' = [key EXCEPT ![c] = None] /\ entry' = [entry EXCEPT ![c] = None] /\ owner' = owner
    BY DEF Drop
  <1>2. e \in Entries /\ k \in Keys /\ c \in Users(e) /\ locks[k] = e
    BY <1>1, UsesEntry DEF InTable
  <1>3. PICK f \in Entries, j \in Keys : f = e /\ j = k
    BY <1>2
  <1> HIDE DEF e, k
  <1>4. /\ Users(f)' = Users(f) \ {c} /\ c \in Users(f)
        /\ \A g \in Entries \ {f} : Users(g)' = Users(g)
    BY <1>1, <1>3, DropUsers DEF e
  <1>5. Cardinality(Users(f)') = refs[f] - 1 /\ refs[f] \in Nat \ {0}
    <2>1. IsFiniteSet(Users(f)) /\ Cardinality(Users(f)) \in Nat /\ refs[f] = Cardinality(Users(f))
      BY UsersFinite DEF Counted
    <2>2. Cardinality(Users(f) \ {c}) = refs[f] - 1
      <3>1. c \in Users(f)
        BY <1>4
      <3>2. Cardinality(Users(f) \ {c}) = Cardinality(Users(f)) - 1
        BY <2>1, <3>1, FS_RemoveElement
      <3> QED
        BY <2>1, <3>2
    <2>3. refs[f] # 0
      BY <2>1, <1>4, FS_EmptySet
    <2> QED
      BY <1>4, <2>1, <2>2, <2>3
  <1>6. \A x \in Keys : locks'[x] = IF refs[f] = 1 /\ x = j THEN None ELSE locks[x]
    BY <1>1, <1>2, <1>3 DEF TypeOK
  <1>7. TypeOK'
    <2>1. locks' \in [Keys -> Entries \cup {None}]
      BY <1>1, <1>2 DEF TypeOK
    <2>2. refs' \in [Entries -> Nat]
      BY <1>1, <1>3, <1>5 DEF TypeOK
    <2>3. owner' \in [Entries -> Callers \cup {None}] /\ step' \in [Callers -> Steps]
      BY <1>1 DEF TypeOK, Steps
    <2>4. key' \in [Callers -> Keys \cup {None}] /\ entry' \in [Callers -> Entries \cup {None}]
      BY <1>1 DEF TypeOK
    <2>5. \A d \in Callers : (step'[d] = "idle" <=> entry'[d] = None) /\ (step'[d] = "idle" <=> key'[d] = None)
      BY <1>1 DEF TypeOK
    <2> QED
      BY <2>1, <2>2, <2>3, <2>4, <2>5 DEF TypeOK
  <1>8. Counted'
    <2>1. \A g \in Entries : refs'[g] = IF g = f THEN refs[f] - 1 ELSE refs[g]
      BY <1>1, <1>3 DEF TypeOK
    <2>2. \A g \in Entries \ {f} : refs[g] = Cardinality(Users(g))
      BY DEF Counted
    <2> QED
      BY <2>1, <2>2, <1>4, <1>5 DEF Counted
  <1>9. InTable'
    <2> SUFFICES ASSUME NEW d \in Callers, step'[d] # "idle" PROVE locks'[key'[d]] = entry'[d]
      BY DEF InTable
    <2>1. d # c /\ step[d] # "idle" /\ key'[d] = key[d] /\ entry'[d] = entry[d]
      BY <1>1 DEF TypeOK
    <2>2. entry[d] \in Entries /\ key[d] \in Keys /\ d \in Users(entry[d]) /\ locks[key[d]] = entry[d]
      BY <2>1, UsesEntry DEF InTable
    <2>3. ~(refs[f] = 1 /\ key[d] = j)
      <3> SUFFICES ASSUME refs[f] = 1, key[d] = j PROVE FALSE
        OBVIOUS
      <3>1. d \in Users(f)'
        BY <2>1, <2>2, <1>2, <1>3, <1>4
      <3>2. Cardinality(Users(f)') = 0 /\ IsFiniteSet(Users(f)')
        BY <1>4, <1>5, UsersFinite, FS_RemoveElement
      <3> QED
        BY <3>1, <3>2, FS_EmptySet
    <2> QED
      BY <2>1, <2>2, <2>3, <1>6
  <1>10. Separate'
    BY <1>6 DEF Separate
  <1>11. UsedOnly'
    <2> SUFFICES ASSUME NEW x \in Keys, locks'[x] # None PROVE Users(locks[x])' # {}
      BY DEF UsedOnly
    <2>1. (locks[x])' = locks[x] /\ locks[x] # None /\ ~(refs[f] = 1 /\ x = j)
      BY <1>6
    <2>2. locks[x] \in Entries /\ Users(locks[x]) # {}
      BY <2>1 DEF TypeOK, UsedOnly
    <2>3. PICK g \in Entries : g = locks[x]
      BY <2>2
    <2>4. Users(g)' # {}
      <3>1. CASE g = f
        <4>1. x = j
          BY <3>1, <2>1, <2>3, <1>2, <1>3 DEF Separate
        <4>2. Cardinality(Users(f)') # 0
          BY <4>1, <2>1, <1>5
        <4> QED
          BY <3>1, <4>2, FS_EmptySet
      <3>2. CASE g # f
        BY <3>2, <2>2, <2>3, <1>4
      <3> QED
        BY <3>1, <3>2
    <2>5. g = (locks[x])'
      BY <2>1, <2>3
    <2> QED
      BY <2>4, <2>5 DEF Users
  <1>12. OwnerHolds'
    BY <1>1 DEF OwnerHolds, TypeOK
  <1> QED
    BY <1>7, <1>8, <1>9, <1>10, <1>11, <1>12

\* Every step of the table keeps the invariant.
LEMMA StepKeeps == LocksInv /\ [Next]_vars => LocksInv'
  <1> SUFFICES ASSUME LocksInv, [Next]_vars PROVE LocksInv'
    OBVIOUS
  <1>1. ASSUME NEW c \in Callers, NEW k \in Keys, Fetch(c, k) PROVE LocksInv'
    BY <1>1, FetchKeeps
  <1>2. ASSUME NEW c \in Callers, Acquire(c) PROVE LocksInv'
    BY <1>2, AcquireKeeps
  <1>3. ASSUME NEW c \in Callers, Unlock(c) PROVE LocksInv'
    BY <1>3, UnlockKeeps
  <1>4. ASSUME NEW c \in Callers, Drop(c) PROVE LocksInv'
    BY <1>4, DropKeeps
  <1>5. CASE UNCHANGED vars
    <2>1. locks' = locks /\ refs' = refs /\ owner' = owner /\ step' = step /\ key' = key /\ entry' = entry
      BY <1>5 DEF vars
    <2>2. TypeOK' /\ Counted'
      BY <2>1 DEF LocksInv, TypeOK, Counted, Users
    <2>3. InTable' /\ Separate' /\ UsedOnly' /\ OwnerHolds'
      BY <2>1 DEF LocksInv, InTable, Separate, UsedOnly, OwnerHolds, Users
    <2> QED
      BY <2>2, <2>3 DEF LocksInv
  <1> QED
    BY <1>1, <1>2, <1>3, <1>4, <1>5 DEF Next

\* The inductive invariant holds of the table of target locks.
THEOREM LocksInvariant == Spec => []LocksInv
  BY InitInv, StepKeeps, PTL DEF Spec

\* The fields of the table keep their types.
THEOREM LocksTyped == Spec => []TypeOK
  <1>1. LocksInv => TypeOK
    BY DEF LocksInv
  <1> QED
    BY <1>1, LocksInvariant, PTL

\* engine.go:261: two methods never run on one target.
THEOREM LocksExclude == Spec => []MutualExclusion
  <1>1. LocksInv => MutualExclusion
    <2> SUFFICES ASSUME LocksInv, NEW c \in Callers, NEW d \in Callers,
                        step[c] = "holding", step[d] = "holding", key[c] = key[d]
                 PROVE  c = d
      BY DEF MutualExclusion
    <2>1. entry[c] = entry[d]
      BY DEF LocksInv, InTable
    <2> QED
      BY <2>1 DEF LocksInv, OwnerHolds
  <1> QED
    BY <1>1, LocksInvariant, PTL

\* target_locks_test.go:51: the table holds the entries in use and no other.
THEOREM LocksTableIsUsed == Spec => []TableIsUsed
  <1>1. LocksInv => TableIsUsed
    BY DEF LocksInv, UsedOnly, InTable, TableIsUsed
  <1> QED
    BY <1>1, LocksInvariant, PTL

-----------------------------------------------------------------------------
(* The table implements a mutex per target.                                  *)

\* A table without locks is a mutex nobody holds.
LEMMA MutexInit == Init => M!Init
  BY DEF Init, M!Init

\* Every step of the table is one of the mutex of a key, or a stutter.
LEMMA MutexStep == LocksInv /\ [Next]_vars => [M!Next]_M!vars
  <1> DEFINE wants == [c \in Callers |-> IF step[c] = "waiting" THEN key[c] ELSE None]
             holds == [c \in Callers |-> IF step[c] = "holding" THEN key[c] ELSE None]
  <1> SUFFICES ASSUME LocksInv, [Next]_vars
               PROVE  M!Next \/ (wants' = wants /\ holds' = holds)
    BY DEF M!vars
  <1>0. \A k \in Keys : k # None
    BY LocksAssumption DEF LocksAssumption
  <1>1. ASSUME NEW c \in Callers, NEW k \in Keys, Fetch(c, k) PROVE M!Ask(c, k)
    <2>1. step[c] = "idle" /\ step' = [step EXCEPT ![c] = "waiting"] /\ key' = [key EXCEPT ![c] = k]
      BY <1>1 DEF Fetch
    <2>2. wants[c] = None /\ holds[c] = None
      BY <2>1
    <2>3. \A d \in Callers : wants'[d] = IF d = c THEN k ELSE wants[d]
      BY <2>1 DEF LocksInv, TypeOK
    <2>4. \A d \in Callers : holds'[d] = holds[d]
      BY <2>1 DEF LocksInv, TypeOK
    <2>5. wants' = [wants EXCEPT ![c] = k] /\ holds' = holds
      BY <2>3, <2>4
    <2> QED
      BY <2>2, <2>5 DEF M!Ask
  <1>2. ASSUME NEW c \in Callers, Acquire(c) PROVE M!Grant(c)
    <2>1. /\ step[c] = "waiting" /\ owner[entry[c]] = None
          /\ step' = [step EXCEPT ![c] = "holding"] /\ key' = key
      BY <1>2 DEF Acquire
    <2>2. wants[c] = key[c] /\ key[c] \in Keys
      BY <2>1, UsesEntry DEF LocksInv
    <2>3. \A d \in Callers : holds[d] # wants[c]
      <3> SUFFICES ASSUME NEW d \in Callers, holds[d] = wants[c] PROVE FALSE
        OBVIOUS
      <3>1. step[d] = "holding" /\ key[d] = key[c]
        BY <2>2, <1>0
      <3>2. entry[d] = entry[c]
        BY <2>1, <3>1 DEF LocksInv, InTable
      <3> QED
        BY <2>1, <3>1, <3>2, LocksAssumption DEF LocksInv, OwnerHolds, LocksAssumption
    <2>4. \A d \in Callers : wants'[d] = IF d = c THEN None ELSE wants[d]
      BY <2>1 DEF LocksInv, TypeOK
    <2>5. \A d \in Callers : holds'[d] = IF d = c THEN wants[c] ELSE holds[d]
      BY <2>1, <2>2 DEF LocksInv, TypeOK
    <2>6. wants' = [wants EXCEPT ![c] = None] /\ holds' = [holds EXCEPT ![c] = wants[c]]
      BY <2>4, <2>5
    <2> QED
      BY <2>2, <2>3, <2>6, <1>0 DEF M!Grant
  <1>3. ASSUME NEW c \in Callers, Unlock(c) PROVE M!Release(c)
    <2>1. step[c] = "holding" /\ step' = [step EXCEPT ![c] = "dropping"] /\ key' = key
      BY <1>3 DEF Unlock
    <2>2. holds[c] # None
      BY <2>1, <1>0, UsesEntry DEF LocksInv
    <2>3. \A d \in Callers : wants'[d] = wants[d]
      BY <2>1 DEF LocksInv, TypeOK
    <2>4. \A d \in Callers : holds'[d] = IF d = c THEN None ELSE holds[d]
      BY <2>1 DEF LocksInv, TypeOK
    <2>5. wants' = wants /\ holds' = [holds EXCEPT ![c] = None]
      BY <2>3, <2>4
    <2> QED
      BY <2>2, <2>5 DEF M!Release
  <1>4. ASSUME NEW c \in Callers, Drop(c) PROVE wants' = wants /\ holds' = holds
    <2>1. step[c] = "dropping" /\ step' = [step EXCEPT ![c] = "idle"] /\ key' = [key EXCEPT ![c] = None]
      BY <1>4 DEF Drop
    <2>2. \A d \in Callers : wants'[d] = wants[d] /\ holds'[d] = holds[d]
      BY <2>1 DEF LocksInv, TypeOK
    <2> QED
      BY <2>2
  <1>5. CASE UNCHANGED vars
    BY <1>5 DEF vars
  <1> QED
    BY <1>1, <1>2, <1>3, <1>4, <1>5 DEF Next, M!Next

\* engine.go: to the methods, the table is a mutex per target.
THEOREM LocksImplementMutex == Spec => IsMutex
  BY MutexInit, MutexStep, LocksInvariant, PTL DEF Spec, IsMutex, M!Spec

-----------------------------------------------------------------------------
(* The run of the daemon.                                                    *)

\* What has started, and which message of it has come.
RunParts ==
    /\ serve = "none" <=> watchers = "none"
    /\ serve = "none" => \A r \in Calls : request[r] = "none"
    /\ waitMsg = "none" <=> serve \in {"none", "serving", "closing"}
    /\ watchMsg = "none" <=> watchers \in {"none", "running"}
    /\ watchers = "ended" => cancelled
    /\ watchMsg = "taken" /\ watchers = "failed" => failed

\* A shutdown that succeeds has waited for every request, and cut none.
RunDrain ==
    /\ serve = "none" => drain = "none"
    /\ drain = "none" => serve \notin {"closing", "returned"}
    /\ drain \in {"drained", "overdue", "ok", "error"} => serve \notin {"none", "serving"}
    /\ drain \in {"drained", "ok"} => Run!Unfinished = {}
    /\ drain = "ok" => serve = "returned"
    /\ drain \in {"none", "draining", "drained", "ok"} /\ main # "exited" =>
          \A r \in Calls : request[r] \notin {"cut", "killed"}

\* What runDaemon knows where it is: the Store may be closed, and no error is to be
\* reported, only behind a shutdown that succeeded and watchers that ended.
RunPlace ==
    /\ main \notin {"open", "exited"} => store # "none"
    /\ main \in {"open", "preflight", "reconcile", "start"} => serve = "none"
    /\ main \in {"select", "preserve", "shutdown", "confirm", "join"} => serve # "none"
    /\ cancelled => main \in {"join", "close", "exited"}
    /\ drain # "none" => main \in {"shutdown", "confirm", "join", "close", "exited"}
    /\ main = "confirm" => drain = "ok"
    /\ main \in {"join", "close"} /\ ~failed => mayClose
    /\ main = "join" /\ mayClose => drain = "ok"
    /\ main = "close" /\ mayClose => \/ serve = "none" /\ failed
                                     \/ drain = "ok" /\ watchMsg = "taken"
    /\ Run!CleanExitIsComplete

RunInv == Run!TypeOK /\ RunParts /\ RunDrain /\ RunPlace

\* No step of the daemon leaves the invariant.
LEMMA RunStep ==
    ASSUME RunInv, [Run!Next]_runVars
    PROVE  RunInv'
  <1> USE DEF RunInv, RunParts, RunDrain, RunPlace, Run!CleanExitIsComplete, Run!TypeOK, Run!Phases, Run!Messages,
        Run!Unfinished, Run!server, Run!messages, Run!Exit, Run!Running
  <1>1. CASE Run!OpenRuntime
    BY <1>1 DEF Run!OpenRuntime
  <1>2. CASE Run!Prepare
    BY <1>2 DEF Run!Prepare
  <1>3. CASE Run!Start
    <2> USE <1>3 DEF Run!Start
    <2>1. Run!TypeOK'
      <3>1. main' \in Run!Phases /\ signalled' \in BOOLEAN /\ mayClose' \in BOOLEAN
        OBVIOUS
      <3>2. cancelled' \in BOOLEAN /\ failed' \in BOOLEAN
        OBVIOUS
      <3>3. store' \in {"none", "open", "closed"} /\ (serve' # "none" => store' # "none")
        OBVIOUS
      <3>4. request' \in [Calls -> {"none", "running", "cut", "answered", "killed"}]
        OBVIOUS
      <3>5. serve' \in {"none", "serving", "closing", "returned", "failed"}
        OBVIOUS
      <3>6. watchers' \in {"none", "running", "ended", "failed"} /\ timer' \in {"off", "running", "fired"}
        OBVIOUS
      <3>7. waitMsg' \in Run!Messages /\ watchMsg' \in Run!Messages
        OBVIOUS
      <3>8. drain' \in {"none", "draining", "drained", "overdue", "ok", "error"}
        OBVIOUS
      <3> QED
        BY <3>1, <3>2, <3>3, <3>4, <3>5, <3>6, <3>7, <3>8
    <2>2. RunParts'
      OBVIOUS
    <2>3. RunDrain'
      OBVIOUS
    <2>4. RunPlace'
      OBVIOUS
    <2> QED
      BY <2>1, <2>2, <2>3, <2>4
  <1>4. CASE Run!Select
    BY <1>4 DEF Run!Select
  <1>5. CASE Run!Preserve
    BY <1>5 DEF Run!Preserve, Run!Taken
  <1>6. CASE Run!ShutdownEndpoint
    <2> USE <1>6 DEF Run!ShutdownEndpoint, Run!StopBackground
    <2>1. Run!TypeOK'
      <3>1. main' \in Run!Phases /\ signalled' \in BOOLEAN /\ mayClose' \in BOOLEAN
        OBVIOUS
      <3>2. cancelled' \in BOOLEAN /\ failed' \in BOOLEAN
        OBVIOUS
      <3>3. store' \in {"none", "open", "closed"} /\ (serve' # "none" => store' # "none")
        OBVIOUS
      <3>4. request' \in [Calls -> {"none", "running", "cut", "answered", "killed"}]
        OBVIOUS
      <3>5. serve' \in {"none", "serving", "closing", "returned", "failed"}
        OBVIOUS
      <3>6. watchers' \in {"none", "running", "ended", "failed"} /\ timer' \in {"off", "running", "fired"}
        OBVIOUS
      <3>7. waitMsg' \in Run!Messages /\ watchMsg' \in Run!Messages
        OBVIOUS
      <3>8. drain' \in {"none", "draining", "drained", "overdue", "ok", "error"}
        OBVIOUS
      <3> QED
        BY <3>1, <3>2, <3>3, <3>4, <3>5, <3>6, <3>7, <3>8
    <2>2. RunParts'
      OBVIOUS
    <2>3. RunDrain'
      OBVIOUS
    <2>4. RunPlace'
      <3>1. CASE drain = "ok" /\ waitMsg = "taken" /\ Run!StopBackground(TRUE, FALSE)
        BY <3>1
      <3>2. CASE drain = "ok" /\ waitMsg # "taken" /\ main' = "confirm" /\ UNCHANGED <<mayClose, cancelled, timer, failed>>
        BY <3>2
      <3>3. CASE Run!StopBackground(FALSE, TRUE)
        BY <3>3
      <3> QED
        BY <3>1, <3>2, <3>3
    <2> QED
      BY <2>1, <2>2, <2>3, <2>4
  <1>7. CASE Run!ConfirmWait
    BY <1>7 DEF Run!ConfirmWait, Run!StopBackground
  <1>8. CASE Run!JoinBackground
    <2> USE <1>8 DEF Run!JoinBackground
    <2>1. Run!TypeOK'
      <3>1. main' \in Run!Phases /\ signalled' \in BOOLEAN /\ mayClose' \in BOOLEAN
        OBVIOUS
      <3>2. cancelled' \in BOOLEAN /\ failed' \in BOOLEAN
        OBVIOUS
      <3>3. store' \in {"none", "open", "closed"} /\ (serve' # "none" => store' # "none")
        OBVIOUS
      <3>4. request' \in [Calls -> {"none", "running", "cut", "answered", "killed"}]
        OBVIOUS
      <3>5. serve' \in {"none", "serving", "closing", "returned", "failed"}
        OBVIOUS
      <3>6. watchers' \in {"none", "running", "ended", "failed"} /\ timer' \in {"off", "running", "fired"}
        OBVIOUS
      <3>7. waitMsg' \in Run!Messages /\ watchMsg' \in Run!Messages
        OBVIOUS
      <3>8. drain' \in {"none", "draining", "drained", "overdue", "ok", "error"}
        OBVIOUS
      <3> QED
        BY <3>1, <3>2, <3>3, <3>4, <3>5, <3>6, <3>7, <3>8
    <2>2. RunParts'
      OBVIOUS
    <2>3. RunDrain'
      OBVIOUS
    <2>4. RunPlace'
      OBVIOUS
    <2> QED
      BY <2>1, <2>2, <2>3, <2>4
  <1>9. CASE Run!CloseRuntime
    BY <1>9, ZenonT(60) DEF Run!CloseRuntime
  <1>10. CASE Run!ServeReturns
    BY <1>10 DEF Run!ServeReturns
  <1>11. CASE Run!CloseListener
    BY <1>11 DEF Run!CloseListener
  <1>12. CASE Run!Drain
    <2> USE <1>12 DEF Run!Drain
    <2>1. Run!TypeOK'
      <3>1. main' \in Run!Phases /\ signalled' \in BOOLEAN /\ mayClose' \in BOOLEAN
        OBVIOUS
      <3>2. cancelled' \in BOOLEAN /\ failed' \in BOOLEAN
        OBVIOUS
      <3>3. store' \in {"none", "open", "closed"} /\ (serve' # "none" => store' # "none")
        OBVIOUS
      <3>4. request' \in [Calls -> {"none", "running", "cut", "answered", "killed"}]
        OBVIOUS
      <3>5. serve' \in {"none", "serving", "closing", "returned", "failed"}
        OBVIOUS
      <3>6. watchers' \in {"none", "running", "ended", "failed"} /\ timer' \in {"off", "running", "fired"}
        OBVIOUS
      <3>7. waitMsg' \in Run!Messages /\ watchMsg' \in Run!Messages
        OBVIOUS
      <3>8. drain' \in {"none", "draining", "drained", "overdue", "ok", "error"}
        OBVIOUS
      <3> QED
        BY <3>1, <3>2, <3>3, <3>4, <3>5, <3>6, <3>7, <3>8
    <2>2. RunParts'
      OBVIOUS
    <2>3. RunDrain'
      <3>1. CASE Run!Unfinished = {} /\ drain' = "drained" /\ UNCHANGED request
        BY <3>1
      <3>2. CASE drain' = "overdue"
        BY <3>2
      <3> QED
        BY <3>1, <3>2
    <2>4. RunPlace'
      OBVIOUS
    <2> QED
      BY <2>1, <2>2, <2>3, <2>4
  <1>13. CASE Run!ShutdownReturns
    BY <1>13 DEF Run!ShutdownReturns
  <1>14. CASE Run!WatchersEnd
    BY <1>14 DEF Run!WatchersEnd
  <1>15. CASE Run!Signal
    BY <1>15 DEF Run!Signal
  <1>16. CASE Run!TimerFires
    BY <1>16 DEF Run!TimerFires
  <1>17. ASSUME NEW r \in Calls, Run!Accept(r) PROVE RunInv'
    BY <1>17 DEF Run!Accept
  <1>18. ASSUME NEW r \in Calls, Run!Answer(r) PROVE RunInv'
    BY <1>18 DEF Run!Answer
  <1>19. CASE UNCHANGED runVars
    BY <1>19 DEF runVars
  <1> QED
    BY <1>1, <1>2, <1>3, <1>4, <1>5, <1>6, <1>7, <1>8, <1>9, <1>10, <1>11, <1>12, <1>13, <1>14, <1>15, <1>16, <1>17, <1>18, <1>19 DEF Run!Next, Run!MainStep, Run!ServerStep

\* A step of the suite is one of the run of the daemon, or leaves it alone.
LEMMA SuiteRunStep == DaemonNext => [Run!Next]_runVars
  BY DEF DaemonNext

\* The invariant of a run of the daemon holds of every reachable state.
LEMMA RunInvariant == DaemonSpec => []RunInv
  <1>1. DaemonInit => RunInv
    BY DEF DaemonInit, Run!Init, RunInv, RunParts, RunDrain, RunPlace, Run!CleanExitIsComplete, Run!TypeOK,
        Run!Phases, Run!Messages, Run!Unfinished
  <1>2. RunInv /\ [DaemonNext]_daemonVars => RunInv'
    BY RunStep, SuiteRunStep DEF daemonVars
  <1> QED
    BY <1>1, <1>2, PTL DEF DaemonSpec

\* main.go: a daemon that exits without an error has answered every request it
\* accepted and closed its Store behind the last watcher, whatever requests hang,
\* timers fire and parts stop by themselves, in whatever order.
THEOREM DaemonExitsClean == DaemonSpec => []CleanExitIsComplete
  <1>1. RunInv => CleanExitIsComplete
    BY DEF RunInv, RunPlace, CleanExitIsComplete, Run!CleanExitIsComplete, Run!FailureReported
  <1> QED
    BY <1>1, RunInvariant, PTL

\* main.go:183: runDaemon closes the Store under no request and no watcher that may
\* still use it.
THEOREM StoreClosesQuietly == DaemonSpec => Run!CloseIsQuiet
  <1>1. ASSUME RunInv, [Run!Next]_runVars, store' = "closed", store # "closed"
        PROVE  Run!Unfinished = {} /\ watchers # "running"
    <2>1. main = "close" /\ mayClose
      BY <1>1 DEF Run!Next, Run!MainStep, Run!ServerStep, Run!OpenRuntime, Run!Prepare, Run!Start, Run!Select,
          Run!Preserve, Run!ShutdownEndpoint, Run!ConfirmWait, Run!JoinBackground, Run!CloseRuntime,
          Run!ServeReturns, Run!CloseListener, Run!Drain, Run!ShutdownReturns, Run!WatchersEnd, Run!Signal,
          Run!TimerFires, Run!Accept, Run!Answer, Run!server, Run!messages, Run!Exit, runVars
    <2> QED
      BY <1>1, <2>1 DEF RunInv, RunParts, RunDrain, RunPlace, Run!Unfinished
  <1>2. RunInv /\ [DaemonNext]_daemonVars =>
          [store' = "closed" /\ store # "closed" => Run!Unfinished = {} /\ watchers # "running"]_runVars
    BY <1>1, SuiteRunStep DEF daemonVars
  <1> QED
    BY <1>2, RunInvariant, PTL DEF DaemonSpec, Run!CloseIsQuiet, Run!vars, runVars

-----------------------------------------------------------------------------
(* The name of the socket.                                                   *)

\* No socket, or one that was bound.
SocketIds == 1 .. Len(made) \cup {None}

\* What all daemons share: the name leads to a socket that was bound; where a daemon
\* bound it, its mode is set, and it listens or was left behind.
SocketShared ==
    /\ public \in SocketIds
    /\ made \in Seq(Daemons \cup {Foreign}) /\ Len(made) <= MaxSockets
    /\ listening \subseteq 1 .. Len(made) /\ tight \subseteq 1 .. Len(made)
    /\ orphans \subseteq 1 .. Len(made) /\ unlinked \subseteq 1 .. Len(made)
    /\ foreigns \in 0 .. MaxForeign /\ faults \in 0 .. MaxFaults
    /\ Socket!NamedListens /\ Socket!PublicIsTight

\* Where each daemon is: only the holder of the lease is anywhere.
SocketPlaces ==
    /\ place \in [Daemons -> Socket!Steps] /\ lease \in Daemons \cup {None}
    /\ own \in [Daemons -> Socket!Ids \cup {None}]
    /\ expected \in [Daemons -> Socket!Ids \cup {None}]
    /\ claimed \in [Daemons -> Socket!Ids \cup {None}]
    /\ \A d \in Daemons : place[d] # "off" <=> lease = d

\* Where a daemon still wants its own listener.
Offering == {"tighten", "publish", "verify", "probe", "serving"}

\* What daemon d knows at x, with o its own socket, e the one it wants to remove and c
\* the one it moved: it removes its own socket, or one that was seen dead and is
\* not at the name, nor the one that was moved, if it listens.
SocketOf(d, x, o, e, c) ==
    /\ o \in SocketIds /\ e \in SocketIds /\ c \in SocketIds
    /\ x \in {"off", "look", "dial", "bind"} => o = None
    /\ x \in Offering \cup {"shut", "leave"} => o # None
    /\ c # None <=> x = "compare"
    /\ x \in {"dial", "quarantine", "compare"} => e # None
    /\ o # None => made[o] = d
    /\ (x \in {"quarantine", "compare"} /\ o # None) => e = o
    /\ (x = "quarantine" /\ o = None /\ e \in listening) => public # e
    /\ (x = "compare" /\ o = None /\ e \in listening) => c # e
    /\ x \in Offering => o \in listening
    /\ x \in {"tighten", "publish"} => public # o
    /\ (x = "compare" /\ o # None) => public # o
    /\ x \in {"shut", "leave"} => (public # o \/ o \in orphans)
    /\ (o # None /\ x # "tighten") => o \in tight
    /\ Socket!Daemon(c) => (c \in listening \cup orphans /\ c \in tight)
    /\ (x \in {"probe", "serving"} /\ foreigns = 0) => public = o

SocketOwn == \A d \in Daemons : SocketOf(d, place[d], own[d], expected[d], claimed[d])

SocketInv == SocketShared /\ SocketPlaces /\ SocketOwn

\* A step of daemon d, which takes it to x, o, e and c.
SocketTurn(d, x, o, e, c) ==
    /\ place' = [place EXCEPT ![d] = x] /\ own' = [own EXCEPT ![d] = o]
    /\ expected' = [expected EXCEPT ![d] = e] /\ claimed' = [claimed EXCEPT ![d] = c]
    /\ lease \in {None, d} /\ lease' = (IF x = "off" THEN None ELSE d)

\* The assumption about the constants of the sockets.
LEMMA SocketAssumed == Socket!SocketAssumption
  BY DaemonAssumption

\* The inductive invariant has the types of SocketLease.
LEMMA SocketTyped == SocketInv => Socket!TypeOK
  <1> SUFFICES ASSUME SocketInv PROVE Socket!TypeOK
    OBVIOUS
  <1>1. Len(made) \in Nat /\ Len(made) <= MaxSockets /\ MaxSockets \in Nat
    BY SocketAssumed DEF SocketInv, SocketShared, Socket!SocketAssumption
  <1>2. public \in Socket!Ids \cup {None}
    BY <1>1 DEF SocketInv, SocketShared, SocketIds, Socket!Ids
  <1>3. listening \cup tight \cup orphans \cup unlinked \subseteq 1 .. Len(made)
    BY DEF SocketInv, SocketShared
  <1>4. {own, expected, claimed} \subseteq [Daemons -> Socket!Ids \cup {None}]
    BY DEF SocketInv, SocketPlaces
  <1> QED
    BY <1>2, <1>3, <1>4 DEF SocketInv, SocketShared, SocketPlaces, Socket!TypeOK

\* No socket is bound at first.
LEMMA SocketInit == Socket!Init => SocketInv
  <1> SUFFICES ASSUME Socket!Init PROVE SocketInv
    OBVIOUS
  <1> USE SocketAssumed DEF Socket!Init, Socket!SocketAssumption
  <1>1. Len(made) = 0 /\ made \in Seq(Daemons \cup {Foreign})
    OBVIOUS
  <1>2. SocketShared
    BY <1>1 DEF SocketShared, SocketIds, Socket!NamedListens, Socket!PublicIsTight, Socket!Daemon
  <1>3. SocketPlaces
    BY DEF SocketPlaces, Socket!Steps, Socket!Ids
  <1>4. SocketOwn
    BY <1>1 DEF SocketOwn, SocketOf, SocketIds, Offering, Socket!Daemon
  <1> QED
    BY <1>2, <1>3, <1>4 DEF SocketInv

\* What a daemon leaves alone stays what it is.
LEMMA SocketKept ==
    ASSUME SocketPlaces, NEW d \in Daemons
    PROVE  /\ own = [own EXCEPT ![d] = own[d]]
           /\ expected = [expected EXCEPT ![d] = expected[d]]
           /\ claimed = [claimed EXCEPT ![d] = claimed[d]]
  BY DEF SocketPlaces

\* A daemon that is not off holds the lease.
LEMMA SocketHolder ==
    ASSUME SocketPlaces, NEW d \in Daemons, place[d] # "off"
    PROVE  lease = d
  BY DEF SocketPlaces

\* The other daemons are off while one takes a step, so what that one knows after it
\* is all there is to see.
LEMMA SocketTurnKeeps ==
    ASSUME SocketInv, NEW d \in Daemons, NEW x \in Socket!Steps, NEW o, NEW e, NEW c,
           SocketTurn(d, x, o, e, c), Len(made') >= Len(made), SocketShared',
           SocketOf(d, x, o, e, c)'
    PROVE  SocketInv'
  <1>1. Len(made) \in Nat /\ Len(made') \in Nat /\ Len(made') <= MaxSockets /\ MaxSockets \in Nat
    BY SocketAssumed DEF SocketInv, SocketShared, Socket!SocketAssumption
  <1>2. o \in Socket!Ids \cup {None} /\ e \in Socket!Ids \cup {None} /\ c \in Socket!Ids \cup {None}
    BY <1>1 DEF SocketOf, SocketIds, Socket!Ids
  <1>3. \A b \in Daemons \ {d} : place[b] = "off" /\ b # lease
    BY SocketAssumed DEF SocketInv, SocketPlaces, SocketTurn, Socket!SocketAssumption
  <1>4. SocketPlaces'
    <2>1. /\ place' \in [Daemons -> Socket!Steps] /\ own' \in [Daemons -> Socket!Ids \cup {None}]
          /\ expected' \in [Daemons -> Socket!Ids \cup {None}] /\ claimed' \in [Daemons -> Socket!Ids \cup {None}]
      BY <1>2 DEF SocketInv, SocketPlaces, SocketTurn
    <2>2. lease' \in Daemons \cup {None} /\ None \notin Daemons
      BY SocketAssumed DEF SocketTurn, Socket!SocketAssumption
    <2>3. \A b \in Daemons : place'[b] = (IF b = d THEN x ELSE "off")
      BY <1>3 DEF SocketInv, SocketPlaces, SocketTurn
    <2>4. \A b \in Daemons : place'[b] # "off" <=> lease' = b
      BY <2>2, <2>3 DEF SocketTurn
    <2>5. Socket!Ids' = Socket!Ids /\ Socket!Steps' = Socket!Steps
      BY DEF Socket!Ids, Socket!Steps
    <2> QED
      BY <2>1, <2>2, <2>4, <2>5 DEF SocketPlaces
  <1>5. ASSUME NEW b \in Daemons
        PROVE  SocketOf(b, place[b], own[b], expected[b], claimed[b])'
    <2>1. CASE b = d
      <3>1. place'[b] = x /\ own'[b] = o /\ expected'[b] = e /\ claimed'[b] = c
        BY <2>1 DEF SocketInv, SocketPlaces, SocketTurn
      <3> QED
        BY <2>1, <3>1 DEF SocketOf
    <2>2. CASE b # d
      <3>1. place'[b] = "off" /\ own'[b] = own[b] /\ expected'[b] = expected[b] /\ claimed'[b] = claimed[b]
        BY <1>3, <2>2 DEF SocketInv, SocketPlaces, SocketTurn
      <3>2. own[b] = None /\ claimed[b] = None /\ expected[b] \in SocketIds
        BY <1>3, <2>2 DEF SocketInv, SocketOwn, SocketOf
      <3>3. expected[b] \in SocketIds' /\ None \in SocketIds'
        BY <1>1, <3>2 DEF SocketIds
      <3> QED
        BY <3>1, <3>2, <3>3 DEF SocketOf, Offering, Socket!Daemon
    <2> QED
      BY <2>1, <2>2
  <1> QED
    BY <1>4, <1>5 DEF SocketInv, SocketOwn

\* While no socket and no name changes, what the daemons share stays as it is.
LEMMA SocketSharedKept ==
    ASSUME SocketInv, UNCHANGED Socket!sockets, UNCHANGED public,
           foreigns' \in 0 .. MaxForeign, faults' \in 0 .. MaxFaults
    PROVE  SocketShared' /\ Len(made') >= Len(made)
  <1>1. made' = made /\ listening' = listening /\ tight' = tight /\ orphans' = orphans /\ unlinked' = unlinked
    BY DEF Socket!sockets
  <1>2. Len(made) \in Nat /\ Len(made') = Len(made)
    BY <1>1 DEF SocketInv, SocketShared
  <1> QED
    BY <1>1, <1>2 DEF SocketInv, SocketShared, SocketIds, Socket!NamedListens, Socket!PublicIsTight, Socket!Daemon

\* The budgets that a step leaves alone, or of which it spends one fault.
LEMMA SocketBudget ==
    ASSUME SocketInv, \/ UNCHANGED Socket!budget
                      \/ faults < MaxFaults /\ faults' = faults + 1 /\ UNCHANGED foreigns
    PROVE  foreigns' \in 0 .. MaxForeign /\ faults' \in 0 .. MaxFaults /\ foreigns' = foreigns
  <1>1. MaxForeign \in Nat /\ MaxFaults \in Nat
    BY SocketAssumed DEF Socket!SocketAssumption
  <1>2. foreigns \in 0 .. MaxForeign /\ faults \in 0 .. MaxFaults
    BY DEF SocketInv, SocketShared
  <1> QED
    BY <1>1, <1>2 DEF Socket!budget

\* A start that is given up, or an end: the lease goes and nothing is left to remove.
LEMMA GiveUpKeeps ==
    ASSUME SocketInv, NEW d \in Daemons, Socket!GiveUp(d), place[d] \notin {"off", "compare"},
           foreigns' \in 0 .. MaxForeign, faults' \in 0 .. MaxFaults
    PROVE  SocketInv'
  <1>1. PICK e, c : e = expected[d] /\ c = claimed[d]
    OBVIOUS
  <1>2. c = None /\ e \in SocketIds
    BY <1>1 DEF SocketInv, SocketOwn, SocketOf
  <1>3. SocketShared' /\ Len(made') >= Len(made) /\ made' = made
    BY SocketSharedKept DEF Socket!GiveUp, Socket!sockets
  <1>4. SocketTurn(d, "off", None, e, c)
    BY <1>1, SocketKept, SocketHolder DEF SocketTurn, Socket!GiveUp, Socket!Goto, SocketInv
  <1>5. SocketOf(d, "off", None, e, c)'
    BY <1>2, <1>3 DEF SocketOf, SocketIds, Offering, Socket!Daemon
  <1> QED
    BY <1>3, <1>4, <1>5, SocketTurnKeeps DEF Socket!Steps

\* A listener that was never at the name is discarded with its socket.
LEMMA DiscardKeeps ==
    ASSUME SocketInv, NEW d \in Daemons, Socket!Discard(d), place[d] \in {"tighten", "publish"},
           foreigns' \in 0 .. MaxForeign, faults' \in 0 .. MaxFaults
    PROVE  SocketInv'
  <1>1. PICK o, e, c : o = own[d] /\ e = expected[d] /\ c = claimed[d]
    OBVIOUS
  <1>2. c = None /\ e \in SocketIds /\ o \in 1 .. Len(made) /\ public # o
    BY <1>1 DEF SocketInv, SocketOwn, SocketOf, SocketIds, Offering
  <1>3. /\ made' = made /\ public' = public /\ tight' = tight /\ orphans' = orphans
        /\ listening' = listening \ {o} /\ unlinked' = unlinked \cup {o}
    BY <1>1 DEF Socket!Discard
  <1>4. Len(made') = Len(made) /\ Len(made) \in Nat
    BY <1>3 DEF SocketInv, SocketShared
  <1>5. SocketShared'
    BY <1>2, <1>3, <1>4 DEF SocketInv, SocketShared, SocketIds, Socket!NamedListens, Socket!PublicIsTight, Socket!Daemon
  <1>6. SocketTurn(d, "off", None, e, c)
    BY <1>1, SocketKept, SocketHolder DEF SocketTurn, Socket!Discard, Socket!Goto, SocketInv
  <1>7. SocketOf(d, "off", None, e, c)'
    BY <1>2, <1>4 DEF SocketOf, SocketIds, Offering, Socket!Daemon
  <1> QED
    BY <1>4, <1>5, <1>6, <1>7, SocketTurnKeeps DEF Socket!Steps

\* The removal of the own name begins.
LEMMA WithdrawKeeps ==
    ASSUME SocketInv, NEW d \in Daemons, Socket!Withdraw(d), place[d] \in {"verify", "probe", "serving"},
           foreigns' \in 0 .. MaxForeign, faults' \in 0 .. MaxFaults
    PROVE  SocketInv'
  <1>1. PICK o, c : o = own[d] /\ c = claimed[d]
    OBVIOUS
  <1>2. c = None /\ o \in SocketIds /\ o # None /\ made[o] = d /\ o \in tight
    BY <1>1 DEF SocketInv, SocketOwn, SocketOf, Offering
  <1>3. SocketShared' /\ Len(made') >= Len(made) /\ made' = made /\ tight' = tight
    BY SocketSharedKept DEF Socket!Withdraw, Socket!sockets
  <1>4. SocketTurn(d, "quarantine", o, o, c)
    BY <1>1, SocketKept, SocketHolder DEF SocketTurn, Socket!Withdraw, Socket!Goto, SocketInv
  <1>5. SocketOf(d, "quarantine", o, o, c)'
    BY <1>2, <1>3 DEF SocketOf, SocketIds, Offering, Socket!Daemon
  <1> QED
    BY <1>3, <1>4, <1>5, SocketTurnKeeps DEF Socket!Steps

\* openSocketParent: the lease is taken.
LEMMA LockSocketParentKeeps ==
    ASSUME SocketInv, NEW d \in Daemons, Socket!LockSocketParent(d)
    PROVE  SocketInv'
  <1>1. PICK o, e, c : o = own[d] /\ e = expected[d] /\ c = claimed[d]
    OBVIOUS
  <1>2. o = None /\ c = None /\ e \in SocketIds
    BY <1>1 DEF SocketInv, SocketOwn, SocketOf, Socket!LockSocketParent, Socket!At
  <1>3. SocketShared' /\ Len(made') >= Len(made) /\ made' = made
    BY SocketSharedKept, SocketBudget DEF Socket!LockSocketParent, Socket!sockets
  <1>4. SocketTurn(d, "look", o, e, c)
    BY <1>1, SocketKept DEF SocketTurn, Socket!LockSocketParent, Socket!Goto, SocketInv
  <1>5. SocketOf(d, "look", o, e, c)'
    BY <1>2, <1>3 DEF SocketOf, SocketIds, Offering, Socket!Daemon
  <1> QED
    BY <1>3, <1>4, <1>5, SocketTurnKeeps DEF Socket!Steps

\* removeOwnedStaleSocket: what is at the name is what will be removed.
LEMMA LookKeeps ==
    ASSUME SocketInv, NEW d \in Daemons, Socket!Look(d)
    PROVE  SocketInv'
  <1>1. PICK o, e, c, x : o = own[d] /\ e = public /\ c = claimed[d] /\ x = (IF public = None THEN "bind" ELSE "dial")
    OBVIOUS
  <1>2. o = None /\ c = None /\ e \in SocketIds /\ (x = "dial" => e # None) /\ x \in {"bind", "dial"}
    BY <1>1 DEF SocketInv, SocketOwn, SocketOf, SocketShared, Socket!Look, Socket!At
  <1>3. SocketShared' /\ Len(made') >= Len(made) /\ made' = made
    BY SocketSharedKept, SocketBudget DEF Socket!Look, Socket!sockets
  <1>4. place[d] # "off"
    BY DEF Socket!Look, Socket!At
  <1>5. SocketTurn(d, x, o, e, c)
    BY <1>1, <1>2, <1>4, SocketKept, SocketHolder DEF SocketTurn, Socket!Look, Socket!Goto, SocketInv
  <1>6. SocketOf(d, x, o, e, c)'
    BY <1>2, <1>3 DEF SocketOf, SocketIds, Offering, Socket!Daemon
  <1> QED
    BY <1>2, <1>3, <1>5, <1>6, SocketTurnKeeps DEF Socket!Steps

\* removeOwnedStaleSocket: nobody answers, so what was seen at the name is dead, or it
\* is no longer there.
LEMMA DialKeeps ==
    ASSUME SocketInv, NEW d \in Daemons, Socket!Dial(d)
    PROVE  SocketInv'
  <1>1. place[d] = "dial" /\ foreigns' \in 0 .. MaxForeign /\ faults' \in 0 .. MaxFaults
    BY SocketBudget DEF Socket!Dial, Socket!At
  <1>2. CASE Socket!Answered
    BY <1>1, <1>2, GiveUpKeeps DEF Socket!Dial
  <1>3. CASE ~Socket!Answered
    <2>1. PICK o, e, c : o = own[d] /\ e = expected[d] /\ c = claimed[d]
      OBVIOUS
    <2>2. o = None /\ c = None /\ e \in SocketIds /\ e # None /\ public \notin listening
      BY <1>1, <1>3, <2>1 DEF SocketInv, SocketOwn, SocketOf, Socket!Answered
    <2>3. SocketShared' /\ Len(made') >= Len(made) /\ made' = made
      BY <1>1, <1>3, SocketSharedKept DEF Socket!Dial, Socket!sockets
    <2>4. public' = public /\ listening' = listening
      BY <1>3 DEF Socket!Dial, Socket!sockets
    <2>5. SocketTurn(d, "quarantine", o, e, c)
      BY <1>1, <1>3, <2>1, SocketKept, SocketHolder DEF SocketTurn, Socket!Dial, Socket!Goto, SocketInv
    <2>6. SocketOf(d, "quarantine", o, e, c)'
      BY <2>2, <2>3, <2>4 DEF SocketOf, SocketIds, Offering, Socket!Daemon
    <2> QED
      BY <2>3, <2>5, <2>6, SocketTurnKeeps DEF Socket!Steps
  <1> QED
    BY <1>2, <1>3

\* removeExpectedUnixSocket: whatever is at the name moves away.
LEMMA QuarantineKeeps ==
    ASSUME SocketInv, NEW d \in Daemons, Socket!Quarantine(d)
    PROVE  SocketInv'
  <1>1. PICK o, e, c : o = own[d] /\ e = expected[d] /\ c = claimed[d]
    OBVIOUS
  <1>2. /\ place[d] = "quarantine" /\ place[d] # "off" /\ foreigns' \in 0 .. MaxForeign /\ faults' \in 0 .. MaxFaults
        /\ foreigns' = foreigns
    BY SocketBudget DEF Socket!Quarantine, Socket!At
  <1>3. SocketOf(d, "quarantine", o, e, c)
    BY <1>1, <1>2 DEF SocketInv, SocketOwn
  <1>4. /\ made' = made /\ listening' = listening /\ tight' = tight /\ orphans' = orphans /\ unlinked' = unlinked
        /\ Len(made') >= Len(made) /\ SocketIds' = SocketIds
    BY DEF Socket!Quarantine, Socket!sockets, SocketInv, SocketShared, SocketIds
  <1>5. CASE public = None
    <2>1. PICK x : x = (IF o = None THEN "bind" ELSE "shut")
      OBVIOUS
    <2>2. SocketShared'
      BY <1>2, <1>5, SocketSharedKept DEF Socket!Quarantine
    <2>3. SocketTurn(d, x, o, e, c)
      BY <1>1, <1>2, <1>5, <2>1, SocketKept, SocketHolder
          DEF SocketTurn, Socket!Quarantine, Socket!Removed, Socket!Goto, SocketInv
    <2>4. public' = public
      BY <1>5 DEF Socket!Quarantine
    <2>5. SocketOf(d, x, o, e, c)'
      BY <1>3, <1>4, <1>5, <2>1, <2>4 DEF SocketOf, Offering, Socket!Daemon
    <2> QED
      BY <1>4, <2>1, <2>2, <2>3, <2>5, SocketTurnKeeps DEF Socket!Steps
  <1>6. CASE public # None
    <2>1. PICK p : p = public
      OBVIOUS
    <2>2. public' = None
      BY <1>6 DEF Socket!Quarantine
    <2>3. SocketShared'
      BY <1>2, <1>4, <2>2 DEF SocketInv, SocketShared, SocketIds, Socket!NamedListens, Socket!PublicIsTight, Socket!Daemon
    <2>4. SocketTurn(d, "compare", o, e, p)
      BY <1>1, <1>2, <1>6, <2>1, SocketKept, SocketHolder
          DEF SocketTurn, Socket!Quarantine, Socket!Goto, SocketInv
    <2>5. p \in SocketIds /\ p # None /\ (Socket!Daemon(p) => p \in listening \cup orphans /\ p \in tight)
      BY <1>6, <2>1 DEF SocketInv, SocketShared, Socket!NamedListens, Socket!PublicIsTight, Socket!Daemon
    <2>6. SocketOf(d, "compare", o, e, p)'
      BY <1>3, <1>4, <2>1, <2>2, <2>5 DEF SocketOf, Offering, Socket!Daemon
    <2> QED
      BY <1>4, <2>3, <2>4, <2>6, SocketTurnKeeps DEF Socket!Steps
  <1> QED
    BY <1>5, <1>6

\* removeExpectedUnixSocket: what was moved is unlinked, moved back or left where it is.
LEMMA CompareKeeps ==
    ASSUME SocketInv, NEW d \in Daemons, Socket!Compare(d)
    PROVE  SocketInv'
  <1>1. PICK o, e, c : o = own[d] /\ e = expected[d] /\ c = claimed[d]
    OBVIOUS
  <1>2. /\ place[d] = "compare" /\ place[d] # "off" /\ foreigns' \in 0 .. MaxForeign /\ faults' \in 0 .. MaxFaults
        /\ foreigns' = foreigns
    BY SocketBudget DEF Socket!Compare, Socket!At
  <1>3. SocketOf(d, "compare", o, e, c)
    BY <1>1, <1>2 DEF SocketInv, SocketOwn
  <1>4. c # None /\ c \in 1 .. Len(made)
    BY <1>3 DEF SocketOf, SocketIds
  <1>5. made' = made /\ listening' = listening /\ tight' = tight /\ orphans' = orphans
    BY DEF Socket!Compare
  <1>6. Len(made') >= Len(made) /\ SocketIds' = SocketIds
    BY <1>5 DEF SocketInv, SocketShared, SocketIds
  <1>7. unlinked' \in {unlinked, unlinked \cup {c}}
    BY <1>1 DEF Socket!Compare
  <1>8. public' = public \/ (c # e /\ public = None /\ public' = c)
    BY <1>1 DEF Socket!Compare
  <1>9. Socket!Daemon(c) => c \in listening \cup orphans /\ c \in tight
    BY <1>3 DEF SocketOf
  <1>10. SocketShared'
    <2>1. unlinked' \subseteq 1 .. Len(made)
      BY <1>4, <1>7 DEF SocketInv, SocketShared
    <2> QED
      BY <1>2, <1>4, <1>5, <1>8, <1>9, <2>1
          DEF SocketInv, SocketShared, SocketIds, Socket!NamedListens, Socket!PublicIsTight, Socket!Daemon
  <1>11. PICK x : x = (IF o # None THEN "shut" ELSE IF c = e THEN "bind" ELSE "off")
    OBVIOUS
  <1>12. SocketTurn(d, x, o, e, None)
    BY <1>1, <1>2, <1>11, SocketKept, SocketHolder
        DEF SocketTurn, Socket!Compare, Socket!Removed, Socket!NotRemoved, Socket!Goto, SocketInv
  <1>13. SocketOf(d, x, o, e, None)'
    <2>1. o # None => public' # o
      BY <1>3, <1>8 DEF SocketOf
    <2> QED
      BY <1>3, <1>5, <1>6, <1>11, <2>1 DEF SocketOf, SocketIds, Offering, Socket!Daemon
  <1> QED
    BY <1>6, <1>10, <1>11, <1>12, <1>13, SocketTurnKeeps DEF Socket!Steps

\* A socket more: the older ones keep their numbers.
LEMMA SocketBound ==
    ASSUME SocketInv, NEW b \in Daemons \cup {Foreign}, made' = Append(made, b), Len(made) < MaxSockets
    PROVE  /\ made' \in Seq(Daemons \cup {Foreign}) /\ Len(made') = Len(made) + 1 /\ Len(made) \in Nat
           /\ Len(made') <= MaxSockets /\ Socket!Fresh = Len(made) + 1 /\ made'[Socket!Fresh] = b
           /\ \A i \in 1 .. Len(made) : made'[i] = made[i]
           /\ None \notin Nat
  <1>1. made \in Seq(Daemons \cup {Foreign}) /\ Len(made) \in Nat /\ MaxSockets \in Nat
    BY SocketAssumed DEF SocketInv, SocketShared, Socket!SocketAssumption
  <1> QED
    BY <1>1, SocketAssumed DEF Socket!Fresh, Socket!SocketAssumption

\* newStagedUnixListenerAt: a listener in the private directory.
LEMMA BindKeeps ==
    ASSUME SocketInv, NEW d \in Daemons, Socket!Bind(d)
    PROVE  SocketInv'
  <1>1. PICK o, e, c : o = Socket!Fresh /\ e = expected[d] /\ c = claimed[d]
    OBVIOUS
  <1>2. /\ place[d] = "bind" /\ place[d] # "off" /\ foreigns' \in 0 .. MaxForeign /\ faults' \in 0 .. MaxFaults
        /\ foreigns' = foreigns
    BY SocketBudget DEF Socket!Bind, Socket!At
  <1>3. c = None /\ e \in SocketIds
    BY <1>1, <1>2 DEF SocketInv, SocketOwn, SocketOf
  <1>4. /\ made' \in Seq(Daemons \cup {Foreign}) /\ Len(made') = Len(made) + 1 /\ Len(made) \in Nat
        /\ Len(made') <= MaxSockets /\ o = Len(made) + 1 /\ made'[o] = d
        /\ \A i \in 1 .. Len(made) : made'[i] = made[i]
        /\ None \notin Nat
    BY <1>1, SocketBound DEF Socket!Bind
  <1>5. /\ public' = public /\ tight' = tight /\ orphans' = orphans /\ unlinked' = unlinked
        /\ listening' = listening \cup {o}
    BY <1>1 DEF Socket!Bind
  <1>6. SocketShared'
    <2>1. Len(made) <= Len(made')
      BY <1>4
    <2>2. public' \in 1 .. Len(made) \cup {None} /\ public' \in SocketIds'
      BY <1>4, <1>5 DEF SocketInv, SocketShared, SocketIds
    <2>3. listening' \subseteq 1 .. Len(made')
      <3>1. o \in 1 .. Len(made') /\ 1 .. Len(made) \subseteq 1 .. Len(made')
        BY <1>4
      <3>2. listening \subseteq 1 .. Len(made)
        BY DEF SocketInv, SocketShared
      <3> QED
        BY <1>5, <3>1, <3>2
    <2>4. /\ tight' \subseteq 1 .. Len(made') /\ orphans' \subseteq 1 .. Len(made')
          /\ unlinked' \subseteq 1 .. Len(made')
      BY <1>4, <1>5 DEF SocketInv, SocketShared
    <2>5. Socket!NamedListens' /\ Socket!PublicIsTight'
      BY <1>4, <1>5, <2>2 DEF SocketInv, SocketShared, Socket!NamedListens, Socket!PublicIsTight, Socket!Daemon
    <2> QED
      BY <1>2, <1>4, <2>2, <2>3, <2>4, <2>5 DEF SocketShared
  <1>7. SocketTurn(d, "tighten", o, e, c)
    BY <1>1, <1>2, SocketKept, SocketHolder DEF SocketTurn, Socket!Bind, Socket!Goto, SocketInv
  <1>8. SocketOf(d, "tighten", o, e, c)'
    <2>1. o \in SocketIds' /\ e \in SocketIds' /\ c \in SocketIds' /\ o # None
      BY <1>3, <1>4 DEF SocketIds
    <2>2. public' # o
      BY <1>4, <1>5 DEF SocketInv, SocketShared, SocketIds
    <2> QED
      BY <1>3, <1>4, <1>5, <2>1, <2>2 DEF SocketOf, Offering, Socket!Daemon
  <1>9. Len(made') >= Len(made)
    BY <1>4
  <1> QED
    BY <1>6, <1>7, <1>8, <1>9, SocketTurnKeeps DEF Socket!Steps

\* newStagedUnixListenerAt: the mode of the own socket is set.
LEMMA TightenKeeps ==
    ASSUME SocketInv, NEW d \in Daemons, Socket!Tighten(d)
    PROVE  SocketInv'
  <1>1. PICK o, e, c : o = own[d] /\ e = expected[d] /\ c = claimed[d]
    OBVIOUS
  <1>2. /\ place[d] = "tighten" /\ place[d] # "off" /\ foreigns' \in 0 .. MaxForeign /\ faults' \in 0 .. MaxFaults
        /\ foreigns' = foreigns
    BY SocketBudget DEF Socket!Tighten, Socket!At
  <1>3. SocketOf(d, "tighten", o, e, c)
    BY <1>1, <1>2 DEF SocketInv, SocketOwn
  <1>4. /\ made' = made /\ public' = public /\ listening' = listening /\ orphans' = orphans /\ unlinked' = unlinked
        /\ tight' = tight \cup {o}
    BY <1>1 DEF Socket!Tighten
  <1>5. Len(made') >= Len(made) /\ SocketIds' = SocketIds
    BY <1>4 DEF SocketInv, SocketShared, SocketIds
  <1>6. o \in 1 .. Len(made)
    BY <1>3 DEF SocketOf, SocketIds, Offering
  <1>7. SocketShared'
    <2>1. tight' \subseteq 1 .. Len(made)
      BY <1>4, <1>6 DEF SocketInv, SocketShared
    <2> QED
      BY <1>2, <1>4, <1>5, <2>1
          DEF SocketInv, SocketShared, SocketIds, Socket!NamedListens, Socket!PublicIsTight, Socket!Daemon
  <1>8. SocketTurn(d, "publish", o, e, c)
    BY <1>1, <1>2, SocketKept, SocketHolder DEF SocketTurn, Socket!Tighten, Socket!Goto, SocketInv
  <1>9. SocketOf(d, "publish", o, e, c)'
    BY <1>3, <1>4, <1>5 DEF SocketOf, Offering, Socket!Daemon
  <1> QED
    BY <1>5, <1>7, <1>8, <1>9, SocketTurnKeeps DEF Socket!Steps

\* publish: a free name leads to the own socket, which listens and is tight.
LEMMA PublishKeeps ==
    ASSUME SocketInv, NEW d \in Daemons, Socket!Publish(d)
    PROVE  SocketInv'
  <1>1. PICK o, e, c : o = own[d] /\ e = expected[d] /\ c = claimed[d]
    OBVIOUS
  <1>2. /\ place[d] = "publish" /\ place[d] # "off" /\ foreigns' \in 0 .. MaxForeign /\ faults' \in 0 .. MaxFaults
        /\ foreigns' = foreigns
    BY SocketBudget DEF Socket!Publish, Socket!At
  <1>3. CASE public # None
    BY <1>2, <1>3, DiscardKeeps DEF Socket!Publish
  <1>4. CASE public = None
    <2>1. SocketOf(d, "publish", o, e, c)
      BY <1>1, <1>2 DEF SocketInv, SocketOwn
    <2>2. /\ made' = made /\ listening' = listening /\ tight' = tight /\ orphans' = orphans /\ unlinked' = unlinked
          /\ public' = o
      BY <1>1, <1>4 DEF Socket!Publish, Socket!sockets
    <2>3. Len(made') >= Len(made) /\ SocketIds' = SocketIds
      BY <2>2 DEF SocketInv, SocketShared, SocketIds
    <2>4. o \in 1 .. Len(made) /\ o \in listening /\ o \in tight
      BY <2>1 DEF SocketOf, SocketIds, Offering
    <2>5. SocketShared'
      BY <1>2, <2>2, <2>3, <2>4
          DEF SocketInv, SocketShared, SocketIds, Socket!NamedListens, Socket!PublicIsTight, Socket!Daemon
    <2>6. SocketTurn(d, "verify", o, e, c)
      BY <1>1, <1>2, <1>4, SocketKept, SocketHolder DEF SocketTurn, Socket!Publish, Socket!Goto, SocketInv
    <2>7. SocketOf(d, "verify", o, e, c)'
      BY <2>1, <2>2, <2>3 DEF SocketOf, Offering, Socket!Daemon
    <2> QED
      BY <2>3, <2>5, <2>6, <2>7, SocketTurnKeeps DEF Socket!Steps
  <1> QED
    BY <1>3, <1>4

\* publish: the name was verified to lead to the own socket.
LEMMA VerifyKeeps ==
    ASSUME SocketInv, NEW d \in Daemons, Socket!Verify(d)
    PROVE  SocketInv'
  <1>1. PICK o, e, c : o = own[d] /\ e = expected[d] /\ c = claimed[d]
    OBVIOUS
  <1>2. /\ place[d] = "verify" /\ place[d] # "off" /\ foreigns' \in 0 .. MaxForeign /\ faults' \in 0 .. MaxFaults
        /\ foreigns' = foreigns
    BY SocketBudget DEF Socket!Verify, Socket!At
  <1>3. CASE ~Socket!NamesOwn(d)
    BY <1>2, <1>3, WithdrawKeeps DEF Socket!Verify
  <1>4. CASE Socket!NamesOwn(d)
    <2>1. SocketOf(d, "verify", o, e, c) /\ public = o
      BY <1>1, <1>2, <1>4 DEF SocketInv, SocketOwn, Socket!NamesOwn
    <2>2. SocketShared' /\ Len(made') >= Len(made)
      BY <1>2, <1>4, SocketSharedKept DEF Socket!Verify
    <2>3. /\ made' = made /\ public' = public /\ listening' = listening /\ tight' = tight /\ orphans' = orphans
      BY <1>4 DEF Socket!Verify, Socket!sockets
    <2>4. SocketTurn(d, "probe", o, e, c)
      BY <1>1, <1>2, <1>4, SocketKept, SocketHolder DEF SocketTurn, Socket!Verify, Socket!Goto, SocketInv
    <2>5. SocketOf(d, "probe", o, e, c)'
      BY <2>1, <2>3 DEF SocketOf, SocketIds, Offering, Socket!Daemon
    <2> QED
      BY <2>2, <2>4, <2>5, SocketTurnKeeps DEF Socket!Steps
  <1> QED
    BY <1>3, <1>4

\* probePublishedUnixSocket: somebody answered at the name.
LEMMA ProbeKeeps ==
    ASSUME SocketInv, NEW d \in Daemons, Socket!Probe(d)
    PROVE  SocketInv'
  <1>1. PICK o, e, c : o = own[d] /\ e = expected[d] /\ c = claimed[d]
    OBVIOUS
  <1>2. /\ place[d] = "probe" /\ place[d] # "off" /\ foreigns' \in 0 .. MaxForeign /\ faults' \in 0 .. MaxFaults
        /\ foreigns' = foreigns
    BY SocketBudget DEF Socket!Probe, Socket!At
  <1>3. CASE ~Socket!Answered
    BY <1>2, <1>3, WithdrawKeeps DEF Socket!Probe
  <1>4. CASE Socket!Answered
    <2>1. SocketOf(d, "probe", o, e, c)
      BY <1>1, <1>2 DEF SocketInv, SocketOwn
    <2>2. SocketShared' /\ Len(made') >= Len(made)
      BY <1>2, <1>4, SocketSharedKept DEF Socket!Probe
    <2>3. /\ made' = made /\ public' = public /\ listening' = listening /\ tight' = tight /\ orphans' = orphans
      BY <1>4 DEF Socket!Probe, Socket!sockets
    <2>4. SocketTurn(d, "serving", o, e, c)
      BY <1>1, <1>2, <1>4, SocketKept, SocketHolder DEF SocketTurn, Socket!Probe, Socket!Goto, SocketInv
    <2>5. SocketOf(d, "serving", o, e, c)'
      BY <1>2, <2>1, <2>3 DEF SocketOf, SocketIds, Offering, Socket!Daemon
    <2> QED
      BY <2>2, <2>4, <2>5, SocketTurnKeeps DEF Socket!Steps
  <1> QED
    BY <1>3, <1>4

\* Close: the listener ends once its name is gone or was left behind.
LEMMA CloseListenerKeeps ==
    ASSUME SocketInv, NEW d \in Daemons, Socket!CloseListener(d)
    PROVE  SocketInv'
  <1>1. PICK o, e, c : o = own[d] /\ e = expected[d] /\ c = claimed[d]
    OBVIOUS
  <1>2. /\ place[d] = "shut" /\ place[d] # "off" /\ foreigns' \in 0 .. MaxForeign /\ faults' \in 0 .. MaxFaults
        /\ foreigns' = foreigns
    BY SocketBudget DEF Socket!CloseListener, Socket!At
  <1>3. SocketOf(d, "shut", o, e, c)
    BY <1>1, <1>2 DEF SocketInv, SocketOwn
  <1>4. /\ made' = made /\ public' = public /\ tight' = tight /\ orphans' = orphans /\ unlinked' = unlinked
        /\ listening' = listening \ {o}
    BY <1>1 DEF Socket!CloseListener
  <1>5. Len(made') >= Len(made) /\ SocketIds' = SocketIds
    BY <1>4 DEF SocketInv, SocketShared, SocketIds
  <1>6. (public # o \/ o \in orphans) /\ c = None
    BY <1>3 DEF SocketOf
  <1>7. SocketShared'
    BY <1>2, <1>4, <1>5, <1>6
        DEF SocketInv, SocketShared, SocketIds, Socket!NamedListens, Socket!PublicIsTight, Socket!Daemon
  <1>8. SocketTurn(d, "leave", o, e, c)
    BY <1>1, <1>2, SocketKept, SocketHolder DEF SocketTurn, Socket!CloseListener, Socket!Goto, SocketInv
  <1>9. SocketOf(d, "leave", o, e, c)'
    BY <1>3, <1>4, <1>5, <1>6 DEF SocketOf, Offering, Socket!Daemon
  <1> QED
    BY <1>5, <1>7, <1>8, <1>9, SocketTurnKeeps DEF Socket!Steps

\* A call that fails ends the start the way its step provides.
LEMMA FailStartKeeps ==
    ASSUME SocketInv, NEW d \in Daemons, Socket!FailStart(d)
    PROVE  SocketInv'
  <1>1. foreigns' \in 0 .. MaxForeign /\ faults' \in 0 .. MaxFaults
    BY SocketBudget DEF Socket!FailStart
  <1>2. CASE place[d] \in {"look", "dial", "bind"} /\ Socket!GiveUp(d)
    BY <1>1, <1>2, GiveUpKeeps
  <1>3. CASE place[d] \in {"tighten", "publish"} /\ Socket!Discard(d)
    BY <1>1, <1>3, DiscardKeeps
  <1>4. CASE place[d] \in {"verify", "probe"} /\ Socket!Withdraw(d)
    BY <1>1, <1>4, WithdrawKeeps
  <1> QED
    BY <1>2, <1>3, <1>4 DEF Socket!FailStart

\* A socket that is left behind is one that was bound.
LEMMA OrphanedIs ==
    ASSUME SocketInv, NEW o \in SocketIds, Socket!Orphaned(o)
    PROVE  /\ orphans' \subseteq 1 .. Len(made) /\ orphans \subseteq orphans'
           /\ (o # None => o \in orphans')
  BY DEF Socket!Orphaned, SocketInv, SocketShared, SocketIds

\* No private directory for the removal: the name is left behind.
LEMMA FailRemoveKeeps ==
    ASSUME SocketInv, NEW d \in Daemons, Socket!FailRemove(d)
    PROVE  SocketInv'
  <1>1. PICK o, e, c : o = own[d] /\ e = expected[d] /\ c = claimed[d]
    OBVIOUS
  <1>2. /\ place[d] = "quarantine" /\ place[d] # "off" /\ foreigns' \in 0 .. MaxForeign /\ faults' \in 0 .. MaxFaults
        /\ foreigns' = foreigns
    BY SocketBudget DEF Socket!FailRemove, Socket!At
  <1>3. SocketOf(d, "quarantine", o, e, c)
    BY <1>1, <1>2 DEF SocketInv, SocketOwn
  <1>4. /\ made' = made /\ public' = public /\ tight' = tight /\ unlinked' = unlinked
        /\ listening' = listening
    BY DEF Socket!FailRemove
  <1>5. Len(made') >= Len(made) /\ SocketIds' = SocketIds
    BY <1>4 DEF SocketInv, SocketShared, SocketIds
  <1>6. /\ orphans' \subseteq 1 .. Len(made) /\ orphans \subseteq orphans'
        /\ (o # None => o \in orphans')
    BY <1>1, <1>3, OrphanedIs DEF Socket!FailRemove, SocketOf
  <1>7. SocketShared'
    BY <1>2, <1>4, <1>5, <1>6
        DEF SocketInv, SocketShared, SocketIds, Socket!NamedListens, Socket!PublicIsTight, Socket!Daemon
  <1>8. PICK x : x = (IF o = None THEN "off" ELSE "shut")
    OBVIOUS
  <1>9. SocketTurn(d, x, o, e, c)
    BY <1>1, <1>2, <1>8, SocketKept, SocketHolder
        DEF SocketTurn, Socket!FailRemove, Socket!NotRemoved, Socket!Goto, SocketInv
  <1>10. SocketOf(d, x, o, e, c)'
    BY <1>3, <1>4, <1>5, <1>6, <1>8 DEF SocketOf, Offering, Socket!Daemon
  <1> QED
    BY <1>5, <1>7, <1>8, <1>9, <1>10, SocketTurnKeeps DEF Socket!Steps

\* The process dies: its listener ends and its names are left behind.
LEMMA DieKeeps ==
    ASSUME SocketInv, NEW d \in Daemons, Socket!Die(d)
    PROVE  SocketInv'
  <1>1. PICK o, e : o = own[d] /\ e = expected[d]
    OBVIOUS
  <1>2. /\ place[d] # "off" /\ foreigns' \in 0 .. MaxForeign /\ faults' \in 0 .. MaxFaults
        /\ foreigns' = foreigns
    BY SocketBudget DEF Socket!Die, Socket!At
  <1>3. o \in SocketIds /\ e \in SocketIds
    BY <1>1 DEF SocketInv, SocketOwn, SocketOf
  <1>4. /\ made' = made /\ public' = public /\ tight' = tight /\ unlinked' = unlinked
        /\ listening' = listening \ {o}
    BY <1>1 DEF Socket!Die
  <1>5. Len(made') >= Len(made) /\ SocketIds' = SocketIds
    BY <1>4 DEF SocketInv, SocketShared, SocketIds
  <1>6. /\ orphans' \subseteq 1 .. Len(made) /\ orphans \subseteq orphans'
        /\ (o # None => o \in orphans')
    BY <1>1, <1>3, OrphanedIs DEF Socket!Die
  <1>7. SocketShared'
    BY <1>2, <1>4, <1>5, <1>6
        DEF SocketInv, SocketShared, SocketIds, Socket!NamedListens, Socket!PublicIsTight, Socket!Daemon
  <1>8. SocketTurn(d, "off", None, e, None)
    BY <1>1, <1>2, SocketKept, SocketHolder DEF SocketTurn, Socket!Die, Socket!Goto, SocketInv
  <1>9. SocketOf(d, "off", None, e, None)'
    BY <1>3, <1>5 DEF SocketOf, SocketIds, Offering, Socket!Daemon
  <1> QED
    BY <1>5, <1>7, <1>8, <1>9, SocketTurnKeeps DEF Socket!Steps

\* A step of the other process leaves every daemon where it is.
LEMMA ForeignKeeps ==
    ASSUME SocketInv, UNCHANGED <<lease, place, own, expected, claimed>>, SocketShared',
           \A d \in Daemons : SocketOf(d, place[d], own[d], expected[d], claimed[d])'
    PROVE  SocketInv'
  BY DEF SocketInv, SocketPlaces, SocketOwn, Socket!Steps, Socket!Ids

\* One step of the other process is spent.
LEMMA ForeignBudget ==
    ASSUME SocketInv, foreigns < MaxForeign, foreigns' = foreigns + 1
    PROVE  foreigns' \in 0 .. MaxForeign /\ foreigns' # 0
  BY SocketAssumed DEF SocketInv, SocketShared, Socket!SocketAssumption

\* The other process publishes: its socket is none a daemon knows.
LEMMA ForeignPublishKeeps ==
    ASSUME SocketInv, Socket!ForeignPublish
    PROVE  SocketInv'
  <1>1. PICK f : f = Socket!Fresh
    OBVIOUS
  <1>2. foreigns' \in 0 .. MaxForeign /\ foreigns' # 0 /\ faults' = faults
    BY ForeignBudget DEF Socket!ForeignPublish
  <1>3. /\ made' \in Seq(Daemons \cup {Foreign}) /\ Len(made') = Len(made) + 1 /\ Len(made) \in Nat
        /\ Len(made') <= MaxSockets /\ f = Len(made) + 1 /\ made'[f] = Foreign
        /\ \A i \in 1 .. Len(made) : made'[i] = made[i]
        /\ None \notin Nat
    BY <1>1, SocketBound DEF Socket!ForeignPublish
  <1>4. /\ public' = f /\ tight' = tight /\ orphans' = orphans /\ unlinked' = unlinked
        /\ listening' = listening \cup {f}
    BY <1>1 DEF Socket!ForeignPublish
  <1>5. f \notin 1 .. Len(made) /\ f \in 1 .. Len(made') /\ 1 .. Len(made) \subseteq 1 .. Len(made') /\ f # None
    BY <1>3
  <1>6. Foreign \notin Daemons
    BY SocketAssumed DEF Socket!SocketAssumption
  <1>7. SocketShared'
    <2>1. public' \in SocketIds'
      BY <1>4, <1>5 DEF SocketIds
    <2>2. listening \subseteq 1 .. Len(made)
      BY DEF SocketInv, SocketShared
    <2>3. /\ tight' \subseteq 1 .. Len(made') /\ orphans' \subseteq 1 .. Len(made')
          /\ unlinked' \subseteq 1 .. Len(made') /\ faults' \in 0 .. MaxFaults
      BY <1>2, <1>4, <1>5 DEF SocketInv, SocketShared
    <2>4. listening' \subseteq 1 .. Len(made')
      BY <1>4, <1>5, <2>2
    <2>5. Socket!NamedListens' /\ Socket!PublicIsTight'
      BY <1>3, <1>4, <1>6 DEF Socket!NamedListens, Socket!PublicIsTight, Socket!Daemon
    <2> QED
      BY <1>2, <1>3, <2>1, <2>3, <2>4, <2>5 DEF SocketShared
  <1>8. ASSUME NEW d \in Daemons
        PROVE  SocketOf(d, place[d], own[d], expected[d], claimed[d])'
    <2>1. PICK x, o, e, c : x = place[d] /\ o = own[d] /\ e = expected[d] /\ c = claimed[d]
      OBVIOUS
    <2>2. SocketOf(d, x, o, e, c)
      BY <2>1 DEF SocketInv, SocketOwn
    <2>3. o \in SocketIds' /\ e \in SocketIds' /\ c \in SocketIds' /\ o # f /\ e # f /\ c # f
      BY <1>5, <2>2 DEF SocketOf, SocketIds
    <2>4. o # None => made'[o] = made[o]
      BY <1>3, <2>2 DEF SocketOf, SocketIds
    <2>5. Socket!Daemon(c)' => Socket!Daemon(c)
      BY <1>3, <2>2 DEF SocketOf, SocketIds, Socket!Daemon
    <2>6. SocketOf(d, x, o, e, c)'
      BY <1>2, <1>4, <2>2, <2>3, <2>4, <2>5 DEF SocketOf, Offering
    <2> QED
      BY <2>1, <2>6 DEF Socket!ForeignPublish, SocketOf
  <1> QED
    BY <1>7, <1>8, ForeignKeeps DEF Socket!ForeignPublish

\* The other process takes the name away.
LEMMA ForeignUnlinkKeeps ==
    ASSUME SocketInv, Socket!ForeignUnlink
    PROVE  SocketInv'
  <1>1. foreigns' \in 0 .. MaxForeign /\ foreigns' # 0 /\ faults' = faults
    BY ForeignBudget DEF Socket!ForeignUnlink
  <1>2. /\ made' = made /\ listening' = listening /\ tight' = tight /\ orphans' = orphans /\ unlinked' = unlinked
        /\ public' = None
    BY DEF Socket!ForeignUnlink, Socket!sockets
  <1>3. SocketShared'
    BY <1>1, <1>2 DEF SocketInv, SocketShared, SocketIds, Socket!NamedListens, Socket!PublicIsTight, Socket!Daemon
  <1>4. None \notin 1 .. Len(made)
    BY SocketAssumed DEF Socket!SocketAssumption
  <1>5. None \notin listening
    BY <1>4 DEF SocketInv, SocketShared
  <1>6. ASSUME NEW d \in Daemons
        PROVE  SocketOf(d, place[d], own[d], expected[d], claimed[d])'
    <2>1. PICK x, o, e, c : x = place[d] /\ o = own[d] /\ e = expected[d] /\ c = claimed[d]
      OBVIOUS
    <2>2. SocketOf(d, x, o, e, c)
      BY <2>1 DEF SocketInv, SocketOwn
    <2>3. SocketOf(d, x, o, e, c)'
      BY <1>1, <1>2, <1>5, <2>2 DEF SocketOf, SocketIds, Offering, Socket!Daemon
    <2> QED
      BY <2>1, <2>3 DEF Socket!ForeignUnlink, SocketOf
  <1> QED
    BY <1>3, <1>6, ForeignKeeps DEF Socket!ForeignUnlink

\* The other process ends: only its own listeners do.
LEMMA ForeignDieKeeps ==
    ASSUME SocketInv, Socket!ForeignDie
    PROVE  SocketInv'
  <1>1. foreigns' \in 0 .. MaxForeign /\ foreigns' # 0 /\ faults' = faults
    BY ForeignBudget DEF Socket!ForeignDie
  <1>2. /\ made' = made /\ public' = public /\ tight' = tight /\ orphans' = orphans /\ unlinked' = unlinked
        /\ listening' = listening \ {i \in listening : made[i] = Foreign}
    BY DEF Socket!ForeignDie
  <1>3. Foreign \notin Daemons
    BY SocketAssumed DEF Socket!SocketAssumption
  <1>4. SocketShared'
    BY <1>1, <1>2, <1>3
        DEF SocketInv, SocketShared, SocketIds, Socket!NamedListens, Socket!PublicIsTight, Socket!Daemon
  <1>5. ASSUME NEW d \in Daemons
        PROVE  SocketOf(d, place[d], own[d], expected[d], claimed[d])'
    <2>1. PICK x, o, e, c : x = place[d] /\ o = own[d] /\ e = expected[d] /\ c = claimed[d]
      OBVIOUS
    <2>2. SocketOf(d, x, o, e, c)
      BY <2>1 DEF SocketInv, SocketOwn
    <2>3. x \in Offering => o \in listening'
      BY <1>2, <1>3, <2>2 DEF SocketOf
    <2>4. Socket!Daemon(c) => c \in listening' \cup orphans
      BY <1>2, <1>3, <2>2 DEF SocketOf, Socket!Daemon
    <2>5. SocketOf(d, x, o, e, c)'
      BY <1>1, <1>2, <2>2, <2>3, <2>4 DEF SocketOf, SocketIds, Offering, Socket!Daemon
    <2> QED
      BY <2>1, <2>5 DEF Socket!ForeignDie, SocketOf
  <1> QED
    BY <1>4, <1>5, ForeignKeeps DEF Socket!ForeignDie

\* No step of a daemon or of the other process leaves the invariant.
LEMMA SocketStep ==
    ASSUME SocketInv, [Socket!Next]_socketVars
    PROVE  SocketInv'
  <1>1. ASSUME NEW d \in Daemons, Socket!Proceed(d) PROVE SocketInv'
    <2>1. CASE Socket!Unlock(d)
      <3>1. place[d] = "leave" /\ foreigns' \in 0 .. MaxForeign /\ faults' \in 0 .. MaxFaults
        BY <2>1, SocketBudget DEF Socket!Unlock, Socket!At
      <3> QED
        BY <2>1, <3>1, GiveUpKeeps DEF Socket!Unlock
    <2> QED
      BY <1>1, <2>1, LockSocketParentKeeps, LookKeeps, DialKeeps, QuarantineKeeps, CompareKeeps, BindKeeps, TightenKeeps,
          PublishKeeps, VerifyKeeps, ProbeKeeps, CloseListenerKeeps DEF Socket!Proceed
  <1>2. ASSUME NEW d \in Daemons, Socket!Close(d) PROVE SocketInv'
    <2>1. place[d] = "serving" /\ foreigns' \in 0 .. MaxForeign /\ faults' \in 0 .. MaxFaults
      BY <1>2, SocketBudget DEF Socket!Close, Socket!At
    <2> QED
      BY <1>2, <2>1, WithdrawKeeps DEF Socket!Close
  <1>3. CASE UNCHANGED socketVars
    BY <1>3 DEF socketVars, SocketInv, SocketShared, SocketPlaces, SocketOwn, SocketOf, SocketIds, Offering,
        Socket!NamedListens, Socket!PublicIsTight, Socket!Daemon, Socket!Steps, Socket!Ids
  <1> QED
    BY <1>1, <1>2, <1>3, FailStartKeeps, FailRemoveKeeps, DieKeeps, ForeignPublishKeeps, ForeignUnlinkKeeps,
        ForeignDieKeeps DEF Socket!Next

\* A step of the suite is one of the sockets, or leaves them alone.
LEMMA SuiteSocketStep == DaemonNext => [Socket!Next]_socketVars
  BY DEF DaemonNext

\* server/socket.go: the names and sockets of the daemons satisfy the inductive
\* invariant in every reachable state, for any daemons and any other process.
THEOREM SocketInvariant == DaemonSpec => []SocketInv
  <1>1. DaemonInit => SocketInv
    BY SocketInit DEF DaemonInit
  <1>2. SocketInv /\ [DaemonNext]_daemonVars => SocketInv'
    BY SocketStep, SuiteSocketStep DEF daemonVars
  <1> QED
    BY <1>1, <1>2, PTL DEF DaemonSpec

\* What a daemon unlinks listens only where it is its own.
LEMMA UnlinksOwn ==
    ASSUME SocketInv, [Socket!Next]_socketVars, NEW i \in unlinked' \ unlinked, i \in listening
    PROVE  \E d \in Daemons : own[d] = i
  <1>1. ASSUME NEW d \in Daemons, Socket!Discard(d) PROVE own[d] = i
    BY <1>1 DEF Socket!Discard
  <1>2. ASSUME NEW d \in Daemons, Socket!Compare(d) PROVE own[d] = i
    <2>1. claimed[d] = expected[d] /\ i = claimed[d] /\ place[d] = "compare"
      BY <1>2 DEF Socket!Compare, Socket!At
    <2>2. SocketOf(d, "compare", own[d], expected[d], claimed[d])
      BY <2>1 DEF SocketInv, SocketOwn
    <2> QED
      BY <2>1, <2>2 DEF SocketOf
  <1>3. ASSUME NEW d \in Daemons, Socket!Proceed(d) PROVE own[d] = i
    BY <1>1, <1>2, <1>3 DEF Socket!Proceed, Socket!LockSocketParent, Socket!Look, Socket!Dial, Socket!Quarantine,
        Socket!Bind, Socket!Tighten, Socket!Publish, Socket!Verify, Socket!Probe, Socket!CloseListener,
        Socket!Unlock, Socket!GiveUp, Socket!Withdraw, Socket!sockets
  <1>4. ASSUME NEW d \in Daemons,
               Socket!Close(d) \/ Socket!FailStart(d) \/ Socket!FailRemove(d) \/ Socket!Die(d)
        PROVE  own[d] = i
    BY <1>1, <1>4 DEF Socket!Close, Socket!FailStart, Socket!FailRemove, Socket!Die, Socket!GiveUp,
        Socket!Withdraw, Socket!sockets
  <1>5. UNCHANGED unlinked => FALSE
    OBVIOUS
  <1>6. ~Socket!ForeignPublish /\ ~Socket!ForeignUnlink /\ ~Socket!ForeignDie /\ ~UNCHANGED socketVars
    BY <1>5 DEF Socket!ForeignPublish, Socket!ForeignUnlink, Socket!ForeignDie, Socket!sockets, socketVars
  <1> QED
    BY <1>3, <1>4, <1>6 DEF Socket!Next

\* A live socket of another that a daemon moved is back at its name, or a newer one
\* is there, when that daemon is done with it.
LEMMA MovesBack ==
    ASSUME SocketInv, [Socket!Next]_socketVars, NEW d \in Daemons,
           claimed[d] \in listening, claimed[d] # own[d], claimed'[d] = None, faults' = faults
    PROVE  public' # None
  <1>1. claimed[d] # None
    <2>1. None \notin 1 .. Len(made)
      BY SocketAssumed DEF Socket!SocketAssumption
    <2> QED
      BY <2>1 DEF SocketInv, SocketShared
  <1>2. SocketOf(d, place[d], own[d], expected[d], claimed[d]) /\ place[d] = "compare"
    BY <1>1 DEF SocketInv, SocketOwn, SocketOf
  <1>3. lease = d /\ lease # None
    BY <1>2, SocketAssumed DEF SocketInv, SocketPlaces, Socket!SocketAssumption
  <1>4. CASE Socket!Compare(d)
    BY <1>1, <1>2, <1>4 DEF Socket!Compare, SocketOf
  <1>5. ~UNCHANGED claimed
    BY <1>1
  <1>6. \A b \in Daemons \ {d} : place[b] = "off"
    BY <1>3 DEF SocketInv, SocketPlaces
  <1>7. ASSUME NEW b \in Daemons, Socket!Proceed(b) PROVE public' # None
    <2>1. place[b] # "off"
      BY <1>3, <1>7 DEF Socket!Proceed, Socket!LockSocketParent, Socket!Look, Socket!Dial, Socket!Quarantine,
          Socket!Compare, Socket!Bind, Socket!Tighten, Socket!Publish, Socket!Verify, Socket!Probe,
          Socket!CloseListener, Socket!Unlock, Socket!At
    <2>2. b = d
      BY <1>6, <2>1
    <2> QED
      BY <1>2, <1>4, <1>7, <2>2 DEF Socket!Proceed, Socket!LockSocketParent, Socket!Look, Socket!Dial, Socket!Quarantine,
          Socket!Bind, Socket!Tighten, Socket!Publish, Socket!Verify, Socket!Probe,
          Socket!CloseListener, Socket!Unlock, Socket!At
  <1>8. faults' = faults + 1 => FALSE
    BY DEF SocketInv, SocketShared
  <1>9. ASSUME NEW b \in Daemons PROVE ~Socket!FailStart(b) /\ ~Socket!FailRemove(b) /\ ~Socket!Die(b)
    BY <1>8 DEF Socket!FailStart, Socket!FailRemove, Socket!Die
  <1>10. ASSUME NEW b \in Daemons PROVE ~Socket!Close(b)
    BY <1>5 DEF Socket!Close, Socket!Withdraw
  <1>11. ~Socket!ForeignPublish /\ ~Socket!ForeignUnlink /\ ~Socket!ForeignDie /\ ~UNCHANGED socketVars
    BY <1>5 DEF Socket!ForeignPublish, Socket!ForeignUnlink, Socket!ForeignDie, socketVars
  <1> QED
    BY <1>7, <1>9, <1>10, <1>11 DEF Socket!Next

\* socket.go:235: what a serving daemon published stays at its name and listens; a client
\* that finds the name of a daemon finds a listener behind a socket whose mode is
\* set.  No daemon unlinks a live socket of another, or keeps one it moved by
\* mistake from its name (socket.go:480).
THEOREM NameServed == DaemonSpec => NameIsServed
  <1>1. SocketInv => Socket!TypeOK /\ Socket!ServingIsNamed /\ Socket!NamedListens /\ Socket!PublicIsTight
    <2> SUFFICES ASSUME SocketInv
                 PROVE  Socket!TypeOK /\ Socket!ServingIsNamed /\ Socket!NamedListens /\ Socket!PublicIsTight
      OBVIOUS
    <2>1. ASSUME NEW d \in Daemons, place[d] = "serving", foreigns = 0
          PROVE  public = own[d] /\ own[d] \in listening
      BY <2>1 DEF SocketInv, SocketOwn, SocketOf, Offering
    <2>2. Socket!ServingIsNamed
      BY <2>1 DEF Socket!ServingIsNamed, Socket!At
    <2> QED
      BY <2>2, SocketTyped DEF SocketInv, SocketShared
  <1>2. SocketInv /\ [DaemonNext]_daemonVars =>
          [\A i \in unlinked' \ unlinked : i \in listening => \E d \in Daemons : own[d] = i]_socketVars
    BY UnlinksOwn, SuiteSocketStep DEF daemonVars
  <1>3. SocketInv /\ [DaemonNext]_daemonVars =>
          [\A d \in Daemons :
              claimed[d] \in listening /\ claimed[d] # own[d] /\ claimed'[d] = None /\ faults' = faults
                 => public' # None]_socketVars
    BY MovesBack, SuiteSocketStep DEF daemonVars
  <1>4. DaemonSpec => Socket!LiveKept
    BY <1>2, SocketInvariant, PTL DEF DaemonSpec, Socket!LiveKept, Socket!vars, socketVars
  <1>5. DaemonSpec => Socket!MovedIsBack
    BY <1>3, SocketInvariant, PTL DEF DaemonSpec, Socket!MovedIsBack, Socket!vars, socketVars
  <1>6. DaemonSpec => [](Socket!TypeOK /\ Socket!ServingIsNamed /\ Socket!NamedListens /\ Socket!PublicIsTight)
    BY <1>1, SocketInvariant, PTL
  <1> QED
    BY <1>4, <1>5, <1>6, Zenon DEF NameIsServed

=============================================================================
