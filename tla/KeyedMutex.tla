----------------------------- MODULE KeyedMutex -----------------------------
(***************************************************************************)
(* What a lock per key promises: a caller asks for one key and holds it     *)
(* alone.  Which of the waiting callers is next is left open.                *)
(***************************************************************************)
CONSTANTS
    Callers,   \* goroutines
    Keys,      \* targets
    None       \* no key

VARIABLES
    wants,   \* [Callers -> the key the caller waits for, or None]
    holds    \* [Callers -> the key the caller holds, or None]

vars == <<wants, holds>>

Init == wants = [c \in Callers |-> None] /\ holds = [c \in Callers |-> None]

Ask(c, k) ==
    /\ wants[c] = None /\ holds[c] = None
    /\ wants' = [wants EXCEPT ![c] = k] /\ UNCHANGED holds

Grant(c) ==
    /\ wants[c] # None /\ \A d \in Callers : holds[d] # wants[c]
    /\ holds' = [holds EXCEPT ![c] = wants[c]] /\ wants' = [wants EXCEPT ![c] = None]

Release(c) == holds[c] # None /\ holds' = [holds EXCEPT ![c] = None] /\ UNCHANGED wants

Next == \E c \in Callers : Grant(c) \/ Release(c) \/ \E k \in Keys : Ask(c, k)

Spec == Init /\ [][Next]_vars
=============================================================================
