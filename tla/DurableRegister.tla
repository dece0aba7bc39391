-------------------------- MODULE DurableRegister --------------------------
(***************************************************************************)
(* What a durable Store promises across crashes, whatever it is made of: a  *)
(* register that serves one value, the last one it promised.  A write that  *)
(* was cut short leaves its value in doubt; when the register serves again,  *)
(* the doubt is settled one way or the other, and a value that was served    *)
(* or dropped does not change again by itself.                              *)
(***************************************************************************)
EXTENDS Naturals

CONSTANT Values

VARIABLES
    value,   \* the value last promised to a caller
    doubt,   \* values of writes whose fate is unknown
    up       \* the register answers

vars == <<value, doubt, up>>

Init == value = 0 /\ doubt = {} /\ up = FALSE

\* A write that may, from now on, survive.  There is never a second one.
Attempt(v) == doubt = {} /\ v # value /\ doubt' = {v} /\ UNCHANGED <<value, up>>

\* The write is known not to have survived.
Drop == doubt # {} /\ doubt' = {} /\ UNCHANGED <<value, up>>

\* The write, or the old value, is promised and served.
Promise(v) == v \in doubt \cup {value} /\ value' = v /\ doubt' = {} /\ up' = TRUE

\* A stop keeps what was promised, and a write in doubt or not.
Stop == up /\ up' = FALSE /\ doubt' \subseteq doubt /\ UNCHANGED value

Next == Drop \/ Stop \/ \E v \in Values : Attempt(v) \/ Promise(v)

Spec == Init /\ [][Next]_vars
=============================================================================
