---- MODULE MCLifecycle ----
(* Two Sandboxes, two Containers and five operations of the Coordinator (Lifecycle). *)
EXTENDS Lifecycle, TLC
Symmetry == Permutations(Sandboxes) \cup Permutations(Containers) \cup Permutations(Ops)
====
