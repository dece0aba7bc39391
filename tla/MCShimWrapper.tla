--------------------------- MODULE MCShimWrapper ---------------------------
(* Instances of ShimWrapper for TLC. *)
EXTENDS ShimWrapper, TLC

\* Connections, request IDs and commands are each interchangeable.
Symmetry ==
    Permutations(Connections) \cup Permutations(RequestIDs) \cup Permutations(Commands)
=============================================================================
