------------------------------- MODULE MCAlloc ------------------------------
(* An instance of Alloc, and of the MemoryPool below it, for TLC. *)
EXTENDS Alloc, TLC

Symmetry == Permutations(Threads)

\* An object of 20 bytes, and an array of two elements of 16.
MCRequests == {[elem |-> 20, n |-> 1, array |-> FALSE],
               [elem |-> 16, n |-> 2, array |-> TRUE]}

=============================================================================
