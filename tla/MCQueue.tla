------------------------------ MODULE MCQueue ------------------------------
(* Small instances of the queue for model checking. *)
EXTENDS QueueProps, TLC

CONSTANTS p1, p2, w1, w2, s1, s2

Symmetry == Permutations(Producers) \cup Permutations(Workers) \cup Permutations(Stoppers)
============================================================================
