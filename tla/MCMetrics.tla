----------------------------- MODULE MCMetrics -----------------------------
(* A small instance of the labelled series for model checking. *)
EXTENDS MetricsProps, TLC

CONSTANTS h1, h2, a, b, c, k1, k2, s1, s2

Symmetry == Permutations(Handlers) \cup Permutations(Hosts) \cup Permutations(Types)
              \cup Permutations(Servers)
=============================================================================
