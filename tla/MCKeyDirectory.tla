-------------------------- MODULE MCKeyDirectory ---------------------------
(* KeyDirectory on small sets.  Threads and identifiers are interchangeable. *)
EXTENDS KeyDirectory, TLC

CONSTANTS a, b, o1, o2, w1, w2, k1, k2

Symmetry == Permutations({a, b}) \cup Permutations({o1, o2})
              \cup Permutations({w1, w2}) \cup Permutations({k1, k2})
=============================================================================
