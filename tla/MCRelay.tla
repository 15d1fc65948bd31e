------------------------------ MODULE MCRelay ------------------------------
(* Relay on small sets.  Threads, and the two users, are interchangeable.    *)
EXTENDS Relay, TLC

CONSTANTS u1, u2, w1, w2

Symmetry == Permutations({u1, u2}) \cup Permutations({w1, w2})
=============================================================================
