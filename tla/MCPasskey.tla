----------------------------- MODULE MCPasskey -----------------------------
(* Passkey on small sets.  Threads, users, devices, credentials and          *)
(* challenges are each interchangeable.                                      *)
EXTENDS Passkey, TLC

CONSTANTS u1, u2, d1, d2, c1, c2, c3, w1, w2

Symmetry ==
  Permutations({u1, u2}) \cup Permutations({d1, d2})
    \cup Permutations({c1, c2, c3}) \cup Permutations({w1, w2})
=============================================================================
