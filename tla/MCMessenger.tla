---------------------------- MODULE MCMessenger ----------------------------
(* Messenger on small sets.  Identifiers are interchangeable.                *)
EXTENDS Messenger, TLC

CONSTANTS m1, m2, c1, c2

Symmetry == Permutations({m1, m2}) \cup Permutations({c1, c2})
=============================================================================
