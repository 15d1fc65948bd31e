-------------------------- MODULE MCConversations --------------------------
(* Conversations on small sets.  Threads and identifiers are                 *)
(* interchangeable; users are not, because their names are compared.         *)
EXTENDS Conversations, TLC

CONSTANTS c1, c2, c3, c4, w1, w2, w3

Symmetry == Permutations({c1, c2, c3, c4}) \cup Permutations({w1, w2, w3})
=============================================================================
