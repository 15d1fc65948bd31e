--------------------------- MODULE MCRequestPool ---------------------------
(* RequestPool on small sets: the shortest guarded route, with the stage of  *)
(* the principal and without that of the response, and the shortest one that *)
(* has a statement after a commit.                                           *)
EXTENDS RequestPool

CONSTANTS r1, r2, r3
=============================================================================
