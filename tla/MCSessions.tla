----------------------------- MODULE MCSessions -----------------------------
(* Sessions on small sets: two seeded users, each with a device and a         *)
(* development token of its own, and one token to draw.                       *)
EXTENDS Sessions, TLC

CONSTANTS u1, u2, d1, d2, t1, t2, t3, w1, s1, s2

\* _device_id_for_user and _token_for_user
MCDefaultDevice == u1 :> d1 @@ u2 :> d2
MCDevToken == u1 :> t1 @@ u2 :> t2

\* One seeded user, with device and token, for the other.
Exchanged ==
  u1 :> u2 @@ u2 :> u1 @@ d1 :> d2 @@ d2 :> d1 @@ t1 :> t2 @@ t2 :> t1

\* Scripts are interchangeable, and so are the seeded users.
Symmetry == Permutations({s1, s2}) \cup {Exchanged}
=============================================================================
