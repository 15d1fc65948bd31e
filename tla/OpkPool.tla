------------------------------ MODULE OpkPool ------------------------------
(***************************************************************************)
(* What the key directory promises about one-time prekeys: every key that  *)
(* is uploaded goes, at most once, from the pool to one requester, and     *)
(* never back.  It may be lost on the way, when the request that took it   *)
(* dies.                                                                   *)
(*                                                                         *)
(* Hand-outs are counted, so that a second one is a step that nothing here *)
(* allows, and not a step that changes nothing.                            *)
(***************************************************************************)
CONSTANT OpkId   \* one-time prekeys

VARIABLES
  phase,   \* phase[o]: "absent", "available" or "taken"
  handed   \* handed[o]: how many requesters have been given o

vars == <<phase, handed>>

Init ==
  /\ phase = [o \in OpkId |-> "absent"]
  /\ handed = [o \in OpkId |-> 0]

\* A batch of keys is uploaded.
Add(batch) ==
  /\ \A o \in batch : phase[o] = "absent"
  /\ phase' = [o \in OpkId |-> IF o \in batch THEN "available" ELSE phase[o]]
  /\ UNCHANGED handed

\* A request takes a key out of the pool.
Take(o) ==
  /\ phase[o] = "available"
  /\ phase' = [phase EXCEPT ![o] = "taken"]
  /\ UNCHANGED handed

\* A requester is given a key that was taken and that nobody was given before.
Hand(o) ==
  /\ phase[o] = "taken"
  /\ handed[o] = 0
  /\ handed' = [handed EXCEPT ![o] = 1]
  /\ UNCHANGED phase

Next ==
  \/ \E batch \in SUBSET OpkId : Add(batch)
  \/ \E o \in OpkId : Take(o) \/ Hand(o)

Spec == Init /\ [][Next]_vars
=============================================================================
