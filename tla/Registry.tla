----------------------------- MODULE Registry -----------------------------
(***************************************************************************)
(* What get-or-create promises: a write-once register for every pair of    *)
(* users.  The conversation of a pair is decided once, by whichever user   *)
(* asks first, and every answer names the decided one.                     *)
(***************************************************************************)
CONSTANTS
  Pair,       \* the unordered pairs of users
  Id,         \* conversation identifiers
  Undecided

VARIABLES
  decided,    \* [Pair -> Id, or Undecided]
  told        \* the <<pair, conversation>> answers that were given

vars == <<decided, told>>

Init ==
  /\ decided = [p \in Pair |-> Undecided]
  /\ told = {}

\* Identifiers are fresh: no two pairs share a conversation.
Decide(p, id) ==
  /\ decided[p] = Undecided
  /\ \A q \in Pair : decided[q] # id
  /\ decided' = [decided EXCEPT ![p] = id]
  /\ UNCHANGED told

Tell(p) ==
  /\ decided[p] # Undecided
  /\ told' = told \cup {<<p, decided[p]>>}
  /\ UNCHANGED decided

Next == \E p \in Pair : Tell(p) \/ \E id \in Id : Decide(p, id)

Spec == Init /\ [][Next]_vars
=============================================================================
