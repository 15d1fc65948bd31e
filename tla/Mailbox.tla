------------------------------ MODULE Mailbox ------------------------------
(***************************************************************************)
(* What the message relay promises, without its table, its requests or its *)
(* clock.  A message identifier is chosen by the sending client; a sender  *)
(* that withdraws a message may post the same identifier again, so an      *)
(* identifier has successive LIVES.  Each life is posted once, and then    *)
(* either acknowledged by its recipient or deleted by its sender, for      *)
(* good; an acknowledged life is the last one of its identifier.  The      *)
(* relay answers an acknowledge or a delete request with success only for  *)
(* a life whose fate is final by then.                                     *)
(***************************************************************************)
EXTENDS Naturals

CONSTANTS
  MsgId,    \* message identifiers
  Ordinal   \* the ordinals of the lives that are observed: 1, 2, ...

VARIABLES
  fate,     \* fate[m][k]: what has become of the k-th life of m
  told      \* the lives whose settlement has been answered to a client

vars == <<fate, told>>

Life == MsgId \X Ordinal

Final == {"acknowledged", "deleted"}

TypeOK ==
  /\ fate \in [MsgId -> [Ordinal -> {"unborn", "pending"} \cup Final]]
  /\ told \subseteq Life

Init ==
  /\ fate = [m \in MsgId |-> [k \in Ordinal |-> "unborn"]]
  /\ told = {}

\* The next life of m starts once every earlier life has been deleted.
Post(m) ==
  /\ \E k \in Ordinal :
       /\ fate[m][k] = "unborn"
       /\ \A j \in Ordinal : j < k => fate[m][j] = "deleted"
       /\ fate' = [fate EXCEPT ![m][k] = "pending"]
  /\ UNCHANGED told

\* A pending life is settled.
Settle(m, k, f) ==
  /\ fate[m][k] = "pending"
  /\ fate' = [fate EXCEPT ![m][k] = f]

\* A client is told that a life is settled; in the same step if need be.
Tell ==
  \E life \in Life :
    /\ fate'[life[1]][life[2]] \in Final
    /\ told' = told \cup {life}

Next ==
  \/ \E m \in MsgId : Post(m)
  \/ /\ \/ \E m \in MsgId, k \in Ordinal, f \in Final : Settle(m, k, f)
        \/ UNCHANGED fate
     /\ Tell \/ UNCHANGED told

Spec == Init /\ [][Next]_vars
=============================================================================
