----------------------------- MODULE Exchange ------------------------------
(***************************************************************************)
(* What passkey authentication promises about its challenges, without      *)
(* users, devices, credentials or the clock: a challenge is issued once;   *)
(* while nobody has used it, requests are admitted to answer it; and a     *)
(* session is granted only to a request that was admitted, once.  The      *)
(* first grant closes the challenge for all requests that begin later.     *)
(* Those that were admitted before it may be granted a session as well:    *)
(* the promise is weaker than one session for one challenge.  How much     *)
(* weaker is told by AtMostOneEach.                                        *)
(***************************************************************************)
EXTENDS Naturals, FiniteSets

CONSTANTS
  Challenge,
  Client      \* those who may be answering a challenge

VARIABLES
  state,      \* state[c]: "unknown", "open" or "used"
  admitted,   \* admitted[c]: the requests that are answering c
  granted     \* granted[c]: the sessions that were granted for c

vars == <<state, admitted, granted>>

TypeOK ==
  /\ state \in [Challenge -> {"unknown", "open", "used"}]
  /\ admitted \in [Challenge -> SUBSET Client]
  /\ granted \in [Challenge -> Nat]

Init ==
  /\ state = [c \in Challenge |-> "unknown"]
  /\ admitted = [c \in Challenge |-> {}]
  /\ granted = [c \in Challenge |-> 0]

Issue(c) ==
  /\ state[c] = "unknown"
  /\ state' = [state EXCEPT ![c] = "open"]
  /\ UNCHANGED <<admitted, granted>>

\* A request answers one challenge.
Admit(c, r) ==
  /\ state[c] = "open"
  /\ \A d \in Challenge : r \notin admitted[d]
  /\ admitted' = [admitted EXCEPT ![c] = @ \cup {r}]
  /\ UNCHANGED <<state, granted>>

Grant(c, r) ==
  /\ r \in admitted[c]
  /\ state' = [state EXCEPT ![c] = "used"]
  /\ admitted' = [admitted EXCEPT ![c] = @ \ {r}]
  /\ granted' = [granted EXCEPT ![c] = @ + 1]

\* A request is refused, or dies.
Drop(c, r) ==
  /\ r \in admitted[c]
  /\ admitted' = [admitted EXCEPT ![c] = @ \ {r}]
  /\ UNCHANGED <<state, granted>>

Next ==
  \E c \in Challenge :
    \/ Issue(c)
    \/ \E r \in Client : Admit(c, r) \/ Grant(c, r) \/ Drop(c, r)

Spec == Init /\ [][Next]_vars

\* As nobody is admitted after the first grant, the sessions granted for a
\* challenge and the requests that may still get one are no more than there are
\* clients.
AtMostOneEach ==
  \A c \in Challenge :
    granted[c] + Cardinality(admitted[c]) =< Cardinality(Client)
=============================================================================
