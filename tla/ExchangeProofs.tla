--------------------------- MODULE ExchangeProofs ---------------------------
(***************************************************************************)
(* How many sessions Exchange grants for one challenge, for any finite set *)
(* of clients.  The argument: before the first grant there is none, and    *)
(* the requests that are admitted are among the clients; from then on a    *)
(* grant takes one admitted request away, and none is added.               *)
(***************************************************************************)
EXTENDS Exchange, FiniteSetTheorems, TLAPS

\* Nothing has been granted for a challenge that nobody has used.
UnusedIsUngranted ==
  \A c \in Challenge : state[c] # "used" => granted[c] = 0

IndInv == TypeOK /\ UnusedIsUngranted /\ AtMostOneEach

----------------------------------------------------------------------------
\* Those who answer a challenge are finitely many, and leave one by one.
LEMMA Admitted ==
  ASSUME IsFiniteSet(Client), TypeOK, NEW c \in Challenge
  PROVE  /\ IsFiniteSet(admitted[c]) /\ Cardinality(admitted[c]) \in Nat
         /\ Cardinality(Client) \in Nat
         /\ \A r \in admitted[c] :
              Cardinality(admitted[c] \ {r}) + 1 = Cardinality(admitted[c])
<1>1. admitted[c] \in SUBSET Client
  BY DEF TypeOK
<1>2. IsFiniteSet(admitted[c])
  BY <1>1, FS_Subset
<1>3. Cardinality(admitted[c]) \in Nat /\ Cardinality(Client) \in Nat
  BY <1>2, FS_CardinalityType
<1>4. ASSUME NEW r \in admitted[c]
      PROVE  Cardinality(admitted[c] \ {r}) + 1 = Cardinality(admitted[c])
  <2>1. Cardinality(admitted[c] \ {r}) = Cardinality(admitted[c]) - 1
    BY <1>2, <1>4, FS_RemoveElement
  <2> QED BY <1>3, <2>1
<1> QED BY <1>2, <1>3, <1>4

LEMMA IssueStep ==
  ASSUME IndInv, NEW c \in Challenge, Issue(c)
  PROVE  IndInv'
<1>1. /\ state[c] = "unknown" /\ state' = [state EXCEPT ![c] = "open"]
      /\ UNCHANGED <<admitted, granted>>
  BY DEF Issue
<1>2. TypeOK'
  BY <1>1 DEF IndInv, TypeOK
<1>3. UnusedIsUngranted'
  BY <1>1 DEF IndInv, TypeOK, UnusedIsUngranted
<1>4. AtMostOneEach'
  BY <1>1 DEF IndInv, AtMostOneEach
<1> QED BY <1>2, <1>3, <1>4 DEF IndInv

\* A client more, while nothing has been granted.
LEMMA AdmitStep ==
  ASSUME IsFiniteSet(Client), IndInv, NEW c \in Challenge, NEW r \in Client,
         Admit(c, r)
  PROVE  IndInv'
<1>1. /\ state[c] = "open" /\ admitted' = [admitted EXCEPT ![c] = @ \cup {r}]
      /\ UNCHANGED <<state, granted>>
  BY DEF Admit
<1>2. TypeOK'
  BY <1>1 DEF IndInv, TypeOK
<1>3. UnusedIsUngranted'
  BY <1>1 DEF IndInv, UnusedIsUngranted
<1>4. granted[c] = 0
  BY <1>1 DEF IndInv, UnusedIsUngranted
<1>5. Cardinality(admitted'[c]) \in Nat
      /\ Cardinality(admitted'[c]) =< Cardinality(Client)
  <2>1. admitted'[c] \in SUBSET Client
    BY <1>2 DEF TypeOK
  <2>2. IsFiniteSet(admitted'[c])
        /\ Cardinality(admitted'[c]) =< Cardinality(Client)
    BY <2>1, FS_Subset
  <2> QED BY <2>2, FS_CardinalityType
<1>6. \A d \in Challenge \ {c} : admitted'[d] = admitted[d]
  BY <1>1 DEF IndInv, TypeOK
<1>7. AtMostOneEach'
  BY <1>1, <1>4, <1>5, <1>6 DEF IndInv, AtMostOneEach
<1> QED BY <1>2, <1>3, <1>7 DEF IndInv

\* A client less, with or without a grant.
LEMMA LeaveStep ==
  ASSUME IsFiniteSet(Client), IndInv, NEW c \in Challenge, NEW r \in Client,
         Grant(c, r) \/ Drop(c, r)
  PROVE  IndInv'
<1>1. /\ r \in admitted[c] /\ admitted' = [admitted EXCEPT ![c] = @ \ {r}]
      /\ \/ /\ state' = [state EXCEPT ![c] = "used"]
            /\ granted' = [granted EXCEPT ![c] = @ + 1]
         \/ UNCHANGED <<state, granted>>
  BY DEF Grant, Drop
<1>2. TypeOK
  BY DEF IndInv
<1>3. TypeOK'
  BY <1>1, <1>2 DEF TypeOK
<1>4. /\ granted[c] \in Nat /\ granted'[c] \in {granted[c], granted[c] + 1}
      /\ \A d \in Challenge \ {c} :
           /\ granted'[d] = granted[d] /\ state'[d] = state[d]
           /\ admitted'[d] = admitted[d]
      /\ admitted'[c] = admitted[c] \ {r}
      /\ state'[c] = "used" \/ (state'[c] = state[c] /\ granted'[c] = granted[c])
  BY <1>1, <1>2 DEF TypeOK
<1>5. UnusedIsUngranted'
  BY <1>4 DEF IndInv, UnusedIsUngranted
<1>6. granted'[c] + Cardinality(admitted'[c]) =< Cardinality(Client)
  <2>1. /\ Cardinality(admitted[c]) \in Nat /\ Cardinality(Client) \in Nat
        /\ Cardinality(admitted[c] \ {r}) + 1 = Cardinality(admitted[c])
    BY <1>1, <1>2, Admitted
  <2>2. Cardinality(admitted'[c]) \in Nat
    <3>1. IsFiniteSet(admitted[c] \ {r})
      BY <1>2, Admitted, FS_Subset
    <3> QED BY <1>4, <3>1, FS_CardinalityType
  <2>3. granted[c] + Cardinality(admitted[c]) =< Cardinality(Client)
    BY DEF IndInv, AtMostOneEach
  <2> QED BY <1>4, <2>1, <2>2, <2>3
<1>7. AtMostOneEach'
  BY <1>4, <1>6 DEF IndInv, AtMostOneEach
<1> QED BY <1>3, <1>5, <1>7 DEF IndInv

----------------------------------------------------------------------------
\* No challenge is exchanged for more sessions than there are clients.
THEOREM Bounded == ASSUME IsFiniteSet(Client) PROVE Spec => []AtMostOneEach
<1>1. Init => IndInv
  <2> SUFFICES ASSUME Init PROVE IndInv
    OBVIOUS
  <2>1. Cardinality({}) = 0 /\ Cardinality(Client) \in Nat
    BY FS_EmptySet, FS_CardinalityType
  <2> QED BY <2>1 DEF Init, IndInv, TypeOK, UnusedIsUngranted, AtMostOneEach
<1>2. IndInv /\ [Next]_vars => IndInv'
  <2>1. CASE UNCHANGED vars
    BY <2>1 DEF vars, IndInv, TypeOK, UnusedIsUngranted, AtMostOneEach
  <2> QED BY <2>1, IssueStep, AdmitStep, LeaveStep DEF Next
<1>3. IndInv => AtMostOneEach /\ TypeOK
  BY DEF IndInv
<1> QED BY <1>1, <1>2, <1>3, PTL DEF Spec
=============================================================================
