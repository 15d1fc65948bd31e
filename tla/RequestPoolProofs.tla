------------------------- MODULE RequestPoolProofs -------------------------
(***************************************************************************)
(* What RequestPool guarantees for any number of requests, threads and     *)
(* connections.  The argument: a request is on a thread, in line for one   *)
(* or neither according to its stage, and in line only once (Lined); only  *)
(* a session between authentication and close holds a connection (Held);   *)
(* and an admitted request keeps the connection of its authentication      *)
(* until its first transaction ends, so that it never has to wait for one  *)
(* before that (Spared).                                                   *)
(***************************************************************************)
EXTENDS RequestPool, SequenceTheorems, FiniteSetTheorems, TLAPS

\* The stages that need a thread.
OnTheWay == {"session", "authenticate", "principal", "endpoint", "respond"}

Lined ==
  /\ \A r \in threads : stage[r] \in OnTheWay
  /\ \A i \in 1 .. Len(queue) :
       /\ queue[i] \notin threads
       /\ stage[queue[i]] \in OnTheWay
       /\ \A k \in 1 .. Len(queue) : queue[i] = queue[k] => i = k

Held ==
  /\ waiting \cap connections = {}
  /\ \A r \in connections : stage[r] \notin {"new", "session", "done"}
  /\ \A r \in waiting : stage[r] # "session"

Spared ==
  /\ \A r \in Request : stage[r] \in OnTheWay \cup {"new"} => answer[r] = "none"
  /\ \A r \in admitted :
       /\ stage[r] \notin {"new", "session", "authenticate"}
       /\ stage[r] \in OnTheWay /\ ended[r] = 0 => r \in connections
       /\ answer[r] = "unavailable" => ended[r] > 0

IndInv == TypeOK /\ Lined /\ Held /\ Spared

----------------------------------------------------------------------------
(* The pools.                                                              *)

\* A pool with room takes one more.
LEMMA Grown ==
  ASSUME NEW S, IsFiniteSet(S), NEW limit \in Nat, Cardinality(S) < limit, NEW e
  PROVE  IsFiniteSet(S \cup {e}) /\ Cardinality(S \cup {e}) =< limit
<1>1. Cardinality(S) \in Nat
  BY FS_CardinalityType
<1> QED BY <1>1, FS_AddElement

\* Nothing that is given back breaks a limit.
LEMMA Shrunk ==
  ASSUME NEW S, IsFiniteSet(S), NEW limit \in Nat, Cardinality(S) =< limit, NEW e
  PROVE  IsFiniteSet(S \ {e}) /\ Cardinality(S \ {e}) =< limit
<1>1. Cardinality(S) \in Nat
  BY FS_CardinalityType
<1> QED BY <1>1, FS_RemoveElement

LEMMA EndpointType ==
  ASSUME NEW route \in DOMAIN Endpoint
  PROVE  Endpoint[route] \in Seq({"read", "commit"})
<1> DEFINE Statement == {"read", "commit"}
<1>1. "read" \in Statement /\ "commit" \in Statement
  OBVIOUS
<1> HIDE DEF Statement
<1>2. /\ <<"read">> \in Seq(Statement)
      /\ <<"commit", "read">> \in Seq(Statement)
      /\ <<"read", "commit">> \in Seq(Statement)
      /\ <<"read", "commit", "read">> \in Seq(Statement)
      /\ <<"read", "commit", "read", "commit", "read">> \in Seq(Statement)
  BY <1>1
<1>3. Endpoint[route] \in
        {<<"read">>, <<"commit", "read">>, <<"read", "commit">>,
         <<"read", "commit", "read">>,
         <<"read", "commit", "read", "commit", "read">>}
  BY DEF Endpoint, Ready, Contacts, Inbox, Send, Settle, Conversation, Fetch,
         Upload, Begin, Finish
<1> QED BY <1>2, <1>3 DEF Statement

LEMMA EndpointLength ==
  ASSUME NEW route \in DOMAIN Endpoint
  PROVE  Len(Endpoint[route]) =< 5
<1> DEFINE a == <<"read">>
           b == <<"commit", "read">>
           c == <<"read", "commit">>
           d == <<"read", "commit", "read">>
           e == <<"read", "commit", "read", "commit", "read">>
<1>1. Len(a) =< 5 /\ Len(b) =< 5 /\ Len(c) =< 5 /\ Len(d) =< 5 /\ Len(e) =< 5
  OBVIOUS
<1>2. Endpoint[route] \in {a, b, c, d, e}
  BY DEF Endpoint, Ready, Contacts, Inbox, Send, Settle, Conversation, Fetch,
         Upload, Begin, Finish
<1> HIDE DEF a, b, c, d, e
<1> QED BY <1>1, <1>2

\* The way of a request leads through stages that need a thread to the close.
LEMMA FollowingStage ==
  ASSUME NEW route, NEW s \in OnTheWay
  PROVE  /\ Following(route, s) \in OnTheWay \cup {"close"}
         /\ Following(route, s) # "session"
         /\ s # "session" => Following(route, s) # "authenticate"
BY DEF OnTheWay, Following

----------------------------------------------------------------------------
(* What giving back a thread does to the line, shared by all actions.      *)

LEMMA AdvanceLined ==
  ASSUME IndInv, NEW r \in Request, Running(r), Advance(r)
  PROVE  /\ stage' \in [Request -> Stage]
         /\ queue' \in Seq(Request)
         /\ threads' = threads \ {r}
         /\ threads' \in SUBSET Request /\ IsFiniteSet(threads')
         /\ Cardinality(threads') =< Threads
         /\ answer' \in [Request ->
              {"none", "served", "refused", "unauthorized", "unavailable"}]
         /\ Lined'
         /\ \A s \in Request \ {r} : stage'[s] = stage[s] /\ answer'[s] = answer[s]
         /\ stage[r] \in OnTheWay
         /\ stage'[r] \in OnTheWay \cup {"close"}
         /\ stage'[r] # "session"
         /\ stage[r] # "session" => stage'[r] # "authenticate"
         /\ stage'[r] \in OnTheWay => answer'[r] = "none"
         /\ answer'[r] # "unavailable"
<1> DEFINE next == Following(asks[r].route, stage[r])
<1>1. r \in threads /\ stage[r] \in OnTheWay /\ answer[r] = "none"
  BY DEF IndInv, Lined, Spared, Running
<1>2. /\ next \in OnTheWay \cup {"close"}
      /\ next # "session"
      /\ stage[r] # "session" => next # "authenticate"
  BY <1>1, FollowingStage
<1>3. /\ stage' = [stage EXCEPT ![r] = next]
      /\ threads' = threads \ {r}
      /\ queue' = IF next = "close" THEN queue ELSE Append(queue, r)
      /\ answer' = IF next = "close" THEN [answer EXCEPT ![r] = "served"] ELSE answer
  BY DEF Advance
<1> HIDE DEF next
<1>4. /\ stage \in [Request -> Stage] /\ queue \in Seq(Request)
      /\ threads \in SUBSET Request /\ IsFiniteSet(threads)
      /\ Cardinality(threads) =< Threads
      /\ answer \in [Request ->
           {"none", "served", "refused", "unauthorized", "unavailable"}]
  BY DEF IndInv, TypeOK
<1>5. stage' \in [Request -> Stage] /\ stage'[r] = next
      /\ \A s \in Request \ {r} : stage'[s] = stage[s] /\ answer'[s] = answer[s]
  BY <1>2, <1>3, <1>4 DEF Stage, OnTheWay
<1>6. queue' \in Seq(Request)
  BY <1>3, <1>4, AppendProperties
<1>7. IsFiniteSet(threads') /\ Cardinality(threads') =< Threads
  BY <1>3, <1>4, Shrunk, PoolAssumption
<1>8. /\ answer' \in [Request ->
           {"none", "served", "refused", "unauthorized", "unavailable"}]
      /\ next \in OnTheWay => answer'[r] = "none"
      /\ answer'[r] # "unavailable"
  BY <1>1, <1>2, <1>3, <1>4 DEF OnTheWay
<1>9. Lined'
  <2>1. \A i \in 1 .. Len(queue) :
          /\ queue[i] \in Request \ {r}
          /\ queue[i] \notin threads
          /\ stage'[queue[i]] \in OnTheWay
          /\ \A k \in 1 .. Len(queue) : queue[i] = queue[k] => i = k
    BY <1>1, <1>4, <1>5 DEF IndInv, Lined
  <2>2. \A s \in threads' : stage'[s] \in OnTheWay
    BY <1>3, <1>4, <1>5 DEF IndInv, Lined
  <2>3. CASE next = "close"
    BY <1>3, <2>1, <2>2, <2>3 DEF Lined
  <2>4. CASE next # "close"
    <3>1. /\ queue' = Append(queue, r) /\ Len(queue') = Len(queue) + 1
          /\ \A i \in 1 .. Len(queue) : queue'[i] = queue[i]
          /\ queue'[Len(queue) + 1] = r
      BY <1>3, <1>4, <2>4, AppendProperties
    <3>2. next \in OnTheWay /\ r \notin threads'
      BY <1>2, <1>3, <2>4
    <3>3. Len(queue) \in Nat
      BY <1>4
    <3>4. \A i \in 1 .. Len(queue') : i \in 1 .. Len(queue) \/ i = Len(queue) + 1
      BY <3>1, <3>3
    <3>5. ASSUME NEW i \in 1 .. Len(queue')
          PROVE  /\ queue'[i] \notin threads'
                 /\ stage'[queue'[i]] \in OnTheWay
                 /\ \A k \in 1 .. Len(queue') : queue'[i] = queue'[k] => i = k
      BY <1>3, <1>5, <2>1, <3>1, <3>2, <3>4
    <3> QED BY <2>2, <3>5 DEF Lined
  <2> QED BY <2>3, <2>4
<1> QED BY <1>1, <1>2, <1>3, <1>4, <1>5, <1>6, <1>7, <1>8, <1>9

LEMMA FailLined ==
  ASSUME IndInv, NEW r \in Request, r \in threads, NEW how \in
           {"refused", "unauthorized", "unavailable"},
         Fail(r, how), UNCHANGED queue
  PROVE  /\ stage' \in [Request -> Stage]
         /\ threads' = threads \ {r}
         /\ threads' \in SUBSET Request /\ IsFiniteSet(threads')
         /\ Cardinality(threads') =< Threads
         /\ answer' \in [Request ->
              {"none", "served", "refused", "unauthorized", "unavailable"}]
         /\ Lined'
         /\ \A s \in Request \ {r} : stage'[s] = stage[s] /\ answer'[s] = answer[s]
         /\ stage[r] \in OnTheWay
         /\ stage'[r] = "close" /\ answer'[r] = how
<1>1. /\ stage \in [Request -> Stage] /\ queue \in Seq(Request)
      /\ threads \in SUBSET Request /\ IsFiniteSet(threads)
      /\ Cardinality(threads) =< Threads
      /\ answer \in [Request ->
           {"none", "served", "refused", "unauthorized", "unavailable"}]
  BY DEF IndInv, TypeOK
<1>2. /\ stage' = [stage EXCEPT ![r] = "close"]
      /\ threads' = threads \ {r}
      /\ answer' = [answer EXCEPT ![r] = how]
  BY DEF Fail
<1>3. IsFiniteSet(threads') /\ Cardinality(threads') =< Threads
  BY <1>1, <1>2, Shrunk, PoolAssumption
<1>4. /\ stage' \in [Request -> Stage] /\ stage'[r] = "close" /\ answer'[r] = how
      /\ \A s \in Request \ {r} : stage'[s] = stage[s] /\ answer'[s] = answer[s]
      /\ answer' \in [Request ->
           {"none", "served", "refused", "unauthorized", "unavailable"}]
  BY <1>1, <1>2 DEF Stage
<1>5. Lined'
  <2>1. \A i \in 1 .. Len(queue) : queue[i] \in Request \ {r}
    BY <1>1 DEF IndInv, Lined
  <2> QED BY <1>1, <1>2, <1>4, <2>1 DEF IndInv, Lined
<1> QED BY <1>1, <1>2, <1>3, <1>4, <1>5 DEF IndInv, Lined

----------------------------------------------------------------------------
(* One lemma per action.                                                   *)

LEMMA ArriveStep ==
  ASSUME IndInv, NEW r \in Request, NEW route \in Route, NEW bearer \in BOOLEAN,
         Arrive(r, route, bearer)
  PROVE  IndInv'
<1>1. /\ stage[r] = "new"
      /\ stage' = [stage EXCEPT ![r] = "session"]
      /\ asks' = [asks EXCEPT ![r] = [route |-> route, bearer |-> bearer]]
      /\ left' = [left EXCEPT ![r] = Endpoint[route]]
      /\ queue' = Append(queue, r)
      /\ UNCHANGED <<threads, waiting, connections, admitted, ended, answer>>
  BY DEF Arrive, history
<1>2. TypeOK
  BY DEF IndInv
<1>3. queue' \in Seq(Request)
  BY <1>1, <1>2, AppendProperties DEF TypeOK
<1>4. /\ asks' \in [Request -> [route : DOMAIN Endpoint, bearer : BOOLEAN]]
      /\ left' \in [Request -> Seq({"read", "commit"})]
  <2>1. route \in DOMAIN Endpoint
    BY PoolAssumption
  <2>2. Endpoint[route] \in Seq({"read", "commit"})
    BY <2>1, EndpointType
  <2> QED BY <1>1, <1>2, <2>1, <2>2 DEF TypeOK
<1>5. /\ stage' \in [Request -> Stage] /\ stage'[r] = "session"
      /\ \A s \in Request \ {r} : stage'[s] = stage[s]
  BY <1>1, <1>2 DEF TypeOK, Stage
<1>6. TypeOK'
  BY <1>1, <1>2, <1>3, <1>4, <1>5 DEF TypeOK
<1>7. r \notin threads /\ r \notin connections /\ r \notin admitted
  BY <1>1 DEF IndInv, Lined, Held, Spared, OnTheWay
<1>8. Lined'
  <2>1. \A i \in 1 .. Len(queue) :
          /\ queue[i] \in Request \ {r}
          /\ queue[i] \notin threads
          /\ stage'[queue[i]] \in OnTheWay
          /\ \A k \in 1 .. Len(queue) : queue[i] = queue[k] => i = k
    BY <1>1, <1>2, <1>5 DEF IndInv, Lined, TypeOK, OnTheWay
  <2>2. /\ Len(queue') = Len(queue) + 1
        /\ \A i \in 1 .. Len(queue) : queue'[i] = queue[i]
        /\ queue'[Len(queue) + 1] = r
    BY <1>1, <1>2, AppendProperties DEF TypeOK
  <2>3. Len(queue) \in Nat
    BY <1>2 DEF TypeOK
  <2>4. \A i \in 1 .. Len(queue') : i \in 1 .. Len(queue) \/ i = Len(queue) + 1
    BY <2>2, <2>3
  <2>5. "session" \in OnTheWay
    BY DEF OnTheWay
  <2>6. ASSUME NEW i \in 1 .. Len(queue')
        PROVE  /\ queue'[i] \notin threads'
               /\ stage'[queue'[i]] \in OnTheWay
               /\ \A k \in 1 .. Len(queue') : queue'[i] = queue'[k] => i = k
    BY <1>1, <1>5, <1>7, <2>1, <2>2, <2>4, <2>5
  <2>7. \A s \in threads' : stage'[s] \in OnTheWay
    BY <1>1, <1>2, <1>5, <1>7 DEF IndInv, Lined, TypeOK
  <2> QED BY <2>6, <2>7 DEF Lined
<1>9. Held'
  BY <1>1, <1>2, <1>5, <1>7 DEF IndInv, Held, TypeOK
<1>10. Spared'
  BY <1>1, <1>2, <1>5, <1>7 DEF IndInv, Spared, TypeOK
<1> QED BY <1>6, <1>8, <1>9, <1>10 DEF IndInv

LEMMA StartStep ==
  ASSUME IndInv, Start
  PROVE  IndInv'
<1> DEFINE r == Head(queue)
<1>1. /\ queue # <<>> /\ Cardinality(threads) < Threads
      /\ threads' = threads \cup {r}
      /\ queue' = Tail(queue)
      /\ UNCHANGED <<stage, asks, left, waiting, connections, admitted, ended,
                     answer>>
  BY DEF Start, history
<1>2. TypeOK
  BY DEF IndInv
<1>3. /\ r \in Request /\ r = queue[1] /\ queue' \in Seq(Request)
      /\ Len(queue') = Len(queue) - 1
      /\ \A i \in 1 .. Len(queue') : queue'[i] = queue[i + 1]
  BY <1>1, <1>2, HeadTailProperties DEF TypeOK
<1>4. IsFiniteSet(threads') /\ Cardinality(threads') =< Threads
  BY <1>1, <1>2, Grown, PoolAssumption DEF TypeOK
<1> HIDE DEF r
<1>5. TypeOK'
  BY <1>1, <1>2, <1>3, <1>4 DEF TypeOK
<1>6. Lined'
  <2>1. Len(queue) \in Nat \ {0}
    BY <1>1, <1>2 DEF TypeOK
  <2>2. stage[r] \in OnTheWay
    BY <1>3, <2>1 DEF IndInv, Lined
  <2>3. \A i \in 1 .. Len(queue') :
          i + 1 \in 1 .. Len(queue) /\ queue[i + 1] # r
    BY <1>3, <2>1 DEF IndInv, Lined
  <2>4. ASSUME NEW i \in 1 .. Len(queue')
        PROVE  /\ queue'[i] \notin threads'
               /\ stage'[queue'[i]] \in OnTheWay
               /\ \A k \in 1 .. Len(queue') : queue'[i] = queue'[k] => i = k
    BY <1>1, <1>3, <2>3 DEF IndInv, Lined
  <2> QED BY <1>1, <2>2, <2>4 DEF IndInv, Lined
<1>7. Held' /\ Spared'
  BY <1>1 DEF IndInv, Held, Spared
<1> QED BY <1>5, <1>6, <1>7 DEF IndInv

\* The actions that only move a request on to its next stage.
LEMMA AdvanceStep ==
  ASSUME IndInv, NEW r \in Request, Running(r), Advance(r),
         UNCHANGED <<asks, left, waiting, connections, ended>>,
         \/ UNCHANGED admitted
         \/ /\ admitted' = admitted \cup {r}
            /\ stage[r] # "session" /\ r \in connections
  PROVE  IndInv'
<1>1. PICK next \in OnTheWay \cup {"close"} : next = stage'[r]
  BY AdvanceLined
<1>2. TypeOK
  BY DEF IndInv
<1>3. TypeOK'
  <2>1. waiting \in SUBSET (threads \ {r})
    BY <1>2 DEF TypeOK, Running
  <2> QED BY <1>2, <2>1, AdvanceLined DEF TypeOK
<1>4. Lined'
  BY AdvanceLined
<1>5. Held'
  <2>1. r \notin waiting
    BY DEF Running
  <2>2. stage'[r] \notin {"new", "session", "done"}
    BY AdvanceLined DEF OnTheWay
  <2> QED BY <1>2, <2>1, <2>2, AdvanceLined DEF IndInv, Held, TypeOK
<1>6. Spared'
  <2>1. \A s \in Request :
          stage'[s] \in OnTheWay \cup {"new"} => answer'[s] = "none"
    BY AdvanceLined DEF IndInv, Spared
  <2>2. ASSUME NEW s \in admitted', s # r
        PROVE  /\ stage'[s] \notin {"new", "session", "authenticate"}
               /\ stage'[s] \in OnTheWay /\ ended'[s] = 0 => s \in connections'
               /\ answer'[s] = "unavailable" => ended'[s] > 0
    <3>1. s \in admitted /\ s \in Request
      BY <1>2, <2>2 DEF TypeOK
    <3> QED BY <2>2, <3>1, AdvanceLined DEF IndInv, Spared
  <2>3. ASSUME r \in admitted'
        PROVE  /\ stage'[r] \notin {"new", "session", "authenticate"}
               /\ stage'[r] \in OnTheWay /\ ended'[r] = 0 => r \in connections'
               /\ answer'[r] = "unavailable" => ended'[r] > 0
    <3>1. stage[r] # "session" /\ (ended[r] = 0 => r \in connections)
      BY <2>3, AdvanceLined DEF IndInv, Spared
    <3>2. stage'[r] # "new"
      BY AdvanceLined DEF OnTheWay
    <3> QED BY <3>1, <3>2, AdvanceLined
  <2> QED BY <2>1, <2>2, <2>3 DEF Spared
<1> QED BY <1>3, <1>4, <1>5, <1>6 DEF IndInv

\* The actions that end the way of a request early.
LEMMA FailStep ==
  ASSUME IndInv, NEW r \in Request, r \in threads, NEW how \in
           {"refused", "unauthorized", "unavailable"},
         Fail(r, how), waiting' = waiting \ {r},
         UNCHANGED <<asks, left, queue, connections, admitted, ended>>,
         how = "unavailable" => r \notin connections
  PROVE  IndInv'
<1>1. TypeOK
  BY DEF IndInv
<1>2. TypeOK'
  <2>1. waiting' \in SUBSET threads'
    BY <1>1, FailLined DEF TypeOK
  <2> QED BY <1>1, <2>1, FailLined DEF TypeOK
<1>3. Lined'
  BY FailLined
<1>4. Held'
  BY <1>1, FailLined DEF IndInv, Held, TypeOK
<1>5. Spared'
  <2>1. \A s \in Request :
          stage'[s] \in OnTheWay \cup {"new"} => answer'[s] = "none"
    BY FailLined DEF IndInv, Spared, OnTheWay
  <2>2. ASSUME NEW s \in admitted
        PROVE  /\ stage'[s] \notin {"new", "session", "authenticate"}
               /\ stage'[s] \in OnTheWay /\ ended[s] = 0 => s \in connections
               /\ answer'[s] = "unavailable" => ended[s] > 0
    <3>1. s \in Request /\ ended[s] \in Nat
      BY <1>1 DEF TypeOK
    <3>2. CASE s # r
      BY <3>1, <3>2, FailLined DEF IndInv, Spared
    <3>3. CASE s = r
      BY <3>1, <3>3, FailLined DEF IndInv, Spared, OnTheWay
    <3> QED BY <3>2, <3>3
  <2> QED BY <2>1, <2>2 DEF Spared
<1> QED BY <1>2, <1>3, <1>4, <1>5 DEF IndInv

\* The actions that hand out a connection, or let a request wait for one.
LEMMA ConnectStep ==
  ASSUME IndInv, NEW r \in Request, r \in threads, r \notin connections,
         stage[r] # "session",
         \/ /\ Available
            /\ connections' = connections \cup {r}
            /\ waiting' = waiting \ {r}
         \/ waiting' = waiting \cup {r} /\ connections' = connections,
         UNCHANGED <<stage, asks, left, queue, threads, admitted, ended, answer>>
  PROVE  IndInv'
<1>1. TypeOK
  BY DEF IndInv
<1>2. IsFiniteSet(connections') /\ Cardinality(connections') =< Connections
  <2>1. IsFiniteSet(connections) /\ Cardinality(connections) =< Connections
        /\ Connections \in Nat
    BY <1>1, PoolAssumption DEF TypeOK
  <2>2. CASE Available /\ connections' = connections \cup {r}
    BY <2>1, <2>2, Grown DEF Available
  <2>3. CASE connections' = connections
    BY <2>1, <2>3
  <2> QED BY <2>2, <2>3
<1>3. TypeOK'
  BY <1>1, <1>2 DEF TypeOK
<1>4. Lined'
  BY DEF IndInv, Lined
<1>5. Held'
  <2>1. stage[r] \notin {"new", "session", "done"}
    BY DEF IndInv, Lined, OnTheWay
  <2> QED BY <2>1 DEF IndInv, Held
<1>6. Spared'
  BY DEF IndInv, Spared
<1> QED BY <1>3, <1>4, <1>5, <1>6 DEF IndInv

LEMMA ExecuteStep ==
  ASSUME IndInv, NEW r \in Request, Execute(r)
  PROVE  IndInv'
<1>1. /\ r \in threads \ waiting /\ left[r] # <<>> /\ r \in connections
      /\ left' = [left EXCEPT ![r] = Tail(@)]
      /\ \/ /\ connections' = connections \ {r}
            /\ ended' = [ended EXCEPT ![r] = @ + 1]
         \/ UNCHANGED <<connections, ended>>
      /\ UNCHANGED <<stage, asks, queue, threads, waiting, admitted, answer>>
  BY DEF Execute, Running
<1>2. TypeOK
  BY DEF IndInv
<1>3. left' \in [Request -> Seq({"read", "commit"})]
  <2>1. Tail(left[r]) \in Seq({"read", "commit"})
    BY <1>1, <1>2, HeadTailProperties DEF TypeOK
  <2> QED BY <1>1, <1>2, <2>1 DEF TypeOK
<1>4. IsFiniteSet(connections') /\ Cardinality(connections') =< Connections
  <2>1. IsFiniteSet(connections) /\ Cardinality(connections) =< Connections
        /\ Connections \in Nat
    BY <1>2, PoolAssumption DEF TypeOK
  <2>2. CASE connections' = connections \ {r}
    BY <2>1, <2>2, Shrunk
  <2>3. CASE connections' = connections
    BY <2>1, <2>3
  <2> QED BY <1>1, <2>2, <2>3
<1>5. /\ ended' \in [Request -> Nat]
      /\ connections' \in SUBSET connections
      /\ \A s \in Request \ {r} :
           ended'[s] = ended[s] /\ (s \in connections' <=> s \in connections)
      /\ ended'[r] > 0 \/ (ended'[r] = ended[r] /\ r \in connections')
      /\ ended[r] > 0 => ended'[r] > 0
  <2>1. ended \in [Request -> Nat] /\ connections \in SUBSET Request
    BY <1>2 DEF TypeOK
  <2>2. CASE connections' = connections \ {r} /\ ended' = [ended EXCEPT ![r] = @ + 1]
    BY <2>1, <2>2
  <2>3. CASE UNCHANGED <<connections, ended>>
    BY <1>1, <2>1, <2>3
  <2> QED BY <1>1, <2>2, <2>3
<1>6. TypeOK'
  BY <1>1, <1>2, <1>3, <1>4, <1>5 DEF TypeOK
<1>7. Lined' /\ Held'
  BY <1>1, <1>5 DEF IndInv, Lined, Held
<1>8. Spared'
  <2>1. ASSUME NEW s \in admitted
        PROVE  /\ stage[s] \notin {"new", "session", "authenticate"}
               /\ stage[s] \in OnTheWay /\ ended'[s] = 0 => s \in connections'
               /\ answer[s] = "unavailable" => ended'[s] > 0
    <3>1. s \in Request
      BY <1>2 DEF TypeOK
    <3>2. CASE s = r
      BY <1>5, <3>2 DEF IndInv, Spared
    <3>3. CASE s # r
      BY <1>5, <3>1, <3>3 DEF IndInv, Spared
    <3> QED BY <3>2, <3>3
  <2> QED BY <1>1, <2>1 DEF IndInv, Spared
<1> QED BY <1>6, <1>7, <1>8 DEF IndInv

LEMMA CloseStep ==
  ASSUME IndInv, NEW r \in Request, Close(r)
  PROVE  IndInv'
<1>1. /\ stage[r] = "close"
      /\ stage' = [stage EXCEPT ![r] = "done"]
      /\ connections' = connections \ {r}
      /\ UNCHANGED <<asks, left, queue, threads, waiting, admitted, ended, answer>>
  BY DEF Close, history
<1>2. TypeOK
  BY DEF IndInv
<1>3. IsFiniteSet(connections') /\ Cardinality(connections') =< Connections
  BY <1>1, <1>2, Shrunk, PoolAssumption DEF TypeOK
<1>4. /\ stage' \in [Request -> Stage] /\ stage'[r] = "done"
      /\ \A s \in Request \ {r} : stage'[s] = stage[s]
  BY <1>1, <1>2 DEF TypeOK, Stage
<1>5. TypeOK'
  BY <1>1, <1>2, <1>3, <1>4 DEF TypeOK
<1>6. Lined'
  <2>1. stage[r] \notin OnTheWay /\ queue \in Seq(Request)
    BY <1>1, <1>2 DEF OnTheWay, TypeOK
  <2>2. r \notin threads /\ \A i \in 1 .. Len(queue) : queue[i] \in Request \ {r}
    BY <2>1 DEF IndInv, Lined
  <2> QED BY <1>1, <1>2, <1>4, <2>2 DEF IndInv, Lined, TypeOK
<1>7. Held'
  BY <1>1, <1>2, <1>4 DEF IndInv, Held, TypeOK
<1>8. Spared'
  <2>1. "done" \notin OnTheWay \cup {"new", "session", "authenticate"}
    BY DEF OnTheWay
  <2> QED BY <1>1, <1>2, <1>4, <2>1 DEF IndInv, Spared, TypeOK
<1> QED BY <1>5, <1>6, <1>7, <1>8 DEF IndInv

----------------------------------------------------------------------------
LEMMA RequestStep ==
  ASSUME IndInv, NEW r \in Request, Step(r)
  PROVE  IndInv'
<1>1. TypeOK
  BY DEF IndInv
<1>2. r \in waiting => r \in threads /\ r \notin connections
  BY <1>1 DEF IndInv, Held, TypeOK
<1>3. CASE OpenSession(r)
  BY <1>3, AdvanceStep DEF OpenSession, history
<1>4. CASE Checkout(r)
  <2>1. r \in threads \ waiting /\ r \notin connections /\ stage[r] # "session"
    BY <1>4 DEF Checkout, Running, Demands
  <2>2. \/ /\ Available
           /\ connections' = connections \cup {r}
           /\ waiting' = waiting \ {r}
        \/ waiting' = waiting \cup {r} /\ connections' = connections
    BY <1>4, <2>1 DEF Checkout
  <2>3. UNCHANGED <<stage, asks, left, queue, threads, admitted, ended, answer>>
    BY <1>4 DEF Checkout, history
  <2> QED BY <2>1, <2>2, <2>3, ConnectStep
<1>5. CASE Resume(r)
  <2>1. r \in waiting /\ Available /\ waiting' = waiting \ {r}
        /\ connections' = connections \cup {r}
        /\ UNCHANGED <<stage, asks, left, queue, threads, admitted, ended, answer>>
    BY <1>5 DEF Resume, history
  <2>2. stage[r] # "session"
    BY <2>1 DEF IndInv, Held
  <2> QED BY <1>2, <2>1, <2>2, ConnectStep
<1>6. CASE TimeOut(r)
  BY <1>2, <1>6, FailStep DEF TimeOut, history
<1>7. CASE Admit(r)
  BY <1>7, AdvanceStep DEF Admit
<1>8. CASE Reject(r)
  <2>1. r \in threads /\ waiting' = waiting \ {r}
    BY <1>8 DEF Reject, Running
  <2> QED BY <1>8, <2>1, FailStep DEF Reject, history
<1>9. CASE PassPrincipal(r)
  BY <1>9, AdvanceStep DEF PassPrincipal, history
<1>10. CASE Execute(r)
  BY <1>10, ExecuteStep
<1>11. CASE Return(r)
  <2>1. r \in threads /\ waiting' = waiting \ {r}
    BY <1>11 DEF Return, Running
  <2>2. CASE Advance(r)
    BY <1>11, <2>2, AdvanceStep DEF Return, history
  <2>3. CASE Fail(r, "refused") /\ UNCHANGED queue
    BY <1>11, <2>1, <2>3, FailStep DEF Return, history
  <2> QED BY <1>11, <2>2, <2>3 DEF Return
<1>12. CASE Respond(r)
  BY <1>12, AdvanceStep DEF Respond, history
<1>13. CASE Close(r)
  BY <1>13, CloseStep
<1> QED
  BY <1>3, <1>4, <1>5, <1>6, <1>7, <1>8, <1>9, <1>10, <1>11, <1>12, <1>13 DEF Step

LEMMA InitInv == Init => IndInv
<1> SUFFICES ASSUME Init PROVE IndInv
  OBVIOUS
<1>1. IsFiniteSet({}) /\ Cardinality({}) = 0
  BY FS_EmptySet
<1>2. TypeOK
  <2>1. "ready" \in DOMAIN Endpoint
    BY DEF Endpoint
  <2> QED BY <1>1, <2>1, PoolAssumption DEF Init, TypeOK, Stage
<1>3. Lined /\ Held /\ Spared
  BY DEF Init, Lined, Held, Spared
<1> QED BY <1>2, <1>3 DEF IndInv

LEMMA NextInv == IndInv /\ [Next]_vars => IndInv'
<1> SUFFICES ASSUME IndInv, [Next]_vars PROVE IndInv'
  OBVIOUS
<1>1. CASE UNCHANGED vars
  <2>1. UNCHANGED <<stage, asks, left, queue, threads, waiting, connections,
                    admitted, ended, answer>>
    BY <1>1 DEF vars, history
  <2>2. TypeOK'
    BY <2>1 DEF IndInv, TypeOK
  <2>3. Lined'
    BY <2>1 DEF IndInv, Lined
  <2>4. Held' /\ Spared'
    BY <2>1 DEF IndInv, Held, Spared
  <2> QED BY <2>2, <2>3, <2>4 DEF IndInv
<1>2. CASE Start
  BY <1>2, StartStep
<1>3. CASE \E r \in Request : Step(r)
  BY <1>3, RequestStep
<1>4. CASE \E r \in Request, route \in Route, bearer \in BOOLEAN :
             Arrive(r, route, bearer)
  BY <1>4, ArriveStep
<1> QED BY <1>1, <1>2, <1>3, <1>4 DEF Next

\* The invariant that the pools rest on.
THEOREM Invariance == Spec => []IndInv
BY InitInv, NextInv, PTL DEF Spec

\* The pools of threads and connections are never overdrawn.
THEOREM TypeCorrect == Spec => []TypeOK
<1>1. IndInv => TypeOK
  BY DEF IndInv
<1> QED BY <1>1, Invariance, PTL

\* A request that is over has given everything back.
THEOREM NoLeak == Spec => []NothingIsLeaked
<1>1. IndInv => NothingIsLeaked
  BY DEF IndInv, Lined, Held, OnTheWay, NothingIsLeaked
<1> QED BY <1>1, Invariance, PTL

\* The connection of the authentication carries a request to its first write.
THEOREM AdmittedAreSpared == Spec => []LoadSparesTheAdmitted
<1>1. IndInv => LoadSparesTheAdmitted
  BY DEF IndInv, Spared, LoadSparesTheAdmitted
<1> QED BY <1>1, Invariance, PTL
----------------------------------------------------------------------------
(* Nobody is lost: whoever leaves a thread gets in line or closes.  This    *)
(* is bookkeeping; NeverStandsStill rests on it.                           *)

NobodyIsLost ==
  \A r \in Request : stage[r] \in OnTheWay =>
    r \in threads \/ \E i \in 1 .. Len(queue) : queue[i] = r

\* A step that at most appends to the line and takes at most r off its thread
\* loses nobody but r.
LEMMA OthersAreFound ==
  ASSUME TypeOK, NobodyIsLost, NEW r \in Request,
         queue' = queue \/ queue' = Append(queue, r),
         threads \ {r} \in SUBSET threads',
         \A s \in Request \ {r} : stage'[s] = stage[s]
  PROVE  \A s \in Request \ {r} : stage'[s] \in OnTheWay =>
           s \in threads' \/ \E i \in 1 .. Len(queue') : queue'[i] = s
<1> SUFFICES ASSUME NEW s \in Request \ {r}, stage[s] \in OnTheWay, s \notin threads
             PROVE  \E i \in 1 .. Len(queue') : queue'[i] = s
  OBVIOUS
<1>1. PICK i \in 1 .. Len(queue) : queue[i] = s
  BY DEF NobodyIsLost
<1>2. queue \in Seq(Request) /\ Len(queue) \in Nat
  BY DEF TypeOK
<1>3. i \in 1 .. Len(queue') /\ queue'[i] = queue[i]
  BY <1>2, AppendProperties
<1> QED BY <1>1, <1>3

\* The last in line is in line.
LEMMA AppendedIsFound ==
  ASSUME TypeOK, NEW r \in Request, queue' = Append(queue, r)
  PROVE  \E i \in 1 .. Len(queue') : queue'[i] = r
<1>1. /\ Len(queue) \in Nat /\ Len(queue') = Len(queue) + 1
      /\ queue'[Len(queue) + 1] = r
  BY AppendProperties DEF TypeOK
<1> QED BY <1>1

LEMMA AdvanceFound ==
  ASSUME IndInv, NobodyIsLost, NEW r \in Request, Running(r), Advance(r)
  PROVE  NobodyIsLost'
<1>1. TypeOK
  BY DEF IndInv
<1>2. /\ stage'[r] \in OnTheWay => queue' = Append(queue, r)
      /\ queue' = queue \/ queue' = Append(queue, r)
      /\ threads' = threads \ {r}
  BY <1>1 DEF Advance, TypeOK, OnTheWay
<1>3. \A s \in Request \ {r} : stage'[s] = stage[s]
  BY AdvanceLined
<1>4. stage'[r] \in OnTheWay => \E i \in 1 .. Len(queue') : queue'[i] = r
  BY <1>1, <1>2, AppendedIsFound
<1> QED BY <1>1, <1>2, <1>3, <1>4, OthersAreFound DEF NobodyIsLost

LEMMA FailFound ==
  ASSUME IndInv, NobodyIsLost, NEW r \in Request, NEW how, Fail(r, how),
         UNCHANGED queue
  PROVE  NobodyIsLost'
<1>1. TypeOK
  BY DEF IndInv
<1>2. /\ threads' = threads \ {r}
      /\ stage'[r] \notin OnTheWay
      /\ \A s \in Request \ {r} : stage'[s] = stage[s]
  BY <1>1 DEF Fail, TypeOK, OnTheWay
<1> QED BY <1>1, <1>2, OthersAreFound DEF NobodyIsLost

LEMMA StepFound ==
  ASSUME IndInv, NobodyIsLost, NEW r \in Request, Step(r)
  PROVE  NobodyIsLost'
<1>1. CASE OpenSession(r) \/ Admit(r) \/ PassPrincipal(r) \/ Respond(r)
  <2>1. Running(r) /\ Advance(r)
    BY <1>1 DEF OpenSession, Admit, PassPrincipal, Respond
  <2> QED BY <2>1, AdvanceFound
<1>2. CASE TimeOut(r) \/ Reject(r)
  <2>1. UNCHANGED queue /\ \E how \in {"unavailable", "unauthorized"} : Fail(r, how)
    BY <1>2 DEF TimeOut, Reject
  <2> QED BY <2>1, FailFound
<1>3. CASE Return(r)
  <2>1. CASE Advance(r)
    BY <1>3, <2>1, AdvanceFound DEF Return
  <2>2. CASE Fail(r, "refused") /\ UNCHANGED queue
    BY <2>2, FailFound
  <2> QED BY <1>3, <2>1, <2>2 DEF Return
<1>4. CASE Checkout(r) \/ Resume(r) \/ Execute(r)
  <2>1. UNCHANGED <<stage, queue, threads>>
    BY <1>4 DEF Checkout, Resume, Execute
  <2> QED BY <2>1 DEF NobodyIsLost
<1>5. CASE Close(r)
  <2>1. /\ stage' = [stage EXCEPT ![r] = "done"] /\ UNCHANGED <<queue, threads>>
        /\ stage \in [Request -> Stage]
    BY <1>5 DEF Close, IndInv, TypeOK
  <2>2. \A s \in Request : stage'[s] \in OnTheWay => stage[s] \in OnTheWay
    BY <2>1 DEF OnTheWay
  <2> QED BY <2>1, <2>2 DEF NobodyIsLost
<1> QED BY <1>1, <1>2, <1>3, <1>4, <1>5 DEF Step

LEMMA NextFound == IndInv /\ NobodyIsLost /\ [Next]_vars => NobodyIsLost'
<1> SUFFICES ASSUME IndInv, NobodyIsLost, [Next]_vars PROVE NobodyIsLost'
  OBVIOUS
<1>1. TypeOK
  BY DEF IndInv
<1>2. CASE UNCHANGED vars
  BY <1>2 DEF vars, NobodyIsLost
<1>3. CASE Start
  <2>1. /\ queue # <<>> /\ threads' = threads \cup {Head(queue)}
        /\ queue' = Tail(queue) /\ stage' = stage
    BY <1>3 DEF Start
  <2>2. /\ Head(queue) = queue[1] /\ Len(queue) \in Nat
        /\ Len(queue') = Len(queue) - 1
        /\ \A i \in 1 .. Len(queue') : queue'[i] = queue[i + 1]
    BY <1>1, <2>1, HeadTailProperties DEF TypeOK
  <2>3. ASSUME NEW s \in Request, stage[s] \in OnTheWay, s \notin threads'
        PROVE  \E i \in 1 .. Len(queue') : queue'[i] = s
    <3>1. PICK i \in 1 .. Len(queue) : queue[i] = s
      BY <2>1, <2>3 DEF NobodyIsLost
    <3>2. i - 1 \in 1 .. Len(queue') /\ queue'[i - 1] = s
      BY <2>1, <2>2, <2>3, <3>1
    <3>3. /\ Len(<<"read">>) = 1
          /\ Len(<<"commit", "read">>) = 2 /\ Len(<<"read", "commit">>) = 2
          /\ Len(<<"read", "commit", "read">>) = 3
          /\ Len(<<"read", "commit", "read", "commit", "read">>) = 5
      OBVIOUS
    <3> QED BY <3>2, <3>3
  <2> QED BY <2>1, <2>3 DEF NobodyIsLost
<1>4. CASE \E r \in Request : Step(r)
  BY <1>4, StepFound
<1>5. CASE \E r \in Request, route \in Route, bearer \in BOOLEAN :
             Arrive(r, route, bearer)
  <2>1. PICK r \in Request, route \in Route, bearer \in BOOLEAN :
          Arrive(r, route, bearer)
    BY <1>5
  <2>2. /\ queue' = Append(queue, r) /\ threads' = threads
        /\ \A s \in Request \ {r} : stage'[s] = stage[s]
    BY <1>1, <2>1 DEF Arrive, TypeOK
  <2> QED BY <1>1, <2>2, OthersAreFound, AppendedIsFound DEF NobodyIsLost
<1> QED BY <1>2, <1>3, <1>4, <1>5 DEF Next

\* A request that is on its way is always where a thread finds it.
LEMMA EveryoneIsFound == Spec => []NobodyIsLost
<1>1. Init => NobodyIsLost
  BY DEF Init, NobodyIsLost, OnTheWay
<1> QED BY <1>1, NextFound, Invariance, PTL DEF Spec

----------------------------------------------------------------------------
(* The countdown: no step sets anybody back, and each brings one further.  *)

LEMMA RankType ==
  ASSUME NEW s \in Stage
  PROVE  Rank(s) \in 0 .. 7
BY DEF Stage, Rank

LEMMA FollowingRank ==
  ASSUME NEW route, NEW s \in OnTheWay
  PROVE  Rank(Following(route, s)) + 1 =< Rank(s)
BY DEF OnTheWay, Following, Rank

\* What the distance is made of.
LEMMA AheadParts ==
  ASSUME TypeOK, NEW r \in Request
  PROVE  /\ Rank(stage[r]) \in 0 .. 7
         /\ Len(left[r]) \in Nat
         /\ Way(r) \in Nat /\ Wants(r) \in 0 .. 2 /\ Idles(r) \in 0 .. 1
         /\ Ahead(r) \in Nat
<1>1. Rank(stage[r]) \in 0 .. 7
  BY RankType DEF TypeOK
<1>2. Len(left[r]) \in Nat
  BY DEF TypeOK
<1>3. Wants(r) \in 0 .. 2 /\ Idles(r) \in 0 .. 1
  BY DEF Wants, Idles
<1>4. Way(r) \in Nat
  BY <1>1, <1>2 DEF Way
<1> QED BY <1>1, <1>2, <1>3, <1>4 DEF Ahead

\* A step that leaves what the others have and brings r further counts down.
LEMMA OnlyOneMoves ==
  ASSUME TypeOK, TypeOK', NEW r \in Request,
         \A s \in Request \ {r} :
           /\ stage'[s] = stage[s] /\ left'[s] = left[s]
           /\ s \in threads' <=> s \in threads
           /\ s \in waiting' <=> s \in waiting
           /\ s \in connections' <=> s \in connections,
         Ahead(r)' < Ahead(r)
  PROVE  CountsDown
<1>1. ASSUME NEW s \in Request \ {r} PROVE Ahead(s)' = Ahead(s)
  BY <1>1 DEF Ahead, Way, Wants, Idles
<1>2. \A s \in Request : Ahead(s) \in Nat
  BY AheadParts
<1>3. Ahead(r)' \in Nat
  <2>1. Rank(stage'[r]) \in 0 .. 7
    BY RankType DEF TypeOK
  <2>2. Len(left'[r]) \in Nat
    BY DEF TypeOK
  <2>3. Wants(r)' \in 0 .. 2 /\ Idles(r)' \in 0 .. 1
    BY DEF Wants, Idles
  <2>4. Way(r)' \in Nat
    BY <2>1, <2>2 DEF Way
  <2> QED BY <2>3, <2>4 DEF Ahead
<1> QED BY <1>1, <1>2, <1>3 DEF CountsDown

LEMMA StageAndStatements ==
  ASSUME NEW a \in Nat, NEW b \in Nat, a + 1 =< b,
         NEW k \in Nat, NEW l \in Nat, k =< l + 5
  PROVE  20 * a + 3 * k + 5 =< 20 * b + 3 * l
OBVIOUS

\* A stage outweighs a thread, a connection and up to five statements.
LEMMA StageOutweighs ==
  ASSUME TypeOK, TypeOK', NEW r \in Request,
         Rank(stage'[r]) + 1 =< Rank(stage[r]),
         Len(left'[r]) =< Len(left[r]) + 5
  PROVE  Ahead(r)' < Ahead(r)
<1>1. /\ Rank(stage[r]) \in 0 .. 7 /\ Len(left[r]) \in Nat
      /\ Way(r) \in Nat /\ Wants(r) \in 0 .. 2 /\ Idles(r) \in 0 .. 1
  BY AheadParts
<1>2. Rank(stage'[r]) \in 0 .. 7 /\ Len(left'[r]) \in Nat
  BY RankType DEF TypeOK
<1>3. Wants(r)' \in 0 .. 2 /\ Idles(r)' \in 0 .. 1
  BY DEF Wants, Idles
<1>4. Way(r)' \in Nat /\ Way(r)' + 5 =< Way(r)
  <2> DEFINE a == Rank(stage'[r])
             b == Rank(stage[r])
             k == Len(left'[r])
             l == Len(left[r])
  <2>1. 20 * a + 3 * k + 5 =< 20 * b + 3 * l
    <3>1. /\ a \in Nat /\ b \in Nat /\ k \in Nat /\ l \in Nat
          /\ a + 1 =< b /\ k =< l + 5
      BY <1>1, <1>2
    <3> HIDE DEF a, b, k, l
    <3> QED BY <3>1, StageAndStatements
  <2>2. Way(r)' \in Nat
    BY <1>2 DEF Way
  <2> QED BY <1>1, <1>2, <2>1, <2>2 DEF Way
<1> QED BY <1>1, <1>3, <1>4 DEF Ahead

LEMMA AdvanceCounts ==
  ASSUME IndInv, TypeOK', NEW r \in Request, Running(r), Advance(r),
         UNCHANGED <<left, waiting, connections>>
  PROVE  CountsDown
<1>1. TypeOK
  BY DEF IndInv
<1>2. /\ stage[r] \in OnTheWay /\ threads' = threads \ {r}
      /\ \A s \in Request \ {r} : stage'[s] = stage[s]
  BY AdvanceLined
<1>3. stage'[r] = Following(asks[r].route, stage[r])
  BY <1>1 DEF Advance, TypeOK
<1>4. Rank(stage'[r]) + 1 =< Rank(stage[r])
  BY <1>2, <1>3, FollowingRank
<1>5. Len(left'[r]) =< Len(left[r]) + 5
  BY <1>1, AheadParts
<1>6. Ahead(r)' < Ahead(r)
  BY <1>1, <1>4, <1>5, StageOutweighs
<1> QED BY <1>1, <1>2, <1>6, OnlyOneMoves

LEMMA FailCounts ==
  ASSUME IndInv, TypeOK', NEW r \in Request, r \in threads, NEW how, Fail(r, how),
         waiting' = waiting \ {r}, UNCHANGED <<left, connections>>
  PROVE  CountsDown
<1>1. TypeOK
  BY DEF IndInv
<1>2. /\ stage' = [stage EXCEPT ![r] = "close"] /\ threads' = threads \ {r}
      /\ stage \in [Request -> Stage] /\ stage[r] \in OnTheWay
  BY <1>1 DEF Fail, IndInv, Lined, TypeOK
<1>3. Rank(stage'[r]) + 1 =< Rank(stage[r])
  BY <1>2 DEF Rank, OnTheWay
<1>4. Len(left'[r]) =< Len(left[r]) + 5
  BY <1>1, AheadParts
<1>5. Ahead(r)' < Ahead(r)
  BY <1>1, <1>3, <1>4, StageOutweighs
<1> QED BY <1>1, <1>2, <1>5, OnlyOneMoves

\* A connection, or the prospect of one.
LEMMA ConnectCounts ==
  ASSUME IndInv, TypeOK', NEW r \in Request, Checkout(r) \/ Resume(r)
  PROVE  CountsDown
<1>1. TypeOK
  BY DEF IndInv
<1>2. UNCHANGED <<stage, left, threads>>
  BY DEF Checkout, Resume
<1>3. \A s \in Request \ {r} :
        /\ s \in waiting' <=> s \in waiting
        /\ s \in connections' <=> s \in connections
  BY DEF Checkout, Resume
<1>4. Wants(r)' < Wants(r)
  <2>1. CASE Checkout(r)
    BY <2>1 DEF Checkout, Running, Demands, Wants
  <2>2. CASE Resume(r)
    <3>1. r \in waiting /\ r \notin connections /\ r \in connections'
      BY <1>1, <2>2 DEF Resume, IndInv, Held
    <3> QED BY <3>1 DEF Wants
  <2> QED BY <2>1, <2>2
<1>5. Ahead(r)' < Ahead(r)
  <2>1. Way(r) \in Nat /\ Wants(r) \in 0 .. 2 /\ Idles(r) \in 0 .. 1
    BY <1>1, AheadParts
  <2>2. Wants(r)' \in 0 .. 2 /\ Idles(r)' = Idles(r) /\ Way(r)' = Way(r)
    BY <1>2 DEF Way, Wants, Idles
  <2> QED BY <1>4, <2>1, <2>2 DEF Ahead
<1> QED BY <1>1, <1>2, <1>3, <1>5, OnlyOneMoves

\* A statement less outweighs the connection that a commit gives back.
LEMMA ExecuteCounts ==
  ASSUME IndInv, TypeOK', NEW r \in Request, Execute(r)
  PROVE  CountsDown
<1>1. TypeOK
  BY DEF IndInv
<1>2. /\ left' = [left EXCEPT ![r] = Tail(@)] /\ left[r] # <<>>
      /\ r \in connections
      /\ connections' = connections \ {r} \/ connections' = connections
      /\ UNCHANGED <<stage, threads, waiting>>
  BY DEF Execute
<1>3. Len(left[r]) \in Nat /\ Len(left'[r]) = Len(left[r]) - 1
  <2>1. left \in [Request -> Seq({"read", "commit"})]
    BY <1>1 DEF TypeOK
  <2>2. Len(Tail(left[r])) = Len(left[r]) - 1
    BY <1>2, <2>1, HeadTailProperties
  <2> QED BY <1>2, <2>1, <2>2
<1>4. Ahead(r)' < Ahead(r)
  <2>1. /\ Way(r) \in Nat /\ Wants(r) = 0 /\ Wants(r)' \in 0 .. 2
        /\ Idles(r) \in 0 .. 1 /\ Idles(r)' = Idles(r)
    BY <1>1, <1>2, AheadParts DEF Wants, Idles
  <2>2. Rank(stage[r]) \in 0 .. 7
    BY <1>1, AheadParts
  <2>3. Way(r)' + 3 = Way(r) /\ Way(r)' \in Nat
    BY <1>2, <1>3, <2>2 DEF Way
  <2> QED BY <2>1, <2>3 DEF Ahead
<1>5. \A s \in Request \ {r} : left'[s] = left[s]
  BY <1>1, <1>2 DEF TypeOK
<1> QED BY <1>1, <1>2, <1>4, <1>5, OnlyOneMoves

LEMMA StepCounts ==
  ASSUME IndInv, TypeOK', NEW r \in Request, Step(r)
  PROVE  CountsDown
<1>1. TypeOK
  BY DEF IndInv
<1>2. CASE OpenSession(r) \/ Admit(r) \/ PassPrincipal(r) \/ Respond(r)
  <2>1. Running(r) /\ Advance(r) /\ UNCHANGED <<left, waiting, connections>>
    BY <1>2 DEF OpenSession, Admit, PassPrincipal, Respond
  <2> QED BY <2>1, AdvanceCounts
<1>3. CASE TimeOut(r) \/ Reject(r)
  <2>1. /\ r \in threads /\ waiting' = waiting \ {r}
        /\ UNCHANGED <<left, connections>>
        /\ \E how \in {"unavailable", "unauthorized"} : Fail(r, how)
    BY <1>1, <1>3 DEF TimeOut, Reject, Running, TypeOK
  <2> QED BY <2>1, FailCounts
<1>4. CASE Return(r)
  <2>1. /\ Running(r) /\ r \in threads /\ waiting' = waiting \ {r}
        /\ UNCHANGED <<left, waiting, connections>>
        /\ Advance(r) \/ Fail(r, "refused")
    BY <1>4 DEF Return, Running
  <2> QED BY <2>1, AdvanceCounts, FailCounts
<1>5. CASE Checkout(r) \/ Resume(r)
  BY <1>5, ConnectCounts
<1>6. CASE Execute(r)
  BY <1>6, ExecuteCounts
<1>7. CASE Close(r)
  <2>1. /\ stage[r] = "close" /\ stage' = [stage EXCEPT ![r] = "done"]
        /\ connections' = connections \ {r}
        /\ UNCHANGED <<left, threads, waiting>>
        /\ stage \in [Request -> Stage]
    BY <1>1, <1>7 DEF Close, TypeOK
  <2>2. Rank(stage'[r]) + 1 =< Rank(stage[r])
    BY <2>1 DEF Rank
  <2>3. Len(left'[r]) =< Len(left[r]) + 5
    BY <1>1, <2>1, AheadParts
  <2>4. Ahead(r)' < Ahead(r)
    BY <1>1, <2>2, <2>3, StageOutweighs
  <2> QED BY <1>1, <2>1, <2>4, OnlyOneMoves
<1> QED BY <1>2, <1>3, <1>4, <1>5, <1>6, <1>7 DEF Step

LEMMA StartCounts ==
  ASSUME IndInv, TypeOK', Start
  PROVE  CountsDown
<1>1. TypeOK
  BY DEF IndInv
<1>2. PICK r \in Request : r = Head(queue) /\ r \notin threads
  <2>1. 1 \in 1 .. Len(queue) /\ Head(queue) = queue[1] /\ Head(queue) \in Request
    BY <1>1, HeadTailProperties DEF Start, TypeOK
  <2> QED BY <2>1 DEF IndInv, Lined
<1>3. /\ threads' = threads \cup {r}
      /\ UNCHANGED <<stage, left, waiting, connections>>
  BY <1>2 DEF Start
<1>4. Ahead(r)' < Ahead(r)
  <2>1. Way(r) \in Nat /\ Wants(r) \in 0 .. 2
    BY <1>1, AheadParts
  <2>2. /\ Way(r)' = Way(r) /\ Wants(r)' = Wants(r)
        /\ Idles(r) = 1 /\ Idles(r)' = 0
    BY <1>2, <1>3 DEF Way, Wants, Idles
  <2> QED BY <2>1, <2>2 DEF Ahead
<1> QED BY <1>1, <1>3, <1>4, OnlyOneMoves

LEMMA ArriveCounts ==
  ASSUME IndInv, TypeOK', NEW r \in Request, NEW route \in Route,
         NEW bearer \in BOOLEAN, Arrive(r, route, bearer)
  PROVE  CountsDown
<1>1. TypeOK
  BY DEF IndInv
<1>2. /\ stage[r] = "new" /\ stage' = [stage EXCEPT ![r] = "session"]
      /\ left' = [left EXCEPT ![r] = Endpoint[route]]
      /\ UNCHANGED <<threads, waiting, connections>>
      /\ stage \in [Request -> Stage]
      /\ left \in [Request -> Seq({"read", "commit"})]
  BY <1>1 DEF Arrive, TypeOK
<1>3. Rank(stage'[r]) + 1 =< Rank(stage[r])
  BY <1>2 DEF Rank
<1>4. Len(left'[r]) =< Len(left[r]) + 5
  <2>1. Len(Endpoint[route]) =< 5
    BY PoolAssumption, EndpointLength
  <2>2. Len(left[r]) \in Nat /\ left'[r] = Endpoint[route] /\ Len(left'[r]) \in Nat
    BY <1>2, AheadParts DEF TypeOK
  <2> QED BY <2>1, <2>2
<1>5. Ahead(r)' < Ahead(r)
  BY <1>1, <1>3, <1>4, StageOutweighs
<1> QED BY <1>1, <1>2, <1>5, OnlyOneMoves

\* The work that is left never grows, and no step leaves it as it is: with
\* NeverStandsStill and fairness, every request comes to its end.
THEOREM Countdown == Spec => StepsCountDown
<1>1. IndInv /\ [Next]_vars => [CountsDown]_vars
  <2> SUFFICES ASSUME IndInv, Next PROVE CountsDown
    OBVIOUS
  <2>1. TypeOK'
    BY NextInv DEF IndInv
  <2>2. CASE Start
    BY <2>1, <2>2, StartCounts
  <2>3. CASE \E r \in Request : Step(r)
    BY <2>1, <2>3, StepCounts
  <2>4. CASE \E r \in Request, route \in Route, bearer \in BOOLEAN :
               Arrive(r, route, bearer)
    BY <2>1, <2>4, ArriveCounts
  <2> QED BY <2>2, <2>3, <2>4 DEF Next
<1> QED BY <1>1, Invariance, PTL DEF Spec, StepsCountDown

----------------------------------------------------------------------------
(* Nobody waits for ever on somebody who waits.                            *)

\* The conditions under which r takes a step of Step(r), and under which the
\* first in line gets a thread.
Possible(r) ==
  \/ stage[r] = "close"
  \/ r \in waiting
  \/ Running(r) /\ \/ stage[r] \in {"session", "principal", "endpoint", "respond"}
                   \/ Demands(r)
                   \/ stage[r] = "authenticate" /\ (asks[r].bearer => r \in connections)

StartPossible == queue # <<>> /\ Cardinality(threads) < Threads

\* Requests that hold connections may wait for threads, and requests on threads
\* for connections; yet as long as a request is under way, whoever is on a
\* thread can take a step, and if there is nobody, a thread is free for whoever
\* is in line.
NoStandstill ==
  /\ \A r \in threads : Possible(r)
  /\ \A r \in Request : stage[r] \notin {"new", "done"} =>
       StartPossible \/ \E s \in Request : Possible(s)

\* The pools never come to a standstill, for any number of requests.
THEOREM NeverStandsStill == Spec => []NoStandstill
<1>1. IndInv /\ NobodyIsLost => NoStandstill
  <2> SUFFICES ASSUME IndInv, NobodyIsLost PROVE NoStandstill
    OBVIOUS
  <2>1. TypeOK
    BY DEF IndInv
  <2>2. ASSUME NEW r \in threads PROVE Possible(r)
    <3>1. stage[r] \in OnTheWay
      BY DEF IndInv, Lined
    <3> QED BY <3>1 DEF Possible, Running, Demands, OnTheWay
  <2>3. ASSUME NEW r \in Request, stage[r] \notin {"new", "done"},
               \A s \in Request : ~ Possible(s)
        PROVE  StartPossible
    <3>1. threads = {}
      BY <2>1, <2>2, <2>3 DEF TypeOK
    <3>2. stage[r] \in OnTheWay
      BY <2>1, <2>3 DEF TypeOK, Stage, OnTheWay, Possible
    <3>3. queue # <<>>
      BY <3>1, <3>2 DEF NobodyIsLost
    <3>4. Cardinality(threads) < Threads
      BY <3>1, FS_EmptySet, PoolAssumption
    <3> QED BY <3>3, <3>4 DEF StartPossible
  <2> QED BY <2>2, <2>3 DEF NoStandstill
<1> QED BY <1>1, Invariance, EveryoneIsFound, PTL

=============================================================================
