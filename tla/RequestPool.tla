---------------------------- MODULE RequestPool ----------------------------
(***************************************************************************)
(* The way of a request through one process: get_db, get_current_user,     *)
(* get_current_user_id and the endpoint, over the threads that FastAPI     *)
(* lends to synchronous functions and the connections that the engine      *)
(* lends to sessions.                                                      *)
(*                                                                         *)
(* Each of these functions, and the validation of the response, is a stage *)
(* that waits in line for a thread and gives it back at its end.  The      *)
(* session, and with it a connection in a transaction, lives on from the   *)
(* authentication to the endpoint: a request may hold a connection while   *)
(* it waits for a thread, and a thread while it waits for a connection.    *)
(* Only the second wait has a limit.  Closing the session needs no thread  *)
(* of the pool.                                                            *)
(*                                                                         *)
(* Threads and connections are external code: AnyIO's limiter serves in    *)
(* the order of arrival, SQLAlchemy's pool in any order.  What statements  *)
(* do is in the other modules.                                             *)
(***************************************************************************)
EXTENDS Naturals, Sequences, FiniteSets

CONSTANTS
  Request,      \* the requests that one process receives
  Route,        \* the routes in use, out of those of Endpoint
  Threads,      \* size of the thread pool
  Connections   \* size of the connection pool, with its overflow

\* What an endpoint does to the database, as far as the pool can tell: a commit,
\* or a rollback, gives the connection back, and whatever comes after it needs
\* one.  Reads that follow each other within a transaction are one.
Ready == <<"read">>

Contacts == <<"read">>

\* The inbox, and likewise the list of conversations and the count of prekeys.
Inbox == <<"read">>

\* An INSERT with its commit, and the refresh.
Send == <<"commit", "read">>

\* The row is looked up and then acknowledged, or deleted.
Settle == <<"read", "commit">>

\* The lookups, the insertion, and the refresh.
Conversation == <<"read", "commit", "read">>

\* The bundle and a prekey, its consumption, and the refresh of both.
Fetch == <<"read", "commit", "read">>

\* The bundle with its refresh, the prekeys, and the bundle for the answer.
Upload == <<"read", "commit", "read", "commit", "read">>

\* The user, the challenge, and its refresh.
Begin == <<"read", "commit", "read">>

\* Lookups and flushed insertions, and one commit at the end.
Finish == <<"read", "commit">>

\* The routes that need a database.
Endpoint ==
  [ready |-> Ready, contacts |-> Contacts, inbox |-> Inbox, send |-> Send,
   settle |-> Settle, conversation |-> Conversation, fetch |-> Fetch,
   upload |-> Upload, begin |-> Begin, finish |-> Finish]

\* The routes without get_current_user.
Open == {"ready", "begin", "finish"}

ASSUME PoolAssumption ==
  /\ Route \in SUBSET DOMAIN Endpoint
  /\ Threads \in Nat \ {0}
  /\ Connections \in Nat \ {0}

Stage == {"new", "session", "authenticate", "principal", "endpoint", "respond",
          "close", "done"}

VARIABLES
  stage,        \* where each request is
  asks,         \* its route, and whether it carries a bearer token
  left,         \* the statements its endpoint has not executed
  queue,        \* the requests in line for a thread
  threads,      \* the requests on a thread
  waiting,      \* those of them that wait for a connection
  connections,  \* the requests whose session holds a connection
  admitted,     \* history: the requests that passed get_current_user
  ended,        \* history: the transactions that a request has ended
  answer        \* history: what became of it

history == <<admitted, ended>>

vars == <<stage, asks, left, queue, threads, waiting, connections, history,
          answer>>

\* A request whose function is running.
Running(r) == r \in threads \ waiting

\* The stage after s on the way of a request.  Contacts depend on
\* get_current_user_id, and declare no response to validate.
Following(route, s) ==
  CASE s = "session" -> IF route \in Open THEN "endpoint" ELSE "authenticate"
    [] s = "authenticate" -> IF route = "contacts" THEN "principal" ELSE "endpoint"
    [] s = "principal" -> "endpoint"
    [] s = "endpoint" -> IF route = "contacts" THEN "close" ELSE "respond"
    [] s = "respond" -> "close"

\* The thread is given back, and the next stage gets in line for one.
Advance(r) ==
  LET next == Following(asks[r].route, stage[r]) IN
    /\ stage' = [stage EXCEPT ![r] = next]
    /\ threads' = threads \ {r}
    /\ queue' = IF next = "close" THEN queue ELSE Append(queue, r)
    /\ answer' = IF next = "close" THEN [answer EXCEPT ![r] = "served"] ELSE answer

\* An exception: only the session remains to be closed.
Fail(r, how) ==
  /\ stage' = [stage EXCEPT ![r] = "close"]
  /\ threads' = threads \ {r}
  /\ answer' = [answer EXCEPT ![r] = how]

----------------------------------------------------------------------------
Arrive(r, route, bearer) ==
  /\ stage[r] = "new"
  /\ stage' = [stage EXCEPT ![r] = "session"]
  /\ asks' = [asks EXCEPT ![r] = [route |-> route, bearer |-> bearer]]
  /\ left' = [left EXCEPT ![r] = Endpoint[route]]
  /\ queue' = Append(queue, r)
  /\ UNCHANGED <<threads, waiting, connections, history, answer>>

\* The first in line gets a thread.
Start ==
  /\ queue # <<>>
  /\ Cardinality(threads) < Threads
  /\ threads' = threads \cup {Head(queue)}
  /\ queue' = Tail(queue)
  /\ UNCHANGED <<stage, asks, left, waiting, connections, history, answer>>

\* get_db up to its yield: a session without a connection.
OpenSession(r) ==
  /\ Running(r) /\ stage[r] = "session"
  /\ Advance(r)
  /\ UNCHANGED <<asks, left, waiting, connections, history>>

\* A statement is about to be executed, and the session has no connection.
Demands(r) ==
  /\ r \notin connections
  /\ \/ stage[r] = "authenticate" /\ asks[r].bearer
     \/ stage[r] = "endpoint" /\ left[r] # <<>>

Available_Unlimited == TRUE

Available == Cardinality(connections) < Connections

Checkout(r) ==
  /\ Running(r) /\ Demands(r)
  /\ \/ /\ Available
        /\ connections' = connections \cup {r}
        /\ UNCHANGED waiting
     \/ /\ ~ Available
        /\ waiting' = waiting \cup {r}
        /\ UNCHANGED connections
  /\ UNCHANGED <<stage, asks, left, queue, threads, history, answer>>

\* A connection has come back; whoever asks first gets it.
Resume(r) ==
  /\ r \in waiting
  /\ Available
  /\ waiting' = waiting \ {r}
  /\ connections' = connections \cup {r}
  /\ UNCHANGED <<stage, asks, left, queue, threads, history, answer>>

\* pool_timeout has passed, and there is still none.
TimeOut_Never(r) == FALSE /\ UNCHANGED vars

TimeOut_Retry(r) ==
  /\ r \in waiting
  /\ ~ Available
  /\ waiting' = waiting \ {r}
  /\ threads' = threads \ {r}
  /\ queue' = Append(queue, r)
  /\ UNCHANGED <<stage, asks, left, connections, history, answer>>

TimeOut(r) ==
  /\ r \in waiting
  /\ ~ Available
  /\ waiting' = waiting \ {r}
  /\ Fail(r, "unavailable")
  /\ UNCHANGED <<asks, left, queue, connections, history>>

\* get_current_user has found a session.  Its own stays in its transaction.
Admit_Release(r) ==
  /\ Running(r) /\ stage[r] = "authenticate" /\ r \in connections
  /\ Advance(r)
  /\ admitted' = admitted \cup {r}
  /\ connections' = connections \ {r}
  /\ UNCHANGED <<asks, left, waiting, ended>>

Admit(r) ==
  /\ Running(r) /\ stage[r] = "authenticate" /\ r \in connections
  /\ Advance(r)
  /\ admitted' = admitted \cup {r}
  /\ UNCHANGED <<asks, left, waiting, connections, ended>>

\* It has found none, or there is no token to look for.
Reject(r) ==
  /\ Running(r) /\ stage[r] = "authenticate"
  /\ asks[r].bearer => r \in connections
  /\ Fail(r, "unauthorized")
  /\ UNCHANGED <<asks, left, queue, waiting, connections, history>>

PassPrincipal(r) ==
  /\ Running(r) /\ stage[r] = "principal"
  /\ Advance(r)
  /\ UNCHANGED <<asks, left, waiting, connections, history>>

Execute(r) ==
  /\ Running(r) /\ stage[r] = "endpoint" /\ left[r] # <<>>
  /\ r \in connections
  /\ left' = [left EXCEPT ![r] = Tail(@)]
  /\ \/ /\ Head(left[r]) = "commit"
        /\ connections' = connections \ {r}
        /\ ended' = [ended EXCEPT ![r] = @ + 1]
     \/ /\ Head(left[r]) = "read"
        /\ UNCHANGED <<connections, ended>>
  /\ UNCHANGED <<stage, asks, queue, threads, waiting, admitted, answer>>

\* An endpoint returns, or refuses, after any of its statements; some, as those
\* that find what others insert, before the last.
Return(r) ==
  /\ Running(r) /\ stage[r] = "endpoint"
  /\ \/ Advance(r)
     \/ Fail(r, "refused") /\ UNCHANGED queue
  /\ UNCHANGED <<asks, left, waiting, connections, history>>

Respond(r) ==
  /\ Running(r) /\ stage[r] = "respond"
  /\ Advance(r)
  /\ UNCHANGED <<asks, left, waiting, connections, history>>

\* get_db after its yield, however the request has ended.
Close_Forgotten(r) ==
  /\ stage[r] = "close"
  /\ stage' = [stage EXCEPT ![r] = "done"]
  /\ UNCHANGED <<asks, left, queue, threads, waiting, connections, history, answer>>

Close(r) ==
  /\ stage[r] = "close"
  /\ stage' = [stage EXCEPT ![r] = "done"]
  /\ connections' = connections \ {r}
  /\ UNCHANGED <<asks, left, queue, threads, waiting, history, answer>>

Init ==
  /\ stage = [r \in Request |-> "new"]
  /\ asks = [r \in Request |-> [route |-> "ready", bearer |-> FALSE]]
  /\ left = [r \in Request |-> <<>>]
  /\ queue = <<>>
  /\ threads = {}
  /\ waiting = {}
  /\ connections = {}
  /\ admitted = {}
  /\ ended = [r \in Request |-> 0]
  /\ answer = [r \in Request |-> "none"]

\* What a request does once it has arrived and has a thread.
Step(r) ==
  \/ OpenSession(r)
  \/ Checkout(r)
  \/ Resume(r)
  \/ TimeOut(r)
  \/ Admit(r)
  \/ Reject(r)
  \/ PassPrincipal(r)
  \/ Execute(r)
  \/ Return(r)
  \/ Respond(r)
  \/ Close(r)

Next ==
  \/ Start
  \/ \E r \in Request :
       \/ Step(r)
       \/ \E route \in Route, bearer \in BOOLEAN : Arrive(r, route, bearer)

\* Functions return, the pools serve, and the limit on waiting for a connection
\* is kept.  No request has to arrive.
Fairness == WF_vars(Start) /\ \A r \in Request : WF_vars(Step(r))

Spec == Init /\ [][Next]_vars

FairSpec == Spec /\ Fairness

----------------------------------------------------------------------------
(***************************************************************************)
(* Properties                                                              *)
(***************************************************************************)

\* The pools are within their limits, and only a request on a thread waits for
\* a connection.
TypeOK ==
  /\ stage \in [Request -> Stage]
  /\ asks \in [Request -> [route : DOMAIN Endpoint, bearer : BOOLEAN]]
  /\ left \in [Request -> Seq({"read", "commit"})]
  /\ queue \in Seq(Request)
  /\ threads \in SUBSET Request /\ IsFiniteSet(threads)
  /\ Cardinality(threads) =< Threads
  /\ waiting \in SUBSET threads
  /\ connections \in SUBSET Request /\ IsFiniteSet(connections)
  /\ Cardinality(connections) =< Connections
  /\ admitted \in SUBSET Request
  /\ ended \in [Request -> Nat]
  /\ answer \in
       [Request -> {"none", "served", "refused", "unauthorized", "unavailable"}]

\* A request that has not begun, or is over, holds neither a thread nor a
\* connection, and is not in line: whichever way it ended, at whatever stage.
NothingIsLeaked ==
  \A r \in Request : stage[r] \in {"new", "done"} =>
    /\ r \notin threads \cup connections
    /\ \A i \in 1 .. Len(queue) : queue[i] # r

\* Load never comes between the authentication of a request and its first
\* write: one that is turned away for want of a connection has either not been
\* admitted, or has ended a transaction before.
LoadSparesTheAdmitted ==
  \A r \in admitted : answer[r] = "unavailable" => ended[r] > 0

\* How far a request is from its end: most of all by its stage, then by the
\* statements it has left, then by whether it has a connection, or waits for one,
\* and a thread.
Rank(s) ==
  CASE s = "new" -> 7
    [] s = "session" -> 6
    [] s = "authenticate" -> 5
    [] s = "principal" -> 4
    [] s = "endpoint" -> 3
    [] s = "respond" -> 2
    [] s = "close" -> 1
    [] s = "done" -> 0

Wants(r) ==
  IF r \in connections THEN 0 ELSE IF r \in waiting THEN 1 ELSE 2

Idles(r) == IF r \in threads THEN 0 ELSE 1

Way(r) == 20 * Rank(stage[r]) + 3 * Len(left[r])

Ahead(r) == Way(r) + Wants(r) + Idles(r)

CountsDown ==
  /\ \A r \in Request : Ahead(r)' =< Ahead(r)
  /\ \E r \in Request : Ahead(r)' < Ahead(r)

\* No step sets a request back, whether its own or that of another with which it
\* competes for threads and connections, and each brings one further.  There are
\* no retries anywhere: the work that is left is bounded whatever the pools do.
StepsCountDown == [][CountsDown]_vars

\* Every request that arrives is answered, and its session closed, although
\* requests that hold all connections may be waiting for threads that wait for
\* connections.
EveryRequestEnds ==
  \A r \in Request : stage[r] = "session" ~> stage[r] = "done"
=============================================================================
