--------------------------- MODULE Conversations ---------------------------
(***************************************************************************)
(* Conversations of two users: ConversationService and                     *)
(* ConversationRepository behind app/api/conversations.py.                 *)
(*                                                                         *)
(* Both users of a pair may ask for their conversation at the same time,   *)
(* on threads and database sessions of their own.  get_or_create looks,    *)
(* inserts what it has not found, and when the unique constraint on the    *)
(* two participants refuses the insertion it rolls back and looks again.   *)
(* Every statement is a step; a thread may die after any step.             *)
(***************************************************************************)
EXTENDS Naturals

CONSTANTS
  Name,         \* the user ids requests may name; numbers, as they are sorted
  Registered,   \* those with a row in the table users
  Id,           \* identifiers uuid4() can draw
  Worker,       \* request threads
  NoJob,
  Undecided     \* a pair has no conversation yet

ASSUME ConversationsAssumption ==
  /\ Name \subseteq Nat
  /\ Registered \subseteq Name
  /\ Undecided \notin Id

VARIABLES
  rows,   \* the table conversations
  pc,     \* the next statement of each thread
  job,    \* what a thread carries from one statement to the next
  reply,  \* the last answer of each thread
  told    \* history: which conversation was answered for which pair

vars == <<rows, pc, job, reply, told>>

Row == [id : Id, a : Name, b : Name]

Pair == {p \in SUBSET Registered : \E u, v \in p : u # v /\ p = {u, v}}

Status == {"none", "bad_request", "not_found", "conversation", "list",
           "server_error"}

NoReply == [status |-> "none", ids |-> {}]

Answer(w, status, ids) ==
  /\ pc' = [pc EXCEPT ![w] = "idle"]
  /\ job' = [job EXCEPT ![w] = NoJob]
  /\ reply' = [reply EXCEPT ![w] = [status |-> status, ids |-> ids]]

Continue(w, statement, carried) ==
  /\ pc' = [pc EXCEPT ![w] = statement]
  /\ job' = [job EXCEPT ![w] = carried]
  /\ reply' = [reply EXCEPT ![w] = NoReply]

----------------------------------------------------------------------------
(***************************************************************************)
(* POST /conversations/get-or-create                                       *)
(***************************************************************************)

Canonicalize_Unsorted(u, v) == [a |-> u, b |-> v]

Canonicalize(u, v) == IF u <= v THEN [a |-> u, b |-> v] ELSE [a |-> v, b |-> u]

\* The rows that get_by_participants selects.
Matching(participants) ==
  {r \in rows : r.a = participants.a /\ r.b = participants.b}

\* scalar_one_or_none(), refresh() and the re-raised IntegrityError: anything
\* but exactly one row is an error.
AnswerFound(w, found) ==
  LET chosen == {r \in found : found = {r}} IN
    /\ Answer(w, IF chosen = {} THEN "server_error" ELSE "conversation",
                 {r.id : r \in chosen})
    /\ told' = told \cup {<<{r.a, r.b}, r.id>> : r \in chosen}

Begin_AnyPeer(w, u, v) ==
  /\ pc[w] = "idle"
  /\ \/ /\ u = v
        /\ Answer(w, "bad_request", {})
     \/ /\ u # v
        /\ Continue(w, "lookup", [participants |-> Canonicalize(u, v)])
  /\ UNCHANGED <<rows, told>>

Begin(w, u, v) ==
  /\ pc[w] = "idle"
  /\ \/ /\ u = v
        /\ Answer(w, "bad_request", {})
     \/ /\ u # v
        /\ v \notin Registered
        /\ Answer(w, "not_found", {})
     \/ /\ u # v
        /\ v \in Registered
        /\ Continue(w, "lookup", [participants |-> Canonicalize(u, v)])
  /\ UNCHANGED <<rows, told>>

\* uuid4() draws an identifier that is in no row and that no thread holds.
Fresh(id) ==
  /\ \A r \in rows : r.id # id
  /\ \A v \in Worker : pc[v] = "insert" => job[v].id # id

Lookup_Early(w) ==
  /\ pc[w] = "lookup"
  /\ LET participants == job[w].participants
         found == Matching(participants)
     IN  \/ /\ found = {}
            /\ \E id \in Id :
                 /\ Fresh(id)
                 /\ Continue(w, "insert",
                             [participants |-> participants, id |-> id])
                 /\ told' = told \cup {<<{participants.a, participants.b}, id>>}
         \/ /\ found # {}
            /\ AnswerFound(w, found)
  /\ UNCHANGED rows

Lookup(w) ==
  /\ pc[w] = "lookup"
  /\ LET participants == job[w].participants
         found == Matching(participants)
     IN  \/ /\ found = {}
            /\ \E id \in Id :
                 /\ Fresh(id)
                 /\ Continue(w, "insert",
                             [participants |-> participants, id |-> id])
            /\ UNCHANGED told
         \/ /\ found # {}
            /\ AnswerFound(w, found)
  /\ UNCHANGED rows

\* uq_conversation_participants refuses a second row.
Insertable_Always(participants) == TRUE

Insertable(participants) == Matching(participants) = {}

Insert(w) ==
  /\ pc[w] = "insert"
  /\ LET participants == job[w].participants
         id == job[w].id
     IN  \/ /\ Insertable(participants)
            /\ rows' = rows \cup
                 {[id |-> id, a |-> participants.a, b |-> participants.b]}
            /\ Continue(w, "refresh", [id |-> id])
         \/ /\ ~ Insertable(participants)
            /\ Continue(w, "requery", [participants |-> participants])
            /\ UNCHANGED rows
  /\ UNCHANGED told

Refresh(w) ==
  /\ pc[w] = "refresh"
  /\ AnswerFound(w, {r \in rows : r.id = job[w].id})
  /\ UNCHANGED rows

\* The IntegrityError is raised again when there is still no row.
Requery(w) ==
  /\ pc[w] = "requery"
  /\ AnswerFound(w, Matching(job[w].participants))
  /\ UNCHANGED rows

----------------------------------------------------------------------------
(***************************************************************************)
(* GET /conversations                                                      *)
(***************************************************************************)

Listed_FirstOnly(u) == {r \in rows : r.a = u}

Listed(u) == {r \in rows : r.a = u \/ r.b = u}

ListForUser(w, u) ==
  /\ pc[w] = "idle"
  /\ Answer(w, "list", {r.id : r \in Listed(u)})
  /\ UNCHANGED <<rows, told>>

----------------------------------------------------------------------------

\* A thread dies between two statements; what it committed stays.
Crash(w) ==
  /\ pc[w] # "idle"
  /\ Answer(w, "none", {})
  /\ UNCHANGED <<rows, told>>

Init ==
  /\ rows = {}
  /\ pc = [w \in Worker |-> "idle"]
  /\ job = [w \in Worker |-> NoJob]
  /\ reply = [w \in Worker |-> NoReply]
  /\ told = {}

Next ==
  \E w \in Worker :
    \/ \E u \in Registered :
         \/ \E v \in Name : Begin(w, u, v)
         \/ ListForUser(w, u)
    \/ Lookup(w)
    \/ Insert(w)
    \/ Refresh(w)
    \/ Requery(w)
    \/ Crash(w)

Spec == Init /\ [][Next]_vars

----------------------------------------------------------------------------
(***************************************************************************)
(* Properties                                                              *)
(***************************************************************************)

Participants == [a : Registered, b : Registered]

Carries(statement, j) ==
  /\ statement \in {"idle", "lookup", "insert", "refresh", "requery"}
  /\ statement = "idle" => j = NoJob
  /\ statement \in {"lookup", "requery"} => j \in [participants : Participants]
  /\ statement = "insert" => j \in [participants : Participants, id : Id]
  /\ statement = "refresh" => j \in [id : Id]

\* The type invariant; in particular no conversation has an unregistered
\* participant, and threads carry what their next statement needs.
TypeOK ==
  /\ rows \subseteq [id : Id, a : Registered, b : Registered]
  /\ DOMAIN pc = Worker /\ DOMAIN job = Worker
  /\ \A w \in Worker : Carries(pc[w], job[w])
  /\ reply \in [Worker -> [status : Status, ids : SUBSET Id]]
  /\ told \subseteq (SUBSET Registered) \X Id

\* Two users have at most one conversation, in whichever order and on however
\* many threads they ask, and no two pairs share one.
OnePerPair ==
  \A r, s \in rows : {r.a, r.b} = {s.a, s.b} \/ r.id = s.id => r = s

\* All answers that were ever given for a pair, to either of its users, name
\* one conversation, and no conversation was answered for two pairs.
Agreement ==
  \A first, second \in told : first[1] = second[1] <=> first[2] = second[2]

\* A thread whose insertion was refused finds a row when it looks again, and
\* one whose insertion was accepted finds its own: get_or_create never
\* surfaces the IntegrityError it has caught.
NoServerError ==
  \A w \in Worker : reply[w].status # "server_error"

\* A user's list contains every conversation the user was answered before.
ListIsComplete ==
  [][\A w \in Worker, u \in Registered :
       ListForUser(w, u) =>
         \A answer \in told : u \in answer[1] => answer[2] \in reply'[w].ids]_vars

\* The table implements the write-once register.
DecidedIn(table, p) ==
  IF \E r \in table : {r.a, r.b} = p
  THEN (CHOOSE r \in table : {r.a, r.b} = p).id
  ELSE Undecided

R == INSTANCE Registry WITH decided <- [p \in Pair |-> DecidedIn(rows, p)]

ImplementsRegistry == R!Spec

=============================================================================
