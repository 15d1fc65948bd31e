--------------------------- MODULE KeyDirectory ---------------------------
(***************************************************************************)
(* The key directory: KeyService and KeyBundleRepository behind            *)
(* app/api/keys.py, over the tables key_bundles and one_time_prekeys.      *)
(*                                                                         *)
(* Requests run on threads and database sessions of their own; every       *)
(* statement, together with the commit that follows it, is one step, and a *)
(* thread may die after any step.  An upload commits twice, the bundle     *)
(* first and the one-time prekeys second.  A fetch selects a prekey FOR    *)
(* UPDATE SKIP LOCKED, which PostgreSQL honours and SQLite ignores, and    *)
(* consumes it in a second statement.                                      *)
(*                                                                         *)
(* A bundle is reduced to two columns, the identity keys and the signed    *)
(* prekey; the remaining ones are treated alike.  Key material is not in   *)
(* the answers of the model: what they say of the bundle is read back from *)
(* the table when they are built, after the last commit.                   *)
(***************************************************************************)
EXTENDS Naturals

CONSTANTS
  User,      \* registered users
  OpkId,     \* identifiers of one-time prekeys, chosen by clients
  Key,       \* values of the columns of a bundle
  Worker,    \* request threads
  RowLocks,  \* FOR UPDATE locks rows: TRUE on PostgreSQL, FALSE on SQLite
  Patient,   \* the threads that are assumed to go on running
  NoRow,     \* the result of a lookup that finds nothing
  NoJob,     \* what an idle thread is working on
  Free       \* the holder of a row that nobody has locked

Bundle == [identity : Key, signed : Key]

Opk == [owner : User, batch : Nat, consumed : BOOLEAN]

ASSUME KeyDirectoryAssumption ==
  /\ RowLocks \in BOOLEAN
  /\ Patient \subseteq Worker
  /\ NoRow \notin Bundle \cup Opk
  /\ Free \notin Worker

VARIABLES
  bundles,  \* the table key_bundles: [User -> row]
  opks,     \* the table one_time_prekeys: [OpkId -> row]
  batches,  \* the uploads of prekeys so far; stands for created_at
  holder,   \* who has locked the row of a prekey
  pc,       \* the next statement of each thread
  job,      \* what a thread carries from one statement to the next
  reply,    \* the last answer of each thread
  handed    \* history: how often each prekey has been handed out

vars == <<bundles, opks, batches, holder, pc, job, reply, handed>>

tables == <<bundles, opks, batches>>

Status == {"none", "forbidden", "uploaded", "not_found", "bundle",
           "server_error"}

\* `user' is whose keys the answer is about, `opks' the prekeys it is about.
Reply == [status : Status, user : User \cup {NoRow}, opks : SUBSET OpkId]

NoReply == [status |-> "none", user |-> NoRow, opks |-> {}]

Answer(w, status, user, about) ==
  /\ pc' = [pc EXCEPT ![w] = "idle"]
  /\ job' = [job EXCEPT ![w] = NoJob]
  /\ reply' = [reply EXCEPT ![w] =
                 [status |-> status, user |-> user, opks |-> about]]

Continue(w, statement, carried) ==
  /\ pc' = [pc EXCEPT ![w] = statement]
  /\ job' = [job EXCEPT ![w] = carried]
  /\ reply' = [reply EXCEPT ![w] = NoReply]

----------------------------------------------------------------------------
(***************************************************************************)
(* POST /keys/upload                                                       *)
(***************************************************************************)

\* The bundle is loaded here and compared with the request at the commit.
BeginUpload_KeysFirst(w, u, named, bundle, ids) ==
  /\ pc[w] = "idle"
  /\ named = u
  /\ Continue(w, IF ids = {} THEN "write" ELSE "opks",
       [user |-> u, bundle |-> bundle, loaded |-> bundles[u], opks |-> ids])
  /\ UNCHANGED <<tables, holder, handed>>

BeginUpload(w, u, named, bundle, ids) ==
  /\ pc[w] = "idle"
  /\ \/ /\ named # u
        /\ Answer(w, "forbidden", u, {})
     \/ /\ named = u
        /\ Continue(w, "write",
             [user |-> u, bundle |-> bundle, loaded |-> bundles[u],
              opks |-> ids])
  /\ UNCHANGED <<tables, holder, handed>>

\* The ORM's UPDATE names the columns whose values differ from those loaded.
Updated(stored, loaded, requested) ==
  [column \in {"identity", "signed"} |->
     IF requested[column] # loaded[column] THEN requested[column]
                                           ELSE stored[column]]

\* A bundle that was not found is inserted, and refused if it is there by now.
WriteBundle(w) ==
  /\ pc[w] = "write"
  /\ LET j == job[w]
         stored == bundles[j.user]
     IN  \/ /\ j.loaded = NoRow /\ stored = NoRow
            /\ bundles' = [bundles EXCEPT ![j.user] = j.bundle]
            /\ Continue(w, IF j.opks = {} THEN "echo" ELSE "opks", j)
         \/ /\ j.loaded # NoRow
            /\ bundles' = [bundles EXCEPT ![j.user] =
                             Updated(stored, j.loaded, j.bundle)]
            /\ Continue(w, IF j.opks = {} THEN "echo" ELSE "opks", j)
         \/ /\ j.loaded = NoRow /\ stored # NoRow
            /\ Answer(w, "server_error", j.user, {})
            /\ UNCHANGED bundles
  /\ UNCHANGED <<opks, batches, holder, handed>>

\* One INSERT per key and one commit: all of them, or none if one exists.
Storable_Always(ids) == TRUE

Storable(ids) == \A o \in ids : opks[o] = NoRow

InsertOpks(w) ==
  /\ pc[w] = "opks"
  /\ LET j == job[w] IN
       \/ /\ Storable(j.opks)
          /\ opks' = [o \in OpkId |->
               IF o \in j.opks
               THEN [owner |-> j.user, batch |-> batches + 1,
                     consumed |-> FALSE]
               ELSE opks[o]]
          /\ batches' = batches + 1
          /\ Continue(w, "echo", j)
       \/ /\ ~ Storable(j.opks)
          /\ Answer(w, "server_error", j.user, {})
          /\ UNCHANGED <<opks, batches>>
  /\ UNCHANGED <<bundles, holder, handed>>

\* The commit has expired the bundle's attributes; they are read again.
AnswerUpload(w) ==
  /\ pc[w] = "echo"
  /\ Answer(w, "uploaded", job[w].user, job[w].opks)
  /\ UNCHANGED <<tables, holder, handed>>

----------------------------------------------------------------------------
(***************************************************************************)
(* GET /keys/{user_id}/bundle                                              *)
(***************************************************************************)

BeginFetch(w, u) ==
  /\ pc[w] = "idle"
  /\ \/ /\ bundles[u] = NoRow
        /\ Answer(w, "not_found", u, {})
     \/ /\ bundles[u] # NoRow
        /\ Continue(w, "select", [user |-> u])
  /\ UNCHANGED <<tables, holder, handed>>

Unconsumed_Any(o) == opks[o] # NoRow

Unconsumed(o) == opks[o] # NoRow /\ ~ opks[o].consumed

\* Without FOR UPDATE the query sees the rows that others hold.
Selectable_Unlocked(u) ==
  {o \in OpkId : Unconsumed(o) /\ opks[o].owner = u}

\* The rows the query may return: SKIP LOCKED passes over those that are held.
Selectable(u) ==
  {o \in OpkId : /\ Unconsumed(o)
                 /\ opks[o].owner = u
                 /\ RowLocks => holder[o] = Free}

Oldest(S) == {o \in S : \A p \in S : opks[o].batch <= opks[p].batch}

\* FOR UPDATE without SKIP LOCKED waits for the holder.
SelectOpk_Wait(w) ==
  /\ pc[w] = "select"
  /\ LET u == job[w].user
         wanted == Oldest({o \in OpkId : Unconsumed(o) /\ opks[o].owner = u})
     IN  \/ \E o \in wanted :
              /\ RowLocks => holder[o] = Free
              /\ holder' = IF RowLocks THEN [holder EXCEPT ![o] = w] ELSE holder
              /\ Continue(w, "consume", [user |-> u, opk |-> o])
         \/ /\ wanted = {}
            /\ Answer(w, "bundle", u, {})
            /\ UNCHANGED holder
  /\ UNCHANGED <<tables, handed>>

\* Without a key the answer falls back on the legacy key of the bundle.
SelectOpk(w) ==
  /\ pc[w] = "select"
  /\ LET u == job[w].user IN
       \/ \E o \in Oldest(Selectable(u)) :
            /\ holder' = IF RowLocks THEN [holder EXCEPT ![o] = w] ELSE holder
            /\ Continue(w, "consume", [user |-> u, opk |-> o])
       \/ /\ Selectable(u) = {}
          /\ Answer(w, "bundle", u, {})
          /\ UNCHANGED holder
  /\ UNCHANGED <<tables, handed>>

\* The UPDATE names its row by the primary key alone; the commit unlocks it.
ConsumeOpk(w) ==
  /\ pc[w] = "consume"
  /\ LET o == job[w].opk IN
       /\ opks' = [opks EXCEPT ![o].consumed = TRUE]
       /\ holder' = [holder EXCEPT ![o] = Free]
  /\ Continue(w, "answer", job[w])
  /\ UNCHANGED <<bundles, batches, handed>>

AnswerFetch(w) ==
  /\ pc[w] = "answer"
  /\ LET o == job[w].opk IN
       /\ Answer(w, "bundle", job[w].user, {o})
       /\ handed' = [handed EXCEPT ![o] = @ + 1]
  /\ UNCHANGED <<tables, holder>>

----------------------------------------------------------------------------

Crash_KeepJob(w) ==
  /\ pc[w] # "idle"
  /\ pc' = [pc EXCEPT ![w] = "idle"]
  /\ reply' = [reply EXCEPT ![w] = NoReply]
  /\ holder' = [o \in OpkId |-> IF holder[o] = w THEN Free ELSE holder[o]]
  /\ UNCHANGED <<tables, job, handed>>

\* A thread dies between two statements: its session is rolled back, which
\* releases its locks, and what it committed stays.
Crash_KeepLocks(w) ==
  /\ pc[w] # "idle"
  /\ Answer(w, "none", NoRow, {})
  /\ UNCHANGED <<tables, holder, handed>>

Crash(w) ==
  /\ pc[w] # "idle"
  /\ Answer(w, "none", NoRow, {})
  /\ holder' = [o \in OpkId |-> IF holder[o] = w THEN Free ELSE holder[o]]
  /\ UNCHANGED <<tables, handed>>

Init ==
  /\ bundles = [u \in User |-> NoRow]
  /\ opks = [o \in OpkId |-> NoRow]
  /\ batches = 0
  /\ holder = [o \in OpkId |-> Free]
  /\ pc = [w \in Worker |-> "idle"]
  /\ job = [w \in Worker |-> NoJob]
  /\ reply = [w \in Worker |-> NoReply]
  /\ handed = [o \in OpkId |-> 0]

\* The statements of a request that has begun.
Handle(w) ==
  \/ WriteBundle(w)
  \/ InsertOpks(w)
  \/ AnswerUpload(w)
  \/ SelectOpk(w)
  \/ ConsumeOpk(w)
  \/ AnswerFetch(w)

Next ==
  \E w \in Worker :
    \/ \E u, named \in User, bundle \in Bundle, ids \in SUBSET OpkId :
         BeginUpload(w, u, named, bundle, ids)
    \/ \E u \in User : BeginFetch(w, u)
    \/ Handle(w)
    \/ Crash(w)

Spec == Init /\ [][Next]_vars

\* A patient thread is not suspended forever.  Nothing is assumed about the
\* others: they may stall between any two statements, holding their locks.
FairSpec == Spec /\ \A w \in Patient : WF_vars(Handle(w))

----------------------------------------------------------------------------
(***************************************************************************)
(* Properties                                                              *)
(***************************************************************************)

UploadJob ==
  [user : User, bundle : Bundle, loaded : Bundle \cup {NoRow},
   opks : SUBSET OpkId]

Carries(statement, j) ==
  /\ statement \in
       {"idle", "write", "opks", "echo", "select", "consume", "answer"}
  /\ statement = "idle" => j = NoJob
  /\ statement \in {"write", "opks", "echo"} => j \in UploadJob
  /\ statement = "select" => j \in [user : User]
  /\ statement \in {"consume", "answer"} => j \in [user : User, opk : OpkId]

\* The type invariant: the columns, and threads that carry what they need.
TypeOK ==
  /\ bundles \in [User -> Bundle \cup {NoRow}]
  /\ opks \in [OpkId -> Opk \cup {NoRow}]
  /\ batches \in Nat
  /\ holder \in [OpkId -> Worker \cup {Free}]
  /\ DOMAIN pc = Worker /\ DOMAIN job = Worker
  /\ \A w \in Worker : Carries(pc[w], job[w])
  /\ reply \in [Worker -> Reply]
  /\ handed \in [OpkId -> Nat]

\* However fetches interleave and die, a one-time prekey goes to one requester.
HandedOutOnce == \A o \in OpkId : handed[o] <= 1

\* A locked prekey is unconsumed, and its holder is about to consume it: no
\* lock outlives its request, or the key would be passed over for ever.
NoOrphanLock ==
  \A o \in OpkId : holder[o] # Free =>
    /\ Unconsumed(o)
    /\ pc[holder[o]] = "consume" /\ job[holder[o]].opk = o

\* Prekeys are only there for users with a bundle: a fetch never answers
\* "not found" for a user whose prekeys have been stored, although an upload
\* may die between its two commits.
KeysHaveBundle ==
  \A o \in OpkId : opks[o] # NoRow => bundles[opks[o].owner] # NoRow

\* An upload that was answered with success has stored every prekey it named
\* under the uploader, also when the identifiers were taken meanwhile.
UploadedKeysExist ==
  \A w \in Worker :
    reply[w].status = "uploaded" =>
      \A o \in reply[w].opks :
        opks[o] # NoRow /\ opks[o].owner = reply[w].user

\* The prekeys go through the phases of OpkPool, and are handed out as often as
\* it allows: not twice.
Phase(o) ==
  IF opks[o] = NoRow THEN "absent"
  ELSE IF ~ opks[o].consumed THEN "available" ELSE "taken"

P == INSTANCE OpkPool WITH
       phase <- [o \in OpkId |-> Phase(o)],
       handed <- handed

ImplementsOpkPool == P!Spec

\* A patient thread answers the fetch it has begun, whatever the others do:
\* SKIP LOCKED keeps it from waiting for a thread that stalls on its prekey.
FetchEnds == \A w \in Patient : pc[w] = "select" ~> pc[w] = "idle"

\* What a write leaves in the table is the bundle of one upload.
StoredAsUploaded ==
  [][\A u \in User : bundles'[u] # bundles[u] =>
       \E w \in Worker : pc[w] = "write" /\ bundles'[u] = job[w].bundle]_vars

=============================================================================
