------------------------------- MODULE Relay -------------------------------
(***************************************************************************)
(* The ciphertext relay: MessageService and MessageRepository behind the   *)
(* four routes of app/api/messages.py, over the table message_envelopes.   *)
(*                                                                         *)
(* Routes are plain functions, so FastAPI runs each request on a thread    *)
(* of its pool with a database session of its own.  Every SQL statement is *)
(* one step, and the steps of different requests interleave: statements    *)
(* see what has been committed when they run (READ COMMITTED on            *)
(* PostgreSQL, no read transaction on SQLite).  A conditional UPDATE or    *)
(* DELETE and the commit that follows it are one step, because the row it  *)
(* matches stays locked in between.  A thread may die after any step.      *)
(*                                                                         *)
(* Identifiers of messages are chosen by clients, and a row disappears     *)
(* when its sender deletes it, so the same identifier can be inserted      *)
(* again.  The model numbers these insertions: `life' of a row, `lives' of *)
(* an identifier.  Both are history, as is `settled'; no guard of the      *)
(* program depends on them.                                                *)
(***************************************************************************)
EXTENDS Naturals

CONSTANTS
  User,         \* registered users
  MsgId,        \* message identifiers (UUIDs of the clients)
  Worker,       \* request threads
  ForeignKeys,  \* TRUE on PostgreSQL; SQLite leaves foreign keys unchecked
  MaxLifetime,  \* the 30 days of MessageService.send
  MaxTime,      \* bound: the clock stops here
  MaxLives,     \* bound: insertions of one identifier
  NoRow,        \* the result of a lookup that finds nothing
  Never,        \* expiry_at IS NULL
  NoJob         \* what an idle thread is working on

Time == 0 .. MaxTime

Ordinal == 1 .. MaxLives

\* <<m, k>> is the k-th row that was inserted under identifier m.
Life == MsgId \X Ordinal

\* A row: the sending time and the payload do not influence any step.
Envelope ==
  [sender : User, recipient : User, expiryAt : Time \cup {Never},
   acknowledged : BOOLEAN, life : Ordinal]

ASSUME RelayAssumption ==
  /\ ForeignKeys \in BOOLEAN
  /\ MaxTime \in Nat
  /\ MaxLifetime \in Nat
  /\ MaxLives \in Nat
  /\ NoRow \notin Envelope
  /\ Never \notin Nat

VARIABLES
  envelopes,  \* the table: [MsgId -> row]
  now,        \* the servers' clock, in days
  pc,         \* the next statement of each thread
  job,        \* what a thread carries from one statement to the next
  reply,      \* the last answer of each thread
  lives,      \* history: how often each identifier has been inserted
  settled     \* history: the lives of which a request was told the end

vars == <<envelopes, now, pc, job, reply, lives, settled>>

----------------------------------------------------------------------------
(***************************************************************************)
(* Answers.  The statuses are those of the exception handlers of the       *)
(* routes; `about' names the lives an answer speaks of.                    *)
(***************************************************************************)

Status ==
  {"none", "accepted", "invalid", "inbox", "acknowledged", "deleted",
   "not_found", "forbidden", "already_delivered", "server_error"}

NoReply == [status |-> "none", about |-> {}]

Answer(w, status, about) ==
  /\ pc' = [pc EXCEPT ![w] = "idle"]
  /\ job' = [job EXCEPT ![w] = NoJob]
  /\ reply' = [reply EXCEPT ![w] = [status |-> status, about |-> about]]

Continue(w, statement, carried) ==
  /\ pc' = [pc EXCEPT ![w] = statement]
  /\ job' = [job EXCEPT ![w] = carried]
  /\ reply' = [reply EXCEPT ![w] = NoReply]

----------------------------------------------------------------------------
(***************************************************************************)
(* POST /messages/send                                                     *)
(***************************************************************************)

\* The checks on a requested expiry; t is the time at which they are made.
ValidExpiry(sent, expires, t) ==
  expires # Never =>
    /\ expires > sent
    /\ expires > t
    /\ expires <= sent + MaxLifetime

\* `resolves': the recipient and the conversation named in the request exist.
BeginSend(w, u, m, r, sent, expires, resolves) ==
  /\ pc[w] = "idle"
  /\ \/ /\ ~ ValidExpiry(sent, expires, now)
        /\ Answer(w, "invalid", {})
     \/ /\ ValidExpiry(sent, expires, now)
        /\ Continue(w, "create",
             [sender |-> u, msg |-> m, recipient |-> r,
              expiryAt |-> expires, resolves |-> resolves])
  /\ UNCHANGED <<envelopes, now, lives, settled>>

\* The INSERT commits: the primary key is free and the references exist.
Insertable(j) ==
  /\ envelopes[j.msg] = NoRow
  /\ ForeignKeys => j.resolves

Create(w) ==
  /\ pc[w] = "create"
  /\ LET j == job[w] IN
       \/ /\ Insertable(j)
          /\ lives[j.msg] < MaxLives
          /\ lives' = [lives EXCEPT ![j.msg] = @ + 1]
          /\ envelopes' = [envelopes EXCEPT ![j.msg] =
               [sender |-> j.sender, recipient |-> j.recipient,
                expiryAt |-> j.expiryAt, acknowledged |-> FALSE,
                life |-> lives[j.msg] + 1]]
          /\ Continue(w, "refresh", [msg |-> j.msg])
       \/ /\ ~ Insertable(j)
          /\ Answer(w, "server_error", {})
          /\ UNCHANGED <<envelopes, lives>>
  /\ UNCHANGED <<now, settled>>

\* The row is read back after the commit; by then it may have been deleted.
Refresh(w) ==
  /\ pc[w] = "refresh"
  /\ LET m == job[w].msg IN
       \/ /\ envelopes[m] # NoRow
          /\ Answer(w, "accepted", {<<m, envelopes[m].life>>})
       \/ /\ envelopes[m] = NoRow
          /\ Answer(w, "server_error", {})
  /\ UNCHANGED <<envelopes, now, lives, settled>>

----------------------------------------------------------------------------
(***************************************************************************)
(* GET /messages/inbox                                                     *)
(***************************************************************************)

\* inbox_for_user reads the clock before it runs its query.  `before' is
\* history: the lives that were known to be settled when the request began.
BeginInbox(w, u) ==
  /\ pc[w] = "idle"
  /\ Continue(w, "query", [user |-> u, since |-> now, before |-> settled])
  /\ UNCHANGED <<envelopes, now, lives, settled>>

Visible_AckedToo(m, u, t) ==
  /\ envelopes[m] # NoRow
  /\ envelopes[m].recipient = u
  /\ envelopes[m].expiryAt = Never \/ envelopes[m].expiryAt > t

Visible_NotNull(m, u, t) ==
  /\ envelopes[m] # NoRow
  /\ envelopes[m].recipient = u
  /\ ~ envelopes[m].acknowledged
  /\ envelopes[m].expiryAt # Never /\ envelopes[m].expiryAt > t

Visible(m, u, t) ==
  /\ envelopes[m] # NoRow
  /\ envelopes[m].recipient = u
  /\ ~ envelopes[m].acknowledged
  /\ envelopes[m].expiryAt = Never \/ envelopes[m].expiryAt > t

InboxForUser(w) ==
  /\ pc[w] = "query"
  /\ Answer(w, "inbox",
       {<<m, envelopes[m].life>> :
          m \in {n \in MsgId : Visible(n, job[w].user, job[w].since)}})
  /\ UNCHANGED <<envelopes, now, lives, settled>>

----------------------------------------------------------------------------
(***************************************************************************)
(* POST /messages/ack                                                      *)
(***************************************************************************)

GetForAck_AnyUser(w, u, m) ==
  /\ pc[w] = "idle"
  /\ \/ /\ envelopes[m] = NoRow
        /\ Answer(w, "not_found", {})
     \/ /\ envelopes[m] # NoRow
        /\ Continue(w, "acknowledge",
             [user |-> u, msg |-> m, life |-> envelopes[m].life])
  /\ UNCHANGED <<envelopes, now, lives, settled>>

GetForAck(w, u, m) ==
  /\ pc[w] = "idle"
  /\ \/ /\ envelopes[m] = NoRow
        /\ Answer(w, "not_found", {})
     \/ /\ envelopes[m] # NoRow
        /\ envelopes[m].recipient # u
        /\ Answer(w, "forbidden", {})
     \/ /\ envelopes[m] # NoRow
        /\ envelopes[m].recipient = u
        /\ Continue(w, "acknowledge",
             [user |-> u, msg |-> m, life |-> envelopes[m].life])
  /\ UNCHANGED <<envelopes, now, lives, settled>>

\* The WHERE clause of acknowledge_for_recipient.
Acknowledgeable(m, u) ==
  /\ envelopes[m] # NoRow
  /\ envelopes[m].recipient = u
  /\ ~ envelopes[m].acknowledged

\* An UPDATE that matches no row is logged and answered like one that does.
AcknowledgeForRecipient(w) ==
  /\ pc[w] = "acknowledge"
  /\ LET m == job[w].msg
         life == <<m, job[w].life>>
     IN  /\ \/ /\ Acknowledgeable(m, job[w].user)
               /\ envelopes' = [envelopes EXCEPT ![m].acknowledged = TRUE]
            \/ /\ ~ Acknowledgeable(m, job[w].user)
               /\ UNCHANGED envelopes
         /\ settled' = settled \cup {life}
         /\ Answer(w, "acknowledged", {life})
  /\ UNCHANGED <<now, lives>>

----------------------------------------------------------------------------
(***************************************************************************)
(* POST /messages/delete                                                   *)
(***************************************************************************)

GetForDelete(w, u, m) ==
  /\ pc[w] = "idle"
  /\ \/ /\ envelopes[m] = NoRow
        /\ Answer(w, "not_found", {})
        /\ UNCHANGED settled
     \/ /\ envelopes[m] # NoRow
        /\ envelopes[m].sender # u
        /\ Answer(w, "forbidden", {})
        /\ UNCHANGED settled
     \/ /\ envelopes[m] # NoRow
        /\ envelopes[m].sender = u
        /\ envelopes[m].acknowledged
        /\ settled' = settled \cup {<<m, envelopes[m].life>>}
        /\ Answer(w, "already_delivered", {<<m, envelopes[m].life>>})
     \/ /\ envelopes[m] # NoRow
        /\ envelopes[m].sender = u
        /\ ~ envelopes[m].acknowledged
        /\ Continue(w, "delete",
             [user |-> u, msg |-> m, life |-> envelopes[m].life])
        /\ UNCHANGED settled
  /\ UNCHANGED <<envelopes, now, lives>>

\* The WHERE clause of delete_for_sender_if_undelivered.
Deletable_EvenDelivered(m, u) ==
  envelopes[m] # NoRow /\ envelopes[m].sender = u

Deletable_AnySender(m, u) ==
  envelopes[m] # NoRow /\ ~ envelopes[m].acknowledged

Deletable(m, u) ==
  /\ envelopes[m] # NoRow
  /\ envelopes[m].sender = u
  /\ ~ envelopes[m].acknowledged

\* A DELETE that matches no row is reported as a delivered message.
DeleteForSenderIfUndelivered(w) ==
  /\ pc[w] = "delete"
  /\ LET m == job[w].msg IN
       \/ /\ Deletable(m, job[w].user)
          /\ envelopes' = [envelopes EXCEPT ![m] = NoRow]
          /\ settled' = settled \cup {<<m, envelopes[m].life>>}
          /\ Answer(w, "deleted", {<<m, envelopes[m].life>>})
       \/ /\ ~ Deletable(m, job[w].user)
          /\ settled' = settled \cup {<<m, job[w].life>>}
          /\ Answer(w, "already_delivered", {<<m, job[w].life>>})
          /\ UNCHANGED envelopes
  /\ UNCHANGED <<now, lives>>

----------------------------------------------------------------------------

\* A thread dies between two statements; what it committed stays.
Crash_KeepJob(w) ==
  /\ pc[w] # "idle"
  /\ pc' = [pc EXCEPT ![w] = "idle"]
  /\ reply' = [reply EXCEPT ![w] = NoReply]
  /\ UNCHANGED <<envelopes, now, job, lives, settled>>

Crash(w) ==
  /\ pc[w] # "idle"
  /\ pc' = [pc EXCEPT ![w] = "idle"]
  /\ job' = [job EXCEPT ![w] = NoJob]
  /\ reply' = [reply EXCEPT ![w] = NoReply]
  /\ UNCHANGED <<envelopes, now, lives, settled>>

Tick ==
  /\ now < MaxTime
  /\ now' = now + 1
  /\ UNCHANGED <<envelopes, pc, job, reply, lives, settled>>

Init ==
  /\ envelopes = [m \in MsgId |-> NoRow]
  /\ now = 0
  /\ pc = [w \in Worker |-> "idle"]
  /\ job = [w \in Worker |-> NoJob]
  /\ reply = [w \in Worker |-> NoReply]
  /\ lives = [m \in MsgId |-> 0]
  /\ settled = {}

\* The statements of a request that has begun.
Handle(w) ==
  \/ Create(w)
  \/ Refresh(w)
  \/ InboxForUser(w)
  \/ AcknowledgeForRecipient(w)
  \/ DeleteForSenderIfUndelivered(w)

Next ==
  \/ \E w \in Worker, u \in User, m \in MsgId :
       \/ \E r \in User, sent \in Time, expires \in Time \cup {Never},
             resolves \in BOOLEAN :
            BeginSend(w, u, m, r, sent, expires, resolves)
       \/ GetForAck(w, u, m)
       \/ GetForDelete(w, u, m)
  \/ \E w \in Worker, u \in User : BeginInbox(w, u)
  \/ \E w \in Worker : Handle(w) \/ Crash(w)
  \/ Tick

Spec == Init /\ [][Next]_vars

----------------------------------------------------------------------------
(***************************************************************************)
(* Properties                                                              *)
(***************************************************************************)

\* What a thread carries to its next statement; an idle one carries nothing.
Carries(statement, j) ==
  /\ statement \in
       {"idle", "create", "refresh", "query", "acknowledge", "delete"}
  /\ statement = "idle" => j = NoJob
  /\ statement = "create" =>
       j \in [sender : User, msg : MsgId, recipient : User,
              expiryAt : Time \cup {Never}, resolves : BOOLEAN]
  /\ statement = "refresh" => j \in [msg : MsgId]
  /\ statement = "query" =>
       j \in [user : User, since : Time, before : SUBSET Life]
  /\ statement \in {"acknowledge", "delete"} =>
       j \in [user : User, msg : MsgId, life : Ordinal]

\* The type invariant: the columns of the table, and threads that never mix
\* up what they carry between the statements of different requests.
TypeOK ==
  /\ envelopes \in [MsgId -> Envelope \cup {NoRow}]
  /\ now \in Time
  /\ DOMAIN pc = Worker /\ DOMAIN job = Worker
  /\ \A w \in Worker : Carries(pc[w], job[w])
  /\ reply \in [Worker -> [status : Status, about : SUBSET Life]]
  /\ lives \in [MsgId -> 0 .. MaxLives]
  /\ settled \in SUBSET Life

\* What has become of the k-th of `last' rows inserted under an identifier,
\* when `row' is what the table holds under it now.
FateOf(row, last, k) ==
  CASE k > last -> "unborn"
    [] k < last \/ (k = last /\ row = NoRow) -> "deleted"
    [] OTHER -> IF row.acknowledged THEN "acknowledged" ELSE "pending"

Fate(m, k) == FateOf(envelopes[m], lives[m], k)

\* Once a client has been told that a message is acknowledged, deleted or
\* already delivered, it is no longer pending and never will be again, even
\* though acknowledge() and delete() answer that from an UPDATE or DELETE
\* that matched no row.
SettledIsFinal ==
  \A life \in settled : Fate(life[1], life[2]) \in {"acknowledged", "deleted"}

\* An inbox answer contains no message whose end somebody had been told
\* before the request began, and none that had expired by then: the recipient
\* does not see again what it acknowledged, nor what the sender withdrew.
NoLateDelivery ==
  [][\A w \in Worker :
       pc[w] = "query" /\ pc'[w] = "idle" =>
         \A life \in reply'[w].about :
           /\ life \notin job[w].before
           /\ envelopes[life[1]].expiryAt # Never =>
                job[w].since < envelopes[life[1]].expiryAt]_vars

\* Nothing that a sender was told is accepted is missing from the inbox of its
\* recipient while it is pending, unless it had expired when the request began.
AcceptedIsDelivered ==
  [][\A w, v \in Worker :
       pc[w] = "query" /\ pc'[w] = "idle" /\ reply'[w].status = "inbox"
         /\ reply[v].status = "accepted" =>
         \A life \in reply[v].about :
           LET row == envelopes[life[1]] IN
             /\ Fate(life[1], life[2]) = "pending"
             /\ row.recipient = job[w].user
             /\ row.expiryAt = Never \/ row.expiryAt > job[w].since
             => life \in reply'[w].about]_vars

\* A row disappears only when its sender deletes it before it is delivered,
\* and only its recipient acknowledges it.  Between the read that checked the
\* owner and the statement that acts, the row may have been replaced by
\* somebody else's under the same identifier, or have been delivered.
OnlyOwnersSettle ==
  [][\A m \in MsgId :
       envelopes[m] # NoRow /\ envelopes'[m] # envelopes[m] =>
         \E w \in Worker :
           \/ /\ pc[w] = "delete" /\ reply'[w].status = "deleted"
              /\ ~ envelopes[m].acknowledged
              /\ envelopes'[m] = NoRow
              /\ job[w].user = envelopes[m].sender
           \/ /\ pc[w] = "acknowledge" /\ reply'[w].status = "acknowledged"
              /\ envelopes'[m] = [envelopes[m] EXCEPT !.acknowledged = TRUE]
              /\ job[w].user = envelopes[m].recipient]_vars

\* The relay keeps the promise of Mailbox.
M == INSTANCE Mailbox WITH
       fate <- [m \in MsgId |-> [k \in Ordinal |-> Fate(m, k)]],
       told <- settled

ImplementsMailbox == M!Spec

\* The 409 of the delete route, "Message already delivered", is answered for
\* messages that were delivered, that is acknowledged.
ConflictMeansDelivered ==
  \A w \in Worker :
    reply[w].status = "already_delivered" =>
      \A life \in reply[w].about : Fate(life[1], life[2]) = "acknowledged"

=============================================================================
