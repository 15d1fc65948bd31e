----------------------------- MODULE Messenger -----------------------------
(***************************************************************************)
(* Relay and Conversations over one database.  They meet at the column     *)
(* conversation_id of message_envelopes, which references conversations:   *)
(* get-or-create answers an identifier, and a send names one.  The server  *)
(* checks that the conversation exists and nothing more, in particular not *)
(* that it is the one of the sender and the recipient.                     *)
(*                                                                         *)
(* Both components run as they do alone.  What Relay leaves open, whether  *)
(* the reference of a send resolves, is decided here by the table when the *)
(* row is inserted.  The users are those who have registered.              *)
(***************************************************************************)
EXTENDS Naturals

CONSTANTS
  User,         \* registered users; numbers, as their ids are sorted
  MsgId,        \* message identifiers
  Id,           \* conversation identifiers
  Sender,       \* request threads that serve the relay
  Opener,       \* request threads that serve conversations
  ForeignKeys,
  MaxLifetime,
  MaxTime,      \* bound: the clock stops here
  MaxLives,     \* bound: insertions of one message identifier
  NoRow, Never, NoJob, Undecided

VARIABLES
  envelopes, now, pc, job, reply, lives, settled,  \* Relay
  rows, cpc, cjob, creply, told,                   \* Conversations
  named,  \* the conversation that the send on a thread names
  filed   \* the column conversation_id: [MsgId -> what the send named]

relay == <<envelopes, now, pc, job, reply, lives, settled>>

directory == <<rows, cpc, cjob, creply, told>>

vars == <<relay, directory, named, filed>>

R == INSTANCE Relay WITH Worker <- Sender

C == INSTANCE Conversations WITH
       Name <- User, Registered <- User, Worker <- Opener,
       pc <- cpc, job <- cjob, reply <- creply

ASSUME MessengerAssumption ==
  /\ User \subseteq Nat
  /\ Undecided \notin Id
  /\ ForeignKeys \in BOOLEAN
  /\ MaxTime \in Nat
  /\ MaxLifetime \in Nat
  /\ MaxLives \in Nat
  /\ NoRow \notin R!Envelope
  /\ Never \notin Nat

\* `answered' is history: get-or-create had answered the conversation for the
\* sender and the recipient when the send began.
Reference == [conversation : Id, answered : BOOLEAN]

Converse == C!Next /\ UNCHANGED <<relay, named, filed>>

BeginSend(w, u, m, r, c) ==
  /\ \E sent \in R!Time, expires \in R!Time \cup {Never}, resolves \in BOOLEAN :
       R!BeginSend(w, u, m, r, sent, expires, resolves)
  /\ named' = [named EXCEPT ![w] =
       [conversation |-> c, answered |-> <<{u, r}, c>> \in told]]
  /\ UNCHANGED <<directory, filed>>

\* The foreign key of the row resolves.
Exists(c) == \E row \in rows : row.id = c

\* Relay has guessed at the start of the request what holds when it inserts.
Create_Unfiled(w) ==
  /\ R!Create(w)
  /\ job[w].resolves = Exists(named[w].conversation)
  /\ UNCHANGED <<directory, named, filed>>

Create(w) ==
  /\ R!Create(w)
  /\ job[w].resolves = Exists(named[w].conversation)
  /\ filed' = IF envelopes' = envelopes THEN filed
              ELSE [filed EXCEPT ![job[w].msg] = named[w]]
  /\ UNCHANGED <<directory, named>>

\* The steps of the relay that do not look at conversations.
Relayed ==
  /\ \/ \E w \in Sender, u \in User :
          \/ R!BeginInbox(w, u)
          \/ \E m \in MsgId : R!GetForAck(w, u, m) \/ R!GetForDelete(w, u, m)
     \/ \E w \in Sender :
          \/ R!Refresh(w)
          \/ R!InboxForUser(w)
          \/ R!AcknowledgeForRecipient(w)
          \/ R!DeleteForSenderIfUndelivered(w)
          \/ R!Crash(w)
     \/ R!Tick
  /\ UNCHANGED <<directory, named, filed>>

Init ==
  /\ R!Init
  /\ C!Init
  /\ named = [w \in Sender |-> NoJob]
  /\ filed = [m \in MsgId |-> NoJob]

Next ==
  \/ Converse
  \/ \E w \in Sender, u, r \in User, m \in MsgId, c \in Id :
       BeginSend(w, u, m, r, c)
  \/ \E w \in Sender : Create(w)
  \/ Relayed

Spec == Init /\ [][Next]_vars

----------------------------------------------------------------------------
(***************************************************************************)
(* Properties                                                              *)
(***************************************************************************)

\* A send that has begun names a conversation, and so does every stored row.
TypeOK ==
  /\ named \in [Sender -> Reference \cup {NoJob}]
  /\ filed \in [MsgId -> Reference \cup {NoJob}]
  /\ \A w \in Sender : pc[w] = "create" => named[w] \in Reference
  /\ \A m \in MsgId : envelopes[m] # NoRow => filed[m] \in Reference

Parties(m) == {envelopes[m].sender, envelopes[m].recipient}

\* Clients that name the conversations they were answered keep one thread: all
\* stored messages between two users, in either direction and whoever opened the
\* conversation, are in one conversation, and it is theirs.
OneThread ==
  \A m \in MsgId : envelopes[m] # NoRow /\ filed[m].answered =>
    /\ \E row \in rows :
         row.id = filed[m].conversation /\ {row.a, row.b} = Parties(m)
    /\ \A n \in MsgId :
         envelopes[n] # NoRow /\ filed[n].answered /\ Parties(n) = Parties(m)
           => filed[n].conversation = filed[m].conversation

\* A send that names a conversation which was answered for its users is refused
\* only if its message identifier is in use: what get-or-create answers has been
\* committed.
AnsweredIsSendable ==
  [][\A w \in Sender :
       /\ pc[w] = "create" /\ reply'[w].status = "server_error"
       /\ named[w].answered
       => envelopes[job[w].msg] # NoRow]_vars

\* Whoever has seen such a message in an inbox finds its conversation in the
\* list of conversations, without having opened it.
ReadersFindIt ==
  [][\A w \in Opener, u \in User : C!ListForUser(w, u) =>
       \A v \in Sender : \A life \in reply[v].about :
         LET m == life[1] IN
           /\ reply[v].status = "inbox"
           /\ envelopes[m] # NoRow
           /\ envelopes[m].life = life[2] /\ envelopes[m].recipient = u
           /\ filed[m].answered
           => filed[m].conversation \in creply'[w].ids]_vars
=============================================================================
