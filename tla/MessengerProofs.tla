-------------------------- MODULE MessengerProofs --------------------------
(***************************************************************************)
(* What Messenger guarantees for any number of users, messages and         *)
(* threads.  The argument: the two components run in the composition as    *)
(* they do alone, so their theorems hold of it; what a send was told when  *)
(* it began is still told when its row is inserted and ever after          *)
(* (StillTold), because answers are never taken back; and every answer is  *)
(* recorded in the table of conversations, which decides one identifier    *)
(* for a pair.                                                             *)
(***************************************************************************)
EXTENDS Messenger, TLAPS

RP == INSTANCE RelayProofs WITH Worker <- Sender

CP == INSTANCE ConversationsProofs WITH
        Name <- User, Registered <- User, Worker <- Opener,
        pc <- cpc, job <- cjob, reply <- creply

----------------------------------------------------------------------------
(* The components' own theorems.                                           *)

LEMMA ComponentAssumptions ==
  RP!RelayAssumption /\ CP!ConversationsAssumption
BY MessengerAssumption
DEF RP!RelayAssumption, CP!ConversationsAssumption, R!Envelope, RP!Envelope,
    R!Time, RP!Time, R!Ordinal, RP!Ordinal

LEMMA SameConversations ==
  /\ C!Init => CP!Init
  /\ C!Next => CP!Next
BY DEF C!Init, C!Next, C!Begin, C!Lookup, C!Insert, C!Refresh, C!Requery,
       C!Crash, C!ListForUser, C!Answer, C!Continue, C!AnswerFound, C!Fresh,
       C!Canonicalize, C!Matching, C!Insertable, C!Listed, C!NoReply,
       CP!Init, CP!Next, CP!Begin, CP!Lookup, CP!Insert, CP!Refresh,
       CP!Requery, CP!Crash, CP!ListForUser, CP!Answer, CP!Continue,
       CP!AnswerFound, CP!Fresh, CP!Canonicalize, CP!Matching, CP!Insertable,
       CP!Listed, CP!NoReply

LEMMA SameRelay ==
  /\ R!Init => RP!Init
  /\ R!Next => RP!Next
BY DEF R!Init, R!Next, R!Handle, R!BeginSend, R!ValidExpiry, R!Create,
       R!Insertable, R!Refresh, R!BeginInbox, R!InboxForUser, R!Visible,
       R!GetForAck, R!AcknowledgeForRecipient, R!Acknowledgeable,
       R!GetForDelete, R!DeleteForSenderIfUndelivered, R!Deletable, R!Crash,
       R!Tick, R!Answer, R!Continue, R!NoReply, R!Time,
       RP!Init, RP!Next, RP!Handle, RP!BeginSend, RP!ValidExpiry, RP!Create,
       RP!Insertable, RP!Refresh, RP!BeginInbox, RP!InboxForUser, RP!Visible,
       RP!GetForAck, RP!AcknowledgeForRecipient, RP!Acknowledgeable,
       RP!GetForDelete, RP!DeleteForSenderIfUndelivered, RP!Deletable,
       RP!Crash, RP!Tick, RP!Answer, RP!Continue, RP!NoReply, RP!Time

LEMMA RunsConversations == Spec => CP!Spec
<1>1. Init => CP!Init
  BY SameConversations DEF Init
<1>2. [Next]_vars => [CP!Next]_(CP!vars)
  <2>1. CASE UNCHANGED directory
    BY <2>1 DEF directory, CP!vars
  <2>2. CASE Converse
    BY <2>2, SameConversations DEF Converse
  <2> QED BY <2>1, <2>2 DEF Next, vars, BeginSend, Create, Relayed
<1> QED BY <1>1, <1>2, PTL DEF Spec, CP!Spec

LEMMA RunsRelay == Spec => RP!Spec
<1>1. Init => RP!Init
  BY SameRelay DEF Init
<1>2. [Next]_vars => [RP!Next]_(RP!vars)
  <2>1. CASE UNCHANGED relay
    BY <2>1 DEF relay, RP!vars
  <2>2. CASE R!Next
    BY <2>2, SameRelay
  <2>3. Next => R!Next \/ UNCHANGED relay
    BY DEF Next, Converse, BeginSend, Create, Relayed, R!Next, R!Handle
  <2> QED BY <2>1, <2>2, <2>3 DEF vars
<1> QED BY <1>1, <1>2, PTL DEF Spec, RP!Spec
LEMMA RelayTypes == Spec => []RP!TypeOK
<1>1. RP!Spec => []RP!TypeOK
  BY RP!TypeCorrect, ComponentAssumptions
<1> QED BY <1>1, RunsRelay, PTL

LEMMA ConversationsHold == Spec => [](CP!IndInv /\ CP!Agreement)
<1>1. CP!Spec => []CP!IndInv
  BY CP!Invariance, ComponentAssumptions
<1>2. CP!Spec => []CP!Agreement
  BY CP!AnswersAgree, ComponentAssumptions
<1> QED BY <1>1, <1>2, RunsConversations, PTL

\* Run over one database, the relay and the conversations still keep what they
\* promise alone, Mailbox and Registry, and what clients are told of messages
\* and conversations stays as true as it is there.
THEOREM ComponentsKeepTheirPromises ==
  Spec => /\ RP!ImplementsMailbox /\ CP!ImplementsRegistry
          /\ []RP!SettledIsFinal /\ RP!AcceptedIsDelivered /\ RP!NoLateDelivery
          /\ CP!ListIsComplete
<1>1. RP!Spec => RP!ImplementsMailbox
  BY RP!Implements, ComponentAssumptions
<1>2. CP!Spec => CP!ImplementsRegistry
  BY CP!Implements, ComponentAssumptions
<1>3. RP!Spec => []RP!SettledIsFinal
  BY RP!SettledStaysFinal, ComponentAssumptions
<1>4. RP!Spec => RP!AcceptedIsDelivered
  BY RP!InboxIsComplete, ComponentAssumptions
<1>5. RP!Spec => RP!NoLateDelivery
  BY RP!InboxIsCurrent, ComponentAssumptions
<1>6. CP!Spec => CP!ListIsComplete
  BY CP!ListsAreComplete, ComponentAssumptions
<1> QED
  BY <1>1, <1>2, <1>3, <1>4, <1>5, <1>6, RunsRelay, RunsConversations, PTL

----------------------------------------------------------------------------
(* What the composition adds.                                              *)

\* A send that has begun was told what it names, if it says so, and has not
\* been answered; and every stored row was told what it names.
StillTold ==
  /\ \A w \in Sender : pc[w] = "create" =>
       /\ reply[w].status = "none"
       /\ named[w].answered =>
            <<{job[w].sender, job[w].recipient}, named[w].conversation>> \in told
  /\ \A m \in MsgId : envelopes[m] # NoRow /\ filed[m].answered =>
       <<Parties(m), filed[m].conversation>> \in told

IndInv == TypeOK /\ StillTold

\* Answers are never taken back.
LEMMA ToldGrows ==
  ASSUME C!Next \/ UNCHANGED told
  PROVE  told \subseteq told'
<1>1. ASSUME NEW w \in Opener, NEW found, C!AnswerFound(w, found)
      PROVE  told \subseteq told'
  BY <1>1 DEF C!AnswerFound
<1> QED
  BY <1>1 DEF C!Next, C!Begin, C!Lookup, C!Insert, C!Refresh, C!Requery,
              C!Crash, C!ListForUser

\* No send begins; those that have begun stay as they are or end.
NoNewSend ==
  \A w \in Sender : pc'[w] = "create" =>
    pc[w] = "create" /\ job'[w] = job[w] /\ reply'[w] = reply[w]

\* No row appears or changes hands.
NoNewRow ==
  \A m \in MsgId : envelopes'[m] # NoRow =>
    /\ envelopes[m] # NoRow
    /\ envelopes'[m].sender = envelopes[m].sender
    /\ envelopes'[m].recipient = envelopes[m].recipient

LEMMA AnswerStartsNoSend ==
  ASSUME RP!TypeOK, NEW w \in Sender, NEW status, NEW about,
         R!Answer(w, status, about)
  PROVE  NoNewSend
BY DEF RP!TypeOK, R!Answer, NoNewSend

LEMMA ContinueStartsNoSend ==
  ASSUME RP!TypeOK, NEW w \in Sender, NEW statement, NEW carried,
         statement # "create", R!Continue(w, statement, carried)
  PROVE  NoNewSend
BY DEF RP!TypeOK, R!Continue, NoNewSend

LEMMA RelayedStartsNoSend ==
  ASSUME RP!TypeOK, Relayed
  PROVE  NoNewSend
<1>1. ASSUME NEW w \in Sender, NEW u \in User,
             \/ R!BeginInbox(w, u)
             \/ \E m \in MsgId : R!GetForAck(w, u, m) \/ R!GetForDelete(w, u, m)
      PROVE  NoNewSend
  BY <1>1, AnswerStartsNoSend, ContinueStartsNoSend
  DEF R!BeginInbox, R!GetForAck, R!GetForDelete
<1>2. ASSUME NEW w \in Sender,
             R!Refresh(w) \/ R!InboxForUser(w) \/ R!AcknowledgeForRecipient(w)
               \/ R!DeleteForSenderIfUndelivered(w)
      PROVE  NoNewSend
  BY <1>2, AnswerStartsNoSend
  DEF R!Refresh, R!InboxForUser, R!AcknowledgeForRecipient,
      R!DeleteForSenderIfUndelivered
<1>3. ASSUME NEW w \in Sender, R!Crash(w) PROVE NoNewSend
  BY <1>3 DEF RP!TypeOK, R!Crash, NoNewSend
<1>4. CASE R!Tick
  BY <1>4 DEF R!Tick, NoNewSend
<1> QED BY <1>1, <1>2, <1>3, <1>4 DEF Relayed

LEMMA RelayedAddsNoRow ==
  ASSUME RP!TypeOK, Relayed
  PROVE  NoNewRow
<1>1. ASSUME NEW w \in Sender, R!AcknowledgeForRecipient(w) PROVE NoNewRow
  <2>1. CASE UNCHANGED envelopes
    BY <2>1 DEF NoNewRow
  <2>2. CASE /\ R!Acknowledgeable(job[w].msg, job[w].user)
             /\ envelopes' =
                  [envelopes EXCEPT ![job[w].msg].acknowledged = TRUE]
    <3>1. PICK m : m = job[w].msg
      OBVIOUS
    <3>2. /\ envelopes[m] # NoRow
          /\ envelopes' = [envelopes EXCEPT ![m] =
               [envelopes[m] EXCEPT !.acknowledged = TRUE]]
      BY <2>2, <3>1 DEF R!Acknowledgeable
    <3>3. ASSUME NEW n \in MsgId, n = m
          PROVE  /\ envelopes'[n].sender = envelopes[n].sender
                 /\ envelopes'[n].recipient = envelopes[n].recipient
      <4>1. envelopes[n] \in RP!Envelope
        BY <3>2, <3>3 DEF RP!TypeOK
      <4>2. envelopes'[n] = [envelopes[n] EXCEPT !.acknowledged = TRUE]
        BY <3>2, <3>3 DEF RP!TypeOK
      <4> QED BY <4>1, <4>2 DEF RP!Envelope
    <3>4. ASSUME NEW n \in MsgId, n # m PROVE envelopes'[n] = envelopes[n]
      BY <3>2, <3>4 DEF RP!TypeOK
    <3> QED BY <3>2, <3>3, <3>4 DEF NoNewRow
  <2> QED BY <1>1, <2>1, <2>2 DEF R!AcknowledgeForRecipient
<1>2. ASSUME NEW w \in Sender, R!DeleteForSenderIfUndelivered(w) PROVE NoNewRow
  <2>1. CASE UNCHANGED envelopes
    BY <2>1 DEF NoNewRow
  <2>2. CASE envelopes' = [envelopes EXCEPT ![job[w].msg] = NoRow]
    BY <2>2 DEF RP!TypeOK, NoNewRow
  <2> QED BY <1>2, <2>1, <2>2 DEF R!DeleteForSenderIfUndelivered
<1>3. CASE UNCHANGED envelopes
  BY <1>3 DEF NoNewRow
<1> QED
  BY <1>1, <1>2, <1>3
  DEF Relayed, R!BeginInbox, R!GetForAck, R!GetForDelete, R!Refresh,
      R!InboxForUser, R!Crash, R!Tick
----------------------------------------------------------------------------
(* The inductive invariant.                                                *)

\* What holds of sends and rows is kept by steps that start and add none.
LEMMA FrameKeeps ==
  ASSUME IndInv, NoNewSend, NoNewRow, told \subseteq told',
         named' = named, filed' = filed
  PROVE  IndInv'
<1>1. TypeOK'
  BY DEF IndInv, TypeOK, NoNewSend, NoNewRow
<1>2. ASSUME NEW w \in Sender, pc'[w] = "create"
      PROVE  /\ reply'[w].status = "none"
             /\ named'[w].answered =>
                  <<{job'[w].sender, job'[w].recipient},
                    named'[w].conversation>> \in told'
  BY <1>2 DEF IndInv, StillTold, NoNewSend
<1>3. ASSUME NEW m \in MsgId, envelopes'[m] # NoRow, filed'[m].answered
      PROVE  <<Parties(m)', filed'[m].conversation>> \in told'
  <2>1. Parties(m)' = Parties(m) /\ envelopes[m] # NoRow
    BY <1>3 DEF NoNewRow, Parties
  <2> QED BY <1>3, <2>1 DEF IndInv, StillTold
<1> QED BY <1>1, <1>2, <1>3 DEF IndInv, StillTold

LEMMA StutterFrames ==
  ASSUME UNCHANGED relay
  PROVE  NoNewSend /\ NoNewRow
BY DEF relay, NoNewSend, NoNewRow

LEMMA BeginSendKeeps ==
  ASSUME IndInv, RP!TypeOK,
         NEW w \in Sender, NEW u \in User, NEW r \in User, NEW m \in MsgId,
         NEW c \in Id, BeginSend(w, u, m, r, c)
  PROVE  IndInv'
<1>a. PICK answered \in BOOLEAN : answered = (<<{u, r}, c>> \in told)
  <2>1. CASE <<{u, r}, c>> \in told
    BY <2>1, TRUE = (<<{u, r}, c>> \in told)
  <2>2. CASE ~ <<{u, r}, c>> \in told
    BY <2>2, FALSE = (<<{u, r}, c>> \in told)
  <2> QED BY <2>1, <2>2
<1> DEFINE reference == [conversation |-> c, answered |-> answered]
<1>1. /\ reference \in Reference /\ reference.conversation = c
      /\ reference.answered => <<{u, r}, c>> \in told
  BY <1>a DEF Reference
<1>2. /\ named' = [named EXCEPT ![w] = reference]
      /\ filed' = filed /\ told' = told /\ envelopes' = envelopes
  BY <1>a DEF BeginSend, R!BeginSend, directory
<1> HIDE DEF reference
<1>3. /\ named' \in [Sender -> Reference \cup {NoJob}]
      /\ named'[w] = reference
      /\ \A v \in Sender : v # w => named'[v] = named[v]
  BY <1>1, <1>2 DEF IndInv, TypeOK
<1>4. ASSUME NEW v \in Sender, v # w
      PROVE  pc'[v] = pc[v] /\ job'[v] = job[v] /\ reply'[v] = reply[v]
  BY <1>4 DEF BeginSend, R!BeginSend, R!Answer, R!Continue, RP!TypeOK
<1>5. pc'[w] = "create" =>
        reply'[w].status = "none" /\ job'[w].sender = u /\ job'[w].recipient = r
  <2>1. PICK carried, expires, resolves :
          /\ carried = [sender |-> u, msg |-> m, recipient |-> r,
                        expiryAt |-> expires, resolves |-> resolves]
          /\ R!Answer(w, "invalid", {}) \/ R!Continue(w, "create", carried)
    BY DEF BeginSend, R!BeginSend
  <2>2. CASE R!Answer(w, "invalid", {})
    BY <2>2 DEF R!Answer, RP!TypeOK
  <2>3. CASE R!Continue(w, "create", carried)
    <3>1. job'[w] = carried /\ reply'[w] = R!NoReply
      BY <2>3 DEF R!Continue, RP!TypeOK
    <3> QED BY <2>1, <3>1 DEF R!NoReply
  <2> QED BY <2>1, <2>2, <2>3
<1>6. TypeOK'
  BY <1>1, <1>2, <1>3, <1>4 DEF IndInv, TypeOK
<1>7. ASSUME NEW v \in Sender, pc'[v] = "create"
      PROVE  /\ reply'[v].status = "none"
             /\ named'[v].answered =>
                  <<{job'[v].sender, job'[v].recipient},
                    named'[v].conversation>> \in told'
  <2>1. CASE v = w
    BY <1>1, <1>2, <1>3, <1>5, <1>7, <2>1
  <2>2. CASE v # w
    BY <1>2, <1>3, <1>4, <1>7, <2>2 DEF IndInv, StillTold
  <2> QED BY <2>1, <2>2
<1>8. \A n \in MsgId : Parties(n)' = Parties(n)
  BY <1>2 DEF Parties
<1> QED BY <1>2, <1>6, <1>7, <1>8 DEF IndInv, StillTold

\* Create ends the send, and what it names becomes what its row names.
LEMMA CreateKeeps ==
  ASSUME IndInv, RP!TypeOK, NEW w \in Sender, Create(w)
  PROVE  IndInv'
<1>1. NoNewSend
  BY AnswerStartsNoSend, ContinueStartsNoSend DEF Create, R!Create
<1>2. named' = named /\ told' = told /\ pc[w] = "create"
  BY DEF Create, R!Create, directory
<1>3. CASE envelopes' = envelopes
  BY <1>1, <1>2, <1>3, FrameKeeps DEF Create, NoNewRow
<1>4. CASE envelopes' # envelopes
  <2>1. PICK j : j = job[w]
    OBVIOUS
  <2>2. j.msg \in MsgId
    BY <1>2, <2>1 DEF RP!TypeOK, RP!Carries
  <2>3. PICK row :
          /\ row.sender = j.sender /\ row.recipient = j.recipient
          /\ envelopes' = [envelopes EXCEPT ![j.msg] = row]
    BY <1>4, <2>1 DEF Create, R!Create
  <2>4. filed' = [filed EXCEPT ![j.msg] = named[w]]
    BY <1>4, <2>1 DEF Create
  <2>5. /\ envelopes'[j.msg] = row /\ filed'[j.msg] = named[w]
        /\ \A n \in MsgId : n # j.msg =>
             envelopes'[n] = envelopes[n] /\ filed'[n] = filed[n]
        /\ named[w] \in Reference
        /\ filed' \in [MsgId -> Reference \cup {NoJob}]
    BY <1>2, <2>2, <2>3, <2>4 DEF RP!TypeOK, IndInv, TypeOK
  <2>6. TypeOK'
    BY <1>1, <1>2, <2>5 DEF IndInv, TypeOK, NoNewSend
  <2>7. ASSUME NEW v \in Sender, pc'[v] = "create"
        PROVE  /\ reply'[v].status = "none"
               /\ named'[v].answered =>
                    <<{job'[v].sender, job'[v].recipient},
                      named'[v].conversation>> \in told'
    BY <1>1, <1>2, <2>7 DEF IndInv, StillTold, NoNewSend
  <2>8. ASSUME NEW n \in MsgId, envelopes'[n] # NoRow, filed'[n].answered
        PROVE  <<Parties(n)', filed'[n].conversation>> \in told'
    <3>1. CASE n = j.msg
      <4>1. Parties(n)' = {j.sender, j.recipient}
        BY <2>3, <2>5, <3>1 DEF Parties
      <4>2. named[w].answered =>
              <<{j.sender, j.recipient}, named[w].conversation>> \in told
        BY <1>2, <2>1 DEF IndInv, StillTold
      <4> QED BY <1>2, <2>5, <2>8, <3>1, <4>1, <4>2
    <3>2. CASE n # j.msg
      <4>1. Parties(n)' = Parties(n)
        BY <2>5, <3>2 DEF Parties
      <4> QED BY <1>2, <2>5, <2>8, <3>2, <4>1 DEF IndInv, StillTold
    <3> QED BY <3>1, <3>2
  <2> QED BY <2>6, <2>7, <2>8 DEF IndInv, StillTold
<1> QED BY <1>3, <1>4

LEMMA InitInv == Init => IndInv
BY DEF Init, R!Init, IndInv, TypeOK, StillTold

LEMMA NextInv == IndInv /\ RP!TypeOK /\ [Next]_vars => IndInv'
<1> SUFFICES ASSUME IndInv, RP!TypeOK, [Next]_vars PROVE IndInv'
  OBVIOUS
<1>1. CASE Converse
  BY <1>1, StutterFrames, ToldGrows, FrameKeeps DEF Converse
<1>2. CASE Relayed
  BY <1>2, RelayedStartsNoSend, RelayedAddsNoRow, FrameKeeps
  DEF Relayed, directory
<1>3. CASE UNCHANGED vars
  BY <1>3, StutterFrames, FrameKeeps DEF vars, directory
<1> QED BY <1>1, <1>2, <1>3, BeginSendKeeps, CreateKeeps DEF Next

\* What a send was told when it began is told from then on, also of its row.
THEOREM Invariance == Spec => []IndInv
<1> QED BY RelayTypes, InitInv, NextInv, PTL DEF Spec
----------------------------------------------------------------------------
(* What follows from the invariant and the components' theorems.           *)

\* The conversation that a row was told is in the table, and is that of the
\* row's users.
LEMMA RowHasConversation ==
  ASSUME StillTold, CP!IndInv,
         NEW m \in MsgId, envelopes[m] # NoRow, filed[m].answered
  PROVE  \E row \in rows :
           row.id = filed[m].conversation /\ {row.a, row.b} = Parties(m)
<1>1. <<Parties(m), filed[m].conversation>> \in told
  BY DEF StillTold
<1> QED BY <1>1 DEF CP!IndInv, CP!Recorded

\* Sends that have begun and rows that are stored name a conversation.
THEOREM TypeCorrect == Spec => []TypeOK
<1>1. IndInv => TypeOK
  BY DEF IndInv
<1> QED BY <1>1, Invariance, PTL

\* Messages between two users whose senders name what get-or-create answered
\* are in one conversation, which is that of the two.
THEOREM Threads == Spec => []OneThread
<1>1. IndInv /\ CP!IndInv /\ CP!Agreement => OneThread
  <2> SUFFICES ASSUME IndInv, CP!IndInv, CP!Agreement, NEW m \in MsgId,
                      envelopes[m] # NoRow, filed[m].answered
               PROVE  /\ \E row \in rows : /\ row.id = filed[m].conversation
                                           /\ {row.a, row.b} = Parties(m)
                      /\ \A n \in MsgId :
                           /\ envelopes[n] # NoRow /\ filed[n].answered
                           /\ Parties(n) = Parties(m)
                           => filed[n].conversation = filed[m].conversation
    BY DEF OneThread
  <2>1. \E row \in rows :
          row.id = filed[m].conversation /\ {row.a, row.b} = Parties(m)
    BY RowHasConversation DEF IndInv
  <2>2. ASSUME NEW n \in MsgId, envelopes[n] # NoRow, filed[n].answered,
               Parties(n) = Parties(m)
        PROVE  filed[n].conversation = filed[m].conversation
    <3>1. PICK first \in told : first = <<Parties(m), filed[m].conversation>>
      BY DEF IndInv, StillTold
    <3>2. PICK second \in told : second = <<Parties(n), filed[n].conversation>>
      BY <2>2 DEF IndInv, StillTold
    <3>3. first[1] = second[1] => first[2] = second[2]
      BY DEF CP!Agreement
    <3> QED BY <2>2, <3>1, <3>2, <3>3
  <2> QED BY <2>1, <2>2
<1> QED BY <1>1, Invariance, ConversationsHold, PTL

\* A conversation that was answered never makes the foreign key of a send fail.
THEOREM AnswersAreSendable == Spec => AnsweredIsSendable
<1> DEFINE Refusal ==
      \A w \in Sender :
        /\ pc[w] = "create" /\ reply'[w].status = "server_error"
        /\ named[w].answered
        => envelopes[job[w].msg] # NoRow
<1>1. ASSUME IndInv, CP!IndInv, RP!TypeOK, Next PROVE Refusal
  <2> SUFFICES ASSUME NEW w \in Sender, pc[w] = "create",
                      reply'[w].status = "server_error", named[w].answered
               PROVE  envelopes[job[w].msg] # NoRow
    OBVIOUS
  <2>1. reply[w].status = "none"
    BY <1>1 DEF IndInv, StillTold
  <2>2. CASE Create(w)
    <3>1. <<{job[w].sender, job[w].recipient}, named[w].conversation>> \in told
      BY <1>1 DEF IndInv, StillTold
    <3>2. Exists(named[w].conversation)
      BY <1>1, <3>1 DEF CP!IndInv, CP!Recorded, Exists
    <3>3. job[w].resolves
      BY <2>2, <3>2 DEF Create
    <3>4. ~ R!Insertable(job[w])
      <4>1. CASE R!Insertable(job[w])
        <5>1. PICK j, carried : R!Continue(w, "refresh", carried) /\ j = job[w]
          BY <2>2, <4>1 DEF Create, R!Create
        <5>2. reply'[w].status = "none"
          BY <1>1, <5>1 DEF R!Continue, R!NoReply, RP!TypeOK
        <5> QED BY <5>2
      <4> QED BY <4>1
    <3> QED BY <3>3, <3>4 DEF R!Insertable
  <2>3. ASSUME NEW v \in Sender, v # w, NEW status, NEW third,
               R!Answer(v, status, third) \/ R!Continue(v, status, third)
        PROVE  reply'[w] = reply[w]
    BY <1>1, <2>3 DEF R!Answer, R!Continue, RP!TypeOK
  <2>4. CASE \E v \in Sender : v # w /\ Create(v)
    BY <2>1, <2>3, <2>4 DEF Create, R!Create
  <2>5. CASE \E v \in Sender, u, r \in User, m \in MsgId, c \in Id :
               BeginSend(v, u, m, r, c)
    <3>1. PICK v \in Sender, u \in User, r \in User, m \in MsgId, c \in Id :
            BeginSend(v, u, m, r, c)
      BY <2>5
    <3>2. v # w
      BY <3>1 DEF BeginSend, R!BeginSend
    <3> QED BY <2>1, <2>3, <3>1, <3>2 DEF BeginSend, R!BeginSend
  <2>6. CASE Converse
    BY <2>1, <2>6 DEF Converse, relay
  <2>7. CASE Relayed
    <3>1. ASSUME NEW v \in Sender, NEW u \in User,
                 \/ R!BeginInbox(v, u)
                 \/ \E m \in MsgId :
                      R!GetForAck(v, u, m) \/ R!GetForDelete(v, u, m)
          PROVE  reply'[w] = reply[w]
      <4>1. v # w
        BY <3>1 DEF R!BeginInbox, R!GetForAck, R!GetForDelete
      <4> QED BY <2>3, <3>1, <4>1
              DEF R!BeginInbox, R!GetForAck, R!GetForDelete
    <3>2. ASSUME NEW v \in Sender,
                 R!Refresh(v) \/ R!InboxForUser(v)
                   \/ R!AcknowledgeForRecipient(v)
                   \/ R!DeleteForSenderIfUndelivered(v)
          PROVE  reply'[w] = reply[w]
      <4>1. v # w
        BY <3>2 DEF R!Refresh, R!InboxForUser, R!AcknowledgeForRecipient,
                    R!DeleteForSenderIfUndelivered
      <4> QED BY <2>3, <3>2, <4>1
              DEF R!Refresh, R!InboxForUser, R!AcknowledgeForRecipient,
                  R!DeleteForSenderIfUndelivered
    <3>3. ASSUME NEW v \in Sender, R!Crash(v)
          PROVE  reply'[w].status # "server_error"
      BY <1>1, <2>1, <3>3 DEF R!Crash, R!NoReply, RP!TypeOK
    <3>4. CASE R!Tick
      BY <2>1, <3>4 DEF R!Tick
    <3> QED BY <2>1, <2>7, <3>1, <3>2, <3>3, <3>4 DEF Relayed
  <2> QED BY <1>1, <2>2, <2>4, <2>5, <2>6, <2>7 DEF Next
<1>2. IndInv /\ CP!IndInv /\ RP!TypeOK /\ [Next]_vars => [Refusal]_vars
  BY <1>1
<1> QED
  BY <1>2, Invariance, ConversationsHold, RelayTypes, PTL
  DEF Spec, AnsweredIsSendable

\* A reader finds the conversation of a message in the list of its own.
THEOREM ReadersFind == Spec => ReadersFindIt
<1> DEFINE Found ==
      \A w \in Opener, u \in User : C!ListForUser(w, u) =>
        \A v \in Sender : \A life \in reply[v].about :
          LET m == life[1] IN
            /\ reply[v].status = "inbox"
            /\ envelopes[m] # NoRow
            /\ envelopes[m].life = life[2] /\ envelopes[m].recipient = u
            /\ filed[m].answered
            => filed[m].conversation \in creply'[w].ids
<1>1. ASSUME IndInv, CP!IndInv, RP!TypeOK PROVE Found
  <2> SUFFICES ASSUME NEW w \in Opener, NEW u \in User, C!ListForUser(w, u),
                      NEW v \in Sender, NEW life \in reply[v].about,
                      NEW m, m = life[1],
                      envelopes[m] # NoRow, envelopes[m].recipient = u,
                      filed[m].answered
               PROVE  filed[m].conversation \in creply'[w].ids
    OBVIOUS
  <2>1. m \in MsgId
    BY <1>1 DEF RP!TypeOK, RP!Life
  <2>2. PICK row \in rows :
          row.id = filed[m].conversation /\ {row.a, row.b} = Parties(m)
    BY <1>1, <2>1, RowHasConversation DEF IndInv
  <2>3. row \in C!Listed(u)
    BY <2>2 DEF C!Listed, Parties
  <2>4. creply'[w].ids = {r.id : r \in C!Listed(u)}
    BY <1>1 DEF C!ListForUser, C!Answer, CP!IndInv, CP!TypeOK
  <2> QED BY <2>2, <2>3, <2>4
<1>2. IndInv /\ CP!IndInv /\ RP!TypeOK /\ [Next]_vars => [Found]_vars
  BY <1>1
<1> QED
  BY <1>2, Invariance, ConversationsHold, RelayTypes, PTL
  DEF Spec, ReadersFindIt

=============================================================================
