---------------------------- MODULE RelayProofs ----------------------------
(***************************************************************************)
(* What Relay guarantees for any number of users, messages and threads,    *)
(* with proofs.  The argument: a row carries the ordinal of its insertion, *)
(* which is the number of insertions so far (RowIsLatest), so that a row   *)
(* that differs from the one a thread has read is a later life; and a      *)
(* thread that has checked the owner of a life is still right about it     *)
(* when its UPDATE or DELETE runs, if that life is still there (ReadHolds).*)
(* Hence an UPDATE or DELETE that matches no row speaks of a settled life. *)
(***************************************************************************)
EXTENDS Relay, TLAPS

\* The row under m, if any, is the latest life of m.
RowIsLatest ==
  \A m \in MsgId : envelopes[m] # NoRow => envelopes[m].life = lives[m]

\* A thread about to acknowledge or delete has read a life that was born, and
\* whose row, while it is there, belongs to the thread's user.
ReadHolds(w) ==
  LET j == job[w]
      there == envelopes[j.msg] # NoRow /\ envelopes[j.msg].life = j.life
  IN  /\ pc[w] \in {"acknowledge", "delete"} => j.life <= lives[j.msg]
      /\ pc[w] = "acknowledge" /\ there => envelopes[j.msg].recipient = j.user
      /\ pc[w] = "delete" /\ there => envelopes[j.msg].sender = j.user

\* What was settled when an inbox request began is settled.
BeforeHolds(w) == pc[w] = "query" => job[w].before \subseteq settled

IndInv ==
  /\ TypeOK
  /\ RowIsLatest
  /\ \A w \in Worker : ReadHolds(w) /\ BeforeHolds(w)
  /\ SettledIsFinal

----------------------------------------------------------------------------
(* What Answer and Continue do to the threads.                             *)

LEMMA AnswerType ==
  ASSUME TypeOK, NEW w \in Worker, NEW status \in Status,
         NEW about \in SUBSET Life, Answer(w, status, about)
  PROVE  /\ DOMAIN pc' = Worker /\ DOMAIN job' = Worker
         /\ \A v \in Worker : Carries(pc'[v], job'[v])
         /\ reply' \in [Worker -> [status : Status, about : SUBSET Life]]
BY SMT DEF TypeOK, Carries, Answer

LEMMA ContinueType ==
  ASSUME TypeOK, NEW w \in Worker, NEW statement, NEW carried,
         Carries(statement, carried), Continue(w, statement, carried)
  PROVE  /\ DOMAIN pc' = Worker /\ DOMAIN job' = Worker
         /\ \A v \in Worker : Carries(pc'[v], job'[v])
         /\ reply' \in [Worker -> [status : Status, about : SUBSET Life]]
<1>1. NoReply \in [status : Status, about : SUBSET Life]
  BY DEF NoReply, Status
<1>2. reply' \in [Worker -> [status : Status, about : SUBSET Life]]
  BY <1>1 DEF TypeOK, Continue
<1>3. ASSUME NEW v \in Worker PROVE Carries(pc'[v], job'[v])
  <2>1. CASE v = w
    <3>1. pc'[v] = statement /\ job'[v] = carried
      BY <2>1 DEF TypeOK, Continue
    <3> QED BY <3>1
  <2>2. CASE v # w
    <3>1. pc'[v] = pc[v] /\ job'[v] = job[v]
      BY <2>2 DEF TypeOK, Continue
    <3>2. Carries(pc[v], job[v])
      BY DEF TypeOK
    <3> QED BY <3>1, <3>2
  <2> QED BY <2>1, <2>2
<1> QED BY <1>2, <1>3 DEF TypeOK, Continue

\* A row that is there has columns of their types.
LEMMA RowType ==
  ASSUME TypeOK, NEW m \in MsgId, envelopes[m] # NoRow
  PROVE  envelopes[m] \in Envelope
BY DEF TypeOK

----------------------------------------------------------------------------
(* Type correctness.                                                       *)

LEMMA InitType == Init => TypeOK
<1> SUFFICES ASSUME Init PROVE TypeOK
  OBVIOUS
<1>1. NoReply \in [status : Status, about : SUBSET Life]
  BY DEF NoReply, Status
<1> QED BY <1>1, RelayAssumption, SMT DEF Init, TypeOK, Carries, Time

LEMMA NextType == TypeOK /\ [Next]_vars => TypeOK'
<1> SUFFICES ASSUME TypeOK, [Next]_vars PROVE TypeOK'
  OBVIOUS
<1> USE RelayAssumption
<1>1. ASSUME NEW w \in Worker, NEW u \in User, NEW m \in MsgId,
             NEW r \in User, NEW sent \in Time, NEW expires \in Time \cup {Never},
             NEW resolves \in BOOLEAN,
             BeginSend(w, u, m, r, sent, expires, resolves)
      PROVE  TypeOK'
  <2> DEFINE carried == [sender |-> u, msg |-> m, recipient |-> r,
                         expiryAt |-> expires, resolves |-> resolves]
  <2>1. Carries("create", carried)
    BY DEF Carries
  <2>2. CASE Answer(w, "invalid", {})
    BY <1>1, <2>2, AnswerType, SMT DEF BeginSend, TypeOK, Status
  <2>3. CASE Continue(w, "create", carried)
    <3> HIDE DEF carried
    <3> QED BY <1>1, <2>1, <2>3, ContinueType DEF BeginSend, TypeOK
  <2> QED BY <1>1, <2>2, <2>3 DEF BeginSend
<1>2. ASSUME NEW w \in Worker, NEW u \in User, NEW m \in MsgId,
             GetForAck(w, u, m)
      PROVE  TypeOK'
  <2>1. CASE \E status \in {"not_found", "forbidden"} : Answer(w, status, {})
    BY <1>2, <2>1, AnswerType, SMT DEF GetForAck, TypeOK, Status
  <2>2. CASE /\ envelopes[m] # NoRow
             /\ Continue(w, "acknowledge",
                  [user |-> u, msg |-> m, life |-> envelopes[m].life])
    <3> DEFINE carried == [user |-> u, msg |-> m, life |-> envelopes[m].life]
    <3>1. Carries("acknowledge", carried)
      BY <2>2, RowType DEF Carries, Envelope
    <3>2. Continue(w, "acknowledge", carried)
      BY <2>2
    <3> HIDE DEF carried
    <3> QED BY <1>2, <3>1, <3>2, ContinueType DEF GetForAck, TypeOK
  <2> QED BY <1>2, <2>1, <2>2 DEF GetForAck
<1>3. ASSUME NEW w \in Worker, NEW u \in User, NEW m \in MsgId,
             GetForDelete(w, u, m)
      PROVE  TypeOK'
  <2>1. CASE \E status \in {"not_found", "forbidden"} :
               Answer(w, status, {}) /\ UNCHANGED settled
    BY <1>3, <2>1, AnswerType, SMT DEF GetForDelete, TypeOK, Status
  <2>2. CASE /\ envelopes[m] # NoRow
             /\ settled' = settled \cup {<<m, envelopes[m].life>>}
             /\ Answer(w, "already_delivered", {<<m, envelopes[m].life>>})
    <3>1. <<m, envelopes[m].life>> \in Life
      BY <2>2, RowType DEF Life, Envelope
    <3>2. {<<m, envelopes[m].life>>} \in SUBSET Life /\ settled' \in SUBSET Life
      BY <2>2, <3>1 DEF TypeOK
    <3>3. "already_delivered" \in Status
      BY DEF Status
    <3> QED BY <1>3, <2>2, <3>2, <3>3, AnswerType DEF GetForDelete, TypeOK
  <2>3. CASE /\ envelopes[m] # NoRow
             /\ Continue(w, "delete",
                  [user |-> u, msg |-> m, life |-> envelopes[m].life])
             /\ UNCHANGED settled
    <3> DEFINE carried == [user |-> u, msg |-> m, life |-> envelopes[m].life]
    <3>1. Carries("delete", carried)
      BY <2>3, RowType DEF Carries, Envelope
    <3>2. Continue(w, "delete", carried)
      BY <2>3
    <3> HIDE DEF carried
    <3> QED BY <1>3, <2>3, <3>1, <3>2, ContinueType DEF GetForDelete, TypeOK
  <2> QED BY <1>3, <2>1, <2>2, <2>3 DEF GetForDelete
<1>4. ASSUME NEW w \in Worker, NEW u \in User, BeginInbox(w, u)
      PROVE  TypeOK'
  <2> DEFINE carried == [user |-> u, since |-> now, before |-> settled]
  <2>1. Carries("query", carried)
    BY DEF Carries, TypeOK
  <2>2. Continue(w, "query", carried)
    BY <1>4 DEF BeginInbox
  <2> HIDE DEF carried
  <2> QED BY <1>4, <2>1, <2>2, ContinueType DEF BeginInbox, TypeOK
<1>5. ASSUME NEW w \in Worker, Create(w)
      PROVE  TypeOK'
  <2> DEFINE j == job[w]
  <2>1. j \in [sender : User, msg : MsgId, recipient : User,
               expiryAt : Time \cup {Never}, resolves : BOOLEAN]
    BY <1>5 DEF Create, TypeOK, Carries
  <2>2. CASE Insertable(j)
    <3> DEFINE row == [sender |-> j.sender, recipient |-> j.recipient,
                       expiryAt |-> j.expiryAt, acknowledged |-> FALSE,
                       life |-> lives[j.msg] + 1]
    <3>0. /\ lives[j.msg] < MaxLives
          /\ lives' = [lives EXCEPT ![j.msg] = @ + 1]
          /\ envelopes' = [envelopes EXCEPT ![j.msg] = row]
          /\ Continue(w, "refresh", [msg |-> j.msg])
          /\ UNCHANGED <<now, settled>>
      BY <1>5, <2>2 DEF Create
    <3>1. lives[j.msg] \in 0 .. MaxLives
      BY <2>1 DEF TypeOK
    <3>2. lives[j.msg] + 1 \in Ordinal /\ lives[j.msg] + 1 \in 0 .. MaxLives
      BY <3>0, <3>1, SMT DEF Ordinal
    <3>3. row \in Envelope
      BY <2>1, <3>2 DEF Envelope
    <3>4. Carries("refresh", [msg |-> j.msg])
      BY <2>1 DEF Carries
    <3>5. lives' \in [MsgId -> 0 .. MaxLives]
      BY <3>0, <3>2 DEF TypeOK
    <3>6. envelopes' \in [MsgId -> Envelope \cup {NoRow}]
      BY <3>0, <3>3 DEF TypeOK
    <3>7. QED
      BY <3>0, <3>4, <3>5, <3>6, ContinueType, Zenon DEF TypeOK
  <2>3. CASE ~ Insertable(j)
    BY <1>5, <2>3, AnswerType, SMT DEF Create, TypeOK, Status
  <2> QED BY <2>2, <2>3
<1>6. ASSUME NEW w \in Worker, Refresh(w)
      PROVE  TypeOK'
  <2> DEFINE m == job[w].msg
  <2>0. m \in MsgId
    BY <1>6 DEF Refresh, TypeOK, Carries
  <2>1. CASE /\ envelopes[m] # NoRow
             /\ Answer(w, "accepted", {<<m, envelopes[m].life>>})
    <3>1. <<m, envelopes[m].life>> \in Life
      BY <2>0, <2>1, RowType DEF Life, Envelope
    <3> QED BY <1>6, <2>1, <3>1, AnswerType, SMT DEF Refresh, TypeOK, Status
  <2>2. CASE Answer(w, "server_error", {})
    BY <1>6, <2>2, AnswerType, SMT DEF Refresh, TypeOK, Status
  <2> QED BY <1>6, <2>1, <2>2 DEF Refresh
<1>7. ASSUME NEW w \in Worker, InboxForUser(w)
      PROVE  TypeOK'
  <2> DEFINE about == {<<m, envelopes[m].life>> :
               m \in {n \in MsgId : Visible(n, job[w].user, job[w].since)}}
  <2>1. about \in SUBSET Life
    BY RowType DEF Visible, Life, Envelope
  <2>2. Answer(w, "inbox", about)
    BY <1>7 DEF InboxForUser
  <2> HIDE DEF about
  <2> QED BY <1>7, <2>1, <2>2, AnswerType, SMT DEF InboxForUser, TypeOK, Status
<1>8. ASSUME NEW w \in Worker, AcknowledgeForRecipient(w)
      PROVE  TypeOK'
  <2> DEFINE m == job[w].msg
             life == <<m, job[w].life>>
  <2>1. m \in MsgId /\ life \in Life
    BY <1>8 DEF AcknowledgeForRecipient, TypeOK, Carries, Life
  <2>2. /\ settled' = settled \cup {life}
        /\ Answer(w, "acknowledged", {life})
        /\ UNCHANGED <<now, lives>>
    BY <1>8 DEF AcknowledgeForRecipient
  <2>3. envelopes' \in [MsgId -> Envelope \cup {NoRow}]
    <3>1. CASE /\ Acknowledgeable(m, job[w].user)
               /\ envelopes' = [envelopes EXCEPT ![m].acknowledged = TRUE]
      <4>1. envelopes[m] \in Envelope
        BY <2>1, <3>1, RowType DEF Acknowledgeable
      <4>2. [envelopes[m] EXCEPT !.acknowledged = TRUE] \in Envelope
        BY <4>1 DEF Envelope
      <4> QED BY <3>1, <4>2 DEF TypeOK
    <3>2. CASE UNCHANGED envelopes
      BY <3>2 DEF TypeOK
    <3> QED BY <1>8, <3>1, <3>2 DEF AcknowledgeForRecipient
  <2> HIDE DEF life
  <2> QED BY <2>1, <2>2, <2>3, AnswerType, SMT DEF TypeOK, Status
<1>9. ASSUME NEW w \in Worker, DeleteForSenderIfUndelivered(w)
      PROVE  TypeOK'
  <2> DEFINE m == job[w].msg
  <2>1. m \in MsgId /\ <<m, job[w].life>> \in Life
    BY <1>9 DEF DeleteForSenderIfUndelivered, TypeOK, Carries, Life
  <2>2. CASE Deletable(m, job[w].user)
    <3>1. /\ envelopes' = [envelopes EXCEPT ![m] = NoRow]
          /\ settled' = settled \cup {<<m, envelopes[m].life>>}
          /\ Answer(w, "deleted", {<<m, envelopes[m].life>>})
          /\ UNCHANGED <<now, lives>>
      BY <1>9, <2>2 DEF DeleteForSenderIfUndelivered
    <3>2. <<m, envelopes[m].life>> \in Life
      BY <2>1, <2>2, RowType DEF Deletable, Life, Envelope
    <3>3. {<<m, envelopes[m].life>>} \in SUBSET Life /\ settled' \in SUBSET Life
      BY <3>1, <3>2 DEF TypeOK
    <3>4. envelopes' \in [MsgId -> Envelope \cup {NoRow}]
      BY <3>1 DEF TypeOK
    <3>5. "deleted" \in Status
      BY DEF Status
    <3> QED BY <3>1, <3>3, <3>4, <3>5, AnswerType DEF TypeOK
  <2>3. CASE ~ Deletable(m, job[w].user)
    BY <1>9, <2>1, <2>3, AnswerType, SMT
    DEF DeleteForSenderIfUndelivered, TypeOK, Status
  <2> QED BY <2>2, <2>3
<1>10. ASSUME NEW w \in Worker, Crash(w)
       PROVE  TypeOK'
  <2>1. NoReply \in [status : Status, about : SUBSET Life]
    BY DEF NoReply, Status
  <2> QED BY <1>10, <2>1, SMT DEF Crash, TypeOK, Carries
<1>11. CASE Tick
  BY <1>11, SMT DEF Tick, TypeOK, Time
<1>12. CASE UNCHANGED vars
  BY <1>12 DEF vars, TypeOK
<1> QED
  BY <1>1, <1>2, <1>3, <1>4, <1>5, <1>6, <1>7, <1>8, <1>9, <1>10, <1>11, <1>12
  DEF Next, Handle

\* The table's columns and the threads' data keep their types, whatever the
\* interleaving of requests and crashes.
THEOREM TypeCorrect == Spec => []TypeOK
BY InitType, NextType, PTL DEF Spec

----------------------------------------------------------------------------
(***************************************************************************)
(* The table changes in three ways only.                                   *)
(***************************************************************************)

SameElsewhere(m) ==
  \A n \in MsgId : n # m => envelopes'[n] = envelopes[n] /\ lives'[n] = lives[n]

Inserted(m) ==
  /\ envelopes[m] = NoRow
  /\ envelopes'[m] # NoRow
  /\ lives'[m] = lives[m] + 1
  /\ envelopes'[m].life = lives[m] + 1
  /\ envelopes'[m].acknowledged = FALSE
  /\ SameElsewhere(m)

Acked(m) ==
  /\ envelopes[m] # NoRow
  /\ envelopes'[m] # NoRow
  /\ envelopes[m].acknowledged = FALSE
  /\ envelopes'[m].acknowledged = TRUE
  /\ envelopes'[m].life = envelopes[m].life
  /\ envelopes'[m].sender = envelopes[m].sender
  /\ envelopes'[m].recipient = envelopes[m].recipient
  /\ lives'[m] = lives[m]
  /\ SameElsewhere(m)

Removed(m) ==
  /\ envelopes[m] # NoRow
  /\ envelopes[m].acknowledged = FALSE
  /\ envelopes'[m] = NoRow
  /\ lives'[m] = lives[m]
  /\ SameElsewhere(m)

TableStep ==
  \/ UNCHANGED <<envelopes, lives>>
  \/ \E m \in MsgId : Inserted(m) \/ Acked(m) \/ Removed(m)

LEMMA CreateIsInsertion ==
  ASSUME TypeOK, NEW w \in Worker, Create(w)
  PROVE  TableStep
<1> DEFINE j == job[w]
<1>1. j \in [sender : User, msg : MsgId, recipient : User,
             expiryAt : Time \cup {Never}, resolves : BOOLEAN]
  BY DEF Create, TypeOK, Carries
<1>2. CASE Insertable(j)
  <2> DEFINE row == [sender |-> j.sender, recipient |-> j.recipient,
                     expiryAt |-> j.expiryAt, acknowledged |-> FALSE,
                     life |-> lives[j.msg] + 1]
  <2>1. /\ lives[j.msg] < MaxLives
        /\ lives' = [lives EXCEPT ![j.msg] = @ + 1]
        /\ envelopes' = [envelopes EXCEPT ![j.msg] = row]
    BY <1>2 DEF Create
  <2>2. lives[j.msg] \in 0 .. MaxLives /\ j.msg \in MsgId
    BY <1>1 DEF TypeOK
  <2>3. lives[j.msg] + 1 \in Ordinal
    BY <2>1, <2>2, RelayAssumption, SMT DEF Ordinal
  <2>4. row \in Envelope
    BY <1>1, <2>3 DEF Envelope
  <2>5. /\ row # NoRow
        /\ row.life = lives[j.msg] + 1
        /\ row.acknowledged = FALSE
    BY <2>4, RelayAssumption
  <2> HIDE DEF row
  <2>6. envelopes'[j.msg] = row /\ lives'[j.msg] = lives[j.msg] + 1
    BY <2>1, <2>2 DEF TypeOK
  <2>7. SameElsewhere(j.msg)
    BY <2>1, <2>2 DEF TypeOK, SameElsewhere
  <2>8. envelopes[j.msg] = NoRow
    BY <1>2 DEF Insertable
  <2>9. Inserted(j.msg)
    BY <2>5, <2>6, <2>7, <2>8 DEF Inserted
  <2> QED BY <2>2, <2>9 DEF TableStep
<1>3. CASE ~ Insertable(j)
  BY <1>3 DEF Create, TableStep
<1> QED BY <1>2, <1>3

LEMMA AcknowledgeIsAcked ==
  ASSUME TypeOK, NEW w \in Worker, AcknowledgeForRecipient(w)
  PROVE  TableStep
<1> DEFINE m == job[w].msg
<1>1. m \in MsgId
  BY DEF AcknowledgeForRecipient, TypeOK, Carries
<1>2. CASE /\ Acknowledgeable(m, job[w].user)
           /\ envelopes' = [envelopes EXCEPT ![m].acknowledged = TRUE]
  <2> DEFINE row == [envelopes[m] EXCEPT !.acknowledged = TRUE]
  <2>1. envelopes[m] \in Envelope
    BY <1>1, <1>2, RowType DEF Acknowledgeable
  <2>2. /\ row \in Envelope
        /\ row.acknowledged = TRUE
        /\ row.life = envelopes[m].life
        /\ row.sender = envelopes[m].sender
        /\ row.recipient = envelopes[m].recipient
    BY <2>1 DEF Envelope
  <2>3. row # NoRow
    BY <2>2, RelayAssumption
  <2>4. envelopes' = [envelopes EXCEPT ![m] = row] /\ UNCHANGED lives
    BY <1>2 DEF AcknowledgeForRecipient
  <2> HIDE DEF row
  <2>5. envelopes'[m] = row /\ SameElsewhere(m)
    BY <1>1, <2>4 DEF TypeOK, SameElsewhere
  <2>6. envelopes[m].acknowledged = FALSE
    BY <1>2, <2>1 DEF Acknowledgeable, Envelope
  <2>7. Acked(m)
    BY <1>2, <2>2, <2>3, <2>4, <2>5, <2>6 DEF Acked, Acknowledgeable
  <2> QED BY <1>1, <2>7 DEF TableStep
<1>3. CASE UNCHANGED envelopes
  BY <1>3 DEF AcknowledgeForRecipient, TableStep
<1> QED BY <1>2, <1>3 DEF AcknowledgeForRecipient

LEMMA DeleteIsRemoval ==
  ASSUME TypeOK, NEW w \in Worker, DeleteForSenderIfUndelivered(w)
  PROVE  TableStep
<1> DEFINE m == job[w].msg
<1>1. m \in MsgId
  BY DEF DeleteForSenderIfUndelivered, TypeOK, Carries
<1>2. CASE Deletable(m, job[w].user)
  <2>1. envelopes' = [envelopes EXCEPT ![m] = NoRow] /\ UNCHANGED lives
    BY <1>2 DEF DeleteForSenderIfUndelivered
  <2>2. envelopes[m] # NoRow /\ envelopes[m].acknowledged = FALSE
    BY <1>1, <1>2, RowType DEF Deletable, Envelope
  <2>3. envelopes'[m] = NoRow /\ lives'[m] = lives[m] /\ SameElsewhere(m)
    BY <1>1, <2>1 DEF TypeOK, SameElsewhere
  <2>4. Removed(m)
    BY <2>2, <2>3 DEF Removed
  <2> QED BY <1>1, <2>4 DEF TableStep
<1>3. CASE ~ Deletable(m, job[w].user)
  BY <1>3 DEF DeleteForSenderIfUndelivered, TableStep
<1> QED BY <1>2, <1>3

LEMMA NextTable == TypeOK /\ [Next]_vars => TableStep
<1> SUFFICES ASSUME TypeOK, [Next]_vars PROVE TableStep
  OBVIOUS
<1>1. ASSUME NEW w \in Worker, Handle(w) PROVE TableStep
  <2>1. CASE Refresh(w) \/ InboxForUser(w)
    BY <2>1 DEF Refresh, InboxForUser, TableStep
  <2> QED BY <1>1, <2>1, CreateIsInsertion, AcknowledgeIsAcked, DeleteIsRemoval
          DEF Handle
<1>2. ASSUME NEW w \in Worker, NEW u \in User, NEW m \in MsgId,
             \/ GetForAck(w, u, m)
             \/ GetForDelete(w, u, m)
             \/ BeginInbox(w, u)
             \/ Crash(w)
             \/ \E r \in User, sent \in Time, expires \in Time \cup {Never},
                   resolves \in BOOLEAN :
                  BeginSend(w, u, m, r, sent, expires, resolves)
      PROVE  TableStep
  BY <1>2 DEF GetForAck, GetForDelete, BeginInbox, Crash, BeginSend, TableStep
<1>3. CASE Tick \/ UNCHANGED vars \/ \E w \in Worker : Crash(w)
  BY <1>3 DEF Tick, Crash, vars, TableStep
<1>4. CASE \E w \in Worker, u \in User : BeginInbox(w, u)
  BY <1>4 DEF BeginInbox, TableStep
<1> QED BY <1>1, <1>2, <1>3, <1>4 DEF Next

----------------------------------------------------------------------------
(***************************************************************************)
(* What a change of the table means for the lives of an identifier.        *)
(***************************************************************************)

LEMMA FateValue ==
  ASSUME NEW row \in Envelope \cup {NoRow}, NEW last \in Nat, NEW k \in Nat
  PROVE  /\ k > last => FateOf(row, last, k) = "unborn"
         /\ k < last => FateOf(row, last, k) = "deleted"
         /\ k = last /\ row = NoRow => FateOf(row, last, k) = "deleted"
         /\ k = last /\ row # NoRow /\ row.acknowledged = TRUE =>
              FateOf(row, last, k) = "acknowledged"
         /\ k = last /\ row # NoRow /\ row.acknowledged = FALSE =>
              FateOf(row, last, k) = "pending"
BY SMT DEF FateOf

LEMMA LatestFate ==
  ASSUME NEW row \in Envelope \cup {NoRow}, NEW last \in Nat
  PROVE  /\ row = NoRow => FateOf(row, last, last) = "deleted"
         /\ row # NoRow /\ row.acknowledged = TRUE =>
              FateOf(row, last, last) = "acknowledged"
BY FateValue

\* The facts about one identifier before and after a step.
LEMMA MsgType ==
  ASSUME TypeOK, NEW m \in MsgId
  PROVE  /\ envelopes[m] \in Envelope \cup {NoRow}
         /\ lives[m] \in Nat
         /\ envelopes[m] # NoRow => /\ envelopes[m].acknowledged \in BOOLEAN
                                    /\ envelopes[m].life \in Nat
<1>1. Ordinal \subseteq Nat /\ 0 .. MaxLives \subseteq Nat
  BY RelayAssumption, SMT DEF Ordinal
<1> QED BY <1>1 DEF TypeOK, Envelope

\* A settled life stays as it is.
LEMMA FinalStays ==
  ASSUME TypeOK, TypeOK', RowIsLatest, TableStep,
         NEW m \in MsgId, NEW k \in Nat,
         Fate(m, k) \in {"acknowledged", "deleted"}
  PROVE  Fate(m, k)' = Fate(m, k)
<1> USE DEF Fate
<1>1. /\ envelopes[m] \in Envelope \cup {NoRow}
      /\ lives[m] \in Nat
      /\ envelopes[m] # NoRow => envelopes[m].acknowledged \in BOOLEAN
  BY MsgType
<1>2. /\ envelopes'[m] \in Envelope \cup {NoRow}
      /\ lives'[m] \in Nat
  <2>1. Ordinal \subseteq Nat /\ 0 .. MaxLives \subseteq Nat
    BY RelayAssumption, SMT DEF Ordinal
  <2> QED BY <2>1 DEF TypeOK
<1>0. /\ k > lives[m] => Fate(m, k) = "unborn"
      /\ k < lives[m] => Fate(m, k) = "deleted"
      /\ k = lives[m] /\ envelopes[m] = NoRow => Fate(m, k) = "deleted"
      /\ k = lives[m] /\ envelopes[m] # NoRow
            /\ envelopes[m].acknowledged = FALSE => Fate(m, k) = "pending"
  BY <1>1, FateValue DEF Fate
<1>3. CASE envelopes'[m] = envelopes[m] /\ lives'[m] = lives[m]
  BY <1>3
<1>4. CASE Inserted(m)
  <2>1. k <= lives[m] /\ Fate(m, k) = "deleted"
    <3>1. ~ (k > lives[m])
      BY <1>0, <1>1
    <3>2. k < lives[m] \/ k = lives[m]
      BY <1>1, <3>1, SMT
    <3> QED BY <1>0, <1>1, <1>4, <3>2 DEF Inserted
  <2>2. k < lives'[m]
    BY <1>1, <1>4, <2>1, SMT DEF Inserted
  <2>3. Fate(m, k)' = "deleted"
    BY <1>2, <2>2, FateValue
  <2> QED BY <2>1, <2>3
<1>5. CASE Acked(m) \/ Removed(m)
  <2>1. envelopes[m] # NoRow /\ envelopes[m].acknowledged = FALSE
        /\ lives'[m] = lives[m]
    BY <1>5 DEF Acked, Removed
  <2>2. k < lives[m] /\ Fate(m, k) = "deleted"
    <3>1. ~ (k > lives[m]) /\ ~ (k = lives[m])
      BY <1>0, <1>1, <2>1
    <3>2. k < lives[m]
      BY <1>1, <3>1, SMT
    <3> QED BY <1>0, <1>1, <3>2
  <2>3. Fate(m, k)' = "deleted"
    BY <1>2, <2>1, <2>2, FateValue DEF Fate
  <2> QED BY <2>2, <2>3
<1>6. \/ envelopes'[m] = envelopes[m] /\ lives'[m] = lives[m]
      \/ Inserted(m)
      \/ Acked(m) \/ Removed(m)
  BY DEF TableStep, SameElsewhere, Inserted, Acked, Removed
<1> QED BY <1>3, <1>4, <1>5, <1>6

LEMMA RowStaysLatest ==
  ASSUME TypeOK, RowIsLatest, TableStep
  PROVE  RowIsLatest'
BY DEF RowIsLatest, TableStep, SameElsewhere, Inserted, Acked, Removed

\* A thread that does not move still holds what it has read.
LEMMA ReadStays ==
  ASSUME TypeOK, RowIsLatest, TableStep, NEW w \in Worker, ReadHolds(w),
         pc'[w] = pc[w], job'[w] = job[w]
  PROVE  ReadHolds(w)'
<1> DEFINE j == job[w]
           m == j.msg
<1> SUFFICES ASSUME pc[w] \in {"acknowledge", "delete"} PROVE ReadHolds(w)'
  BY DEF ReadHolds
<1>1. m \in MsgId /\ j.life \in Nat
  BY RelayAssumption, SMT DEF TypeOK, Carries, Ordinal
<1>2. lives[m] \in Nat
  BY <1>1, MsgType
<1>3. CASE envelopes'[m] = envelopes[m] /\ lives'[m] = lives[m]
  BY <1>3 DEF ReadHolds
<1>4. CASE Inserted(m)
  <2>1. j.life <= lives[m]
    BY DEF ReadHolds
  <2>2. lives'[m] = lives[m] + 1 /\ envelopes'[m].life = lives[m] + 1
    BY <1>4 DEF Inserted
  <2>3. j.life <= lives'[m] /\ envelopes'[m].life # j.life
    BY <1>1, <1>2, <2>1, <2>2, SMT
  <2> QED BY <2>3 DEF ReadHolds
<1>5. CASE Acked(m)
  BY <1>5 DEF ReadHolds, Acked
<1>6. CASE Removed(m)
  BY <1>6 DEF ReadHolds, Removed
<1> QED
  BY <1>1, <1>3, <1>4, <1>5, <1>6
  DEF TableStep, SameElsewhere, Inserted, Acked, Removed

----------------------------------------------------------------------------
(***************************************************************************)
(* The inductive invariant.                                                *)
(***************************************************************************)

\* In a step of thread w the other threads stand still.
OthersStand(w) ==
  \A v \in Worker : v # w => pc'[v] = pc[v] /\ job'[v] = job[v]

LEMMA OneMoves ==
  ASSUME TypeOK, NEW w \in Worker,
         \/ \E status, about : Answer(w, status, about)
         \/ \E statement, carried : Continue(w, statement, carried)
         \/ Crash(w)
  PROVE  OthersStand(w)
BY DEF TypeOK, Answer, Continue, Crash, OthersStand

\* The lives that a step adds to `settled' are final after the step.
NewlySettledIsFinal ==
  \A life \in settled' :
    life \in settled \/ Fate(life[1], life[2])' \in {"acknowledged", "deleted"}

LEMMA AcknowledgeSettles ==
  ASSUME TypeOK, TypeOK', RowIsLatest, NEW w \in Worker, ReadHolds(w),
         AcknowledgeForRecipient(w)
  PROVE  NewlySettledIsFinal
<1> DEFINE m == job[w].msg
           k == job[w].life
<1>1. m \in MsgId /\ k \in Nat
  BY RelayAssumption, SMT DEF AcknowledgeForRecipient, TypeOK, Carries, Ordinal
<1>2. /\ envelopes[m] \in Envelope \cup {NoRow}
      /\ lives[m] \in Nat /\ lives'[m] = lives[m]
      /\ envelopes'[m] \in Envelope \cup {NoRow}
      /\ envelopes[m] # NoRow => envelopes[m].acknowledged \in BOOLEAN
  BY <1>1, MsgType DEF TypeOK, AcknowledgeForRecipient
<1>3. k <= lives[m]
  BY DEF AcknowledgeForRecipient, ReadHolds
<1> SUFFICES FateOf(envelopes'[m], lives'[m], k) \in {"acknowledged", "deleted"}
  BY DEF AcknowledgeForRecipient, NewlySettledIsFinal, Fate
<1> HIDE DEF m, k
<1>4. CASE k < lives[m]
  BY <1>1, <1>2, <1>4, FateValue
<1>5. CASE k = lives[m] /\ envelopes[m] = NoRow
  <2>1. envelopes'[m] = NoRow
    BY <1>5 DEF AcknowledgeForRecipient, Acknowledgeable, m
  <2>2. FateOf(envelopes'[m], lives[m], k) = "deleted"
    BY ONLY <1>1, <1>2, <1>5, <2>1, FateValue
  <2> QED BY <1>2, <2>2
<1>6. CASE k = lives[m] /\ envelopes[m] # NoRow
  <2>1. envelopes[m].life = k /\ envelopes[m].recipient = job[w].user
    BY <1>1, <1>6 DEF RowIsLatest, ReadHolds, AcknowledgeForRecipient, m, k
  <2>2. envelopes'[m] # NoRow /\ envelopes'[m].acknowledged = TRUE
    <3>1. CASE envelopes[m].acknowledged = FALSE
      <4>1. Acknowledgeable(m, job[w].user)
        BY <1>6, <2>1, <3>1 DEF Acknowledgeable
      <4> DEFINE row == [envelopes[m] EXCEPT !.acknowledged = TRUE]
      <4>2. envelopes' = [envelopes EXCEPT ![m] = row]
        BY <4>1 DEF AcknowledgeForRecipient, m
      <4>3. row \in Envelope /\ row.acknowledged = TRUE
        BY <1>2, <1>6 DEF Envelope
      <4> HIDE DEF row
      <4>4. envelopes'[m] = row
        BY <1>1, <4>2 DEF TypeOK
      <4> QED BY <4>3, <4>4, RelayAssumption
    <3>2. CASE envelopes[m].acknowledged = TRUE
      <4>1. envelopes' = envelopes
        BY <3>2 DEF AcknowledgeForRecipient, Acknowledgeable, m
      <4> QED BY <1>6, <3>2, <4>1
    <3> QED BY <1>2, <1>6, <3>1, <3>2
  <2>3. FateOf(envelopes'[m], lives[m], lives[m]) = "acknowledged"
    BY <1>2, <2>2, LatestFate
  <2> QED BY <1>2, <1>6, <2>3
<1> QED BY <1>1, <1>2, <1>3, <1>4, <1>5, <1>6, SMT

LEMMA DeleteSettles ==
  ASSUME TypeOK, TypeOK', RowIsLatest, NEW w \in Worker, ReadHolds(w),
         DeleteForSenderIfUndelivered(w)
  PROVE  NewlySettledIsFinal
<1> DEFINE m == job[w].msg
           k == job[w].life
<1>1. m \in MsgId /\ k \in Nat
  BY RelayAssumption, SMT DEF DeleteForSenderIfUndelivered, TypeOK, Carries, Ordinal
<1>2. /\ envelopes[m] \in Envelope \cup {NoRow}
      /\ lives[m] \in Nat /\ lives'[m] = lives[m]
      /\ envelopes[m] # NoRow => /\ envelopes[m].acknowledged \in BOOLEAN
                                 /\ envelopes[m].life = lives[m]
  BY <1>1, MsgType DEF TypeOK, DeleteForSenderIfUndelivered, RowIsLatest
<1>3. k <= lives[m] /\ pc[w] = "delete"
  BY DEF DeleteForSenderIfUndelivered, ReadHolds
<1>4. CASE Deletable(m, job[w].user)
  <2>1. /\ envelopes' = [envelopes EXCEPT ![m] = NoRow]
        /\ settled' = settled \cup {<<m, lives[m]>>}
    BY <1>2, <1>4 DEF DeleteForSenderIfUndelivered, Deletable
  <2>2. envelopes'[m] = NoRow
    BY <1>1, <2>1 DEF TypeOK
  <2>3. FateOf(NoRow, lives[m], lives[m]) = "deleted"
    BY <1>2, LatestFate
  <2> QED BY <1>2, <2>1, <2>2, <2>3 DEF NewlySettledIsFinal, Fate
<1>5. CASE ~ Deletable(m, job[w].user)
  <2>1. UNCHANGED envelopes /\ settled' = settled \cup {<<m, k>>}
    BY <1>5 DEF DeleteForSenderIfUndelivered
  <2> SUFFICES FateOf(envelopes[m], lives[m], k) \in {"acknowledged", "deleted"}
    BY <1>2, <2>1 DEF NewlySettledIsFinal, Fate
  <2> HIDE DEF m, k
  <2>2. CASE k < lives[m]
    BY <1>1, <1>2, <2>2, FateValue
  <2>3. CASE k = lives[m] /\ envelopes[m] = NoRow
    BY <1>1, <1>2, <2>3, FateValue
  <2>4. CASE k = lives[m] /\ envelopes[m] # NoRow
    <3>1. envelopes[m].sender = job[w].user
      BY <1>2, <1>3, <2>4 DEF ReadHolds, m, k
    <3>2. envelopes[m].acknowledged = TRUE
      BY <1>2, <1>5, <2>4, <3>1 DEF Deletable
    <3> QED BY <1>1, <1>2, <2>4, <3>2, FateValue
  <2> QED BY <1>1, <1>2, <1>3, <2>2, <2>3, <2>4, SMT
<1> QED BY <1>4, <1>5

LEMMA ConflictSettles ==
  ASSUME TypeOK, RowIsLatest,
         NEW w \in Worker, NEW u \in User, NEW m \in MsgId, GetForDelete(w, u, m)
  PROVE  NewlySettledIsFinal
<1>1. CASE UNCHANGED settled
  BY <1>1 DEF NewlySettledIsFinal
<1>2. CASE /\ envelopes[m] # NoRow
           /\ envelopes[m].acknowledged
           /\ settled' = settled \cup {<<m, envelopes[m].life>>}
  <2>1. /\ envelopes'[m] = envelopes[m] /\ lives'[m] = lives[m]
        /\ envelopes[m].life = lives[m]
    BY <1>2 DEF GetForDelete, RowIsLatest
  <2>2. /\ envelopes[m] \in Envelope \cup {NoRow} /\ lives[m] \in Nat
        /\ envelopes[m].acknowledged \in BOOLEAN
    BY <1>2, MsgType
  <2>3. envelopes[m].acknowledged = TRUE
    BY <1>2, <2>2
  <2>4. FateOf(envelopes[m], lives[m], lives[m]) = "acknowledged"
    BY <1>2, <2>2, <2>3, LatestFate
  <2> QED BY <1>2, <2>1, <2>4 DEF NewlySettledIsFinal, Fate
<1> QED BY <1>1, <1>2 DEF GetForDelete

\* The moving thread holds what it has read, if it has read anything.
LEMMA MoverHolds ==
  ASSUME TypeOK, RowIsLatest, NEW w \in Worker,
         \/ \E u \in User, m \in MsgId :
              \/ GetForAck(w, u, m)
              \/ GetForDelete(w, u, m)
              \/ \E r \in User, sent \in Time, expires \in Time \cup {Never},
                    resolves \in BOOLEAN :
                   BeginSend(w, u, m, r, sent, expires, resolves)
         \/ \E u \in User : BeginInbox(w, u)
         \/ Handle(w)
         \/ Crash(w)
  PROVE  /\ ReadHolds(w)' /\ BeforeHolds(w)'
         /\ OthersStand(w)
         /\ settled \subseteq settled'
<1>1. ASSUME NEW u \in User, NEW m \in MsgId, GetForAck(w, u, m)
      PROVE  ReadHolds(w)' /\ BeforeHolds(w)'
  <2>1. CASE pc'[w] = "idle"
    BY <2>1 DEF ReadHolds, BeforeHolds
  <2>2. CASE /\ envelopes[m] # NoRow
             /\ envelopes[m].recipient = u
             /\ Continue(w, "acknowledge",
                  [user |-> u, msg |-> m, life |-> envelopes[m].life])
    <3>1. /\ pc'[w] = "acknowledge"
          /\ job'[w] = [user |-> u, msg |-> m, life |-> envelopes[m].life]
      BY <2>2 DEF Continue, TypeOK
    <3>2. envelopes[m].life <= lives[m]
      BY <2>2, MsgType, SMT DEF RowIsLatest
    <3>3. envelopes' = envelopes /\ lives' = lives
      BY <1>1 DEF GetForAck
    <3> QED BY <2>2, <3>1, <3>2, <3>3 DEF ReadHolds, BeforeHolds
  <2>3. pc'[w] = "idle" \/ ~ \E status : Answer(w, status, {})
    BY DEF Answer, TypeOK
  <2> QED BY <1>1, <2>1, <2>2, <2>3 DEF GetForAck
<1>2. ASSUME NEW u \in User, NEW m \in MsgId, GetForDelete(w, u, m)
      PROVE  ReadHolds(w)' /\ BeforeHolds(w)'
  <2>1. CASE pc'[w] = "idle"
    BY <2>1 DEF ReadHolds, BeforeHolds
  <2>2. CASE /\ envelopes[m] # NoRow
             /\ envelopes[m].sender = u
             /\ Continue(w, "delete",
                  [user |-> u, msg |-> m, life |-> envelopes[m].life])
    <3>1. /\ pc'[w] = "delete"
          /\ job'[w] = [user |-> u, msg |-> m, life |-> envelopes[m].life]
      BY <2>2 DEF Continue, TypeOK
    <3>2. envelopes[m].life <= lives[m]
      BY <2>2, MsgType, SMT DEF RowIsLatest
    <3>3. envelopes' = envelopes /\ lives' = lives
      BY <1>2 DEF GetForDelete
    <3> QED BY <2>2, <3>1, <3>2, <3>3 DEF ReadHolds, BeforeHolds
  <2>3. pc'[w] = "idle" \/ ~ \E status, about : Answer(w, status, about)
    BY DEF Answer, TypeOK
  <2> QED BY <1>2, <2>1, <2>2, <2>3 DEF GetForDelete
<1>3. ASSUME NEW u \in User, BeginInbox(w, u)
      PROVE  ReadHolds(w)' /\ BeforeHolds(w)'
  <2>1. pc'[w] = "query" /\ job'[w].before = settled /\ settled' = settled
    BY <1>3 DEF BeginInbox, Continue, TypeOK
  <2> QED BY <2>1 DEF ReadHolds, BeforeHolds
<1>4. ASSUME NEW u \in User, NEW m \in MsgId, NEW r \in User,
             NEW sent \in Time, NEW expires \in Time \cup {Never},
             NEW resolves \in BOOLEAN,
             BeginSend(w, u, m, r, sent, expires, resolves)
      PROVE  ReadHolds(w)' /\ BeforeHolds(w)'
  <2>1. pc'[w] \in {"idle", "create"}
    BY <1>4 DEF BeginSend, Answer, Continue, TypeOK
  <2> QED BY <2>1 DEF ReadHolds, BeforeHolds
<1>5. ASSUME Handle(w) \/ Crash(w)
      PROVE  ReadHolds(w)' /\ BeforeHolds(w)'
  <2>1. pc'[w] \in {"idle", "refresh"}
    BY <1>5 DEF Handle, Create, Refresh, InboxForUser, AcknowledgeForRecipient,
                DeleteForSenderIfUndelivered, Crash, Answer, Continue, TypeOK
  <2> QED BY <2>1 DEF ReadHolds, BeforeHolds
<1>6. OthersStand(w)
  BY OneMoves
  DEF GetForAck, GetForDelete, BeginInbox, BeginSend, Handle, Create, Refresh,
      InboxForUser, AcknowledgeForRecipient, DeleteForSenderIfUndelivered
<1>7. settled \subseteq settled'
  BY DEF GetForAck, GetForDelete, BeginInbox, BeginSend, Handle, Create, Refresh,
         InboxForUser, AcknowledgeForRecipient, DeleteForSenderIfUndelivered,
         Crash
<1> QED BY <1>1, <1>2, <1>3, <1>4, <1>5, <1>6, <1>7

LEMMA NextSettled ==
  ASSUME IndInv, TypeOK', [Next]_vars
  PROVE  NewlySettledIsFinal
<1> USE DEF IndInv
<1>1. CASE settled' = settled
  BY <1>1 DEF NewlySettledIsFinal
<1>2. ASSUME NEW w \in Worker,
             \/ AcknowledgeForRecipient(w)
             \/ DeleteForSenderIfUndelivered(w)
             \/ \E u \in User, m \in MsgId : GetForDelete(w, u, m)
      PROVE  NewlySettledIsFinal
  BY <1>2, AcknowledgeSettles, DeleteSettles, ConflictSettles
<1>3. \/ settled' = settled
      \/ \E w \in Worker :
           \/ AcknowledgeForRecipient(w)
           \/ DeleteForSenderIfUndelivered(w)
           \/ \E u \in User, m \in MsgId : GetForDelete(w, u, m)
  BY DEF Next, Handle, BeginSend, GetForAck, BeginInbox, Create, Refresh,
         InboxForUser, Crash, Tick, vars
<1> QED BY <1>1, <1>2, <1>3

LEMMA NextInv == IndInv /\ TypeOK' /\ [Next]_vars => IndInv'
<1> SUFFICES ASSUME IndInv, TypeOK', [Next]_vars PROVE IndInv'
  OBVIOUS
<1>1. TypeOK /\ RowIsLatest /\ TableStep
  BY NextTable DEF IndInv
<1>2. RowIsLatest'
  BY <1>1, RowStaysLatest
<1>3. ASSUME NEW v \in Worker PROVE ReadHolds(v)' /\ BeforeHolds(v)'
  <2>1. ReadHolds(v) /\ BeforeHolds(v)
    BY DEF IndInv
  <2>2. CASE /\ pc'[v] = pc[v] /\ job'[v] = job[v]
             /\ settled \subseteq settled'
    <3>1. ReadHolds(v)'
      BY <1>1, <2>1, <2>2, ReadStays
    <3> QED BY <2>1, <2>2, <3>1 DEF BeforeHolds
  <2>3. CASE UNCHANGED vars \/ Tick
    BY <2>2, <2>3 DEF vars, Tick
  <2>4. ASSUME NEW w \in Worker,
               \/ \E u \in User, m \in MsgId :
                    \/ GetForAck(w, u, m)
                    \/ GetForDelete(w, u, m)
                    \/ \E r \in User, sent \in Time,
                          expires \in Time \cup {Never}, resolves \in BOOLEAN :
                         BeginSend(w, u, m, r, sent, expires, resolves)
               \/ \E u \in User : BeginInbox(w, u)
               \/ Handle(w)
               \/ Crash(w)
        PROVE  ReadHolds(v)' /\ BeforeHolds(v)'
    <3>1. /\ ReadHolds(w)' /\ BeforeHolds(w)'
          /\ OthersStand(w)
          /\ settled \subseteq settled'
      BY <1>1, <2>4, MoverHolds
    <3>2. CASE v = w
      BY <3>1, <3>2
    <3>3. CASE v # w
      BY <2>2, <3>1, <3>3 DEF OthersStand
    <3> QED BY <3>2, <3>3
  <2> QED BY <2>3, <2>4 DEF Next
<1>4. SettledIsFinal'
  <2> SUFFICES ASSUME NEW life \in settled'
               PROVE  Fate(life[1], life[2])' \in {"acknowledged", "deleted"}
    BY DEF SettledIsFinal
  <2>1. CASE life \in settled
    <3>1. life[1] \in MsgId /\ life[2] \in Nat
      BY <1>1, <2>1, RelayAssumption, SMT DEF TypeOK, Life, Ordinal
    <3>2. Fate(life[1], life[2]) \in {"acknowledged", "deleted"}
      BY <2>1 DEF IndInv, SettledIsFinal
    <3>3. Fate(life[1], life[2])' = Fate(life[1], life[2])
      BY <1>1, <3>1, <3>2, FinalStays
    <3> QED BY <3>2, <3>3
  <2>2. CASE life \notin settled
    BY <2>2, NextSettled DEF NewlySettledIsFinal
  <2> QED BY <2>1, <2>2
<1> QED BY <1>2, <1>3, <1>4 DEF IndInv

LEMMA InitInv == Init => IndInv
<1> SUFFICES ASSUME Init PROVE IndInv
  OBVIOUS
<1>1. TypeOK
  BY InitType
<1>2. ASSUME NEW w \in Worker PROVE ReadHolds(w) /\ BeforeHolds(w)
  BY DEF Init, ReadHolds, BeforeHolds
<1> QED BY <1>1, <1>2 DEF IndInv, Init, RowIsLatest, SettledIsFinal

THEOREM Invariance == Spec => []IndInv
<1>1. IndInv /\ [Next]_vars => IndInv'
  BY NextType, NextInv DEF IndInv
<1> QED BY <1>1, InitInv, PTL DEF Spec

\* What clients are told about the end of a message is true and stays true.
THEOREM SettledStaysFinal == Spec => []SettledIsFinal
<1>1. IndInv => SettledIsFinal
  BY DEF IndInv
<1> QED BY <1>1, Invariance, PTL

\* What the answers of the relay say of the end of a message is recorded.
AnswersSettle ==
  \A w \in Worker :
    reply[w].status \in {"acknowledged", "deleted", "already_delivered"} =>
      reply[w].about \subseteq settled

LEMMA AnswersSettleNext ==
  ASSUME TypeOK, AnswersSettle, [Next]_vars
  PROVE  AnswersSettle'
<1>1. ASSUME NEW w \in Worker, NEW status, NEW about,
             Answer(w, status, about), settled \subseteq settled',
             \/ status \notin {"acknowledged", "deleted", "already_delivered"}
             \/ about \subseteq settled'
      PROVE  AnswersSettle'
  BY <1>1 DEF Answer, TypeOK, AnswersSettle
<1>2. ASSUME NEW w \in Worker, NEW statement, NEW carried,
             Continue(w, statement, carried), settled \subseteq settled'
      PROVE  AnswersSettle'
  BY <1>2 DEF Continue, NoReply, TypeOK, AnswersSettle
<1>3. ASSUME NEW w \in Worker, NEW u \in User, NEW m \in MsgId,
             NEW r \in User, NEW sent \in Time, NEW expires \in Time \cup {Never},
             NEW resolves \in BOOLEAN,
             BeginSend(w, u, m, r, sent, expires, resolves)
      PROVE  AnswersSettle'
  BY <1>1, <1>2, <1>3 DEF BeginSend
<1>4. ASSUME NEW w \in Worker, NEW u \in User, BeginInbox(w, u)
      PROVE  AnswersSettle'
  BY <1>2, <1>4 DEF BeginInbox
<1>5. ASSUME NEW w \in Worker, NEW u \in User, NEW m \in MsgId,
             GetForAck(w, u, m) \/ GetForDelete(w, u, m)
      PROVE  AnswersSettle'
  BY <1>1, <1>2, <1>5 DEF GetForAck, GetForDelete
<1>6. ASSUME NEW w \in Worker, Create(w) \/ Refresh(w) \/ InboxForUser(w)
      PROVE  AnswersSettle'
  BY <1>1, <1>2, <1>6 DEF Create, Refresh, InboxForUser
<1>7. ASSUME NEW w \in Worker,
             AcknowledgeForRecipient(w) \/ DeleteForSenderIfUndelivered(w)
      PROVE  AnswersSettle'
  BY <1>1, <1>7 DEF AcknowledgeForRecipient, DeleteForSenderIfUndelivered
<1>8. ASSUME NEW w \in Worker, Crash(w)  PROVE AnswersSettle'
  BY <1>8 DEF Crash, NoReply, TypeOK, AnswersSettle
<1>9. CASE UNCHANGED vars \/ Tick
  BY <1>9 DEF vars, Tick, AnswersSettle
<1> QED BY <1>3, <1>4, <1>5, <1>6, <1>7, <1>8, <1>9 DEF Next, Handle

\* No answer about the end of a message is about one that is pending: a 409,
\* which may be given for a message that nobody received, is then about one
\* that was withdrawn.
AnswersAreFinal ==
  \A w \in Worker :
    reply[w].status \in {"acknowledged", "deleted", "already_delivered"} =>
      \A life \in reply[w].about :
        Fate(life[1], life[2]) \in {"acknowledged", "deleted"}

\* What a client was last told, acknowledged, deleted or already delivered,
\* holds as long as it remembers the answer, whatever races with its request.
THEOREM AnswersStayTrue == Spec => []AnswersAreFinal
<1>1. Init => AnswersSettle
  BY DEF Init, NoReply, AnswersSettle
<1>2. IndInv /\ AnswersSettle /\ [Next]_vars => AnswersSettle'
  BY AnswersSettleNext DEF IndInv
<1>3. IndInv /\ AnswersSettle => AnswersAreFinal
  BY DEF IndInv, SettledIsFinal, AnswersSettle, AnswersAreFinal
<1> QED BY <1>1, <1>2, <1>3, Invariance, PTL DEF Spec

----------------------------------------------------------------------------
(***************************************************************************)
(* Action properties.                                                      *)
(***************************************************************************)

\* The thread that finishes its inbox query has run it or has died.
LEMMA QueryEnds ==
  ASSUME TypeOK, [Next]_vars, NEW w \in Worker, pc[w] = "query", pc'[w] = "idle"
  PROVE  InboxForUser(w) \/ Crash(w)
<1>1. ~ UNCHANGED vars /\ ~ Tick
  BY DEF vars, Tick
<1>2. PICK v \in Worker :
        \/ \E u \in User, m \in MsgId :
             \/ GetForAck(v, u, m)
             \/ GetForDelete(v, u, m)
             \/ \E r \in User, sent \in Time, expires \in Time \cup {Never},
                   resolves \in BOOLEAN :
                  BeginSend(v, u, m, r, sent, expires, resolves)
        \/ \E u \in User : BeginInbox(v, u)
        \/ Handle(v)
        \/ Crash(v)
  BY <1>1 DEF Next
<1>3. v = w
  <2>1. OthersStand(v)
    BY <1>2, OneMoves
    DEF GetForAck, GetForDelete, BeginInbox, BeginSend, Handle, Create, Refresh,
        InboxForUser, AcknowledgeForRecipient, DeleteForSenderIfUndelivered
  <2> QED BY <2>1 DEF OthersStand
<1> QED
  BY <1>2, <1>3 DEF GetForAck, GetForDelete, BeginInbox, BeginSend, Handle,
                    Create, Refresh, AcknowledgeForRecipient,
                    DeleteForSenderIfUndelivered

\* An inbox answer shows nothing that was settled, or expired, when its
\* request began.
THEOREM InboxIsCurrent == Spec => NoLateDelivery
<1> DEFINE Current ==
      \A w \in Worker :
        pc[w] = "query" /\ pc'[w] = "idle" =>
          \A life \in reply'[w].about :
            /\ life \notin job[w].before
            /\ envelopes[life[1]].expiryAt # Never =>
                 job[w].since < envelopes[life[1]].expiryAt
<1>1. ASSUME IndInv, [Next]_vars PROVE Current
  <2> SUFFICES ASSUME NEW w \in Worker, pc[w] = "query", pc'[w] = "idle",
                      NEW life \in reply'[w].about
               PROVE  /\ life \notin job[w].before
                      /\ envelopes[life[1]].expiryAt # Never =>
                           job[w].since < envelopes[life[1]].expiryAt
    OBVIOUS
  <2>1. TypeOK
    BY <1>1 DEF IndInv
  <2>2. InboxForUser(w)
    <3>1. ~ Crash(w)
      BY <2>1 DEF Crash, NoReply, TypeOK
    <3> QED BY <1>1, <2>1, <3>1, QueryEnds
  <2>3. PICK m \in MsgId : /\ Visible(m, job[w].user, job[w].since)
                           /\ life = <<m, envelopes[m].life>>
    BY <2>1, <2>2 DEF InboxForUser, Answer, TypeOK
  <2>4. /\ envelopes[m] \in Envelope \cup {NoRow} /\ envelopes[m] # NoRow
        /\ lives[m] \in Nat
        /\ envelopes[m].acknowledged = FALSE
        /\ envelopes[m].life = lives[m]
    BY <1>1, <2>1, <2>3, MsgType DEF Visible, IndInv, RowIsLatest
  <2>5. FateOf(envelopes[m], lives[m], lives[m]) = "pending"
    BY <2>4, FateValue
  <2>6. life \notin settled
    BY <1>1, <2>3, <2>4, <2>5 DEF IndInv, SettledIsFinal, Fate
  <2>7. job[w].before \subseteq settled
    BY <1>1 DEF IndInv, BeforeHolds
  <2>8. envelopes[m].expiryAt # Never => envelopes[m].expiryAt > job[w].since
    BY <2>3 DEF Visible
  <2>9. envelopes[m].expiryAt # Never => job[w].since < envelopes[m].expiryAt
    <3>1. envelopes[m].expiryAt # Never => envelopes[m].expiryAt \in Nat
      BY <2>4, RelayAssumption, SMT DEF Envelope, Time
    <3>2. job[w].since \in Nat
      BY <2>1, RelayAssumption, SMT DEF TypeOK, Carries, Time
    <3> QED BY <2>8, <3>1, <3>2, SMT
  <2> QED BY <2>3, <2>6, <2>7, <2>9
<1>2. IndInv /\ [Next]_vars => [Current]_vars
  BY <1>1
<1> QED BY <1>2, Invariance, PTL DEF Spec, NoLateDelivery

\* Every pending message that a sender was told is accepted is in the answer to
\* its recipient's inbox request.
THEOREM InboxIsComplete == Spec => AcceptedIsDelivered
<1> DEFINE Complete ==
      \A w, v \in Worker :
        pc[w] = "query" /\ pc'[w] = "idle" /\ reply'[w].status = "inbox"
          /\ reply[v].status = "accepted" =>
          \A life \in reply[v].about :
            LET row == envelopes[life[1]] IN
              /\ Fate(life[1], life[2]) = "pending"
              /\ row.recipient = job[w].user
              /\ row.expiryAt = Never \/ row.expiryAt > job[w].since
              => life \in reply'[w].about
<1>1. ASSUME IndInv, [Next]_vars PROVE Complete
  <2> SUFFICES ASSUME NEW w \in Worker, NEW v \in Worker,
                      pc[w] = "query", pc'[w] = "idle",
                      reply'[w].status = "inbox", reply[v].status = "accepted",
                      NEW life \in reply[v].about,
                      Fate(life[1], life[2]) = "pending",
                      envelopes[life[1]].recipient = job[w].user,
                      \/ envelopes[life[1]].expiryAt = Never
                      \/ envelopes[life[1]].expiryAt > job[w].since
               PROVE  life \in reply'[w].about
    OBVIOUS
  <2> DEFINE m == life[1]
             k == life[2]
  <2>1. TypeOK
    BY <1>1 DEF IndInv
  <2>2. life \in Life /\ life = <<m, k>> /\ m \in MsgId /\ k \in Ordinal
    BY <2>1 DEF TypeOK, Life
  <2>3. /\ envelopes[m] \in Envelope \cup {NoRow}
        /\ lives[m] \in Nat /\ k \in Nat
        /\ envelopes[m] # NoRow => envelopes[m].life = lives[m]
    BY <1>1, <2>1, <2>2, MsgType DEF IndInv, RowIsLatest, Ordinal
  <2>4. k = lives[m] /\ envelopes[m] # NoRow /\ ~ envelopes[m].acknowledged
    <3>1. FateOf(envelopes[m], lives[m], k) = "pending"
      BY DEF Fate
    <3>2. ~ k > lives[m] /\ ~ (k < lives[m] \/ (k = lives[m] /\ envelopes[m] = NoRow))
      BY <3>1 DEF FateOf
    <3>3. ~ envelopes[m].acknowledged
      BY <3>1, <3>2 DEF FateOf
    <3>4. k = lives[m]
      BY <2>3, <3>2
    <3> QED BY <3>2, <3>3, <3>4
  <2>5. Visible(m, job[w].user, job[w].since)
    BY <2>4 DEF Visible
  <2>6. InboxForUser(w)
    <3>1. ~ Crash(w)
      BY <2>1 DEF Crash, NoReply, TypeOK
    <3> QED BY <1>1, <2>1, <3>1, QueryEnds
  <2>7. reply'[w].about =
          {<<n, envelopes[n].life>> :
             n \in {n \in MsgId : Visible(n, job[w].user, job[w].since)}}
    BY <2>1, <2>6 DEF InboxForUser, Answer, TypeOK
  <2> QED BY <2>2, <2>3, <2>4, <2>5, <2>7
<1>2. IndInv /\ [Next]_vars => [Complete]_vars
  BY <1>1
<1> QED BY <1>2, Invariance, PTL DEF Spec, AcceptedIsDelivered

\* A row disappears by its sender's hand before it is acknowledged, and is
\* acknowledged by its recipient's, whoever owned the identifier when the
\* request began.
THEOREM OwnersSettle == Spec => OnlyOwnersSettle
<1> DEFINE Owned ==
      \A m \in MsgId :
        envelopes[m] # NoRow /\ envelopes'[m] # envelopes[m] =>
          \E w \in Worker :
            \/ /\ pc[w] = "delete" /\ reply'[w].status = "deleted"
               /\ ~ envelopes[m].acknowledged
               /\ envelopes'[m] = NoRow
               /\ job[w].user = envelopes[m].sender
            \/ /\ pc[w] = "acknowledge" /\ reply'[w].status = "acknowledged"
               /\ envelopes'[m] = [envelopes[m] EXCEPT !.acknowledged = TRUE]
               /\ job[w].user = envelopes[m].recipient
<1>1. ASSUME TypeOK, [Next]_vars PROVE Owned
  <2> SUFFICES ASSUME NEW m \in MsgId,
                      envelopes[m] # NoRow, envelopes'[m] # envelopes[m]
               PROVE  \E w \in Worker :
                        \/ /\ pc[w] = "delete" /\ reply'[w].status = "deleted"
                           /\ ~ envelopes[m].acknowledged
                           /\ envelopes'[m] = NoRow
                           /\ job[w].user = envelopes[m].sender
                        \/ /\ pc[w] = "acknowledge"
                           /\ reply'[w].status = "acknowledged"
                           /\ envelopes'[m] =
                                [envelopes[m] EXCEPT !.acknowledged = TRUE]
                           /\ job[w].user = envelopes[m].recipient
    OBVIOUS
  <2>1. PICK w \in Worker :
          \/ Create(w)
          \/ AcknowledgeForRecipient(w)
          \/ DeleteForSenderIfUndelivered(w)
    <3>1. ~ UNCHANGED envelopes
      OBVIOUS
    <3>2. ~ UNCHANGED vars /\ ~ Tick
      BY <3>1 DEF vars, Tick
    <3>3. ASSUME NEW w \in Worker, Refresh(w) \/ InboxForUser(w) \/ Crash(w)
          PROVE  FALSE
      BY <3>1, <3>3 DEF Refresh, InboxForUser, Crash
    <3>4. ASSUME NEW w \in Worker, NEW u \in User, NEW n \in MsgId,
                 \/ GetForAck(w, u, n) \/ GetForDelete(w, u, n)
                 \/ BeginInbox(w, u)
                 \/ \E r \in User, sent \in Time, expires \in Time \cup {Never},
                       resolves \in BOOLEAN :
                      BeginSend(w, u, n, r, sent, expires, resolves)
          PROVE  FALSE
      BY <3>1, <3>4 DEF GetForAck, GetForDelete, BeginInbox, BeginSend
    <3> QED BY <1>1, <3>2, <3>3, <3>4 DEF Next, Handle
  <2>2. ~ Create(w)
    <3> SUFFICES ASSUME Create(w) PROVE envelopes'[m] = envelopes[m]
      OBVIOUS
    <3>1. \/ UNCHANGED envelopes
          \/ /\ envelopes[job[w].msg] = NoRow
             /\ \E row : envelopes' = [envelopes EXCEPT ![job[w].msg] = row]
      BY DEF Create, Insertable
    <3> QED BY <1>1, <3>1 DEF TypeOK
  <2>3. CASE AcknowledgeForRecipient(w)
    <3>1. /\ Acknowledgeable(job[w].msg, job[w].user)
          /\ envelopes' = [envelopes EXCEPT ![job[w].msg].acknowledged = TRUE]
          /\ pc[w] = "acknowledge" /\ reply'[w].status = "acknowledged"
      BY <1>1, <2>3 DEF AcknowledgeForRecipient, Answer, TypeOK
    <3>2. job[w].msg = m
      BY <1>1, <3>1 DEF TypeOK
    <3>3. envelopes'[m] = [envelopes[m] EXCEPT !.acknowledged = TRUE]
      BY <1>1, <3>1, <3>2, Zenon DEF TypeOK
    <3> QED BY <3>1, <3>2, <3>3 DEF Acknowledgeable
  <2>4. CASE DeleteForSenderIfUndelivered(w)
    <3>1. /\ Deletable(job[w].msg, job[w].user)
          /\ envelopes' = [envelopes EXCEPT ![job[w].msg] = NoRow]
          /\ pc[w] = "delete" /\ reply'[w].status = "deleted"
      BY <1>1, <2>4 DEF DeleteForSenderIfUndelivered, Answer, TypeOK
    <3>2. job[w].msg = m /\ envelopes'[m] = NoRow
      BY <1>1, <3>1 DEF TypeOK
    <3> QED BY <3>1, <3>2 DEF Deletable
  <2> QED BY <2>1, <2>2, <2>3, <2>4
<1>2. TypeOK /\ [Next]_vars => [Owned]_vars
  BY <1>1
<1> QED BY <1>2, TypeCorrect, PTL DEF Spec, OnlyOwnersSettle

----------------------------------------------------------------------------
(***************************************************************************)
(* Relay implements Mailbox.                                               *)
(***************************************************************************)

FateMap == [m \in MsgId |-> [k \in Ordinal |-> Fate(m, k)]]

\* At most one life is reported settled at a time, and not by an insertion.
LEMMA ToldStep ==
  ASSUME TypeOK, TypeOK', [Next]_vars
  PROVE  /\ \/ settled' = settled
            \/ \E life \in Life : settled' = settled \cup {life}
         /\ settled' = settled \/ lives' = lives
<1>1. CASE settled' = settled
  BY <1>1
<1>2. CASE settled' # settled
  <2>1. PICK w \in Worker :
          \/ AcknowledgeForRecipient(w)
          \/ DeleteForSenderIfUndelivered(w)
          \/ \E u \in User, m \in MsgId : GetForDelete(w, u, m)
    BY <1>2 DEF Next, Handle, BeginSend, GetForAck, BeginInbox, Create, Refresh,
                InboxForUser, Crash, Tick, vars
  <2>2. lives' = lives
    BY <2>1 DEF AcknowledgeForRecipient, DeleteForSenderIfUndelivered, GetForDelete
  <2>3. \E life : settled' = settled \cup {life}
    BY <1>2, <2>1
    DEF AcknowledgeForRecipient, DeleteForSenderIfUndelivered, GetForDelete
  <2>4. settled' \subseteq Life
    BY DEF TypeOK
  <2> QED BY <2>2, <2>3, <2>4
<1> QED BY <1>1, <1>2

\* A row's insertion, acknowledgement or removal, seen by the abstract relay.
LEMMA FateStep ==
  ASSUME TypeOK, TypeOK', RowIsLatest, NEW m \in MsgId
  PROVE  /\ Inserted(m) =>
              /\ lives[m] + 1 \in Ordinal
              /\ FateMap[m][lives[m] + 1] = "unborn"
              /\ \A j \in Ordinal : j < lives[m] + 1 => FateMap[m][j] = "deleted"
              /\ FateMap' = [FateMap EXCEPT ![m][lives[m] + 1] = "pending"]
         /\ Acked(m) =>
              /\ lives[m] \in Ordinal
              /\ FateMap[m][lives[m]] = "pending"
              /\ FateMap' = [FateMap EXCEPT ![m][lives[m]] = "acknowledged"]
         /\ Removed(m) =>
              /\ lives[m] \in Ordinal
              /\ FateMap[m][lives[m]] = "pending"
              /\ FateMap' = [FateMap EXCEPT ![m][lives[m]] = "deleted"]
<1>1. /\ Ordinal \subseteq Nat
      /\ envelopes[m] \in Envelope \cup {NoRow} /\ lives[m] \in Nat
      /\ envelopes'[m] \in Envelope \cup {NoRow} /\ lives'[m] \in Nat
      /\ lives'[m] \in 0 .. MaxLives
  <2>1. Ordinal \subseteq Nat /\ 0 .. MaxLives \subseteq Nat
    BY RelayAssumption, SMT DEF Ordinal
  <2> QED BY <2>1 DEF TypeOK
<1>2. ASSUME SameElsewhere(m), NEW k \in Ordinal, NEW f, Fate(m, k)' = f,
             \A j \in Ordinal : j # k => Fate(m, j)' = Fate(m, j)
      PROVE  FateMap' = [FateMap EXCEPT ![m][k] = f]
  <2>1. \A n \in MsgId, j \in Ordinal : n # m => Fate(n, j)' = Fate(n, j)
    BY <1>2 DEF SameElsewhere, Fate
  <2>2. [FateMap EXCEPT ![m][k] = f] =
          [n \in MsgId |-> [j \in Ordinal |->
             IF n = m /\ j = k THEN f ELSE Fate(n, j)]]
    BY DEF FateMap
  <2>3. FateMap' = [n \in MsgId |-> [j \in Ordinal |-> Fate(n, j)']]
    BY DEF FateMap
  <2>4. \A n \in MsgId, j \in Ordinal :
          Fate(n, j)' = IF n = m /\ j = k THEN f ELSE Fate(n, j)
    BY <1>2, <2>1
  <2> QED BY <2>2, <2>3, <2>4
<1>3. ASSUME NEW k \in Ordinal
      PROVE  /\ k > lives[m] => Fate(m, k) = "unborn"
             /\ k < lives[m] => Fate(m, k) = "deleted"
             /\ k > lives'[m] => Fate(m, k)' = "unborn"
             /\ k < lives'[m] => Fate(m, k)' = "deleted"
  BY <1>1, FateValue DEF Fate
<1>4. \A k \in Ordinal : FateMap[m][k] = Fate(m, k)
  BY DEF FateMap
<1>5. ASSUME Inserted(m)
      PROVE  /\ lives[m] + 1 \in Ordinal
             /\ FateMap[m][lives[m] + 1] = "unborn"
             /\ \A j \in Ordinal : j < lives[m] + 1 => FateMap[m][j] = "deleted"
             /\ FateMap' = [FateMap EXCEPT ![m][lives[m] + 1] = "pending"]
  <2> DEFINE k == lives[m] + 1
  <2>1. k \in Ordinal /\ k > lives[m] /\ lives'[m] = k
    BY <1>1, <1>5, RelayAssumption, SMT DEF Inserted, Ordinal
  <2>2. FateOf(envelopes[m], lives[m], lives[m]) = "deleted"
    BY <1>1, <1>5, LatestFate DEF Inserted
  <2>3. \A j \in Ordinal : j < k => Fate(m, j) = "deleted"
    <3> SUFFICES ASSUME NEW j \in Ordinal, j < k PROVE Fate(m, j) = "deleted"
      OBVIOUS
    <3>1. j < lives[m] \/ j = lives[m]
      BY <1>1, SMT
    <3> QED BY <1>3, <2>2, <3>1 DEF Fate
  <2>4. FateOf(envelopes'[m], lives'[m], k) = "pending"
    BY <1>1, <1>5, <2>1, FateValue DEF Inserted
  <2>5. ASSUME NEW j \in Ordinal, j # k PROVE Fate(m, j)' = Fate(m, j)
    <3>1. CASE j < k
      BY <1>3, <2>1, <2>3, <3>1
    <3>2. CASE j > k
      <4>1. j > lives[m]
        BY <1>1, <3>2, SMT
      <4> QED BY <1>3, <2>1, <3>2, <4>1
    <3> QED BY <1>1, <2>1, <2>5, <3>1, <3>2, SMT
  <2> HIDE DEF k
  <2>6. FateMap' = [FateMap EXCEPT ![m][k] = "pending"]
    BY <1>2, <1>5, <2>1, <2>4, <2>5 DEF Inserted, Fate
  <2>7. FateMap[m][k] = "unborn"
    BY <1>3, <1>4, <2>1
  <2> QED BY <1>4, <2>1, <2>3, <2>6, <2>7 DEF k
<1>6. ASSUME Acked(m) \/ Removed(m)
      PROVE  /\ lives[m] \in Ordinal /\ lives'[m] = lives[m]
             /\ FateMap[m][lives[m]] = "pending"
             /\ \A j \in Ordinal : j # lives[m] => Fate(m, j)' = Fate(m, j)
  <2>1. /\ envelopes[m] # NoRow /\ envelopes[m].acknowledged = FALSE
        /\ lives'[m] = lives[m]
        /\ envelopes[m].life = lives[m]
    BY <1>6 DEF Acked, Removed, RowIsLatest
  <2>2. lives[m] \in Ordinal
    BY <1>1, <2>1 DEF Envelope
  <2>3. FateOf(envelopes[m], lives[m], lives[m]) = "pending"
    BY <1>1, <2>1, FateValue
  <2>4. ASSUME NEW j \in Ordinal, j # lives[m] PROVE Fate(m, j)' = Fate(m, j)
    <3>1. j < lives[m] \/ j > lives[m]
      BY <1>1, <2>4, SMT
    <3> QED BY <1>3, <2>1, <3>1
  <2> QED BY <1>4, <2>1, <2>2, <2>3, <2>4 DEF Fate
<1>7. ASSUME Acked(m)
      PROVE  FateMap' = [FateMap EXCEPT ![m][lives[m]] = "acknowledged"]
  <2>1. FateOf(envelopes'[m], lives'[m], lives'[m]) = "acknowledged"
    BY <1>1, <1>7, LatestFate DEF Acked
  <2>2. SameElsewhere(m) /\ Fate(m, lives[m])' = "acknowledged"
    BY <1>6, <1>7, <2>1 DEF Acked, Fate
  <2> QED BY <1>2, <1>6, <1>7, <2>2
<1>8. ASSUME Removed(m)
      PROVE  FateMap' = [FateMap EXCEPT ![m][lives[m]] = "deleted"]
  <2>1. FateOf(envelopes'[m], lives'[m], lives'[m]) = "deleted"
    BY <1>1, <1>8, LatestFate DEF Removed
  <2> QED BY <1>2, <1>6, <1>8, <2>1 DEF Removed, Fate
<1> QED BY <1>5, <1>6, <1>7, <1>8

LEMMA StepRefines ==
  ASSUME IndInv, IndInv', [Next]_vars
  PROVE  M!Next \/ UNCHANGED <<FateMap, settled>>
<1> USE DEF M!Next
<1>0. TypeOK /\ TypeOK' /\ RowIsLatest /\ TableStep /\ SettledIsFinal'
  BY NextTable DEF IndInv
<1>1. M!Tell \/ UNCHANGED settled
  <2>1. CASE settled' = settled
    BY <2>1
  <2>2. CASE \E life \in Life : settled' = settled \cup {life}
    <3>1. PICK life \in Life : settled' = settled \cup {life}
      BY <2>2
    <3>2. Fate(life[1], life[2])' \in {"acknowledged", "deleted"}
      BY <1>0, <3>1 DEF SettledIsFinal
    <3>3. life[1] \in MsgId /\ life[2] \in Ordinal
      BY DEF Life
    <3>4. FateMap'[life[1]][life[2]] \in M!Final
      BY <3>2, <3>3 DEF FateMap, M!Final
    <3> QED BY <3>1, <3>4 DEF M!Tell, M!Life, Life, FateMap
  <2> QED BY <1>0, <2>1, <2>2, ToldStep
<1>2. CASE UNCHANGED <<envelopes, lives>>
  <2>1. UNCHANGED FateMap
    BY <1>2 DEF FateMap, Fate
  <2> QED BY <1>1, <2>1 DEF FateMap
<1>3. ASSUME NEW m \in MsgId, Inserted(m) PROVE M!Next
  <2>1. settled' = settled
    BY <1>0, <1>3, MsgType, ToldStep, SMT DEF Inserted
  <2>2. M!Post(m)
    BY <1>0, <1>3, <2>1, FateStep DEF M!Post, FateMap
  <2> QED BY <2>2
<1>4. ASSUME NEW m \in MsgId, Acked(m) \/ Removed(m) PROVE M!Next
  <2>1. /\ lives[m] \in Ordinal
        /\ \E f \in M!Final : M!Settle(m, lives[m], f)
    BY <1>0, <1>4, FateStep DEF M!Settle, M!Final, FateMap
  <2> QED BY <1>1, <2>1
<1> QED BY <1>0, <1>2, <1>3, <1>4 DEF TableStep

LEMMA InitRefines == Init => M!Init
<1> SUFFICES ASSUME Init PROVE M!Init
  OBVIOUS
<1>1. \A k \in Ordinal : k \in Nat /\ k > 0
  BY RelayAssumption, SMT DEF Ordinal
<1>2. \A m \in MsgId, k \in Ordinal : Fate(m, k) = "unborn"
  BY <1>1, FateValue DEF Init, Fate
<1> QED BY <1>2 DEF Init, M!Init

\* The relay keeps the promise of Mailbox: every message is posted once, is
\* settled once, by an acknowledgement or a withdrawal, and nobody is told
\* that it is settled before it is.
THEOREM Implements == Spec => ImplementsMailbox
<1>1. IndInv /\ IndInv' /\ [Next]_vars => [M!Next]_(M!vars)
  BY StepRefines DEF M!vars, FateMap
<1> QED BY <1>1, InitRefines, Invariance, PTL DEF Spec, ImplementsMailbox, M!Spec

=============================================================================
