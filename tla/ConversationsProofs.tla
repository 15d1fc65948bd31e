------------------------ MODULE ConversationsProofs ------------------------
(***************************************************************************)
(* What Conversations guarantees for any number of users and threads.  The *)
(* argument: rows and requests hold their participants in ascending order, *)
(* so that the unique constraint on the ordered pair is one on the         *)
(* unordered pair (Sorted, UniqueRows); a thread about to insert holds an  *)
(* identifier nobody else has (DrawnFresh); and rows never disappear, so   *)
(* that a thread whose insertion was decided still finds a row (Finds).    *)
(***************************************************************************)
EXTENDS Conversations, TLAPS

Ascending(p) == p.a \in Nat /\ p.b \in Nat /\ p.a < p.b

Sorted(w) ==
  pc[w] \in {"lookup", "insert", "requery"} => Ascending(job[w].participants)

UniqueRows ==
  /\ \A r \in rows : Ascending(r)
  /\ \A r, s \in rows : (r.a = s.a /\ r.b = s.b) \/ r.id = s.id => r = s

DrawnFresh(w) ==
  pc[w] = "insert" =>
    /\ \A r \in rows : r.id # job[w].id
    /\ \A v \in Worker : v # w /\ pc[v] = "insert" => job[v].id # job[w].id

Finds(w) ==
  /\ pc[w] = "refresh" => \E r \in rows : r.id = job[w].id
  /\ pc[w] = "requery" => Matching(job[w].participants) # {}

\* Every conversation that was answered is in the table.
Recorded ==
  \A answer \in told : \E r \in rows : answer = <<{r.a, r.b}, r.id>>

IndInv ==
  /\ TypeOK
  /\ UniqueRows
  /\ \A w \in Worker : Sorted(w) /\ DrawnFresh(w) /\ Finds(w)
  /\ Recorded
  /\ NoServerError

----------------------------------------------------------------------------
(* Pairs in ascending order are determined by their set of participants.   *)

LEMMA AscendingPairs ==
  ASSUME NEW p, NEW q, Ascending(p), Ascending(q), {p.a, p.b} = {q.a, q.b}
  PROVE  p.a = q.a /\ p.b = q.b
<1>1. (p.a = q.a /\ p.b = q.b) \/ (p.a = q.b /\ p.b = q.a)
  <2>1. p.a \in {q.a, q.b} /\ p.b \in {q.a, q.b} /\ p.a # p.b
    BY SMT DEF Ascending
  <2> QED BY <2>1
<1>2. ~ (p.a = q.b /\ p.b = q.a)
  BY SMT DEF Ascending
<1> QED BY <1>1, <1>2

LEMMA CanonicalizeAscends ==
  ASSUME NEW u \in Registered, NEW v \in Registered, u # v
  PROVE  /\ Canonicalize(u, v) \in Participants
         /\ Ascending(Canonicalize(u, v))
<1>1. u \in Nat /\ v \in Nat
  BY ConversationsAssumption
<1> QED BY <1>1, SMT DEF Canonicalize, Participants, Ascending

\* At most one row matches.
LEMMA OneMatches ==
  ASSUME UniqueRows, NEW p, NEW r \in Matching(p)
  PROVE  Matching(p) = {r}
BY DEF UniqueRows, Matching

LEMMA FoundIsAnswered ==
  ASSUME TypeOK, NEW w \in Worker, NEW r \in rows, NEW found,
         found = {r}, AnswerFound(w, found)
  PROVE  /\ Answer(w, "conversation", {r.id})
         /\ told' = told \cup {<<{r.a, r.b}, r.id>>}
<1>1. {s \in found : found = {s}} = {r}
  OBVIOUS
<1> QED BY <1>1 DEF AnswerFound

\* What Answer and Continue do to the threads.
LEMMA AnswerFrame ==
  ASSUME TypeOK, NEW w \in Worker, NEW status \in Status, NEW ids \in SUBSET Id,
         Answer(w, status, ids)
  PROVE  /\ DOMAIN pc' = Worker /\ DOMAIN job' = Worker
         /\ pc'[w] = "idle" /\ job'[w] = NoJob
         /\ \A v \in Worker : v # w => pc'[v] = pc[v] /\ job'[v] = job[v]
         /\ \A v \in Worker : Carries(pc'[v], job'[v])
         /\ reply' \in [Worker -> [status : Status, ids : SUBSET Id]]
         /\ \A v \in Worker :
              reply'[v].status = IF v = w THEN status ELSE reply[v].status
BY DEF TypeOK, Carries, Answer

LEMMA ContinueFrame ==
  ASSUME TypeOK, NEW w \in Worker, NEW statement, NEW carried,
         Carries(statement, carried), Continue(w, statement, carried)
  PROVE  /\ DOMAIN pc' = Worker /\ DOMAIN job' = Worker
         /\ pc'[w] = statement /\ job'[w] = carried
         /\ \A v \in Worker : v # w => pc'[v] = pc[v] /\ job'[v] = job[v]
         /\ \A v \in Worker : Carries(pc'[v], job'[v])
         /\ reply' \in [Worker -> [status : Status, ids : SUBSET Id]]
         /\ \A v \in Worker :
              reply'[v].status = IF v = w THEN "none" ELSE reply[v].status
<1>1. NoReply \in [status : Status, ids : SUBSET Id] /\ NoReply.status = "none"
  BY DEF NoReply, Status
<1>2. /\ pc'[w] = statement /\ job'[w] = carried
      /\ \A v \in Worker : v # w => pc'[v] = pc[v] /\ job'[v] = job[v]
  BY DEF TypeOK, Continue
<1>3. \A v \in Worker : Carries(pc'[v], job'[v])
  BY <1>2 DEF TypeOK
<1> QED BY <1>1, <1>2, <1>3 DEF TypeOK, Continue

----------------------------------------------------------------------------
(* The steps that leave the table alone.                                   *)

\* An answered thread holds nothing, and the others what they held.
LEMMA AnswerKeeps ==
  ASSUME IndInv, NEW w \in Worker, NEW status \in Status \ {"server_error"},
         NEW ids \in SUBSET Id,
         Answer(w, status, ids), rows' = rows,
         \/ told' = told
         \/ \E r \in rows : told' = told \cup {<<{r.a, r.b}, r.id>>}
  PROVE  IndInv'
<1>1. /\ DOMAIN pc' = Worker /\ DOMAIN job' = Worker
      /\ pc'[w] = "idle" /\ job'[w] = NoJob
      /\ \A v \in Worker : v # w => pc'[v] = pc[v] /\ job'[v] = job[v]
      /\ \A v \in Worker : Carries(pc'[v], job'[v])
      /\ reply' \in [Worker -> [status : Status, ids : SUBSET Id]]
      /\ \A v \in Worker :
           reply'[v].status = IF v = w THEN status ELSE reply[v].status
  BY AnswerFrame DEF IndInv
<1>2. told' \subseteq (SUBSET Registered) \X Id
  BY DEF IndInv, TypeOK
<1>3. TypeOK'
  BY <1>1, <1>2 DEF IndInv, TypeOK
<1>4. \A v \in Worker : Sorted(v)' /\ DrawnFresh(v)' /\ Finds(v)'
  BY <1>1 DEF IndInv, Sorted, DrawnFresh, Finds, Matching
<1>5. NoServerError'
  BY <1>1 DEF IndInv, NoServerError
<1>6. Recorded'
  BY DEF IndInv, Recorded
<1> QED BY <1>3, <1>4, <1>5, <1>6 DEF IndInv, UniqueRows

LEMMA BeginKeeps ==
  ASSUME IndInv, NEW w \in Worker, NEW u \in Registered, NEW v \in Name,
         Begin(w, u, v)
  PROVE  IndInv'
<1>1. CASE \E status \in {"bad_request", "not_found"} : Answer(w, status, {})
  BY <1>1, AnswerKeeps DEF Begin, Status
<1>2. CASE /\ u # v /\ v \in Registered
           /\ Continue(w, "lookup", [participants |-> Canonicalize(u, v)])
  <2> DEFINE carried == [participants |-> Canonicalize(u, v)]
  <2>1. Carries("lookup", carried) /\ Ascending(carried.participants)
    BY <1>2, CanonicalizeAscends DEF Carries
  <2>2. Continue(w, "lookup", carried) /\ rows' = rows /\ told' = told
    BY <1>2 DEF Begin
  <2> HIDE DEF carried
  <2>3. /\ DOMAIN pc' = Worker /\ DOMAIN job' = Worker
        /\ pc'[w] = "lookup" /\ job'[w] = carried
        /\ \A x \in Worker : x # w => pc'[x] = pc[x] /\ job'[x] = job[x]
        /\ \A x \in Worker : Carries(pc'[x], job'[x])
        /\ reply' \in [Worker -> [status : Status, ids : SUBSET Id]]
        /\ \A x \in Worker :
             reply'[x].status = IF x = w THEN "none" ELSE reply[x].status
    BY <2>1, <2>2, ContinueFrame DEF IndInv
  <2>4. TypeOK'
    BY <2>2, <2>3 DEF IndInv, TypeOK
  <2>5. \A x \in Worker : Sorted(x)' /\ DrawnFresh(x)' /\ Finds(x)'
    BY <2>1, <2>2, <2>3 DEF IndInv, Sorted, DrawnFresh, Finds, Matching
  <2>6. NoServerError'
    BY <2>3 DEF IndInv, NoServerError
  <2> QED BY <2>2, <2>4, <2>5, <2>6 DEF IndInv, UniqueRows, Recorded
<1> QED BY <1>1, <1>2 DEF Begin

LEMMA ListKeeps ==
  ASSUME IndInv, NEW w \in Worker, NEW u \in Registered, ListForUser(w, u)
  PROVE  IndInv'
<1> DEFINE ids == {r.id : r \in Listed(u)}
<1>1. ids \in SUBSET Id
  BY DEF IndInv, TypeOK, Listed
<1>2. Answer(w, "list", ids) /\ rows' = rows /\ told' = told
  BY DEF ListForUser
<1> HIDE DEF ids
<1> QED BY <1>1, <1>2, AnswerKeeps DEF Status

LEMMA FoundKeeps ==
  ASSUME IndInv, NEW w \in Worker, NEW r \in rows,
         AnswerFound(w, {r}), rows' = rows
  PROVE  IndInv'
<1>1. /\ Answer(w, "conversation", {r.id})
      /\ told' = told \cup {<<{r.a, r.b}, r.id>>}
  BY FoundIsAnswered DEF IndInv
<1>2. {r.id} \in SUBSET Id
  BY DEF IndInv, TypeOK
<1>3. "conversation" \in Status \ {"server_error"}
  BY DEF Status
<1> QED BY <1>1, <1>2, <1>3, AnswerKeeps

LEMMA RefreshKeeps ==
  ASSUME IndInv, NEW w \in Worker, Refresh(w)
  PROVE  IndInv'
<1>1. PICK r \in rows : r.id = job[w].id
  BY DEF IndInv, Finds, Refresh
<1>2. {s \in rows : s.id = job[w].id} = {r}
  BY <1>1 DEF IndInv, UniqueRows
<1> QED BY <1>2, FoundKeeps DEF Refresh

LEMMA RequeryKeeps ==
  ASSUME IndInv, NEW w \in Worker, Requery(w)
  PROVE  IndInv'
<1>1. PICK r \in rows : r \in Matching(job[w].participants)
  BY DEF IndInv, Finds, Requery, Matching
<1>2. Matching(job[w].participants) = {r}
  BY <1>1, OneMatches DEF IndInv
<1> QED BY <1>2, FoundKeeps DEF Requery

LEMMA LookupKeeps ==
  ASSUME IndInv, NEW w \in Worker, Lookup(w)
  PROVE  IndInv'
<1> DEFINE p == job[w].participants
<1>1. p \in Participants /\ Ascending(p)
  BY DEF IndInv, TypeOK, Carries, Sorted, Lookup
<1>2. CASE Matching(p) # {}
  <2>1. PICK r \in rows : r \in Matching(p)
    BY <1>2 DEF Matching
  <2>2. Matching(p) = {r}
    BY <2>1, OneMatches DEF IndInv
  <2> QED BY <1>2, <2>2, FoundKeeps DEF Lookup
<1>3. CASE Matching(p) = {}
  <2>1. PICK id \in Id : /\ Fresh(id)
                         /\ Continue(w, "insert", [participants |-> p, id |-> id])
                         /\ rows' = rows /\ told' = told
    BY <1>3 DEF Lookup
  <2> DEFINE carried == [participants |-> p, id |-> id]
  <2>2. /\ Carries("insert", carried)
        /\ Ascending(carried.participants) /\ carried.id = id
    BY <1>1 DEF Carries
  <2>3. Continue(w, "insert", carried)
    BY <2>1
  <2> HIDE DEF carried
  <2>4. /\ DOMAIN pc' = Worker /\ DOMAIN job' = Worker
        /\ pc'[w] = "insert" /\ job'[w] = carried
        /\ \A x \in Worker : x # w => pc'[x] = pc[x] /\ job'[x] = job[x]
        /\ \A x \in Worker : Carries(pc'[x], job'[x])
        /\ reply' \in [Worker -> [status : Status, ids : SUBSET Id]]
        /\ \A x \in Worker :
             reply'[x].status = IF x = w THEN "none" ELSE reply[x].status
    BY <2>2, <2>3, ContinueFrame DEF IndInv
  <2>5. TypeOK'
    BY <2>1, <2>4 DEF IndInv, TypeOK
  <2>6. \A x \in Worker : Sorted(x)' /\ Finds(x)'
    BY <2>1, <2>2, <2>4 DEF IndInv, Sorted, Finds, Matching
  <2>7. \A x \in Worker : DrawnFresh(x)'
    BY <2>1, <2>2, <2>4 DEF IndInv, DrawnFresh, Fresh
  <2>8. NoServerError'
    BY <2>4 DEF IndInv, NoServerError
  <2> QED BY <2>1, <2>5, <2>6, <2>7, <2>8 DEF IndInv, UniqueRows, Recorded
<1> QED BY <1>2, <1>3

----------------------------------------------------------------------------
(* The step that adds a row, or is refused.                                *)

LEMMA InsertKeeps ==
  ASSUME IndInv, NEW w \in Worker, Insert(w)
  PROVE  IndInv'
<1> DEFINE p == job[w].participants
           id == job[w].id
<1>1. p \in Participants /\ id \in Id /\ Ascending(p)
  BY DEF IndInv, TypeOK, Carries, Sorted, Insert
<1>2. CASE Insertable(p)
  <2> DEFINE row == [id |-> id, a |-> p.a, b |-> p.b]
             carried == [id |-> id]
  <2>1. /\ rows' = rows \cup {row} /\ told' = told
        /\ Continue(w, "refresh", carried)
    BY <1>2 DEF Insert
  <2>2. Carries("refresh", carried) /\ carried.id = id
    BY <1>1 DEF Carries
  <2>3. /\ row \in [id : Id, a : Registered, b : Registered]
        /\ row.id = id /\ row.a = p.a /\ row.b = p.b
        /\ Ascending(row)
    BY <1>1 DEF Participants, Ascending
  <2> HIDE DEF carried, row, id, p
  <2>4. /\ DOMAIN pc' = Worker /\ DOMAIN job' = Worker
        /\ pc'[w] = "refresh" /\ job'[w] = carried
        /\ \A x \in Worker : x # w => pc'[x] = pc[x] /\ job'[x] = job[x]
        /\ \A x \in Worker : Carries(pc'[x], job'[x])
        /\ reply' \in [Worker -> [status : Status, ids : SUBSET Id]]
        /\ \A x \in Worker :
             reply'[x].status = IF x = w THEN "none" ELSE reply[x].status
    BY <2>1, <2>2, ContinueFrame DEF IndInv
  <2>5. TypeOK'
    BY <2>1, <2>3, <2>4 DEF IndInv, TypeOK
  <2>6. /\ \A r \in rows : r.id # id /\ ~ (r.a = p.a /\ r.b = p.b)
        /\ pc[w] = "insert" /\ job[w].id = id
    BY <1>2 DEF Insert, IndInv, DrawnFresh, Insertable, Matching, id
  <2>7. UniqueRows'
    BY <2>1, <2>3, <2>6 DEF IndInv, UniqueRows
  <2>8. \A x \in Worker : Sorted(x)' /\ Finds(x)'
    BY <2>1, <2>2, <2>3, <2>4 DEF IndInv, Sorted, Finds, Matching
  <2>9. \A x \in Worker : DrawnFresh(x)'
    BY <2>1, <2>3, <2>4, <2>6 DEF IndInv, DrawnFresh
  <2>10. NoServerError' /\ Recorded'
    BY <2>1, <2>4 DEF IndInv, NoServerError, Recorded
  <2> QED BY <2>5, <2>7, <2>8, <2>9, <2>10 DEF IndInv
<1>3. CASE ~ Insertable(p)
  <2> DEFINE carried == [participants |-> p]
  <2>1. rows' = rows /\ told' = told /\ Continue(w, "requery", carried)
    BY <1>3 DEF Insert
  <2>2. Carries("requery", carried) /\ carried.participants = p
    BY <1>1 DEF Carries
  <2> HIDE DEF carried, p
  <2>4. /\ DOMAIN pc' = Worker /\ DOMAIN job' = Worker
        /\ pc'[w] = "requery" /\ job'[w] = carried
        /\ \A x \in Worker : x # w => pc'[x] = pc[x] /\ job'[x] = job[x]
        /\ \A x \in Worker : Carries(pc'[x], job'[x])
        /\ reply' \in [Worker -> [status : Status, ids : SUBSET Id]]
        /\ \A x \in Worker :
             reply'[x].status = IF x = w THEN "none" ELSE reply[x].status
    BY <2>1, <2>2, ContinueFrame DEF IndInv
  <2>5. TypeOK'
    BY <2>1, <2>4 DEF IndInv, TypeOK
  <2>6. \A x \in Worker : Sorted(x)' /\ DrawnFresh(x)'
    BY <1>1, <2>1, <2>2, <2>4 DEF IndInv, Sorted, DrawnFresh
  <2>7. \A x \in Worker : Finds(x)'
    BY <1>3, <2>1, <2>2, <2>4 DEF IndInv, Finds, Matching, Insertable
  <2>8. NoServerError'
    BY <2>4 DEF IndInv, NoServerError
  <2> QED BY <2>1, <2>5, <2>6, <2>7, <2>8 DEF IndInv, UniqueRows, Recorded
<1> QED BY <1>2, <1>3

----------------------------------------------------------------------------
(* The invariant and what follows from it.                                 *)

LEMMA InitInv == Init => IndInv
BY DEF Init, IndInv, TypeOK, Carries, NoReply, Status, UniqueRows, Sorted,
       DrawnFresh, Finds, Recorded, NoServerError

LEMMA NextInv == IndInv /\ [Next]_vars => IndInv'
<1> SUFFICES ASSUME IndInv, [Next]_vars PROVE IndInv'
  OBVIOUS
<1>1. ASSUME NEW w \in Worker, Crash(w) PROVE IndInv'
  BY <1>1, AnswerKeeps DEF Crash, Status
<1>2. CASE UNCHANGED vars
  BY <1>2 DEF vars, IndInv, TypeOK, UniqueRows, Sorted, DrawnFresh, Finds,
              Matching, Recorded, NoServerError
<1> QED
  BY <1>1, <1>2, BeginKeeps, ListKeeps, LookupKeeps, InsertKeeps, RefreshKeeps,
     RequeryKeeps
  DEF Next

THEOREM Invariance == Spec => []IndInv
BY InitInv, NextInv, PTL DEF Spec

LEMMA UniqueIsOnePerPair == UniqueRows => OnePerPair
<1> SUFFICES ASSUME UniqueRows, NEW r \in rows, NEW s \in rows,
                    {r.a, r.b} = {s.a, s.b} \/ r.id = s.id
             PROVE  r = s
  BY DEF OnePerPair
<1>1. CASE {r.a, r.b} = {s.a, s.b}
  <2>1. Ascending(r) /\ Ascending(s)
    BY DEF UniqueRows
  <2>2. r.a = s.a /\ r.b = s.b
    BY <1>1, <2>1, AscendingPairs
  <2> QED BY <2>2 DEF UniqueRows
<1> QED BY <1>1 DEF UniqueRows

\* The table and the threads keep their types.
THEOREM TypeCorrect == Spec => []TypeOK
<1>1. IndInv => TypeOK
  BY DEF IndInv
<1> QED BY <1>1, Invariance, PTL

\* However the requests of two users interleave, they get one conversation.
THEOREM AtMostOne == Spec => []OnePerPair
<1>1. IndInv => OnePerPair
  BY UniqueIsOnePerPair DEF IndInv
<1> QED BY <1>1, Invariance, PTL

\* All answers for a pair name one conversation, which is no other pair's.
THEOREM AnswersAgree == Spec => []Agreement
<1>1. IndInv => Agreement
  <2> SUFFICES ASSUME IndInv, NEW first \in told, NEW second \in told
               PROVE  first[1] = second[1] <=> first[2] = second[2]
    BY DEF Agreement
  <2>1. PICK r \in rows : first = <<{r.a, r.b}, r.id>>
    BY DEF IndInv, Recorded
  <2>2. PICK s \in rows : second = <<{s.a, s.b}, s.id>>
    BY DEF IndInv, Recorded
  <2>3. {r.a, r.b} = {s.a, s.b} \/ r.id = s.id => r = s
    BY UniqueIsOnePerPair DEF IndInv, OnePerPair
  <2> QED BY <2>1, <2>2, <2>3
<1> QED BY <1>1, Invariance, PTL

\* The second lookup after a refused insertion never fails.
THEOREM NeverFails == Spec => []NoServerError
<1>1. IndInv => NoServerError
  BY DEF IndInv
<1> QED BY <1>1, Invariance, PTL

----------------------------------------------------------------------------
(***************************************************************************)
(* Conversations implements Registry.                                      *)
(***************************************************************************)

OneEach(table) ==
  \A r, s \in table : {r.a, r.b} = {s.a, s.b} \/ r.id = s.id => r = s

LEMMA DecidedRow ==
  ASSUME NEW table, OneEach(table), NEW r \in table
  PROVE  DecidedIn(table, {r.a, r.b}) = r.id
<1> DEFINE found == CHOOSE s \in table : {s.a, s.b} = {r.a, r.b}
<1>1. found \in table /\ {found.a, found.b} = {r.a, r.b}
  OBVIOUS
<1>2. found = r
  BY <1>1 DEF OneEach
<1> QED BY <1>1, <1>2 DEF DecidedIn

LEMMA UndecidedPair ==
  ASSUME NEW table, NEW p, \A r \in table : {r.a, r.b} # p
  PROVE  DecidedIn(table, p) = Undecided
BY DEF DecidedIn

LEMMA RowPair ==
  ASSUME NEW r \in [id : Id, a : Registered, b : Registered], Ascending(r)
  PROVE  {r.a, r.b} \in Pair /\ r.id \in Id /\ r.id # Undecided
<1>1. r.a \in Registered /\ r.b \in Registered /\ r.id \in Id
  OBVIOUS
<1>2. r.a # r.b
  BY SMT DEF Ascending
<1> QED BY <1>1, <1>2, ConversationsAssumption DEF Pair

\* Answering names the decided conversation of the pair.
LEMMA AnswerRefines ==
  ASSUME IndInv, rows' = rows,
         \/ told' = told
         \/ \E r \in rows : told' = told \cup {<<{r.a, r.b}, r.id>>}
  PROVE  [R!Next]_(R!vars)
<1> DEFINE decided == [p \in Pair |-> DecidedIn(rows, p)]
<1>1. UNCHANGED decided
  OBVIOUS
<1>2. CASE told' = told
  BY <1>1, <1>2 DEF R!vars
<1>3. CASE \E r \in rows : told' = told \cup {<<{r.a, r.b}, r.id>>}
  <2>1. PICK r \in rows : told' = told \cup {<<{r.a, r.b}, r.id>>}
    BY <1>3
  <2>2. {r.a, r.b} \in Pair /\ r.id # Undecided
    BY RowPair DEF IndInv, TypeOK, UniqueRows
  <2>3. decided[{r.a, r.b}] = r.id
    BY <2>2, DecidedRow, UniqueIsOnePerPair DEF IndInv, OneEach, OnePerPair
  <2>4. R!Tell({r.a, r.b})
    BY <1>1, <2>1, <2>2, <2>3 DEF R!Tell
  <2> QED BY <2>2, <2>4 DEF R!Next
<1> QED BY <1>2, <1>3

\* An accepted insertion decides the conversation of its pair.
LEMMA InsertRefines ==
  ASSUME IndInv, IndInv', NEW row \in rows', row \notin rows,
         rows' = rows \cup {row}, told' = told
  PROVE  R!Next
<1> DEFINE pair == {row.a, row.b}
<1>1. OneEach(rows) /\ OneEach(rows')
  <2>1. UniqueRows' => OnePerPair'
    BY UniqueIsOnePerPair, PTL
  <2> QED BY <2>1, UniqueIsOnePerPair DEF IndInv, OnePerPair, OneEach
<1>2. pair \in Pair /\ row.id \in Id /\ row.id # Undecided
  BY RowPair DEF IndInv, TypeOK, UniqueRows
<1>3. \A r \in rows : {r.a, r.b} # pair /\ r.id # row.id
  BY <1>1 DEF OneEach
<1>4. DecidedIn(rows, pair) = Undecided
  BY <1>3, UndecidedPair
<1>5. DecidedIn(rows', pair) = row.id
  BY <1>1, DecidedRow
<1>6. ASSUME NEW q \in Pair, q # pair
      PROVE  /\ DecidedIn(rows', q) = DecidedIn(rows, q)
             /\ DecidedIn(rows, q) # row.id
  <2>1. CASE \E r \in rows : {r.a, r.b} = q
    <3>1. PICK r \in rows : {r.a, r.b} = q
      BY <2>1
    <3>2. DecidedIn(rows, q) = r.id /\ DecidedIn(rows', q) = r.id
      BY <1>1, <3>1, DecidedRow
    <3> QED BY <1>3, <3>2
  <2>2. CASE \A r \in rows : {r.a, r.b} # q
    <3>1. \A r \in rows' : {r.a, r.b} # q
      BY <1>6, <2>2
    <3>2. DecidedIn(rows, q) = Undecided /\ DecidedIn(rows', q) = Undecided
      BY <2>2, <3>1, UndecidedPair
    <3> QED BY <1>2, <3>2
  <2> QED BY <2>1, <2>2
<1> HIDE DEF pair
<1>7. R!Decide(pair, row.id)
  <2> DEFINE decided == [p \in Pair |-> DecidedIn(rows, p)]
  <2>1. decided' = [p \in Pair |-> DecidedIn(rows', p)]
    OBVIOUS
  <2>2. decided' = [decided EXCEPT ![pair] = row.id]
    BY <1>2, <1>5, <1>6, <2>1
  <2>3. decided[pair] = Undecided /\ \A q \in Pair : decided[q] # row.id
    BY <1>2, <1>4, <1>6
  <2> QED BY <2>2, <2>3 DEF R!Decide
<1> QED BY <1>2, <1>7 DEF R!Next

LEMMA StepRefines ==
  ASSUME IndInv, IndInv', [Next]_vars
  PROVE  [R!Next]_(R!vars)
<1>1. CASE /\ rows' = rows
           /\ \/ told' = told
              \/ \E r \in rows : told' = told \cup {<<{r.a, r.b}, r.id>>}
  BY <1>1, AnswerRefines
<1>2. ASSUME NEW w \in Worker, NEW found, AnswerFound(w, found),
             found \subseteq rows, rows' = rows
      PROVE  \/ told' = told
             \/ \E r \in rows : told' = told \cup {<<{r.a, r.b}, r.id>>}
  <2>1. CASE \E r \in found : found = {r}
    <3>1. PICK r \in found : found = {r}
      BY <2>1
    <3>2. told' = told \cup {<<{r.a, r.b}, r.id>>}
      BY <1>2, <3>1, FoundIsAnswered DEF IndInv
    <3> QED BY <1>2, <3>2
  <2>2. CASE ~ \E r \in found : found = {r}
    <3>1. {r \in found : found = {r}} = {}
      BY <2>2
    <3> QED BY <1>2, <3>1 DEF AnswerFound
  <2> QED BY <2>1, <2>2
<1>3. ASSUME NEW w \in Worker, Lookup(w) \/ Refresh(w) \/ Requery(w)
      PROVE  [R!Next]_(R!vars)
  <2>1. rows' = rows
    BY <1>3 DEF Lookup, Refresh, Requery
  <2>2. \/ told' = told
        \/ \E found : AnswerFound(w, found) /\ found \subseteq rows
    BY <1>3 DEF Lookup, Refresh, Requery, Matching
  <2> QED BY <1>1, <1>2, <2>1, <2>2
<1>4. ASSUME NEW w \in Worker, Insert(w)
      PROVE  [R!Next]_(R!vars)
  <2>1. CASE rows' = rows
    BY <1>1, <1>4, <2>1 DEF Insert
  <2>2. CASE rows' # rows
    <3>1. PICK row : rows' = rows \cup {row} /\ told' = told
      BY <1>4, <2>2 DEF Insert
    <3>2. row \in rows' /\ row \notin rows
      BY <2>2, <3>1
    <3> QED BY <3>1, <3>2, InsertRefines
  <2> QED BY <2>1, <2>2
<1>5. CASE UNCHANGED vars
  BY <1>1, <1>5 DEF vars
<1>6. ASSUME NEW w \in Worker,
             \/ Crash(w)
             \/ \E u \in Registered : \/ ListForUser(w, u)
                                      \/ \E v \in Name : Begin(w, u, v)
      PROVE  [R!Next]_(R!vars)
  BY <1>1, <1>6 DEF Crash, ListForUser, Begin
<1> QED BY <1>3, <1>4, <1>5, <1>6 DEF Next

LEMMA InitRefines == Init => R!Init
BY UndecidedPair DEF Init, R!Init

\* get-or-create is a write-once register for every pair of users.
THEOREM Implements == Spec => ImplementsRegistry
<1>1. IndInv /\ IndInv' /\ [Next]_vars => [R!Next]_(R!vars)
  BY StepRefines
<1> QED BY <1>1, InitRefines, Invariance, PTL DEF Spec, ImplementsRegistry, R!Spec

\* A user's list contains every conversation the user has been answered.
THEOREM ListsAreComplete == Spec => ListIsComplete
<1> DEFINE Complete ==
      \A w \in Worker, u \in Registered :
        ListForUser(w, u) =>
          \A answer \in told : u \in answer[1] => answer[2] \in reply'[w].ids
<1>1. ASSUME IndInv PROVE Complete
  <2> SUFFICES ASSUME NEW w \in Worker, NEW u \in Registered, ListForUser(w, u),
                      NEW answer \in told, u \in answer[1]
               PROVE  answer[2] \in reply'[w].ids
    OBVIOUS
  <2>1. PICK r \in rows : answer = <<{r.a, r.b}, r.id>>
    BY <1>1 DEF IndInv, Recorded
  <2>2. r \in Listed(u)
    BY <2>1 DEF Listed
  <2>3. reply'[w].ids = {s.id : s \in Listed(u)}
    BY <1>1 DEF ListForUser, Answer, IndInv, TypeOK
  <2> QED BY <2>1, <2>2, <2>3
<1>2. IndInv /\ [Next]_vars => [Complete]_vars
  BY <1>1
<1> QED BY <1>2, Invariance, PTL DEF Spec, ListIsComplete

=============================================================================
