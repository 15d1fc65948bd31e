------------------------- MODULE KeyDirectoryProofs -------------------------
(***************************************************************************)
(* Theorems about KeyDirectory, for any number of users, prekeys and       *)
(* threads.                                                                *)
(*                                                                         *)
(* The argument for single use: a prekey is consumed by the thread that    *)
(* holds its row lock, at most one thread holds it, and it is unconsumed   *)
(* as long as it is held; so consuming it makes its holder the only thread *)
(* that will ever answer with it.                                          *)
(***************************************************************************)
EXTENDS KeyDirectory, FiniteSetTheorems, TLAPS

\* An upload that has passed its first commit has a bundle in the table, and
\* one that has passed its second has its prekeys there.
UploadHolds(w) ==
  /\ pc[w] = "write" =>
       (job[w].loaded # NoRow => bundles[job[w].user] # NoRow)
  /\ pc[w] \in {"opks", "echo"} => bundles[job[w].user] # NoRow
  /\ pc[w] = "echo" =>
       \A o \in job[w].opks : opks[o] # NoRow /\ opks[o].owner = job[w].user

\* A fetch goes on with a prekey that is there.
FetchHolds(w) ==
  pc[w] \in {"consume", "answer"} => opks[job[w].opk] # NoRow

\* What holds on every database.
TableInv ==
  /\ TypeOK
  /\ \A w \in Worker : UploadHolds(w) /\ FetchHolds(w)
  /\ KeysHaveBundle
  /\ UploadedKeysExist

\* Whoever is about to consume a prekey has locked it.
LockHeld(w) == pc[w] = "consume" => holder[job[w].opk] = w

\* Whoever is about to answer with a consumed prekey is alone with it.
Taken(w) ==
  pc[w] = "answer" =>
    /\ opks[job[w].opk].consumed
    /\ handed[job[w].opk] = 0
    /\ \A v \in Worker : pc[v] = "answer" /\ job[v].opk = job[w].opk => v = w

\* A prekey that has been handed out was handed out once, and is consumed.
Handed(o) ==
  /\ handed[o] \in {0, 1}
  /\ handed[o] = 1 => opks[o] # NoRow /\ opks[o].consumed

\* What holds where rows are locked.
PoolInv ==
  /\ NoOrphanLock
  /\ \A w \in Worker : LockHeld(w) /\ Taken(w)
  /\ \A o \in OpkId : Handed(o)

----------------------------------------------------------------------------
(* What the steps of one thread do to the threads.                         *)

Frame(w) ==
  /\ DOMAIN pc' = Worker /\ DOMAIN job' = Worker
  /\ \A v \in Worker : v # w => pc'[v] = pc[v] /\ job'[v] = job[v]
  /\ \A v \in Worker : Carries(pc'[v], job'[v])
  /\ reply' \in [Worker -> Reply]
  /\ \A v \in Worker : v # w => reply'[v] = reply[v]

LEMMA AnswerFrame ==
  ASSUME TypeOK, NEW w \in Worker, NEW status \in Status,
         NEW user \in User \cup {NoRow}, NEW about \in SUBSET OpkId,
         Answer(w, status, user, about)
  PROVE  /\ Frame(w)
         /\ pc'[w] = "idle" /\ job'[w] = NoJob
         /\ reply'[w] = [status |-> status, user |-> user, opks |-> about]
<1>1. [status |-> status, user |-> user, opks |-> about] \in Reply
  BY DEF Reply
<1> QED BY <1>1 DEF TypeOK, Frame, Carries, Answer

LEMMA ContinueFrame ==
  ASSUME TypeOK, NEW w \in Worker, NEW statement, NEW carried,
         Carries(statement, carried), Continue(w, statement, carried)
  PROVE  /\ Frame(w)
         /\ pc'[w] = statement /\ job'[w] = carried
         /\ reply'[w].status = "none"
<1>1. NoReply \in Reply /\ NoReply.status = "none"
  BY DEF NoReply, Reply, Status
<1>2. /\ pc'[w] = statement /\ job'[w] = carried
      /\ \A v \in Worker : v # w => pc'[v] = pc[v] /\ job'[v] = job[v]
  BY DEF TypeOK, Continue
<1>3. \A v \in Worker : Carries(pc'[v], job'[v])
  BY <1>2 DEF TypeOK
<1> QED BY <1>1, <1>2, <1>3 DEF TypeOK, Continue, Frame

----------------------------------------------------------------------------
(* The invariant of the tables.                                            *)

\* No row disappears, and no prekey changes its owner.
Grows ==
  /\ \A u \in User : bundles[u] # NoRow => bundles'[u] # NoRow
  /\ \A o \in OpkId :
       opks[o] # NoRow => opks'[o] # NoRow /\ opks'[o].owner = opks[o].owner

TypedTables ==
  /\ bundles \in [User -> Bundle \cup {NoRow}]
  /\ opks \in [OpkId -> Opk \cup {NoRow}]
  /\ batches \in Nat
  /\ holder \in [OpkId -> Worker \cup {Free}]
  /\ handed \in [OpkId -> Nat]

TruthfulUpload(w) ==
  reply[w].status = "uploaded" =>
    \A o \in reply[w].opks : opks[o] # NoRow /\ opks[o].owner = reply[w].user

\* As the tables only grow, the other threads keep what they hold.
LEMMA TableKeeps ==
  ASSUME TableInv, NEW w \in Worker, Frame(w), Grows, TypedTables',
         KeysHaveBundle', UploadHolds(w)', FetchHolds(w)', TruthfulUpload(w)'
  PROVE  TableInv'
<1>1. TypeOK'
  BY DEF Frame, TypedTables, TypeOK
<1>2. ASSUME NEW v \in Worker, v # w
      PROVE  UploadHolds(v)' /\ FetchHolds(v)'
  <2>1. pc'[v] = pc[v] /\ job'[v] = job[v] /\ Carries(pc[v], job[v])
    BY <1>2 DEF TableInv, TypeOK, Frame
  <2>2. UploadHolds(v)'
    <3>1. pc[v] \in {"write", "opks", "echo"} =>
            job[v].user \in User /\ job[v].opks \subseteq OpkId
      BY <2>1 DEF Carries, UploadJob
    <3> QED BY <2>1, <3>1 DEF TableInv, UploadHolds, Grows
  <2>3. FetchHolds(v)'
    <3>1. pc[v] \in {"consume", "answer"} => job[v].opk \in OpkId
      BY <2>1 DEF Carries
    <3> QED BY <2>1, <3>1 DEF TableInv, FetchHolds, Grows
  <2> QED BY <2>2, <2>3
<1>3. UploadedKeysExist'
  <2>1. ASSUME NEW v \in Worker, v # w  PROVE  TruthfulUpload(v)'
    <3>1. reply'[v] = reply[v] /\ reply[v].opks \subseteq OpkId
      BY <2>1 DEF Frame, TableInv, TypeOK, Reply
    <3> QED BY <3>1 DEF TableInv, UploadedKeysExist, TruthfulUpload, Grows
  <2> QED BY <2>1 DEF UploadedKeysExist, TruthfulUpload
<1> QED BY <1>1, <1>2, <1>3 DEF TableInv

\* A thread that leaves the tables alone and answers.
LEMMA TableAnswers ==
  ASSUME TableInv, NEW w \in Worker, NEW status \in Status \ {"uploaded"},
         NEW user \in User \cup {NoRow}, NEW about \in SUBSET OpkId,
         Answer(w, status, user, about), tables' = tables,
         holder' \in [OpkId -> Worker \cup {Free}], handed' \in [OpkId -> Nat]
  PROVE  TableInv'
<1>1. /\ Frame(w) /\ pc'[w] = "idle"
      /\ reply'[w] = [status |-> status, user |-> user, opks |-> about]
  BY AnswerFrame DEF TableInv
<1>2. UploadHolds(w)' /\ FetchHolds(w)' /\ TruthfulUpload(w)'
  BY <1>1 DEF UploadHolds, FetchHolds, TruthfulUpload
<1>3. Grows /\ TypedTables' /\ KeysHaveBundle'
  BY DEF tables, Grows, TypedTables, TableInv, TypeOK, KeysHaveBundle
<1> QED BY <1>1, <1>2, <1>3, TableKeeps

\* The threads when w answers, whatever the answer.
LEMMA AnswerIdles ==
  ASSUME TableInv, NEW w \in Worker, NEW status, NEW user, NEW about,
         Answer(w, status, user, about),
         status \in Status, user \in User \cup {NoRow}, about \subseteq OpkId
  PROVE  Frame(w) /\ pc'[w] = "idle"
BY AnswerFrame DEF TableInv

\* A thread that leaves the tables alone and goes on.
LEMMA TableContinues ==
  ASSUME TableInv, NEW w \in Worker, NEW statement, NEW carried,
         Carries(statement, carried), Continue(w, statement, carried),
         tables' = tables, handed' = handed,
         holder' \in [OpkId -> Worker \cup {Free}],
         UploadHolds(w)', FetchHolds(w)'
  PROVE  TableInv'
<1>1. Frame(w) /\ reply'[w].status = "none"
  BY ContinueFrame DEF TableInv
<1>2. TruthfulUpload(w)'
  BY <1>1 DEF TruthfulUpload
<1>3. Grows /\ TypedTables' /\ KeysHaveBundle'
  BY DEF tables, Grows, TypedTables, TableInv, TypeOK, KeysHaveBundle
<1> QED BY <1>1, <1>2, <1>3, TableKeeps

LEMMA BeginUploadTables ==
  ASSUME TableInv, NEW w \in Worker, NEW u \in User, NEW named \in User,
         NEW bundle \in Bundle, NEW ids \in SUBSET OpkId,
         BeginUpload(w, u, named, bundle, ids)
  PROVE  TableInv'
<1>1. CASE named # u /\ Answer(w, "forbidden", u, {})
  BY <1>1, TableAnswers DEF BeginUpload, TableInv, TypeOK, Status
<1>2. CASE named = u /\ Continue(w, "write",
             [user |-> u, bundle |-> bundle, loaded |-> bundles[u],
              opks |-> ids])
  <2> DEFINE j == [user |-> u, bundle |-> bundle, loaded |-> bundles[u],
                   opks |-> ids]
  <2>1. Carries("write", j)
    BY DEF TableInv, TypeOK, Carries, UploadJob
  <2>2. pc'[w] = "write" /\ job'[w] = j
    BY <1>2, <2>1, ContinueFrame DEF TableInv
  <2>3. UploadHolds(w)' /\ FetchHolds(w)'
    BY <2>2 DEF UploadHolds, FetchHolds, BeginUpload, tables
  <2> QED BY <1>2, <2>1, <2>3, TableContinues DEF BeginUpload, TableInv, TypeOK
<1> QED BY <1>1, <1>2 DEF BeginUpload

LEMMA WriteBundleTables ==
  ASSUME TableInv, NEW w \in Worker, WriteBundle(w)
  PROVE  TableInv'
<1> DEFINE j == job[w]
           next == IF j.opks = {} THEN "echo" ELSE "opks"
<1>1. pc[w] = "write" /\ j \in UploadJob
  BY DEF WriteBundle, TableInv, TypeOK, Carries
<1>2. ASSUME NEW b \in Bundle, bundles' = [bundles EXCEPT ![j.user] = b],
             Continue(w, next, j)
      PROVE  TableInv'
  <2>1. Carries(next, j)
    BY <1>1 DEF Carries, UploadJob
  <2>2. Frame(w) /\ pc'[w] = next /\ job'[w] = j /\ reply'[w].status = "none"
    BY <1>2, <2>1, ContinueFrame DEF TableInv
  <2>3. b # NoRow /\ j.user \in User
    BY <1>1, KeyDirectoryAssumption DEF UploadJob
  <2>4. Grows /\ TypedTables'
    BY <1>2, <2>3
       DEF WriteBundle, Grows, TypedTables, TableInv, TypeOK
  <2>5. KeysHaveBundle'
    <3>1. \A o \in OpkId : opks[o] # NoRow => opks[o].owner \in User
      BY DEF TableInv, TypeOK, Opk
    <3> QED BY <3>1, <2>4 DEF WriteBundle, Grows, KeysHaveBundle, TableInv
  <2>6. UploadHolds(w)' /\ FetchHolds(w)' /\ TruthfulUpload(w)'
    BY <1>2, <2>2, <2>3
       DEF UploadHolds, FetchHolds, TruthfulUpload, TableInv, TypeOK
  <2> QED BY <2>2, <2>4, <2>5, <2>6, TableKeeps
<1>3. CASE j.loaded = NoRow /\ bundles' = [bundles EXCEPT ![j.user] = j.bundle]
           /\ Continue(w, next, j)
  BY <1>1, <1>2, <1>3 DEF UploadJob
<1>4. CASE /\ j.loaded # NoRow
           /\ bundles' = [bundles EXCEPT ![j.user] =
                            Updated(bundles[j.user], j.loaded, j.bundle)]
           /\ Continue(w, next, j)
  <2>1. bundles[j.user] # NoRow
    BY <1>1, <1>4 DEF TableInv, UploadHolds
  <2>2. bundles[j.user] \in Bundle /\ j.bundle \in Bundle
    BY <1>1, <2>1 DEF TableInv, TypeOK, UploadJob
  <2>3. Updated(bundles[j.user], j.loaded, j.bundle) \in Bundle
    BY <2>2 DEF Updated, Bundle
  <2> QED BY <1>2, <1>4, <2>3
<1>5. CASE Answer(w, "server_error", j.user, {}) /\ UNCHANGED bundles
  BY <1>1, <1>5, TableAnswers
     DEF WriteBundle, tables, TableInv, TypeOK, Status, UploadJob
<1> QED BY <1>3, <1>4, <1>5 DEF WriteBundle

LEMMA InsertOpksTables ==
  ASSUME TableInv, NEW w \in Worker, InsertOpks(w)
  PROVE  TableInv'
<1> DEFINE j == job[w]
<1>1. pc[w] = "opks" /\ j \in UploadJob
  BY DEF InsertOpks, TableInv, TypeOK, Carries
<1>2. CASE /\ Storable(j.opks)
           /\ opks' = [o \in OpkId |->
                IF o \in j.opks
                THEN [owner |-> j.user, batch |-> batches + 1,
                      consumed |-> FALSE]
                ELSE opks[o]]
           /\ batches' = batches + 1
           /\ Continue(w, "echo", j)
  <2> DEFINE row == [owner |-> j.user, batch |-> batches + 1,
                     consumed |-> FALSE]
  <2>1. /\ Frame(w) /\ pc'[w] = "echo" /\ job'[w] = j
        /\ reply'[w].status = "none"
    BY <1>1, <1>2, ContinueFrame DEF TableInv, Carries
  <2>2. row \in Opk /\ row # NoRow /\ row.owner = j.user
    <3>1. batches + 1 \in Nat /\ j.user \in User
      BY <1>1 DEF UploadJob, TableInv, TypeOK
    <3>2. row \in Opk
      BY <3>1, Zenon DEF Opk
    <3> QED BY <3>2, KeyDirectoryAssumption
  <2>3. Grows /\ TypedTables'
    <3>1. opks' \in [OpkId -> Opk \cup {NoRow}]
      BY <1>2, <2>2 DEF TableInv, TypeOK
    <3>2. \A o \in OpkId : opks[o] # NoRow =>
            opks'[o] # NoRow /\ opks'[o].owner = opks[o].owner
      BY <1>1, <1>2 DEF Storable
    <3>3. batches' \in Nat
      BY <1>2 DEF TableInv, TypeOK
    <3>4. UNCHANGED <<bundles, holder, handed>>
      BY DEF InsertOpks
    <3> QED BY <3>1, <3>2, <3>3, <3>4
            DEF Grows, TypedTables, TableInv, TypeOK
  <2>4. KeysHaveBundle'
    BY <1>1, <1>2, <2>2
       DEF InsertOpks, KeysHaveBundle, TableInv, UploadHolds
  <2>5. UploadHolds(w)' /\ FetchHolds(w)' /\ TruthfulUpload(w)'
    <3>1. \A o \in j.opks : o \in OpkId
      BY <1>1 DEF UploadJob
    <3> QED BY <1>1, <1>2, <2>1, <2>2, <3>1
            DEF InsertOpks, UploadHolds, FetchHolds, TruthfulUpload, TableInv
  <2> QED BY <2>1, <2>3, <2>4, <2>5, TableKeeps
<1>3. CASE /\ Answer(w, "server_error", j.user, {})
           /\ UNCHANGED <<opks, batches>>
  BY <1>1, <1>3, TableAnswers
     DEF InsertOpks, tables, TableInv, TypeOK, Status, UploadJob
<1> QED BY <1>2, <1>3 DEF InsertOpks

LEMMA AnswerUploadTables ==
  ASSUME TableInv, NEW w \in Worker, AnswerUpload(w)
  PROVE  TableInv'
<1>1. pc[w] = "echo" /\ job[w] \in UploadJob
  BY DEF AnswerUpload, TableInv, TypeOK, Carries
<1>2. /\ Frame(w) /\ pc'[w] = "idle"
      /\ reply'[w] = [status |-> "uploaded", user |-> job[w].user,
                      opks |-> job[w].opks]
  BY <1>1, AnswerFrame DEF AnswerUpload, TableInv, Status, UploadJob
<1>3. TruthfulUpload(w)'
  BY <1>1, <1>2
     DEF AnswerUpload, tables, TruthfulUpload, TableInv, UploadHolds
<1>4. UploadHolds(w)' /\ FetchHolds(w)'
  BY <1>2 DEF UploadHolds, FetchHolds
<1>5. Grows /\ TypedTables' /\ KeysHaveBundle'
  BY DEF AnswerUpload, tables, Grows, TypedTables, TableInv, TypeOK,
         KeysHaveBundle
<1> QED BY <1>2, <1>3, <1>4, <1>5, TableKeeps

LEMMA BeginFetchTables ==
  ASSUME TableInv, NEW w \in Worker, NEW u \in User, BeginFetch(w, u)
  PROVE  TableInv'
<1>1. CASE Answer(w, "not_found", u, {})
  BY <1>1, TableAnswers DEF BeginFetch, TableInv, TypeOK, Status
<1>2. CASE Continue(w, "select", [user |-> u])
  <2>1. Carries("select", [user |-> u])
    BY DEF Carries
  <2>2. pc'[w] = "select"
    BY <1>2, <2>1, ContinueFrame DEF TableInv
  <2>3. UploadHolds(w)' /\ FetchHolds(w)'
    BY <2>2 DEF UploadHolds, FetchHolds
  <2> QED BY <1>2, <2>1, <2>3, TableContinues DEF BeginFetch, TableInv, TypeOK
<1> QED BY <1>1, <1>2 DEF BeginFetch

LEMMA SelectOpkTables ==
  ASSUME TableInv, NEW w \in Worker, SelectOpk(w)
  PROVE  TableInv'
<1> DEFINE u == job[w].user
<1>1. pc[w] = "select" /\ u \in User
  BY DEF SelectOpk, TableInv, TypeOK, Carries
<1>2. ASSUME NEW o \in Oldest(Selectable(u)),
             holder' = IF RowLocks THEN [holder EXCEPT ![o] = w] ELSE holder,
             Continue(w, "consume", [user |-> u, opk |-> o])
      PROVE  TableInv'
  <2>1. o \in OpkId /\ opks[o] # NoRow
    BY DEF Oldest, Selectable, Unconsumed
  <2>2. Carries("consume", [user |-> u, opk |-> o])
    BY <1>1, <2>1 DEF Carries
  <2>3. pc'[w] = "consume" /\ job'[w] = [user |-> u, opk |-> o]
    BY <1>2, <2>2, ContinueFrame DEF TableInv
  <2>4. UploadHolds(w)' /\ FetchHolds(w)'
    BY <2>1, <2>3 DEF UploadHolds, FetchHolds, SelectOpk, tables
  <2>5. holder' \in [OpkId -> Worker \cup {Free}]
    BY <1>2 DEF TableInv, TypeOK
  <2> QED BY <1>2, <2>2, <2>4, <2>5, TableContinues DEF SelectOpk
<1>3. CASE Answer(w, "bundle", u, {}) /\ UNCHANGED holder
  BY <1>1, <1>3, TableAnswers DEF SelectOpk, TableInv, TypeOK, Status
<1> QED BY <1>2, <1>3 DEF SelectOpk

\* What consuming does to the table of prekeys.
LEMMA Consumed ==
  ASSUME TableInv, NEW w \in Worker, ConsumeOpk(w)
  PROVE  LET o == job[w].opk IN
           /\ pc[w] = "consume" /\ job[w] \in [user : User, opk : OpkId]
           /\ opks[o] # NoRow
           /\ opks' \in [OpkId -> Opk \cup {NoRow}]
           /\ opks'[o] # NoRow /\ opks'[o].consumed
           /\ opks'[o].owner = opks[o].owner
           /\ \A p \in OpkId : p # o => opks'[p] = opks[p]
<1> DEFINE o == job[w].opk
<1>1. pc[w] = "consume" /\ job[w] \in [user : User, opk : OpkId]
  BY DEF ConsumeOpk, TableInv, TypeOK, Carries
<1>2. opks[o] \in Opk
  BY <1>1 DEF TableInv, TypeOK, FetchHolds
<1>3. opks' = [opks EXCEPT ![o] = [opks[o] EXCEPT !.consumed = TRUE]]
  BY DEF ConsumeOpk
<1>4. /\ [opks[o] EXCEPT !.consumed = TRUE] \in Opk
      /\ [opks[o] EXCEPT !.consumed = TRUE].consumed
      /\ [opks[o] EXCEPT !.consumed = TRUE].owner = opks[o].owner
  BY <1>2 DEF Opk
<1>5. NoRow \notin Opk
  BY KeyDirectoryAssumption
<1> QED BY <1>1, <1>2, <1>3, <1>4, <1>5 DEF TableInv, TypeOK

LEMMA ConsumeOpkTables ==
  ASSUME TableInv, NEW w \in Worker, ConsumeOpk(w)
  PROVE  TableInv'
<1> DEFINE o == job[w].opk
<1>1. /\ pc[w] = "consume" /\ job[w] \in [user : User, opk : OpkId]
      /\ opks' \in [OpkId -> Opk \cup {NoRow}]
      /\ opks'[o] # NoRow /\ opks'[o].owner = opks[o].owner
      /\ \A p \in OpkId : p # o => opks'[p] = opks[p]
      /\ opks[o] # NoRow
  BY Consumed
<1>2. /\ Frame(w) /\ pc'[w] = "answer" /\ job'[w] = job[w]
      /\ reply'[w].status = "none"
  BY <1>1, ContinueFrame DEF ConsumeOpk, TableInv, Carries
<1>3. Grows /\ TypedTables'
  <2>1. holder' \in [OpkId -> Worker \cup {Free}]
    BY <1>1 DEF ConsumeOpk, TableInv, TypeOK
  <2> QED BY <1>1, <2>1 DEF ConsumeOpk, Grows, TypedTables, TableInv, TypeOK
<1>4. KeysHaveBundle'
  BY <1>1 DEF ConsumeOpk, KeysHaveBundle, TableInv
<1>5. UploadHolds(w)' /\ FetchHolds(w)' /\ TruthfulUpload(w)'
  BY <1>1, <1>2 DEF UploadHolds, FetchHolds, TruthfulUpload
<1> QED BY <1>2, <1>3, <1>4, <1>5, TableKeeps

LEMMA AnswerFetchTables ==
  ASSUME TableInv, NEW w \in Worker, AnswerFetch(w)
  PROVE  TableInv'
<1>1. job[w] \in [user : User, opk : OpkId]
  BY DEF AnswerFetch, TableInv, TypeOK, Carries
<1>2. handed' \in [OpkId -> Nat]
  BY <1>1 DEF AnswerFetch, TableInv, TypeOK
<1> QED BY <1>1, <1>2, TableAnswers
        DEF AnswerFetch, TableInv, TypeOK, Status

LEMMA CrashTables ==
  ASSUME TableInv, NEW w \in Worker, Crash(w)
  PROVE  TableInv'
<1>1. holder' \in [OpkId -> Worker \cup {Free}]
  BY DEF Crash, TableInv, TypeOK
<1>2. /\ Answer(w, "none", NoRow, {}) /\ tables' = tables
      /\ handed' \in [OpkId -> Nat]
  BY DEF Crash, TableInv, TypeOK
<1>3. "none" \in Status \ {"uploaded"} /\ {} \in SUBSET OpkId
  BY DEF Status
<1> QED BY <1>1, <1>2, <1>3, TableAnswers

LEMMA TableInit == Init => TableInv
<1> SUFFICES ASSUME Init  PROVE TableInv
  OBVIOUS
<1>1. NoReply \in Reply /\ NoReply.status = "none"
  BY DEF NoReply, Reply, Status
<1>2. TypeOK
  BY <1>1 DEF Init, TypeOK, Carries
<1> QED BY <1>1, <1>2
        DEF Init, TableInv, UploadHolds, FetchHolds, KeysHaveBundle,
            UploadedKeysExist

LEMMA TableNext == TableInv /\ [Next]_vars => TableInv'
<1> SUFFICES ASSUME TableInv, [Next]_vars  PROVE TableInv'
  OBVIOUS
<1>1. ASSUME NEW w \in Worker, NEW u \in User, NEW named \in User,
             NEW bundle \in Bundle, NEW ids \in SUBSET OpkId,
             BeginUpload(w, u, named, bundle, ids)
      PROVE  TableInv'
  BY <1>1, BeginUploadTables
<1>2. ASSUME NEW w \in Worker, NEW u \in User, BeginFetch(w, u)
      PROVE  TableInv'
  BY <1>2, BeginFetchTables
<1>3. ASSUME NEW w \in Worker, Handle(w)  PROVE TableInv'
  BY <1>3, WriteBundleTables, InsertOpksTables, AnswerUploadTables,
     SelectOpkTables, ConsumeOpkTables, AnswerFetchTables DEF Handle
<1>4. ASSUME NEW w \in Worker, Crash(w)  PROVE TableInv'
  BY <1>4, CrashTables
<1>5. CASE UNCHANGED vars
  BY <1>5
     DEF vars, TableInv, TypeOK, UploadHolds, FetchHolds, KeysHaveBundle,
         UploadedKeysExist
<1> QED BY <1>1, <1>2, <1>3, <1>4, <1>5 DEF Next

\* The invariant of the tables, on a database with or without row locks.
THEOREM Tables == Spec => []TableInv
BY TableInit, TableNext, PTL DEF Spec

\* The columns and what threads carry are well typed in every reachable state.
THEOREM TypeCorrect == Spec => []TypeOK
<1>1. TableInv => TypeOK
  BY DEF TableInv
<1> QED BY <1>1, Tables, PTL

\* A user whose prekeys are stored has a bundle, however uploads interleave
\* or die between their two commits.
THEOREM PrekeysHaveBundles == Spec => []KeysHaveBundle
<1>1. TableInv => KeysHaveBundle
  BY DEF TableInv
<1> QED BY <1>1, Tables, PTL

\* An upload answers with success only if every prekey it named is stored
\* under its user.
THEOREM UploadsAreStored == Spec => []UploadedKeysExist
<1>1. TableInv => UploadedKeysExist
  BY DEF TableInv
<1> QED BY <1>1, Tables, PTL

----------------------------------------------------------------------------
(* The invariant of the pool, where rows are locked.                       *)

\* A thread that touches neither prekeys nor locks, and holds none.
LEMMA PoolKeeps ==
  ASSUME TableInv, PoolInv, NEW w \in Worker, Frame(w),
         pc[w] # "consume", pc'[w] \notin {"consume", "answer"},
         UNCHANGED <<opks, holder, handed>>
  PROVE  PoolInv'
<1>1. \A v \in Worker : v # w => pc'[v] = pc[v] /\ job'[v] = job[v]
  BY DEF Frame
<1>2. NoOrphanLock'
  BY <1>1 DEF PoolInv, NoOrphanLock, Unconsumed, TableInv, TypeOK
<1>3. \A v \in Worker : LockHeld(v)' /\ Taken(v)'
  BY <1>1 DEF PoolInv, LockHeld, Taken
<1>4. \A o \in OpkId : Handed(o)'
  BY DEF PoolInv, Handed
<1> QED BY <1>2, <1>3, <1>4 DEF PoolInv

LEMMA InsertOpksPool ==
  ASSUME TableInv, PoolInv, NEW w \in Worker, InsertOpks(w)
  PROVE  PoolInv'
<1> DEFINE j == job[w]
<1>1. pc[w] = "opks" /\ j \in UploadJob
  BY DEF InsertOpks, TableInv, TypeOK, Carries
<1>2. CASE Storable(j.opks) /\ Continue(w, "echo", j)
           /\ opks' = [o \in OpkId |->
                IF o \in j.opks
                THEN [owner |-> j.user, batch |-> batches + 1,
                      consumed |-> FALSE]
                ELSE opks[o]]
  <2>1. Frame(w) /\ pc'[w] = "echo"
    BY <1>1, <1>2, ContinueFrame DEF TableInv, Carries
  <2>2. \A v \in Worker : v # w => pc'[v] = pc[v] /\ job'[v] = job[v]
    BY <2>1 DEF Frame
  <2>3. \A o \in OpkId : opks[o] # NoRow => opks'[o] = opks[o]
    BY <1>1, <1>2 DEF Storable
  <2>4. UNCHANGED <<holder, handed>>
    BY DEF InsertOpks
  <2>5. NoOrphanLock'
    BY <1>1, <2>2, <2>3, <2>4
       DEF PoolInv, NoOrphanLock, Unconsumed, TableInv, TypeOK
  <2>6. ASSUME NEW v \in Worker  PROVE LockHeld(v)' /\ Taken(v)'
    <3>1. CASE v = w
      BY <2>1, <3>1 DEF LockHeld, Taken
    <3>2. CASE v # w
      <4>1. pc[v] = "answer" => job[v].opk \in OpkId /\ opks[job[v].opk] # NoRow
        BY DEF TableInv, TypeOK, Carries, FetchHolds
      <4> QED BY <2>1, <2>2, <2>3, <2>4, <3>2, <4>1
              DEF PoolInv, LockHeld, Taken
    <3> QED BY <3>1, <3>2
  <2>7. \A o \in OpkId : Handed(o)'
    BY <2>3, <2>4 DEF PoolInv, Handed
  <2> QED BY <2>5, <2>6, <2>7 DEF PoolInv
<1>3. CASE Answer(w, "server_error", j.user, {}) /\ UNCHANGED opks
  <2>1. Frame(w) /\ pc'[w] = "idle"
    BY <1>1, <1>3, AnswerIdles DEF Status, UploadJob
  <2> QED BY <1>1, <1>3, <2>1, PoolKeeps DEF InsertOpks
<1> QED BY <1>2, <1>3 DEF InsertOpks

LEMMA SelectOpkPool ==
  ASSUME RowLocks, TableInv, PoolInv, NEW w \in Worker, SelectOpk(w)
  PROVE  PoolInv'
<1> DEFINE u == job[w].user
<1>1. pc[w] = "select" /\ u \in User
  BY DEF SelectOpk, TableInv, TypeOK, Carries
<1>2. ASSUME NEW o \in Oldest(Selectable(u)),
             holder' = [holder EXCEPT ![o] = w],
             Continue(w, "consume", [user |-> u, opk |-> o])
      PROVE  PoolInv'
  <2>1. o \in OpkId /\ Unconsumed(o) /\ holder[o] = Free
    BY DEF Oldest, Selectable
  <2>2. /\ Frame(w) /\ pc'[w] = "consume"
        /\ job'[w] = [user |-> u, opk |-> o]
    BY <1>1, <1>2, <2>1, ContinueFrame DEF TableInv, Carries
  <2>3. \A v \in Worker : v # w => pc'[v] = pc[v] /\ job'[v] = job[v]
    BY <2>2 DEF Frame
  <2>4. UNCHANGED <<opks, handed>>
    BY DEF SelectOpk, tables
  <2>5. holder'[o] = w /\ \A p \in OpkId : p # o => holder'[p] = holder[p]
    BY <1>2, <2>1 DEF TableInv, TypeOK
  <2>6. NoOrphanLock'
    <3>1. \A p \in OpkId : holder[p] = Free \/ holder[p] \in Worker
      BY DEF TableInv, TypeOK
    <3> QED BY <1>1, <2>1, <2>2, <2>3, <2>4, <2>5, <3>1
            DEF PoolInv, NoOrphanLock, Unconsumed
  <2>7. ASSUME NEW v \in Worker  PROVE LockHeld(v)' /\ Taken(v)'
    <3>1. CASE v = w
      BY <2>2, <2>5, <3>1 DEF LockHeld, Taken
    <3>2. CASE v # w
      <4>1. pc[v] = "consume" => job[v].opk \in OpkId /\ job[v].opk # o
        BY <2>1, KeyDirectoryAssumption
           DEF PoolInv, LockHeld, TableInv, TypeOK, Carries
      <4> QED BY <2>2, <2>3, <2>4, <2>5, <3>2, <4>1
              DEF PoolInv, LockHeld, Taken
    <3> QED BY <3>1, <3>2
  <2>8. \A p \in OpkId : Handed(p)'
    BY <2>4 DEF PoolInv, Handed
  <2> QED BY <2>6, <2>7, <2>8 DEF PoolInv
<1>3. CASE Answer(w, "bundle", u, {}) /\ UNCHANGED holder
  <2>1. Frame(w) /\ pc'[w] = "idle"
    BY <1>1, <1>3, AnswerIdles DEF Status
  <2> QED BY <1>1, <1>3, <2>1, PoolKeeps DEF SelectOpk, tables
<1> QED BY <1>2, <1>3 DEF SelectOpk

LEMMA ConsumeOpkPool ==
  ASSUME RowLocks, TableInv, PoolInv, NEW w \in Worker, ConsumeOpk(w)
  PROVE  PoolInv'
<1> DEFINE o == job[w].opk
<1>1. /\ pc[w] = "consume" /\ job[w] \in [user : User, opk : OpkId]
      /\ opks'[o] # NoRow /\ opks'[o].consumed
      /\ \A p \in OpkId : p # o => opks'[p] = opks[p]
  BY Consumed
<1>2. o \in OpkId /\ holder[o] = w /\ Unconsumed(o)
  BY <1>1, KeyDirectoryAssumption DEF PoolInv, LockHeld, NoOrphanLock
<1>3. Frame(w) /\ pc'[w] = "answer" /\ job'[w] = job[w]
  BY <1>1, ContinueFrame DEF ConsumeOpk, TableInv, Carries
<1>4. \A v \in Worker : v # w => pc'[v] = pc[v] /\ job'[v] = job[v]
  BY <1>3 DEF Frame
<1>5. /\ holder'[o] = Free /\ handed' = handed
      /\ \A p \in OpkId : p # o => holder'[p] = holder[p]
  BY <1>2 DEF ConsumeOpk, TableInv, TypeOK
<1>6. \A v \in Worker : pc[v] = "answer" => job[v].opk # o
  BY <1>2 DEF PoolInv, Taken, Unconsumed
<1>7. NoOrphanLock'
  <2>1. \A p \in OpkId : p # o /\ holder[p] # Free => holder[p] # w
    BY DEF PoolInv, NoOrphanLock
  <2>2. \A p \in OpkId : holder[p] = Free \/ holder[p] \in Worker
    BY DEF TableInv, TypeOK
  <2> QED BY <1>1, <1>4, <1>5, <2>1, <2>2 DEF PoolInv, NoOrphanLock, Unconsumed
<1>8. ASSUME NEW v \in Worker  PROVE LockHeld(v)'
  <2>1. CASE v = w
    BY <1>3, <2>1 DEF LockHeld
  <2>2. CASE v # w
    <3>1. pc[v] = "consume" => job[v].opk \in OpkId /\ job[v].opk # o
      BY <1>2, <2>2 DEF PoolInv, LockHeld, TableInv, TypeOK, Carries
    <3> QED BY <1>4, <1>5, <2>2, <3>1 DEF PoolInv, LockHeld
  <2> QED BY <2>1, <2>2
<1>9. ASSUME NEW v \in Worker  PROVE Taken(v)'
  <2>1. CASE v = w
    <3>1. handed[o] = 0
      BY <1>2 DEF PoolInv, Handed, Unconsumed
    <3> QED BY <1>1, <1>3, <1>4, <1>5, <1>6, <2>1, <3>1 DEF Taken
  <2>2. CASE v # w
    <3>1. pc[v] = "answer" => job[v].opk \in OpkId /\ job[v].opk # o
      BY <1>6 DEF TableInv, TypeOK, Carries
    <3> QED BY <1>1, <1>3, <1>4, <1>5, <2>2, <3>1 DEF PoolInv, Taken
  <2> QED BY <2>1, <2>2
<1>10. \A p \in OpkId : Handed(p)'
  BY <1>1, <1>5 DEF PoolInv, Handed
<1> QED BY <1>7, <1>8, <1>9, <1>10 DEF PoolInv

LEMMA AnswerFetchPool ==
  ASSUME TableInv, PoolInv, NEW w \in Worker, AnswerFetch(w)
  PROVE  PoolInv'
<1> DEFINE o == job[w].opk
<1>1. pc[w] = "answer" /\ job[w].user \in User /\ o \in OpkId
  BY DEF AnswerFetch, TableInv, TypeOK, Carries
<1>2. Frame(w) /\ pc'[w] = "idle"
  BY <1>1, AnswerIdles DEF AnswerFetch, Status
<1>3. \A v \in Worker : v # w => pc'[v] = pc[v] /\ job'[v] = job[v]
  BY <1>2 DEF Frame
<1>4. opks[o] # NoRow /\ opks[o].consumed /\ handed[o] = 0
  BY <1>1 DEF PoolInv, Taken, TableInv, FetchHolds
<1>5. /\ handed'[o] = 1 /\ UNCHANGED <<opks, holder>>
      /\ \A p \in OpkId : p # o => handed'[p] = handed[p]
  BY <1>1, <1>4 DEF AnswerFetch, tables, TableInv, TypeOK
<1>6. NoOrphanLock'
  BY <1>1, <1>3, <1>5 DEF PoolInv, NoOrphanLock, Unconsumed, TableInv, TypeOK
<1>7. ASSUME NEW v \in Worker  PROVE LockHeld(v)' /\ Taken(v)'
  <2>1. CASE v = w
    BY <1>2, <2>1 DEF LockHeld, Taken
  <2>2. CASE v # w
    <3>1. pc[v] = "answer" => job[v].opk \in OpkId /\ job[v].opk # o
      BY <1>1, <2>2 DEF PoolInv, Taken, TableInv, TypeOK, Carries
    <3> QED BY <1>2, <1>3, <1>5, <2>2, <3>1 DEF PoolInv, LockHeld, Taken
  <2> QED BY <2>1, <2>2
<1>8. \A p \in OpkId : Handed(p)'
  BY <1>4, <1>5 DEF PoolInv, Handed
<1> QED BY <1>6, <1>7, <1>8 DEF PoolInv

\* The rollback of a dead thread releases exactly its own locks.
LEMMA CrashPool ==
  ASSUME TableInv, PoolInv, NEW w \in Worker, Crash(w)
  PROVE  PoolInv'
<1>1. Frame(w) /\ pc'[w] = "idle"
  BY AnswerIdles DEF Crash, Status
<1>2. \A v \in Worker : v # w => pc'[v] = pc[v] /\ job'[v] = job[v]
  BY <1>1 DEF Frame
<1>3. /\ UNCHANGED <<opks, handed>>
      /\ \A o \in OpkId :
           holder'[o] = IF holder[o] = w THEN Free ELSE holder[o]
  BY DEF Crash, tables
<1>4. NoOrphanLock'
  BY <1>2, <1>3 DEF PoolInv, NoOrphanLock, Unconsumed, TableInv, TypeOK
<1>5. ASSUME NEW v \in Worker  PROVE LockHeld(v)' /\ Taken(v)'
  <2>1. CASE v = w
    BY <1>1, <2>1 DEF LockHeld, Taken
  <2>2. CASE v # w
    <3>1. pc[v] = "consume" => job[v].opk \in OpkId
      BY DEF TableInv, TypeOK, Carries
    <3> QED BY <1>1, <1>2, <1>3, <2>2, <3>1 DEF PoolInv, LockHeld, Taken
  <2> QED BY <2>1, <2>2
<1>6. \A o \in OpkId : Handed(o)'
  BY <1>3 DEF PoolInv, Handed
<1> QED BY <1>4, <1>5, <1>6 DEF PoolInv

LEMMA PoolInit == Init => PoolInv
BY DEF Init, PoolInv, NoOrphanLock, LockHeld, Taken, Handed

\* The steps that begin, write bundles and answer uploads.
LEMMA OtherStepsPool ==
  ASSUME TableInv, PoolInv, NEW w \in Worker,
         \/ \E u, named \in User, bundle \in Bundle, ids \in SUBSET OpkId :
              BeginUpload(w, u, named, bundle, ids)
         \/ \E u \in User : BeginFetch(w, u)
         \/ WriteBundle(w)
         \/ AnswerUpload(w)
  PROVE  PoolInv'
<1>1. UNCHANGED <<opks, holder, handed>> /\ pc[w] # "consume"
  BY DEF BeginUpload, BeginFetch, WriteBundle, AnswerUpload, tables
<1>2. ASSUME NEW status \in Status, NEW user \in User, NEW about \in SUBSET OpkId,
             Answer(w, status, user, about)
      PROVE  PoolInv'
  BY <1>1, <1>2, AnswerIdles, PoolKeeps
<1>3. ASSUME NEW statement \in {"write", "opks", "echo", "select"},
             NEW carried, Carries(statement, carried),
             Continue(w, statement, carried)
      PROVE  PoolInv'
  <2>1. Frame(w) /\ pc'[w] = statement
    BY <1>3, ContinueFrame DEF TableInv
  <2> QED BY <1>1, <2>1, PoolKeeps
<1>4. ASSUME NEW u \in User, NEW named \in User, NEW bundle \in Bundle,
             NEW ids \in SUBSET OpkId, BeginUpload(w, u, named, bundle, ids)
      PROVE  PoolInv'
  <2> DEFINE j == [user |-> u, bundle |-> bundle, loaded |-> bundles[u],
                   opks |-> ids]
  <2>1. "forbidden" \in Status /\ {} \in SUBSET OpkId
    BY DEF Status
  <2>2. Carries("write", j)
    BY DEF TableInv, TypeOK, Carries, UploadJob
  <2> QED BY <1>2, <1>3, <1>4, <2>1, <2>2 DEF BeginUpload
<1>5. ASSUME NEW u \in User, BeginFetch(w, u)  PROVE PoolInv'
  <2>1. "not_found" \in Status /\ {} \in SUBSET OpkId
    BY DEF Status
  <2>2. Carries("select", [user |-> u])
    BY DEF Carries
  <2> QED BY <1>2, <1>3, <1>5, <2>1, <2>2 DEF BeginFetch
<1>6. CASE WriteBundle(w)
  <2>1. job[w] \in UploadJob
    BY <1>6 DEF WriteBundle, TableInv, TypeOK, Carries
  <2>2. "server_error" \in Status /\ {} \in SUBSET OpkId /\ job[w].user \in User
    BY <2>1 DEF Status, UploadJob
  <2>3. Carries("echo", job[w]) /\ Carries("opks", job[w])
    BY <2>1 DEF Carries
  <2> QED BY <1>2, <1>3, <1>6, <2>2, <2>3 DEF WriteBundle
<1>7. CASE AnswerUpload(w)
  <2>1. job[w] \in UploadJob
    BY <1>7 DEF AnswerUpload, TableInv, TypeOK, Carries
  <2>2. /\ "uploaded" \in Status /\ job[w].user \in User
        /\ job[w].opks \in SUBSET OpkId
    BY <2>1 DEF Status, UploadJob
  <2> QED BY <1>2, <1>7, <2>2 DEF AnswerUpload
<1> QED BY <1>4, <1>5, <1>6, <1>7

LEMMA PoolNext ==
  ASSUME RowLocks
  PROVE  TableInv /\ PoolInv /\ [Next]_vars => PoolInv'
<1> SUFFICES ASSUME TableInv, PoolInv, [Next]_vars  PROVE PoolInv'
  OBVIOUS
<1>1. ASSUME NEW w \in Worker,
             \/ \E u, named \in User, bundle \in Bundle, ids \in SUBSET OpkId :
                  BeginUpload(w, u, named, bundle, ids)
             \/ \E u \in User : BeginFetch(w, u)
      PROVE  PoolInv'
  BY <1>1, OtherStepsPool
<1>2. ASSUME NEW w \in Worker, Handle(w)  PROVE PoolInv'
  BY <1>2, OtherStepsPool, InsertOpksPool, SelectOpkPool, ConsumeOpkPool,
     AnswerFetchPool DEF Handle
<1>3. ASSUME NEW w \in Worker, Crash(w)  PROVE PoolInv'
  BY <1>3, CrashPool
<1>4. CASE UNCHANGED vars
  BY <1>4
     DEF vars, PoolInv, NoOrphanLock, Unconsumed, LockHeld, Taken, Handed
<1> QED BY <1>1, <1>2, <1>3, <1>4 DEF Next

\* The invariant of the pool, on a database that locks rows.
THEOREM Pool == ASSUME RowLocks  PROVE Spec => []PoolInv
<1>1. TableInv /\ PoolInv /\ [Next]_vars => PoolInv'
  BY PoolNext
<1> QED BY <1>1, PoolInit, Tables, PTL DEF Spec

\* Where FOR UPDATE locks rows, a one-time prekey is handed to at most one
\* requester, however many fetch at the same time and whichever die.
THEOREM SingleUse == ASSUME RowLocks  PROVE Spec => []HandedOutOnce
<1>1. PoolInv => HandedOutOnce
  BY DEF PoolInv, Handed, HandedOutOnce
<1> QED BY <1>1, Pool, PTL

\* No lock on a prekey outlives the request that took it.
THEOREM LocksAreReleased == ASSUME RowLocks  PROVE Spec => []NoOrphanLock
<1>1. PoolInv => NoOrphanLock
  BY DEF PoolInv
<1> QED BY <1>1, Pool, PTL

----------------------------------------------------------------------------
(* The directory implements the pool.                                      *)

phases == [o \in OpkId |-> Phase(o)]

LEMMA PhasesKept ==
  ASSUME UNCHANGED opks
  PROVE  phases' = phases
BY DEF phases, Phase

LEMMA InsertOpksAdds ==
  ASSUME TableInv, PoolInv, NEW w \in Worker, InsertOpks(w)
  PROVE  \/ \E batch \in SUBSET OpkId : P!Add(batch)
         \/ UNCHANGED <<phases, handed>>
<1> DEFINE j == job[w]
<1>1. j \in UploadJob
  BY DEF InsertOpks, TableInv, TypeOK, Carries
<1>2. CASE /\ Storable(j.opks)
           /\ opks' = [o \in OpkId |->
                IF o \in j.opks
                THEN [owner |-> j.user, batch |-> batches + 1,
                      consumed |-> FALSE]
                ELSE opks[o]]
  <2> DEFINE row == [owner |-> j.user, batch |-> batches + 1,
                     consumed |-> FALSE]
  <2>1. j.opks \in SUBSET OpkId /\ handed' = handed
    BY <1>1 DEF UploadJob, InsertOpks
  <2>2. row # NoRow /\ ~ row.consumed
    <3>1. batches + 1 \in Nat /\ j.user \in User
      BY <1>1 DEF UploadJob, TableInv, TypeOK
    <3>2. row \in Opk
      BY <3>1, Zenon DEF Opk
    <3> QED BY <3>2, KeyDirectoryAssumption
  <2>3. \A o \in j.opks : phases[o] = "absent"
    BY <1>2, <2>1 DEF Storable, phases, Phase
  <2>4. ASSUME NEW o \in OpkId
        PROVE  phases'[o] = IF o \in j.opks THEN "available" ELSE phases[o]
    BY <1>2, <2>1, <2>2 DEF phases, Phase
  <2>5. phases' = [o \in OpkId |->
                     IF o \in j.opks THEN "available" ELSE phases[o]]
    BY <2>4 DEF phases
  <2> QED BY <2>1, <2>3, <2>5 DEF P!Add, phases
<1>3. CASE UNCHANGED opks
  BY <1>3, PhasesKept DEF InsertOpks
<1> QED BY <1>2, <1>3 DEF InsertOpks

LEMMA ConsumeOpkTakes ==
  ASSUME TableInv, PoolInv, NEW w \in Worker, ConsumeOpk(w)
  PROVE  \E o \in OpkId : P!Take(o)
<1> DEFINE o == job[w].opk
<1>1. /\ pc[w] = "consume" /\ job[w] \in [user : User, opk : OpkId]
      /\ opks'[o] # NoRow /\ opks'[o].consumed
      /\ \A p \in OpkId : p # o => opks'[p] = opks[p]
  BY Consumed
<1>2. o \in OpkId /\ Unconsumed(o)
  BY <1>1, KeyDirectoryAssumption DEF PoolInv, LockHeld, NoOrphanLock
<1>3. handed' = handed
  BY DEF ConsumeOpk
<1>4. phases[o] = "available"
  BY <1>2 DEF phases, Phase, Unconsumed
<1>5. ASSUME NEW p \in OpkId
      PROVE  phases'[p] = IF p = o THEN "taken" ELSE phases[p]
  BY <1>1, <1>3 DEF phases, Phase
<1>6. phases' = [phases EXCEPT ![o] = "taken"]
  BY <1>5 DEF phases
<1> QED BY <1>2, <1>3, <1>4, <1>6 DEF P!Take, phases

LEMMA AnswerFetchHands ==
  ASSUME TableInv, PoolInv, NEW w \in Worker, AnswerFetch(w)
  PROVE  \E o \in OpkId : P!Hand(o)
<1> DEFINE o == job[w].opk
<1>1. pc[w] = "answer" /\ o \in OpkId
  BY DEF AnswerFetch, TableInv, TypeOK, Carries
<1>2. opks[o] # NoRow /\ opks[o].consumed /\ handed[o] = 0
  BY <1>1 DEF PoolInv, Taken, TableInv, FetchHolds
<1>3. handed' = [handed EXCEPT ![o] = 1]
  BY <1>2 DEF AnswerFetch
<1>4. phases[o] = "taken"
  BY <1>1, <1>2 DEF phases, Phase
<1>5. phases' = phases
  BY PhasesKept DEF AnswerFetch, tables
<1> QED BY <1>1, <1>2, <1>3, <1>4, <1>5 DEF P!Hand, phases

LEMMA StepSimulates ==
  ASSUME TableInv, PoolInv, [Next]_vars
  PROVE  P!Next \/ UNCHANGED <<phases, handed>>
<1>1. ASSUME NEW w \in Worker, InsertOpks(w) \/ ConsumeOpk(w) \/ AnswerFetch(w)
      PROVE  P!Next \/ UNCHANGED <<phases, handed>>
  BY <1>1, InsertOpksAdds, ConsumeOpkTakes, AnswerFetchHands DEF P!Next
<1>2. ASSUME NEW w \in Worker,
             \/ \E u, named \in User, bundle \in Bundle, ids \in SUBSET OpkId :
                  BeginUpload(w, u, named, bundle, ids)
             \/ \E u \in User : BeginFetch(w, u)
             \/ WriteBundle(w) \/ AnswerUpload(w) \/ SelectOpk(w) \/ Crash(w)
      PROVE  UNCHANGED <<phases, handed>>
  BY <1>2, PhasesKept
     DEF BeginUpload, BeginFetch, WriteBundle, AnswerUpload, SelectOpk, Crash,
         tables
<1>3. CASE UNCHANGED vars
  BY <1>3, PhasesKept DEF vars
<1> QED BY <1>1, <1>2, <1>3 DEF Next, Handle

\* Where FOR UPDATE locks rows, the key directory is an OpkPool: every prekey
\* goes from the pool to one requester, or is lost with the request it was
\* taken by, and never returns.  The locks are needed: on SQLite two fetches
\* that have selected one prekey hand it out twice, which no step of OpkPool
\* does.
THEOREM Implements == ASSUME RowLocks  PROVE Spec => ImplementsOpkPool
<1>1. Init => P!Init
  BY DEF Init, P!Init, Phase
<1>2. TableInv /\ PoolInv /\ [Next]_vars => [P!Next]_(P!vars)
  BY StepSimulates DEF P!vars, phases
<1> QED BY <1>1, <1>2, Tables, Pool, PTL DEF Spec, ImplementsOpkPool, P!Spec

----------------------------------------------------------------------------
(***************************************************************************)
(* How often a prekey is handed out where FOR UPDATE locks nothing.  The   *)
(* argument: as long as the prekey is unconsumed nobody has answered with  *)
(* it, and those who have selected it are among the threads; once it is    *)
(* consumed nobody selects it any more, and every answer has one thread    *)
(* less to come.                                                           *)
(***************************************************************************)

\* The threads that have selected the prekey o and have not answered yet.
Takers(o) ==
  {w \in Worker : pc[w] \in {"consume", "answer"} /\ job[w].opk = o}

\* Whoever is about to answer has consumed the prekey.
AnswersConsumed(w) == pc[w] = "answer" => opks[job[w].opk].consumed

\* Nobody has been answered with a prekey that is not consumed.
UnconsumedIsUnhanded(o) ==
  opks[o] = NoRow \/ ~ opks[o].consumed => handed[o] = 0

\* The answers with o that were given and that are to come.
Answerable(o) == handed[o] + Cardinality(Takers(o)) =< Cardinality(Worker)

\* What holds on every database, of the prekeys that are handed out.
ReuseInv ==
  /\ \A w \in Worker : AnswersConsumed(w)
  /\ \A o \in OpkId : UnconsumedIsUnhanded(o) /\ Answerable(o)

LEMMA TakersCounted ==
  ASSUME IsFiniteSet(Worker), NEW S \in SUBSET Worker
  PROVE  /\ IsFiniteSet(S) /\ Cardinality(S) \in Nat
         /\ Cardinality(Worker) \in Nat
         /\ Cardinality(S) =< Cardinality(Worker)
BY FS_Subset, FS_CardinalityType

\* Fewer takers of a prekey that has not been handed out once more.
LEMMA FewerTakers ==
  ASSUME IsFiniteSet(Worker), TypeOK, NEW o \in OpkId, Answerable(o),
         Takers(o)' \subseteq Takers(o), handed'[o] = handed[o]
  PROVE  Answerable(o)'
<1> DEFINE S == Takers(o)
           T == Takers(o)'
<1>1. S \in SUBSET Worker /\ T \in SUBSET S
  BY DEF Takers
<1>2. /\ IsFiniteSet(S) /\ Cardinality(S) \in Nat
      /\ Cardinality(Worker) \in Nat
  BY <1>1, TakersCounted
<1>3. Cardinality(T) \in Nat /\ Cardinality(T) =< Cardinality(S)
  BY <1>1, <1>2, FS_Subset, FS_CardinalityType
<1>4. handed[o] + Cardinality(S) =< Cardinality(Worker)
  BY DEF Answerable
<1>5. handed'[o] + Cardinality(T) =< Cardinality(Worker)
  <2>1. handed[o] \in Nat
    BY DEF TypeOK
  <2> HIDE DEF S, T
  <2> QED BY <1>2, <1>3, <1>4, <2>1
<1> QED BY <1>5 DEF Answerable

\* A thread that selects nothing and consumes nothing.
LEMMA ReuseKeeps ==
  ASSUME IsFiniteSet(Worker), TableInv, ReuseInv, NEW w \in Worker, Frame(w),
         pc'[w] \notin {"consume", "answer"}, UNCHANGED handed,
         \A o \in OpkId : \/ opks'[o] = opks[o]
                          \/ opks[o] = NoRow /\ ~ opks'[o].consumed
  PROVE  ReuseInv'
<1>1. \A v \in Worker : v # w => pc'[v] = pc[v] /\ job'[v] = job[v]
  BY DEF Frame
<1>2. ASSUME NEW v \in Worker  PROVE AnswersConsumed(v)'
  <2>1. pc[v] = "answer" => job[v].opk \in OpkId /\ opks[job[v].opk] # NoRow
    BY DEF TableInv, TypeOK, Carries, FetchHolds
  <2> QED BY <1>1, <2>1 DEF ReuseInv, AnswersConsumed
<1>3. ASSUME NEW o \in OpkId  PROVE UnconsumedIsUnhanded(o)' /\ Answerable(o)'
  <2>1. UnconsumedIsUnhanded(o)'
    BY DEF ReuseInv, UnconsumedIsUnhanded
  <2>2. Takers(o)' \subseteq Takers(o)
    BY <1>1 DEF Takers
  <2> QED BY <2>1, <2>2, FewerTakers DEF ReuseInv, TableInv
<1> QED BY <1>2, <1>3 DEF ReuseInv

\* The steps of uploads, the first step of a fetch, and the death of a thread.
LEMMA OtherStepsReuse ==
  ASSUME IsFiniteSet(Worker), TableInv, ReuseInv, NEW w \in Worker,
         \/ \E u, named \in User, bundle \in Bundle, ids \in SUBSET OpkId :
              BeginUpload(w, u, named, bundle, ids)
         \/ \E u \in User : BeginFetch(w, u)
         \/ WriteBundle(w) \/ AnswerUpload(w) \/ Crash(w)
  PROVE  ReuseInv'
<1>1. UNCHANGED <<opks, handed>>
  BY DEF BeginUpload, BeginFetch, WriteBundle, AnswerUpload, Crash, tables
<1>2. DOMAIN pc = Worker /\ DOMAIN pc' = Worker /\ DOMAIN job' = Worker
  BY DEF TableInv, TypeOK, BeginUpload, BeginFetch, WriteBundle, AnswerUpload,
         Crash, Answer, Continue
<1>3. pc'[w] \notin {"consume", "answer"}
  BY <1>2 DEF BeginUpload, BeginFetch, WriteBundle, AnswerUpload, Crash,
              Answer, Continue
<1>4. TableInv'
  <2>1. [Next]_vars
    BY DEF Next, Handle
  <2> QED BY <2>1, TableNext
<1>5. \A v \in Worker \ {w} :
        /\ pc'[v] = pc[v] /\ job'[v] = job[v] /\ reply'[v] = reply[v]
  BY DEF TableInv, TypeOK, BeginUpload, BeginFetch, WriteBundle, AnswerUpload,
         Crash, Answer, Continue
<1>6. Frame(w)
  BY <1>4, <1>5 DEF Frame, TableInv, TypeOK
<1> QED BY <1>1, <1>3, <1>6, ReuseKeeps

\* New prekeys are unconsumed, and stored where there was no row.
LEMMA InsertOpksReuse ==
  ASSUME IsFiniteSet(Worker), TableInv, ReuseInv, NEW w \in Worker,
         InsertOpks(w)
  PROVE  ReuseInv'
<1> DEFINE j == job[w]
<1>1. pc[w] = "opks" /\ j \in UploadJob /\ UNCHANGED handed
  BY DEF InsertOpks, TableInv, TypeOK, Carries
<1>2. CASE Storable(j.opks) /\ Continue(w, "echo", j)
           /\ opks' = [o \in OpkId |->
                IF o \in j.opks
                THEN [owner |-> j.user, batch |-> batches + 1,
                      consumed |-> FALSE]
                ELSE opks[o]]
  <2>1. Frame(w) /\ pc'[w] = "echo"
    BY <1>1, <1>2, ContinueFrame DEF TableInv, Carries
  <2>2. \A o \in OpkId : \/ opks'[o] = opks[o]
                         \/ opks[o] = NoRow /\ ~ opks'[o].consumed
    BY <1>1, <1>2 DEF Storable
  <2> QED BY <1>1, <2>1, <2>2, ReuseKeeps
<1>3. CASE Answer(w, "server_error", j.user, {}) /\ UNCHANGED opks
  <2>1. Frame(w) /\ pc'[w] = "idle"
    BY <1>1, <1>3, AnswerIdles DEF Status, UploadJob
  <2> QED BY <1>1, <1>3, <2>1, ReuseKeeps
<1> QED BY <1>2, <1>3 DEF InsertOpks

\* A prekey is only selected while nobody has been answered with it.
LEMMA SelectOpkReuse ==
  ASSUME IsFiniteSet(Worker), TableInv, ReuseInv, NEW w \in Worker,
         SelectOpk(w)
  PROVE  ReuseInv'
<1> DEFINE u == job[w].user
<1>1. pc[w] = "select" /\ u \in User /\ UNCHANGED <<opks, handed>>
  BY DEF SelectOpk, TableInv, TypeOK, Carries, tables
<1>2. ASSUME NEW o \in Oldest(Selectable(u)),
             Continue(w, "consume", [user |-> u, opk |-> o])
      PROVE  ReuseInv'
  <2>1. o \in OpkId /\ Unconsumed(o) /\ handed[o] = 0
    BY DEF Oldest, Selectable, Unconsumed, ReuseInv, UnconsumedIsUnhanded
  <2>2. /\ Frame(w) /\ pc'[w] = "consume"
        /\ job'[w] = [user |-> u, opk |-> o]
    BY <1>1, <1>2, <2>1, ContinueFrame DEF TableInv, Carries
  <2>3. \A v \in Worker : v # w => pc'[v] = pc[v] /\ job'[v] = job[v]
    BY <2>2 DEF Frame
  <2>4. \A v \in Worker : AnswersConsumed(v)'
    BY <1>1, <2>2, <2>3 DEF ReuseInv, AnswersConsumed
  <2>5. ASSUME NEW p \in OpkId
        PROVE  UnconsumedIsUnhanded(p)' /\ Answerable(p)'
    <3>1. UnconsumedIsUnhanded(p)'
      BY <1>1 DEF ReuseInv, UnconsumedIsUnhanded
    <3>2. CASE p = o
      <4> DEFINE T == Takers(o)'
      <4>1. T \in SUBSET Worker
        BY DEF Takers
      <4>2. Cardinality(T) \in Nat /\ Cardinality(T) =< Cardinality(Worker)
        BY <4>1, TakersCounted
      <4>3. handed'[o] = 0
        BY <1>1, <2>1
      <4>4. handed'[o] + Cardinality(T) =< Cardinality(Worker)
        <5> HIDE DEF T
        <5> QED BY <4>2, <4>3
      <4> QED BY <3>1, <3>2, <4>4 DEF Answerable
    <3>3. CASE p # o
      <4>1. Takers(p)' \subseteq Takers(p)
        BY <2>2, <2>3, <3>3 DEF Takers
      <4> QED BY <1>1, <3>1, <4>1, FewerTakers DEF ReuseInv, TableInv
    <3> QED BY <3>2, <3>3
  <2> QED BY <2>4, <2>5 DEF ReuseInv
<1>3. CASE Answer(w, "bundle", u, {})
  <2>1. Frame(w) /\ pc'[w] = "idle"
    BY <1>1, <1>3, AnswerIdles DEF Status
  <2> QED BY <1>1, <2>1, ReuseKeeps
<1> QED BY <1>2, <1>3 DEF SelectOpk

LEMMA ConsumeOpkReuse ==
  ASSUME IsFiniteSet(Worker), TableInv, ReuseInv, NEW w \in Worker,
         ConsumeOpk(w)
  PROVE  ReuseInv'
<1> DEFINE o == job[w].opk
<1>1. /\ pc[w] = "consume" /\ job[w] \in [user : User, opk : OpkId]
      /\ opks'[o] # NoRow /\ opks'[o].consumed
      /\ \A p \in OpkId : p # o => opks'[p] = opks[p]
  BY Consumed
<1>2. Frame(w) /\ pc'[w] = "answer" /\ job'[w] = job[w] /\ handed' = handed
  BY <1>1, ContinueFrame DEF ConsumeOpk, TableInv, Carries
<1>3. \A v \in Worker : v # w => pc'[v] = pc[v] /\ job'[v] = job[v]
  BY <1>2 DEF Frame
<1>4. ASSUME NEW v \in Worker  PROVE AnswersConsumed(v)'
  <2>1. pc[v] = "answer" => job[v].opk \in OpkId
    BY DEF TableInv, TypeOK, Carries
  <2> QED BY <1>1, <1>2, <1>3, <2>1 DEF ReuseInv, AnswersConsumed
<1>5. ASSUME NEW p \in OpkId  PROVE UnconsumedIsUnhanded(p)' /\ Answerable(p)'
  <2>1. UnconsumedIsUnhanded(p)'
    BY <1>1, <1>2 DEF ReuseInv, UnconsumedIsUnhanded
  <2>2. Takers(p)' \subseteq Takers(p)
    BY <1>1, <1>2, <1>3 DEF Takers
  <2> QED BY <1>2, <2>1, <2>2, FewerTakers DEF ReuseInv, TableInv
<1> QED BY <1>4, <1>5 DEF ReuseInv

\* One answer more, and one taker less.
LEMMA AnswerFetchReuse ==
  ASSUME IsFiniteSet(Worker), TableInv, ReuseInv, NEW w \in Worker,
         AnswerFetch(w)
  PROVE  ReuseInv'
<1> DEFINE o == job[w].opk
<1>1. pc[w] = "answer" /\ job[w].user \in User /\ o \in OpkId
  BY DEF AnswerFetch, TableInv, TypeOK, Carries
<1>2. Frame(w) /\ pc'[w] = "idle"
  BY <1>1, AnswerIdles DEF AnswerFetch, Status
<1>3. \A v \in Worker : v # w => pc'[v] = pc[v] /\ job'[v] = job[v]
  BY <1>2 DEF Frame
<1>4. /\ handed[o] \in Nat /\ handed'[o] = handed[o] + 1 /\ opks' = opks
      /\ \A p \in OpkId : p # o => handed'[p] = handed[p]
  BY <1>1 DEF AnswerFetch, tables, TableInv, TypeOK
<1>5. opks[o] # NoRow /\ opks[o].consumed
  BY <1>1 DEF TableInv, FetchHolds, ReuseInv, AnswersConsumed
<1>6. \A v \in Worker : AnswersConsumed(v)'
  BY <1>2, <1>3, <1>4 DEF ReuseInv, AnswersConsumed
<1>7. ASSUME NEW p \in OpkId  PROVE UnconsumedIsUnhanded(p)' /\ Answerable(p)'
  <2>1. UnconsumedIsUnhanded(p)'
    BY <1>4, <1>5 DEF ReuseInv, UnconsumedIsUnhanded
  <2>2. CASE p = o
    <3> DEFINE S == Takers(p)
               T == Takers(p)'
    <3>1. S \in SUBSET Worker /\ w \in S
      BY <1>1, <2>2 DEF Takers
    <3>2. T = S \ {w}
      BY <1>2, <1>3 DEF Takers
    <3>3. /\ IsFiniteSet(S) /\ Cardinality(S) \in Nat
          /\ Cardinality(Worker) \in Nat
      BY <3>1, TakersCounted
    <3>4. Cardinality(T) = Cardinality(S) - 1
      BY <3>1, <3>2, <3>3, FS_RemoveElement
    <3>5. handed[p] + Cardinality(S) =< Cardinality(Worker)
      BY DEF ReuseInv, Answerable
    <3>6. handed[p] \in Nat /\ handed'[p] = handed[p] + 1
      BY <1>4, <2>2
    <3>7. handed'[p] + Cardinality(T) =< Cardinality(Worker)
      <4> HIDE DEF S, T
      <4> QED BY <3>3, <3>4, <3>5, <3>6
    <3> QED BY <2>1, <3>7 DEF Answerable
  <2>3. CASE p # o
    <3>1. Takers(p)' \subseteq Takers(p)
      BY <1>2, <1>3, <2>3 DEF Takers
    <3> QED BY <1>4, <2>1, <2>3, <3>1, FewerTakers DEF ReuseInv, TableInv
  <2> QED BY <2>2, <2>3
<1> QED BY <1>6, <1>7 DEF ReuseInv

LEMMA ReuseInit ==
  ASSUME IsFiniteSet(Worker), Init
  PROVE  ReuseInv
<1>1. \A o \in OpkId : Takers(o) = {}
  BY DEF Init, Takers
<1>2. Cardinality({}) = 0 /\ Cardinality(Worker) \in Nat
  BY FS_EmptySet, FS_CardinalityType
<1>3. \A o \in OpkId : Answerable(o)
  BY <1>1, <1>2 DEF Init, Answerable
<1> QED BY <1>3 DEF Init, ReuseInv, AnswersConsumed, UnconsumedIsUnhanded

LEMMA ReuseNext ==
  ASSUME IsFiniteSet(Worker), TableInv, ReuseInv, [Next]_vars
  PROVE  ReuseInv'
<1>1. CASE UNCHANGED vars
  BY <1>1 DEF vars, ReuseInv, AnswersConsumed, UnconsumedIsUnhanded,
              Answerable, Takers
<1>2. CASE Next
  BY <1>2, OtherStepsReuse, InsertOpksReuse, SelectOpkReuse, ConsumeOpkReuse,
     AnswerFetchReuse DEF Next, Handle
<1> QED BY <1>1, <1>2

\* A prekey is handed out at most as often as there are request threads.
ReuseIsBounded == \A o \in OpkId : handed[o] =< Cardinality(Worker)

\* On every database, SQLite included, where two fetches can be answered with
\* one prekey: it goes to as many requesters as there are threads at most.
THEOREM ReuseHasABound ==
  ASSUME IsFiniteSet(Worker)
  PROVE  Spec => []ReuseIsBounded
<1>1. Init => ReuseInv
  BY ReuseInit
<1>2. TableInv /\ ReuseInv /\ [Next]_vars => ReuseInv'
  BY ReuseNext
<1>3. TableInv /\ ReuseInv => ReuseIsBounded
  <2> SUFFICES ASSUME TableInv, ReuseInv, NEW o \in OpkId
               PROVE  handed[o] =< Cardinality(Worker)
    BY DEF ReuseIsBounded
  <2> DEFINE S == Takers(o)
  <2>1. S \in SUBSET Worker
    BY DEF Takers
  <2>2. Cardinality(S) \in Nat /\ Cardinality(Worker) \in Nat
    BY <2>1, TakersCounted
  <2>3. handed[o] \in Nat /\ handed[o] + Cardinality(S) =< Cardinality(Worker)
    BY DEF TableInv, TypeOK, ReuseInv, Answerable
  <2> HIDE DEF S
  <2> QED BY <2>2, <2>3
<1> QED BY <1>1, <1>2, <1>3, Tables, PTL DEF Spec

----------------------------------------------------------------------------
(***************************************************************************)
(* What FetchEnds rests on, but for the fairness: a fetch is never held up *)
(* by another thread, and it has few statements to go.                     *)
(***************************************************************************)

\* The least-number principle, as an instance of well-foundedness.
LEMMA Least ==
  ASSUME NEW T \in SUBSET Nat, T # {}
  PROVE  \E n \in T : \A m \in T : n <= m
<1> DEFINE R == OpToRel(<, Nat)
<1>1. IsWellFoundedOn(R, Nat)
  BY NatLessThanWellFounded
<1>2. \A x, y \in Nat : x < y => <<x, y>> \in R
  BY DEF OpToRel
<1> HIDE DEF R
<1>3. PICK n \in T : \A m \in T : ~ (<<m, n>> \in R)
  BY <1>1, WFMin
<1>4. ASSUME NEW m \in T  PROVE n <= m
  <2>1. m \in Nat /\ n \in Nat
    OBVIOUS
  <2>2. ~ m < n
    BY <1>2, <1>3, <2>1
  <2> QED BY <2>1, <2>2
<1> QED BY <1>4

\* ORDER BY created_at LIMIT 1 returns a row whenever there are any.
LEMMA SomeAreOldest ==
  ASSUME TypeOK, NEW S \in SUBSET OpkId, S # {},
         \A o \in S : opks[o] # NoRow
  PROVE  Oldest(S) # {}
<1> DEFINE T == {opks[o].batch : o \in S}
<1>1. \A o \in S : opks[o] \in Opk
  BY DEF TypeOK
<1>2. T \in SUBSET Nat /\ T # {}
  BY <1>1 DEF Opk
<1>3. PICK n \in T : \A m \in T : n <= m
  <2> HIDE DEF T
  <2> QED BY <1>2, Least
<1>4. PICK o \in S : opks[o].batch = n
  OBVIOUS
<1>5. o \in Oldest(S)
  BY <1>3, <1>4 DEF Oldest
<1> QED BY <1>5

\* A thread at the SELECT has a step to take: a prekey that nobody holds, or
\* the answer that there is none.
NeverWaits ==
  \A w \in Worker : pc[w] = "select" =>
    LET found == Selectable(job[w].user)
    IN  found = {} \/ \E o \in Oldest(found) : RowLocks => holder[o] = Free

\* The statements that a thread has to go at most.
Left(statement) ==
  CASE statement \in {"write", "select"} -> 3
    [] statement \in {"opks", "consume"} -> 2
    [] statement \in {"echo", "answer"} -> 1
    [] statement = "idle" -> 0

\* Every step of a thread brings it closer to its answer, and nothing that the
\* others do throws it back.
CountsDown ==
  \A w \in Worker : pc[w] # "idle" =>
    \/ pc'[w] = pc[w] /\ job'[w] = job[w]
    \/ Left(pc'[w]) < Left(pc[w])

LEMMA NextCountsDown ==
  ASSUME TypeOK, Next
  PROVE  CountsDown
<1>1. PICK w \in Worker :
        \/ \E u, named \in User, bundle \in Bundle, ids \in SUBSET OpkId :
             BeginUpload(w, u, named, bundle, ids)
        \/ \E u \in User : BeginFetch(w, u)
        \/ Handle(w)
        \/ Crash(w)
  BY DEF Next
<1>2. \A v \in Worker : v # w => pc'[v] = pc[v] /\ job'[v] = job[v]
  BY <1>1 DEF TypeOK, BeginUpload, BeginFetch, Handle, WriteBundle, InsertOpks,
              AnswerUpload, SelectOpk, ConsumeOpk, AnswerFetch, Crash, Answer,
              Continue
<1>3. pc[w] = "idle" \/ Left(pc'[w]) < Left(pc[w])
  <2>1. Handle(w) \/ Crash(w) \/ pc[w] = "idle"
    BY <1>1 DEF BeginUpload, BeginFetch
  <2>2. CASE pc'[w] = "idle" /\ pc[w] # "idle"
    BY <2>2 DEF TypeOK, Carries, Left
  <2>3. ASSUME NEW statement, NEW carried, Continue(w, statement, carried)
        PROVE  pc'[w] = statement
    BY <2>3 DEF Continue, TypeOK
  <2>4. ASSUME NEW status, NEW user, NEW about, Answer(w, status, user, about)
        PROVE  pc'[w] = "idle"
    BY <2>4 DEF Answer, TypeOK
  <2>5. \/ pc[w] = "write" /\ pc'[w] \in {"echo", "opks", "idle"}
        \/ pc[w] = "opks" /\ pc'[w] \in {"echo", "idle"}
        \/ pc[w] = "echo" /\ pc'[w] = "idle"
        \/ pc[w] = "select" /\ pc'[w] \in {"consume", "idle"}
        \/ pc[w] = "consume" /\ pc'[w] = "answer"
        \/ pc[w] = "answer" /\ pc'[w] = "idle"
        \/ pc'[w] = "idle" /\ pc[w] # "idle"
        \/ pc[w] = "idle"
    BY <2>1, <2>3, <2>4
       DEF Handle, WriteBundle, InsertOpks, AnswerUpload, SelectOpk,
           ConsumeOpk, AnswerFetch, Crash
  <2>6. /\ Left("write") = 3 /\ Left("select") = 3
        /\ Left("opks") = 2 /\ Left("consume") = 2
        /\ Left("echo") = 1 /\ Left("answer") = 1 /\ Left("idle") = 0
    BY DEF Left
  <2> QED BY <2>2, <2>5, <2>6
<1> QED BY <1>2, <1>3 DEF CountsDown

\* On every database, a fetch finds the row it may take, or learns that there
\* is none, whatever the others hold, and is at most three statements away
\* from its answer: only a thread that stops running leaves it unanswered.
THEOREM FetchesRunThrough == Spec => []NeverWaits /\ [][CountsDown]_vars
<1>1. TableInv => NeverWaits
  <2> SUFFICES ASSUME TableInv, NEW w \in Worker, pc[w] = "select",
                      Selectable(job[w].user) # {}
               PROVE  \E o \in Oldest(Selectable(job[w].user)) :
                        RowLocks => holder[o] = Free
    BY DEF NeverWaits
  <2> DEFINE found == Selectable(job[w].user)
  <2>1. /\ found \in SUBSET OpkId
        /\ \A o \in found :
             opks[o] # NoRow /\ (RowLocks => holder[o] = Free)
    BY DEF Selectable, Unconsumed
  <2>2. Oldest(found) # {}
    <3> HIDE DEF found
    <3> QED BY <2>1, SomeAreOldest DEF TableInv, found
  <2>3. Oldest(found) \subseteq found
    BY DEF Oldest
  <2> QED BY <2>1, <2>2, <2>3
<1>2. TableInv /\ [Next]_vars => [CountsDown]_vars
  BY NextCountsDown DEF TableInv
<1> QED BY <1>1, <1>2, Tables, PTL DEF Spec

----------------------------------------------------------------------------
(***************************************************************************)
(* How far a bundle can be torn: the UPDATE names the columns that differ  *)
(* from the row that was loaded, so it mixes two uploads only if the row   *)
(* has changed since.                                                      *)
(***************************************************************************)

\* A write leaves the bundle of its upload, unless it overwrites another row
\* than the one it was compared with.
TornByRace ==
  \A u \in User : bundles'[u] # bundles[u] =>
    \E w \in Worker :
      /\ pc[w] = "write" /\ job[w].user = u
      /\ bundles'[u] = job[w].bundle \/ bundles[u] # job[w].loaded

\* Naming the changed columns of a row that is still there writes all of them.
LEMMA UpdatedAlone ==
  ASSUME NEW loaded \in Bundle, NEW requested \in Bundle
  PROVE  Updated(loaded, loaded, requested) = requested
BY DEF Updated, Bundle

\* Of uploads that do not overlap, the last one is stored, column by column; a
\* mixture of two takes an upload that commits between the read and the write
\* of another one of the same user.
THEOREM BundlesTearByRace == Spec => [][TornByRace]_vars
<1>1. TableInv /\ [Next]_vars => [TornByRace]_vars
  <2> SUFFICES ASSUME TableInv, Next, NEW u \in User,
                      bundles'[u] # bundles[u]
               PROVE  \E w \in Worker :
                        /\ pc[w] = "write" /\ job[w].user = u
                        /\ \/ bundles'[u] = job[w].bundle
                           \/ bundles[u] # job[w].loaded
    BY DEF TornByRace
  <2>1. PICK w \in Worker : WriteBundle(w)
    BY DEF Next, Handle, BeginUpload, BeginFetch, InsertOpks, AnswerUpload,
           SelectOpk, ConsumeOpk, AnswerFetch, Crash, tables
  <2>2. pc[w] = "write" /\ job[w] \in UploadJob
    BY <2>1 DEF WriteBundle, TableInv, TypeOK, Carries
  <2>3. CASE bundles' = [bundles EXCEPT ![job[w].user] = job[w].bundle]
    BY <2>2, <2>3 DEF TableInv, TypeOK
  <2>4. CASE /\ job[w].loaded # NoRow
             /\ bundles' = [bundles EXCEPT ![job[w].user] =
                  Updated(bundles[job[w].user], job[w].loaded, job[w].bundle)]
    <3>1. u = job[w].user
      BY <2>4 DEF TableInv, TypeOK
    <3>2. bundles'[u] = Updated(bundles[u], job[w].loaded, job[w].bundle)
      BY <2>4, <3>1 DEF TableInv, TypeOK
    <3>3. job[w].loaded \in Bundle /\ job[w].bundle \in Bundle
      BY <2>2, <2>4 DEF UploadJob
    <3>4. bundles[u] = job[w].loaded => bundles'[u] = job[w].bundle
      BY <3>2, <3>3, UpdatedAlone
    <3> QED BY <2>2, <3>1, <3>4
  <2> QED BY <2>1, <2>3, <2>4 DEF WriteBundle
<1> QED BY <1>1, Tables, PTL DEF Spec

=============================================================================
