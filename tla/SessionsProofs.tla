--------------------------- MODULE SessionsProofs ---------------------------
(***************************************************************************)
(* What Sessions guarantees for any number of users, threads and scripts.  *)
(* The argument: the rows under hashes are exactly what logins have        *)
(* answered, because tokens are drawn fresh and scripts write under the    *)
(* tokens themselves (Granted); a thread that has found a row holds that   *)
(* of the token it was given (Checks); and what a script has read stays    *)
(* true until somebody else commits (Seeds).                               *)
(***************************************************************************)
EXTENDS Sessions, TLAPS

Granted ==
  \A t \in Token :
    /\ sessions[Hash(t)] = issued[t]
    /\ issued[t] # NoRow => issued[t].user \in users

Grants(w) ==
  pc[w] = "grant" =>
    /\ issued[job[w].token] = NoRow
    /\ job[w].row.user \in users
    /\ \A v \in Worker : v # w /\ pc[v] = "grant" => job[v].token # job[w].token

Checks(w) ==
  /\ pc[w] \in {"lookup", "check", "principal"} =>
       /\ job[w].began =< now
       /\ job[w].known # NoRow => issued[job[w].token] = job[w].known
  /\ pc[w] \in {"check", "principal"} => job[w].row = issued[job[w].token]
  /\ pc[w] = "principal" => job[w].began < job[w].row.expiresAt

Seeds(s) ==
  /\ pc[s] = "users" =>
       /\ job[s].known \subseteq users
       /\ job[s].todo = Seeded
       /\ \A u \in Seeded : job[s].devices[u] = NoRow
  /\ pc[s] = "users" /\ s \notin disturbed => users \cap Seeded \subseteq job[s].known
  /\ pc[s] \in {"rows", "session"} =>
       /\ Seeded \subseteq users
       /\ \A u \in Seeded :
            job[s].devices[u] # NoRow => devices[DefaultDevice[u]] # NoRow
  /\ pc[s] \in {"rows", "session"} /\ s \notin disturbed =>
       \A u \in Seeded \ job[s].todo :
         /\ job[s].devices[u] = NoRow => devices[DefaultDevice[u]] = NoRow
         /\ (pc[s] = "session" => job[s].user # u) /\ job[s].sessions[u] = NoRow
              => sessions[Raw(DevToken[u])] = NoRow

IndInv ==
  /\ TypeOK
  /\ Granted
  /\ \A w \in Worker : Grants(w) /\ Checks(w)
  /\ \A s \in Seeder : Seeds(s)
  /\ AdmittedInTime
  /\ IssuedTokensAdmit
  /\ SeedIsComplete

----------------------------------------------------------------------------
(* Frames.                                                                 *)

LEMMA Frame ==
  ASSUME TypeOK, NEW p \in Process, NEW statement, NEW carried,
         Continue(p, statement, carried)
  PROVE  /\ pc'[p] = statement /\ job'[p] = carried
         /\ DOMAIN pc' = Process /\ DOMAIN job' = Process
         /\ \A q \in Process \ {p} : pc'[q] = pc[q] /\ job'[q] = job[q]
BY DEF TypeOK, Continue

\* Tokens and their hashes are different columns, and both are injective.
LEMMA Values ==
  /\ \A t \in Token : Raw(t) \in Value /\ Hash(t) \in Value
  /\ \A t, u \in Token : Raw(t) # Hash(u) /\ (Hash(t) = Hash(u) => t = u)
BY DEF Value, Raw, Hash

\* Processes are threads or scripts, not both.
LEMMA Roles ==
  /\ \A w \in Worker : w \in Process /\ w \notin Seeder
  /\ \A s \in Seeder : s \in Process /\ s \notin Worker
BY SessionsAssumption DEF Process

\* The type of what the others carry does not change when p goes on.
LEMMA ServeTyped ==
  ASSUME TypeOK, NEW w \in Worker, NEW statement, NEW carried,
         Continue(w, statement, carried), ServesWith(statement, carried)
  PROVE  /\ DOMAIN pc' = Process /\ DOMAIN job' = Process
         /\ \A v \in Worker : ServesWith(pc'[v], job'[v])
         /\ \A s \in Seeder : SeedsWith(pc'[s], job'[s])
<1>1. w \in Process
  BY Roles
<1>2. \A v \in Worker : ServesWith(pc'[v], job'[v])
  BY <1>1, Frame, Roles DEF TypeOK
<1>3. \A s \in Seeder : SeedsWith(pc'[s], job'[s])
  BY <1>1, Frame, Roles DEF TypeOK
<1> QED BY <1>1, <1>2, <1>3, Frame

LEMMA SeedTyped ==
  ASSUME TypeOK, NEW s \in Seeder, NEW statement, NEW carried,
         Continue(s, statement, carried), SeedsWith(statement, carried)
  PROVE  /\ DOMAIN pc' = Process /\ DOMAIN job' = Process
         /\ \A w \in Worker : ServesWith(pc'[w], job'[w])
         /\ \A r \in Seeder : SeedsWith(pc'[r], job'[r])
<1>1. s \in Process
  BY Roles
<1>2. \A w \in Worker : ServesWith(pc'[w], job'[w])
  BY <1>1, Frame, Roles DEF TypeOK
<1>3. \A r \in Seeder : SeedsWith(pc'[r], job'[r])
  BY <1>1, Frame, Roles DEF TypeOK
<1> QED BY <1>1, <1>2, <1>3, Frame

\* What holds of the processes that do not take a step, when tables grow and
\* scripts are told.
TablesGrow ==
  /\ users \subseteq users'
  /\ \A d \in Device : devices[d] # NoRow => devices'[d] # NoRow
  /\ \A t \in Token : issued[t] # NoRow => issued'[t] = issued[t]
  /\ now =< now'

Told(s) ==
  s \notin disturbed' =>
    /\ s \notin disturbed
    /\ UNCHANGED <<users, devices, sessions>>

LEMMA CheckKept ==
  ASSUME IndInv, TypeOK', NEW w \in Worker, TablesGrow,
         pc'[w] = pc[w], job'[w] = job[w]
  PROVE  Checks(w)'
<1>1. /\ now \in Nat /\ now' \in Nat
      /\ pc[w] \in {"lookup", "check", "principal"} => job[w] \in CheckJob
      /\ pc[w] \in {"check", "principal"} => job[w].row # NoRow
  BY DEF IndInv, TypeOK, ServesWith
<1>2. pc[w] \in {"lookup", "check", "principal"} =>
        job[w].token \in Token /\ job[w].began \in Nat
  BY <1>1 DEF CheckJob
<1>3. Checks(w)
  BY DEF IndInv
<1>4. CASE pc[w] \in {"lookup", "check", "principal"}
  <2>1. job[w].began =< now'
    BY <1>1, <1>2, <1>3, <1>4 DEF Checks, TablesGrow
  <2> QED BY <1>1, <1>2, <1>3, <1>4, <2>1 DEF Checks, TablesGrow
<1>5. CASE pc[w] \notin {"lookup", "check", "principal"}
  BY <1>5 DEF Checks
<1> QED BY <1>4, <1>5

LEMMA SeedKept ==
  ASSUME IndInv, NEW s \in Seeder, TablesGrow, Told(s),
         pc'[s] = pc[s], job'[s] = job[s]
  PROVE  Seeds(s)'
<1>1. Seeds(s)
  BY DEF IndInv
<1>2. \A u \in Seeded : DefaultDevice[u] \in Device
  BY SessionsAssumption
<1> QED BY <1>1, <1>2 DEF Seeds, TablesGrow, Told

\* A step that changes no table, no token and no clock.
LEMMA QuietGrow ==
  ASSUME TypeOK, UNCHANGED <<tables, now, issued>>
  PROVE  TablesGrow
BY DEF TypeOK, tables, TablesGrow

LEMMA GrantKept ==
  ASSUME IndInv, NEW p \in Process, UNCHANGED issued, users \subseteq users',
         \A q \in Process \ {p} : pc'[q] = pc[q] /\ job'[q] = job[q],
         pc'[p] # "grant"
  PROVE  \A w \in Worker : Grants(w)'
BY Roles DEF IndInv, Grants

\* The answers that were given stay right.
LEMMA AnswersKept ==
  ASSUME IndInv, UNCHANGED answered,
         \A t \in Token : issued[t] # NoRow => issued'[t] = issued[t]
  PROVE  AdmittedInTime' /\ IssuedTokensAdmit'
<1>1. \A w \in Worker : answered[w] # NoJob => answered[w].token \in Token
  BY DEF IndInv, TypeOK, Answered
<1> QED BY <1>1 DEF IndInv, AdmittedInTime, IssuedTokensAdmit

\* A thread that turns to another request leaves the answers of the others.
LEMMA AnswersForgotten ==
  ASSUME IndInv, NEW w \in Worker, Forget(w), UNCHANGED issued
  PROVE  /\ AdmittedInTime' /\ IssuedTokensAdmit'
         /\ answered' \in [Worker -> Answered \cup {NoJob}]
<1>1. answered \in [Worker -> Answered \cup {NoJob}]
  BY DEF IndInv, TypeOK
<1>2. answered' \in [Worker -> Answered \cup {NoJob}]
  BY <1>1 DEF Forget
<1>3. \A v \in Worker : answered'[v] = NoJob \/ answered'[v] = answered[v]
  BY <1>1 DEF Forget
<1> QED BY <1>2, <1>3 DEF IndInv, AdmittedInTime, IssuedTokensAdmit

\* A seeding that is complete stays so.
LEMMA SeedingKept ==
  ASSUME IndInv, UNCHANGED seeded, TablesGrow,
         \A u \in Seeded : sessions'[Raw(DevToken[u])] = sessions[Raw(DevToken[u])]
  PROVE  SeedIsComplete'
<1>1. \A u \in Seeded : DefaultDevice[u] \in Device
  BY SessionsAssumption
<1> QED BY <1>1 DEF IndInv, SeedIsComplete, TablesGrow

----------------------------------------------------------------------------
(* One lemma per action.                                                   *)

LEMMA RegisterStep ==
  ASSUME IndInv, NEW u \in User, Register(u)
  PROVE  IndInv'
<1>1. /\ users' = users \cup {u}
      /\ disturbed' = Seeder
      /\ UNCHANGED <<devices, sessions, now, pc, job, issued, answered, seeded>>
  BY DEF Register
<1>2. TypeOK
  BY DEF IndInv
<1>3. TypeOK'
  BY <1>1, <1>2 DEF TypeOK
<1>4. TablesGrow
  BY <1>1, <1>2 DEF TablesGrow, TypeOK
<1>5. Granted'
  BY <1>1 DEF IndInv, Granted
<1>6. \A w \in Worker : Grants(w)' /\ Checks(w)'
  <2>1. \A w \in Worker : Grants(w)'
    BY <1>1 DEF IndInv, Grants
  <2> QED BY <1>1, <1>3, <1>4, <2>1, CheckKept
<1>7. \A s \in Seeder : Seeds(s)'
  BY <1>1, <1>4, SeedKept DEF Told
<1>8. AdmittedInTime' /\ IssuedTokensAdmit' /\ SeedIsComplete'
  BY <1>1, <1>4, AnswersKept, SeedingKept
<1> QED BY <1>3, <1>5, <1>6, <1>7, <1>8 DEF IndInv

LEMMA TickStep ==
  ASSUME IndInv, Tick
  PROVE  IndInv'
<1>1. /\ now < MaxTime /\ now' = now + 1
      /\ UNCHANGED <<users, devices, sessions, pc, job, issued, answered,
                     disturbed, seeded>>
  BY DEF Tick, tables, history
<1>2. TypeOK
  BY DEF IndInv
<1>3. TypeOK'
  BY <1>1, <1>2, SessionsAssumption DEF TypeOK
<1>4. TablesGrow
  BY <1>1, <1>2 DEF TablesGrow, TypeOK
<1>5. Granted'
  BY <1>1 DEF IndInv, Granted
<1>6. \A w \in Worker : Grants(w)' /\ Checks(w)'
  <2>1. \A w \in Worker : Grants(w)'
    BY <1>1 DEF IndInv, Grants
  <2> QED BY <1>1, <1>3, <1>4, <2>1, CheckKept
<1>7. \A s \in Seeder : Seeds(s)'
  BY <1>1, <1>4, SeedKept DEF Told
<1>8. AdmittedInTime' /\ IssuedTokensAdmit' /\ SeedIsComplete'
  BY <1>1, <1>4, AnswersKept, SeedingKept
<1> QED BY <1>3, <1>5, <1>6, <1>7, <1>8 DEF IndInv

\* A thread goes on without an answer or a commit.
LEMMA ServeStep ==
  ASSUME IndInv, NEW w \in Worker, NEW statement, NEW carried,
         Continue(w, statement, carried), ServesWith(statement, carried),
         UNCHANGED <<tables, now, issued, disturbed, seeded>>,
         answered' \in [Worker -> Answered \cup {NoJob}],
         Grants(w)', Checks(w)', AdmittedInTime', IssuedTokensAdmit',
         statement = "grant" => \A v \in Worker :
           v # w /\ pc[v] = "grant" => job[v].token # carried.token
  PROVE  IndInv'
<1>1. TypeOK
  BY DEF IndInv
<1>2. TypeOK'
  BY <1>1, ServeTyped DEF TypeOK, tables
<1>3. TablesGrow
  BY <1>1, QuietGrow
<1>4. /\ pc'[w] = statement /\ job'[w] = carried
      /\ \A q \in Process \ {w} : pc'[q] = pc[q] /\ job'[q] = job[q]
  BY <1>1, Frame, Roles
<1>5. Granted'
  BY DEF IndInv, Granted, tables
<1>6. ASSUME NEW v \in Worker, v # w
      PROVE  Grants(v)' /\ Checks(v)'
  <2>1. pc'[v] = pc[v] /\ job'[v] = job[v]
    BY <1>4, <1>6, Roles
  <2>2. Checks(v)'
    BY <1>2, <1>3, <2>1, CheckKept
  <2>3. ASSUME pc[v] = "grant", NEW x \in Worker, x # v, pc'[x] = "grant"
        PROVE  job'[x].token # job[v].token
    <3>1. CASE x = w
      BY <1>4, <1>6, <2>3, <3>1
    <3>2. CASE x # w
      BY <1>4, <2>3, <3>2, Roles DEF IndInv, Grants
    <3> QED BY <3>1, <3>2
  <2> QED BY <2>1, <2>2, <2>3 DEF IndInv, Grants, tables
<1>7. \A s \in Seeder : Seeds(s)'
  <2>1. ASSUME NEW s \in Seeder
        PROVE  pc'[s] = pc[s] /\ job'[s] = job[s] /\ Told(s)
    BY <1>4, Roles DEF Told, tables
  <2> QED BY <1>3, <2>1, SeedKept
<1>8. SeedIsComplete'
  BY <1>3, SeedingKept DEF tables
<1> QED BY <1>2, <1>5, <1>6, <1>7, <1>8 DEF IndInv

LEMMA CreateTokenStep ==
  ASSUME IndInv, NEW w \in Worker, NEW u \in User, NEW d \in Device,
         CreateToken(w, u, d)
  PROVE  IndInv'
<1>1. PICK t \in Random :
        /\ \A p \in Process : pc[p] = "grant" => job[p].token # t
        /\ sessions[Hash(t)] = NoRow
        /\ Continue(w, "grant",
             [token |-> t, seen |-> devices[d],
              row |-> [user |-> u, device |-> d, expiresAt |-> now + Lifetime]])
  BY DEF CreateToken
<1> DEFINE row == [user |-> u, device |-> d, expiresAt |-> now + Lifetime]
           carried == [token |-> t, seen |-> devices[d], row |-> row]
<1>2. /\ TypeOK /\ u \in users /\ Forget(w)
      /\ UNCHANGED <<tables, now, issued, disturbed, seeded>>
  BY DEF IndInv, CreateToken
<1>3. row \in SessionRow /\ row.user = u
  BY <1>2, SessionsAssumption DEF TypeOK, SessionRow
<1>4. carried \in GrantJob /\ carried.token = t /\ carried.row = row
  BY <1>2, <1>3 DEF TypeOK, GrantJob
<1>5. Continue(w, "grant", carried)
  BY <1>1
<1> HIDE DEF row, carried
<1>6. ServesWith("grant", carried)
  BY <1>4 DEF ServesWith
<1>7. /\ pc'[w] = "grant" /\ job'[w] = carried
      /\ \A q \in Process \ {w} : pc'[q] = pc[q] /\ job'[q] = job[q]
  BY <1>2, <1>5, Frame, Roles
<1>8. issued[t] = NoRow
  BY <1>1 DEF IndInv, Granted, Random
<1>9. Grants(w)'
  BY <1>1, <1>2, <1>3, <1>4, <1>7, <1>8, Roles DEF Grants, tables
<1>10. Checks(w)'
  BY <1>7 DEF Checks
<1>11. /\ AdmittedInTime' /\ IssuedTokensAdmit'
       /\ answered' \in [Worker -> Answered \cup {NoJob}]
  BY <1>2, AnswersForgotten
<1>12. \A v \in Worker : v # w /\ pc[v] = "grant" => job[v].token # carried.token
  BY <1>1, <1>4, Roles
<1> QED BY <1>2, <1>5, <1>6, <1>9, <1>10, <1>11, <1>12, ServeStep

LEMMA PresentStep ==
  ASSUME IndInv, NEW w \in Worker, NEW t \in Token, Present(w, t)
  PROVE  IndInv'
<1> DEFINE carried == [token |-> t, known |-> issued[t], began |-> now, row |-> NoRow]
<1>1. /\ TypeOK
      /\ Continue(w, "lookup", carried)
      /\ UNCHANGED <<tables, now, issued, disturbed, seeded>>
      /\ Forget(w)
  BY DEF IndInv, Present
<1>2. /\ carried \in CheckJob /\ carried.token = t /\ carried.known = issued[t]
      /\ carried.began = now
  BY <1>1 DEF TypeOK, CheckJob
<1> HIDE DEF carried
<1>3. ServesWith("lookup", carried)
  BY <1>2 DEF ServesWith
<1>4. pc'[w] = "lookup" /\ job'[w] = carried
  BY <1>1, Frame, Roles
<1>5. Grants(w)'
  BY <1>4 DEF Grants
<1>6. Checks(w)'
  BY <1>1, <1>2, <1>4 DEF Checks, TypeOK
<1>7. /\ AdmittedInTime' /\ IssuedTokensAdmit'
      /\ answered' \in [Worker -> Answered \cup {NoJob}]
  BY <1>1, AnswersForgotten
<1> QED BY <1>1, <1>3, <1>5, <1>6, <1>7, ServeStep

\* An answer is right if it admits whom the token was issued to, in time, or
\* refuses one that was not known to be issued, or is over.
LEMMA AnswerStep ==
  ASSUME IndInv, NEW w \in Worker, NEW who \in User \cup {NoRow},
         Answer(w, who), job[w] \in CheckJob,
         who # NoRow =>
           /\ issued[job[w].token] # NoRow
           /\ who = issued[job[w].token].user
           /\ job[w].began < issued[job[w].token].expiresAt,
         who = NoRow =>
           job[w].known = NoRow \/ job[w].known.expiresAt =< now
  PROVE  IndInv'
<1> DEFINE answer == [token |-> job[w].token, known |-> job[w].known,
                      began |-> job[w].began, at |-> now, who |-> who]
<1>1. /\ TypeOK
      /\ answered' = [answered EXCEPT ![w] = answer]
      /\ Continue(w, "idle", NoJob)
      /\ UNCHANGED <<tables, now, issued, disturbed, seeded>>
  BY DEF IndInv, Answer, Stop
<1>2. /\ answer \in Answered /\ answer.who = who /\ answer.token = job[w].token
      /\ answer.began = job[w].began /\ answer.known = job[w].known
      /\ answer.at = now
  BY <1>1 DEF TypeOK, CheckJob, Answered
<1> HIDE DEF answer
<1>3. /\ answered' \in [Worker -> Answered \cup {NoJob}]
      /\ answered'[w] = answer
      /\ \A v \in Worker \ {w} : answered'[v] = answered[v]
  BY <1>1, <1>2 DEF TypeOK
<1>4. AdmittedInTime'
  <2>1. ASSUME NEW v \in Worker, answered'[v] # NoJob, answered'[v].who # NoRow
        PROVE  /\ issued[answered'[v].token] # NoRow
               /\ answered'[v].who = issued[answered'[v].token].user
               /\ answered'[v].began < issued[answered'[v].token].expiresAt
    <3>1. CASE v = w
      BY <1>2, <1>3, <2>1, <3>1
    <3>2. CASE v # w
      BY <1>3, <2>1, <3>2 DEF IndInv, AdmittedInTime
    <3> QED BY <3>1, <3>2
  <2> QED BY <1>1, <2>1 DEF AdmittedInTime
<1>5. IssuedTokensAdmit'
  <2>1. ASSUME NEW v \in Worker, answered'[v] # NoJob, answered'[v].who = NoRow
        PROVE  \/ answered'[v].known = NoRow
               \/ answered'[v].known.expiresAt =< answered'[v].at
    <3>1. CASE v = w
      BY <1>2, <1>3, <2>1, <3>1
    <3>2. CASE v # w
      BY <1>3, <2>1, <3>2 DEF IndInv, IssuedTokensAdmit
    <3> QED BY <3>1, <3>2
  <2> QED BY <2>1 DEF IssuedTokensAdmit
<1>6. pc'[w] = "idle" /\ job'[w] = NoJob
  BY <1>1, Frame, Roles
<1>7. Grants(w)' /\ Checks(w)'
  BY <1>6 DEF Grants, Checks
<1>8. ServesWith("idle", NoJob)
  BY DEF ServesWith
<1> QED BY <1>1, <1>3, <1>4, <1>5, <1>7, <1>8, ServeStep

\* What a thread knows while it checks a token.
LEMMA Checking ==
  ASSUME IndInv, NEW w \in Worker, pc[w] \in {"lookup", "check", "principal"}
  PROVE  /\ job[w] \in CheckJob
         /\ job[w].token \in Token
         /\ job[w].began \in Nat /\ now \in Nat /\ job[w].began =< now
         /\ job[w].known # NoRow => issued[job[w].token] = job[w].known
         /\ issued[job[w].token] \in SessionRow \cup {NoRow}
         /\ pc[w] \in {"check", "principal"} =>
              /\ job[w].row = issued[job[w].token]
              /\ job[w].row \in SessionRow /\ job[w].row # NoRow
              /\ job[w].row.expiresAt \in Nat /\ job[w].row.user \in users
         /\ pc[w] = "principal" => job[w].began < job[w].row.expiresAt
<1>1. /\ job[w] \in CheckJob /\ now \in Nat
      /\ issued \in [Token -> SessionRow \cup {NoRow}]
      /\ pc[w] \in {"check", "principal"} => job[w].row # NoRow
  BY DEF IndInv, TypeOK, ServesWith
<1>2. job[w].token \in Token /\ job[w].began \in Nat
      /\ job[w].row \in SessionRow \cup {NoRow}
  BY <1>1 DEF CheckJob
<1>3. job[w].row # NoRow => job[w].row \in SessionRow /\ job[w].row.expiresAt \in Nat
  BY <1>2 DEF SessionRow
<1>4. Checks(w)
  BY DEF IndInv
<1>5. issued[job[w].token] # NoRow => issued[job[w].token].user \in users
  BY <1>2 DEF IndInv, Granted
<1> QED BY <1>1, <1>2, <1>3, <1>4, <1>5 DEF Checks

LEMMA LookupStep ==
  ASSUME IndInv, NEW w \in Worker, Lookup(w)
  PROVE  IndInv'
<1> DEFINE row == sessions[Hash(job[w].token)]
<1>1. pc[w] = "lookup" /\ TypeOK
  BY DEF Lookup, IndInv
<1>2. row = issued[job[w].token]
  BY <1>1, Checking DEF IndInv, Granted
<1>3. CASE row = NoRow /\ Answer(w, NoRow)
  BY <1>1, <1>2, <1>3, Checking, AnswerStep
<1>4. CASE /\ row # NoRow
           /\ Continue(w, "check", [job[w] EXCEPT !.row = row])
           /\ UNCHANGED <<tables, now, history>>
  <2> DEFINE carried == [job[w] EXCEPT !.row = row]
  <2>1. /\ carried \in CheckJob /\ carried.row = row /\ carried.token = job[w].token
        /\ carried.began = job[w].began /\ carried.known = job[w].known
    BY <1>1, <1>2, Checking DEF CheckJob
  <2>2. /\ Continue(w, "check", carried)
        /\ UNCHANGED <<tables, now, issued, disturbed, seeded>>
        /\ UNCHANGED answered
    BY <1>4 DEF history
  <2> HIDE DEF carried
  <2>3. ServesWith("check", carried)
    BY <1>4, <2>1 DEF ServesWith
  <2>4. pc'[w] = "check" /\ job'[w] = carried
    BY <1>1, <2>2, Frame, Roles
  <2>5. Grants(w)'
    BY <2>4 DEF Grants
  <2>6. Checks(w)'
    BY <1>1, <1>2, <2>1, <2>2, <2>4, Checking DEF Checks
  <2>7. AdmittedInTime' /\ IssuedTokensAdmit'
    BY <2>2, AnswersKept
  <2>8. answered' \in [Worker -> Answered \cup {NoJob}]
    BY <1>1, <2>2 DEF TypeOK
  <2> QED BY <2>2, <2>3, <2>5, <2>6, <2>7, <2>8, ServeStep
<1> QED BY <1>3, <1>4 DEF Lookup, Found

LEMMA CheckStep ==
  ASSUME IndInv, NEW w \in Worker, Check(w)
  PROVE  IndInv'
<1>1. pc[w] = "check" /\ TypeOK
  BY DEF Check, IndInv
<1>2. CASE Expired(job[w].row) /\ Answer(w, NoRow)
  BY <1>1, <1>2, Checking, AnswerStep DEF Expired
<1>3. CASE /\ ~ Expired(job[w].row)
           /\ Continue(w, "principal", job[w])
           /\ UNCHANGED <<tables, now, history>>
  <2>1. UNCHANGED <<tables, now, issued, disturbed, seeded>> /\ UNCHANGED answered
    BY <1>3 DEF history
  <2>2. ServesWith("principal", job[w])
    BY <1>1, Checking DEF ServesWith
  <2>3. pc'[w] = "principal" /\ job'[w] = job[w]
    BY <1>1, <1>3, Frame, Roles
  <2>4. job[w].began < job[w].row.expiresAt
    BY <1>1, <1>3, Checking DEF Expired
  <2>5. Grants(w)'
    BY <2>3 DEF Grants
  <2>6. Checks(w)'
    BY <1>1, <2>1, <2>3, <2>4, Checking DEF Checks
  <2>7. AdmittedInTime' /\ IssuedTokensAdmit'
    BY <2>1, AnswersKept
  <2>8. answered' \in [Worker -> Answered \cup {NoJob}]
    BY <1>1, <2>1 DEF TypeOK
  <2> QED BY <1>3, <2>1, <2>2, <2>5, <2>6, <2>7, <2>8, ServeStep
<1> QED BY <1>2, <1>3 DEF Check

LEMMA PrincipalStep ==
  ASSUME IndInv, NEW w \in Worker, Principal(w)
  PROVE  IndInv'
<1>1. pc[w] = "principal"
  BY DEF Principal
<1>2. /\ job[w].row.user \in users /\ job[w].row.user \in User
      /\ job[w].row.user # NoRow
  BY <1>1, Checking, SessionsAssumption DEF SessionRow
<1>3. Answer(w, job[w].row.user)
  BY <1>2 DEF Principal
<1> QED BY <1>1, <1>2, <1>3, Checking, AnswerStep

LEMMA CommitTokenStep ==
  ASSUME IndInv, NEW w \in Worker, CommitToken(w)
  PROVE  IndInv'
<1> DEFINE j == job[w]
           t == job[w].token
           d == job[w].row.device
<1>1. pc[w] = "grant" /\ TypeOK /\ j \in GrantJob
  BY DEF CommitToken, IndInv, TypeOK, ServesWith
<1>2. /\ t \in Token /\ d \in Device /\ j.row \in SessionRow /\ j.row.user \in User
      /\ j.seen \in User \cup {NoRow} /\ j.row # NoRow /\ j.row.user # NoRow
  BY <1>1, SessionsAssumption DEF GrantJob, SessionRow, Random
<1>3. ServesWith("idle", NoJob)
  BY DEF ServesWith
<1>4. Continue(w, "idle", NoJob) /\ now' = now
  BY DEF CommitToken, Stop
<1>5. /\ pc'[w] = "idle" /\ job'[w] = NoJob
      /\ \A q \in Process \ {w} : pc'[q] = pc[q] /\ job'[q] = job[q]
  BY <1>1, <1>4, Frame, Roles
<1>6. Grants(w)' /\ Checks(w)'
  BY <1>5 DEF Grants, Checks
<1>7. CASE UNCHANGED <<tables, history>>
  <2>1. UNCHANGED <<tables, now, issued, disturbed, seeded>> /\ UNCHANGED answered
    BY <1>4, <1>7 DEF history
  <2>2. AdmittedInTime' /\ IssuedTokensAdmit'
    BY <2>1, AnswersKept
  <2>3. answered' \in [Worker -> Answered \cup {NoJob}]
    BY <1>1, <2>1 DEF TypeOK
  <2> QED BY <1>3, <1>4, <1>6, <2>1, <2>2, <2>3, ServeStep
<1>8. CASE /\ devices' = [devices EXCEPT ![d] = Owner(@, j.seen, j.row.user)]
           /\ sessions' = [sessions EXCEPT ![Hash(t)] = j.row]
           /\ issued' = [issued EXCEPT ![t] = j.row]
           /\ Disturb(w)
           /\ UNCHANGED <<users, answered, seeded>>
  <2>1. /\ devices \in [Device -> User \cup {NoRow}]
        /\ sessions \in [Value -> SessionRow \cup {NoRow}]
        /\ issued \in [Token -> SessionRow \cup {NoRow}]
    BY <1>1 DEF TypeOK
  <2>2. issued[t] = NoRow /\ j.row.user \in users
    BY <1>1 DEF IndInv, Grants
  <2>3. disturbed' = Seeder
    BY <1>8, Roles DEF Disturb
  <2>4. /\ devices' \in [Device -> User \cup {NoRow}]
        /\ \A x \in Device : devices[x] # NoRow => devices'[x] # NoRow
    BY <1>2, <1>8, <2>1 DEF Owner
  <2>5. /\ sessions' \in [Value -> SessionRow \cup {NoRow}]
        /\ sessions'[Hash(t)] = j.row
        /\ \A x \in Token : x # t => sessions'[Hash(x)] = sessions[Hash(x)]
        /\ \A x \in Token : sessions'[Raw(x)] = sessions[Raw(x)]
    BY <1>2, <1>8, <2>1, Values
  <2>6. /\ issued' \in [Token -> SessionRow \cup {NoRow}]
        /\ issued'[t] = j.row
        /\ \A x \in Token \ {t} : issued'[x] = issued[x]
    BY <1>2, <1>8, <2>1
  <2>7. TypeOK'
    BY <1>1, <1>3, <1>4, <1>8, <2>3, <2>4, <2>5, <2>6, ServeTyped DEF TypeOK
  <2>8. \A x \in Token : issued[x] # NoRow => issued'[x] = issued[x]
    BY <2>2, <2>6
  <2>9. TablesGrow
    BY <1>1, <1>4, <1>8, <2>4, <2>8 DEF TablesGrow, TypeOK
  <2>10. Granted'
    BY <1>8, <2>2, <2>5, <2>6 DEF IndInv, Granted
  <2>11. ASSUME NEW v \in Worker, v # w
         PROVE  Grants(v)' /\ Checks(v)'
    <3>1. pc'[v] = pc[v] /\ job'[v] = job[v]
      BY <1>5, <2>11, Roles
    <3>2. Checks(v)'
      BY <2>7, <2>9, <3>1, CheckKept
    <3>3. ASSUME pc[v] = "grant"
          PROVE  job[v].token \in Token /\ job[v].token # t
      <4>1. job[v] \in GrantJob
        BY <1>1, <3>3 DEF TypeOK, ServesWith
      <4>2. Grants(w)
        BY DEF IndInv
      <4> QED BY <1>1, <2>11, <3>3, <4>1, <4>2 DEF Grants, GrantJob, Random
    <3>4. \A x \in Worker : pc'[x] = "grant" => pc[x] = "grant" /\ job'[x] = job[x]
      BY <1>5, Roles
    <3>5. Grants(v)
      BY DEF IndInv
    <3>6. Grants(v)'
      <4>1. SUFFICES ASSUME pc'[v] = "grant"
            PROVE  /\ issued'[job'[v].token] = NoRow
                   /\ job'[v].row.user \in users'
                   /\ \A x \in Worker : x # v /\ pc'[x] = "grant" =>
                        job'[x].token # job'[v].token
        BY DEF Grants
      <4>2. issued'[job[v].token] = issued[job[v].token]
        BY <2>6, <3>1, <3>3, <4>1
      <4> QED BY <1>8, <3>1, <3>4, <3>5, <4>1, <4>2 DEF Grants
    <3> QED BY <3>2, <3>6
  <2>12. ASSUME NEW s \in Seeder
         PROVE  Seeds(s)'
    BY <1>5, <2>3, <2>9, Roles, SeedKept DEF Told
  <2>13. AdmittedInTime' /\ IssuedTokensAdmit'
    BY <1>8, <2>8, AnswersKept
  <2>14. SeedIsComplete'
    BY <1>8, <2>5, <2>9, SeedingKept, SessionsAssumption
  <2> QED BY <1>6, <2>7, <2>10, <2>11, <2>12, <2>13, <2>14 DEF IndInv
<1> QED BY <1>7, <1>8 DEF CommitToken

----------------------------------------------------------------------------
\* A script goes on without touching devices or sessions.
LEMMA SeedStep ==
  ASSUME IndInv, NEW s \in Seeder, NEW statement, NEW carried,
         Continue(s, statement, carried), SeedsWith(statement, carried),
         users \subseteq users', users' \in SUBSET User,
         UNCHANGED <<devices, sessions, now, issued, answered, seeded>>,
         disturbed' \in SUBSET Seeder,
         \A r \in Seeder \ {s} : Told(r),
         Seeds(s)'
  PROVE  IndInv'
<1>1. TypeOK
  BY DEF IndInv
<1>2. TypeOK'
  BY <1>1, SeedTyped DEF TypeOK
<1>3. TablesGrow
  BY <1>1 DEF TypeOK, TablesGrow
<1>4. /\ pc'[s] = statement /\ job'[s] = carried
      /\ \A q \in Process \ {s} : pc'[q] = pc[q] /\ job'[q] = job[q]
  BY <1>1, Frame, Roles
<1>5. Granted'
  BY DEF IndInv, Granted
<1>6. \A w \in Worker : Grants(w)' /\ Checks(w)'
  <2>1. statement # "grant"
    BY DEF SeedsWith
  <2>2. \A w \in Worker : Grants(w)'
    BY <1>4, <2>1, GrantKept, Roles
  <2> QED BY <1>2, <1>3, <1>4, <2>2, CheckKept, Roles
<1>7. ASSUME NEW r \in Seeder, r # s
      PROVE  Seeds(r)'
  BY <1>3, <1>4, <1>7, SeedKept, Roles
<1>8. AdmittedInTime' /\ IssuedTokensAdmit' /\ SeedIsComplete'
  BY <1>3, AnswersKept, SeedingKept
<1> QED BY <1>2, <1>5, <1>6, <1>7, <1>8 DEF IndInv

LEMMA SeedReadUsersStep ==
  ASSUME IndInv, NEW s \in Seeder, SeedReadUsers(s)
  PROVE  IndInv'
<1> DEFINE carried ==
      [known |-> users \cap Seeded, todo |-> Seeded, user |-> NoRow, started |-> now,
       devices |-> [u \in Seeded |-> NoRow], sessions |-> [u \in Seeded |-> NoRow]]
<1>1. /\ TypeOK
      /\ Continue(s, "users", carried)
      /\ disturbed' = disturbed \ {s}
      /\ UNCHANGED <<users, devices, sessions, now, issued, answered, seeded>>
  BY DEF IndInv, SeedReadUsers, tables
<1>2. /\ carried \in SeedJob /\ carried.known = users \cap Seeded
      /\ carried.todo = Seeded /\ \A u \in Seeded : carried.devices[u] = NoRow
  BY <1>1 DEF TypeOK, SeedJob
<1> HIDE DEF carried
<1>3. SeedsWith("users", carried)
  BY <1>2 DEF SeedsWith
<1>4. pc'[s] = "users" /\ job'[s] = carried
  BY <1>1, Frame, Roles
<1>5. Seeds(s)'
  BY <1>1, <1>2, <1>4 DEF Seeds
<1>6. \A r \in Seeder \ {s} : Told(r)
  BY <1>1 DEF Told
<1>7. users' \in SUBSET User /\ disturbed' \in SUBSET Seeder
  BY <1>1 DEF TypeOK
<1> QED BY <1>1, <1>3, <1>5, <1>6, <1>7, SeedStep

\* A script whose commit is refused ends.
LEMMA SeedFails ==
  ASSUME IndInv, NEW s \in Seeder, NEW statement \in {"failed", "idle"},
         Continue(s, statement, NoJob),
         UNCHANGED <<users, devices, sessions, now, issued, answered, disturbed, seeded>>
  PROVE  IndInv'
<1>1. TypeOK
  BY DEF IndInv
<1>2. pc'[s] = statement
  BY <1>1, Frame, Roles
<1>3. Seeds(s)' /\ SeedsWith(statement, NoJob)
  BY <1>2 DEF Seeds, SeedsWith
<1>4. users' \in SUBSET User /\ disturbed' \in SUBSET Seeder
  BY <1>1 DEF TypeOK
<1>5. \A r \in Seeder \ {s} : Told(r)
  BY DEF Told
<1> QED BY <1>3, <1>4, <1>5, SeedStep

LEMMA SeedCommitUsersStep ==
  ASSUME IndInv, NEW s \in Seeder, SeedCommitUsers(s)
  PROVE  IndInv'
<1>1. /\ TypeOK /\ pc[s] = "users" /\ job[s] \in SeedJob
      /\ UNCHANGED <<devices, sessions, now, issued, answered, seeded>>
  BY DEF IndInv, TypeOK, SeedsWith, SeedCommitUsers
<1>2. CASE /\ users' = users \cup Inserted(job[s])
           /\ Disturb(s)
           /\ Continue(s, "rows", job[s])
  <2>1. SeedsWith("rows", job[s])
    BY <1>1 DEF SeedsWith
  <2>2. pc'[s] = "rows" /\ job'[s] = job[s]
    BY <1>1, <1>2, Frame, Roles
  <2>3. /\ job[s].known \subseteq users /\ job[s].todo = Seeded
        /\ \A u \in Seeded : job[s].devices[u] = NoRow
    BY <1>1 DEF IndInv, Seeds
  <2>4. Seeded \subseteq users'
    BY <1>1, <1>2, <2>3 DEF Inserted
  <2>5. Seeds(s)'
    BY <1>1, <2>2, <2>3, <2>4 DEF Seeds
  <2>6. \A r \in Seeder \ {s} : Told(r)
    BY <1>2 DEF Told, Disturb
  <2>7. users' \in SUBSET User /\ disturbed' \in SUBSET Seeder
    BY <1>1, <1>2, SessionsAssumption DEF TypeOK, Inserted, Disturb
  <2>8. users \subseteq users'
    BY <1>2
  <2> QED BY <1>1, <1>2, <2>1, <2>5, <2>6, <2>7, <2>8, SeedStep
<1>3. CASE Continue(s, "failed", NoJob) /\ UNCHANGED <<users, disturbed>>
  BY <1>1, <1>3, SeedFails
<1> QED BY <1>2, <1>3 DEF SeedCommitUsers

LEMMA SeedReadDeviceStep ==
  ASSUME IndInv, NEW s \in Seeder, SeedReadDevice(s)
  PROVE  IndInv'
<1>1. PICK u \in job[s].todo :
        Continue(s, "session",
          [job[s] EXCEPT !.todo = @ \ {u}, !.user = u,
                         !.devices[u] = devices[DefaultDevice[u]]])
  BY DEF SeedReadDevice
<1> DEFINE carried ==
      [job[s] EXCEPT !.todo = @ \ {u}, !.user = u,
                     !.devices[u] = devices[DefaultDevice[u]]]
<1>2. /\ TypeOK /\ pc[s] = "rows" /\ job[s] \in SeedJob
      /\ UNCHANGED <<users, devices, sessions, now, issued, answered, disturbed, seeded>>
  BY DEF IndInv, TypeOK, SeedsWith, SeedReadDevice, tables, history
<1>3. /\ job[s].devices \in [Seeded -> User \cup {NoRow}]
      /\ job[s].todo \in SUBSET Seeded
      /\ u \in Seeded
      /\ devices[DefaultDevice[u]] \in User \cup {NoRow}
  BY <1>2, SessionsAssumption DEF SeedJob, TypeOK
<1>4. /\ carried \in SeedJob
      /\ carried.todo = job[s].todo \ {u}
      /\ carried.user = u
      /\ carried.devices = [job[s].devices EXCEPT ![u] = devices[DefaultDevice[u]]]
      /\ carried.sessions = job[s].sessions
  BY <1>2, <1>3 DEF SeedJob
<1>5. Continue(s, "session", carried)
  BY <1>1
<1> HIDE DEF carried
<1>6. SeedsWith("session", carried)
  BY <1>3, <1>4 DEF SeedsWith
<1>7. pc'[s] = "session" /\ job'[s] = carried
  BY <1>2, <1>5, Frame, Roles
<1>8. Seeds(s)'
  BY <1>2, <1>3, <1>4, <1>7 DEF IndInv, Seeds
<1>9. \A r \in Seeder \ {s} : Told(r)
  BY <1>2 DEF Told
<1>10. users' \in SUBSET User /\ disturbed' \in SUBSET Seeder
  BY <1>2 DEF TypeOK
<1> QED BY <1>2, <1>5, <1>6, <1>8, <1>9, <1>10, SeedStep

LEMMA SeedReadSessionStep ==
  ASSUME IndInv, NEW s \in Seeder, SeedReadSession(s)
  PROVE  IndInv'
<1> DEFINE u == job[s].user
           carried == [job[s] EXCEPT !.sessions[u] = Stored(u)]
<1>1. /\ TypeOK /\ pc[s] = "session" /\ job[s] \in SeedJob /\ u \in Seeded
      /\ Continue(s, "rows", carried)
      /\ UNCHANGED <<users, devices, sessions, now, issued, answered, disturbed, seeded>>
  BY DEF IndInv, TypeOK, SeedsWith, SeedReadSession, tables, history
<1>2. /\ job[s].sessions \in [Seeded -> SessionRow \cup {NoRow}]
      /\ DevToken[u] \in Token
      /\ Stored(u) = sessions[Raw(DevToken[u])]
      /\ Stored(u) \in SessionRow \cup {NoRow}
  BY <1>1, SessionsAssumption, Values DEF SeedJob, TypeOK, Stored
<1>3. /\ carried \in SeedJob
      /\ carried.todo = job[s].todo
      /\ carried.devices = job[s].devices
      /\ carried.sessions = [job[s].sessions EXCEPT ![u] = sessions[Raw(DevToken[u])]]
  BY <1>1, <1>2 DEF SeedJob
<1> HIDE DEF carried
<1>4. SeedsWith("rows", carried)
  BY <1>3 DEF SeedsWith
<1>5. pc'[s] = "rows" /\ job'[s] = carried
  BY <1>1, Frame, Roles
<1>6. Seeds(s)'
  BY <1>1, <1>2, <1>3, <1>5 DEF IndInv, Seeds
<1>7. \A r \in Seeder \ {s} : Told(r)
  BY <1>1 DEF Told
<1>8. users' \in SUBSET User /\ disturbed' \in SUBSET Seeder
  BY <1>1 DEF TypeOK
<1> QED BY <1>1, <1>4, <1>6, <1>7, <1>8, SeedStep
\* The commit that writes every device and every session.
LEMMA SeedCommitRowsStep ==
  ASSUME IndInv, NEW s \in Seeder, SeedCommitRows(s)
  PROVE  IndInv'
<1> DEFINE j == job[s]
           default(d) == CHOOSE u \in Seeded : DefaultDevice[u] = d
           dev(v) == CHOOSE u \in Seeded : Raw(DevToken[u]) = v
           row(u) == [user |-> u, device |-> DefaultDevice[u],
                      expiresAt |-> j.started + Lifetime]
<1>1. /\ TypeOK /\ pc[s] = "rows" /\ j \in SeedJob
      /\ UNCHANGED <<users, now, issued, answered>>
  BY DEF IndInv, TypeOK, SeedsWith, SeedCommitRows
<1>2. CASE /\ Continue(s, "failed", NoJob)
           /\ UNCHANGED <<devices, sessions, disturbed, seeded>>
  BY <1>1, <1>2, SeedFails
<1>3. CASE
        /\ devices' = [d \in Device |->
             IF \E u \in Seeded : DefaultDevice[u] = d
             THEN Owner(devices[d], j.devices[default(d)], default(d))
             ELSE devices[d]]
        /\ sessions' = [v \in Value |->
             IF \E u \in Seeded : Raw(DevToken[u]) = v
             THEN [user |-> dev(v), device |-> DefaultDevice[dev(v)],
                   expiresAt |-> j.started + Lifetime]
             ELSE sessions[v]]
        /\ seeded' = TRUE
        /\ Disturb(s)
        /\ Stop(s)
  <2>1. /\ devices \in [Device -> User \cup {NoRow}]
        /\ sessions \in [Value -> SessionRow \cup {NoRow}]
        /\ \A u \in Seeded : /\ u \in User /\ u # NoRow
                             /\ DefaultDevice[u] \in Device
                             /\ DevToken[u] \in Token /\ Raw(DevToken[u]) \in Value
        /\ j.started + Lifetime \in Nat
    BY <1>1, SessionsAssumption, Values DEF TypeOK, SeedJob
  <2>2. ASSUME NEW u \in Seeded
        PROVE  default(DefaultDevice[u]) = u /\ dev(Raw(DevToken[u])) = u
    BY SessionsAssumption DEF Raw
  <2>3. /\ \A u \in Seeded : j.devices[u] # NoRow => devices[DefaultDevice[u]] # NoRow
        /\ Seeded \subseteq users
    BY <1>1 DEF IndInv, Seeds
  <2>4. ASSUME NEW u \in Seeded
        PROVE  /\ devices'[DefaultDevice[u]] = Owner(devices[DefaultDevice[u]], j.devices[u], u)
               /\ sessions'[Raw(DevToken[u])] = row(u)
               /\ row(u) \in SessionRow /\ row(u) # NoRow
               /\ row(u).user = u /\ row(u).device = DefaultDevice[u]
    <3>1. row(u) \in SessionRow
      BY <2>1 DEF SessionRow
    <3>2. row(u) # NoRow
      BY <3>1, SessionsAssumption
    <3>3. row(u).user = u /\ row(u).device = DefaultDevice[u]
      OBVIOUS
    <3>4. /\ devices'[DefaultDevice[u]] =
                Owner(devices[DefaultDevice[u]], j.devices[u], u)
          /\ sessions'[Raw(DevToken[u])] = row(u)
      BY <1>3, <2>1, <2>2
    <3> QED BY <3>1, <3>2, <3>3, <3>4
  <2>5. ASSUME NEW d \in Device
        PROVE  /\ devices'[d] \in User \cup {NoRow}
               /\ devices[d] # NoRow => devices'[d] # NoRow
    <3>1. CASE \E u \in Seeded : DefaultDevice[u] = d
      <4>1. PICK u \in Seeded : DefaultDevice[u] = d
        BY <3>1
      <4> QED BY <2>1, <2>4, <4>1 DEF Owner
    <3>2. CASE ~ \E u \in Seeded : DefaultDevice[u] = d
      BY <1>3, <2>1, <3>2
    <3> QED BY <3>1, <3>2
  <2>6. devices' \in [Device -> User \cup {NoRow}]
    BY <1>3, <2>5
  <2>7. ASSUME NEW v \in Value
        PROVE  sessions'[v] \in SessionRow \cup {NoRow}
    <3>1. CASE \E u \in Seeded : Raw(DevToken[u]) = v
      <4>1. PICK u \in Seeded : Raw(DevToken[u]) = v
        BY <3>1
      <4> QED BY <2>4, <4>1
    <3>2. CASE ~ \E u \in Seeded : Raw(DevToken[u]) = v
      BY <1>3, <2>1, <3>2
    <3> QED BY <3>1, <3>2
  <2>8. sessions' \in [Value -> SessionRow \cup {NoRow}]
    BY <1>3, <2>7
  <2>9. \A t \in Token : sessions'[Hash(t)] = sessions[Hash(t)]
    BY <1>3, <2>1, Values
  <2> HIDE DEF j, default, dev, row
  <2>10. Continue(s, "idle", NoJob) /\ SeedsWith("idle", NoJob)
    BY <1>3 DEF Stop, SeedsWith
  <2>11. /\ pc'[s] = "idle" /\ job'[s] = NoJob
         /\ \A q \in Process \ {s} : pc'[q] = pc[q] /\ job'[q] = job[q]
    BY <1>1, <2>10, Frame, Roles
  <2>12. disturbed' = Seeder \ {s} /\ seeded' = TRUE
    BY <1>3 DEF Disturb
  <2>13. TypeOK'
    BY <1>1, <2>6, <2>8, <2>10, <2>12, SeedTyped DEF TypeOK
  <2>14. TablesGrow
    BY <1>1, <2>5 DEF TablesGrow, TypeOK
  <2>15. Granted'
    BY <1>1, <2>9 DEF IndInv, Granted
  <2>16. \A w \in Worker : Grants(w)' /\ Checks(w)'
    <3>1. \A w \in Worker : Grants(w)'
      BY <1>1, <2>11, GrantKept, Roles
    <3> QED BY <2>11, <2>13, <2>14, <3>1, CheckKept, Roles
  <2>17. ASSUME NEW r \in Seeder
         PROVE  Seeds(r)'
    <3>1. CASE r = s
      BY <2>11, <3>1 DEF Seeds
    <3>2. CASE r # s
      BY <2>11, <2>12, <2>14, <3>2, Roles, SeedKept DEF Told
    <3> QED BY <3>1, <3>2
  <2>18. AdmittedInTime' /\ IssuedTokensAdmit'
    BY <1>1, AnswersKept
  <2>19. SeedIsComplete'
    <3>1. SUFFICES ASSUME NEW u \in Seeded
          PROVE  /\ u \in users' /\ devices'[DefaultDevice[u]] # NoRow
                 /\ sessions'[Raw(DevToken[u])] # NoRow
                 /\ sessions'[Raw(DevToken[u])].user = u
                 /\ sessions'[Raw(DevToken[u])].device = DefaultDevice[u]
      BY DEF SeedIsComplete
    <3>2. devices'[DefaultDevice[u]] # NoRow
      BY <2>1, <2>3, <2>4 DEF Owner
    <3> QED BY <1>1, <2>3, <2>4, <3>2
  <2> QED BY <2>13, <2>15, <2>16, <2>17, <2>18, <2>19 DEF IndInv
<1> QED BY <1>2, <1>3 DEF SeedCommitRows

LEMMA CrashStep ==
  ASSUME IndInv, NEW p \in Process, Crash(p)
  PROVE  IndInv'
<1>1. /\ TypeOK /\ Continue(p, "idle", NoJob)
      /\ UNCHANGED <<users, devices, sessions, now, issued, answered, disturbed, seeded>>
  BY DEF IndInv, Crash, Stop, tables, history
<1>2. CASE p \in Worker
  <2>1. pc'[p] = "idle"
    BY <1>1, Frame
  <2>2. Grants(p)' /\ Checks(p)'
    BY <2>1 DEF Grants, Checks
  <2>3. AdmittedInTime' /\ IssuedTokensAdmit'
    BY <1>1, AnswersKept
  <2>4. ServesWith("idle", NoJob) /\ UNCHANGED <<tables, now, issued, disturbed, seeded>>
    BY <1>1 DEF ServesWith, tables
  <2>5. answered' \in [Worker -> Answered \cup {NoJob}]
    BY <1>1 DEF TypeOK
  <2> QED BY <1>1, <1>2, <2>2, <2>3, <2>4, <2>5, ServeStep
<1>3. CASE p \in Seeder
  BY <1>1, <1>3, SeedFails
<1> QED BY <1>2, <1>3 DEF Process

----------------------------------------------------------------------------
LEMMA InitInv == Init => IndInv
<1> SUFFICES ASSUME Init PROVE IndInv
  OBVIOUS
<1>1. TypeOK
  <2>1. /\ \A w \in Worker : ServesWith(pc[w], job[w])
        /\ \A s \in Seeder : SeedsWith(pc[s], job[s])
    BY Roles DEF Init, ServesWith, SeedsWith
  <2>2. now \in 0 .. MaxTime
    BY SessionsAssumption DEF Init
  <2> QED BY <2>1, <2>2 DEF Init, TypeOK
<1>2. Granted
  BY Values DEF Init, Granted
<1>3. \A w \in Worker : Grants(w) /\ Checks(w)
  BY Roles DEF Init, Grants, Checks
<1>4. \A s \in Seeder : Seeds(s)
  BY Roles DEF Init, Seeds
<1>5. AdmittedInTime /\ IssuedTokensAdmit /\ SeedIsComplete
  BY DEF Init, AdmittedInTime, IssuedTokensAdmit, SeedIsComplete
<1> QED BY <1>1, <1>2, <1>3, <1>4, <1>5 DEF IndInv

LEMMA NextInv == IndInv /\ [Next]_vars => IndInv'
<1> SUFFICES ASSUME IndInv, [Next]_vars PROVE IndInv'
  OBVIOUS
<1>1. CASE Tick
  BY <1>1, TickStep
<1>2. CASE \E u \in User : Register(u)
  BY <1>2, RegisterStep
<1>3. ASSUME NEW w \in Worker, Serve(w) PROVE IndInv'
  BY <1>3, CreateTokenStep, CommitTokenStep, PresentStep, LookupStep, CheckStep,
     PrincipalStep DEF Serve
<1>4. ASSUME NEW s \in Seeder, Seed(s) PROVE IndInv'
  BY <1>4, SeedReadUsersStep, SeedCommitUsersStep, SeedReadDeviceStep,
     SeedReadSessionStep, SeedCommitRowsStep DEF Seed
<1>5. CASE \E p \in Process : Crash(p)
  BY <1>5, CrashStep
<1>6. CASE UNCHANGED vars
  <2>1. UNCHANGED <<users, devices, sessions, now, pc, job, issued, answered,
                    disturbed, seeded>>
    BY <1>6 DEF vars, tables, history
  <2> QED BY <2>1 DEF IndInv, TypeOK, Granted, Grants, Checks, Seeds, AdmittedInTime,
       IssuedTokensAdmit, SeedIsComplete
<1> QED BY <1>1, <1>2, <1>3, <1>4, <1>5, <1>6 DEF Next

\* The inductive invariant holds throughout: the hashed rows are what logins have
\* answered, and threads and scripts carry what the tables say.
THEOREM Invariance == Spec => []IndInv
<1> QED BY InitInv, NextInv, PTL DEF Spec

\* Tables and processes keep the types that the statements rely on.
THEOREM TypeCorrect == Spec => []TypeOK
<1>1. IndInv => TypeOK
  BY DEF IndInv
<1> QED BY <1>1, Invariance, PTL

\* get_current_user admits only the user whom a login has issued the token to,
\* and only a request that began before the token's expiry.
THEOREM Admission == Spec => []AdmittedInTime
<1>1. IndInv => AdmittedInTime
  BY DEF IndInv
<1> QED BY <1>1, Invariance, PTL

\* A token that a login has answered is never refused before its expiry,
\* whatever the seed script and other logins do meanwhile.
THEOREM GoodTokens == Spec => []IssuedTokensAdmit
<1>1. IndInv => IssuedTokensAdmit
  BY DEF IndInv
<1> QED BY <1>1, Invariance, PTL

\* A seed script that reports success has left every seeded user with its device
\* and its session, whatever crashed before or ran beside it.
THEOREM SeedComplete == Spec => []SeedIsComplete
<1>1. IndInv => SeedIsComplete
  BY DEF IndInv
<1> QED BY <1>1, Invariance, PTL

\* A script is refused only if another process has committed since it started.
LEMMA RefusedWhenDisturbed ==
  ASSUME IndInv, [Next]_vars, NEW s \in Seeder, pc[s] # "failed", pc'[s] = "failed"
  PROVE  s \in disturbed
<1>1. TypeOK /\ Seeds(s) /\ s \in Process
  BY Roles DEF IndInv
<1>2. pc'[s] # pc[s]
  OBVIOUS
<1>3. ASSUME NEW p \in Process, NEW statement, NEW carried,
             Continue(p, statement, carried)
      PROVE  p = s /\ statement = "failed"
  BY <1>1, <1>2, <1>3, Frame
<1>4. \E r \in Seeder : Seed(r)
  <2>1. ASSUME NEW w \in Worker, Serve(w) PROVE FALSE
    <3>1. \E statement, carried : Continue(w, statement, carried)
      BY <2>1 DEF Serve, CreateToken, CommitToken, Present, Lookup, Check, Principal,
         Answer, Stop
    <3> QED BY <1>1, <1>3, <3>1, Roles
  <2>2. ASSUME NEW p \in Process, Crash(p) PROVE FALSE
    BY <1>3, <2>2 DEF Crash, Stop
  <2> QED BY <1>2, <2>1, <2>2 DEF Next, Tick, Register, vars
<1>5. PICK r \in Seeder : Seed(r)
  BY <1>4
<1>6. r \in Process
  BY Roles
<1>7. CASE SeedCommitUsers(r)
  <2>1. Continue(r, "failed", NoJob) /\ Inserted(job[r]) \cap users # {}
    BY <1>3, <1>6, <1>7 DEF SeedCommitUsers
  <2>2. r = s
    BY <1>3, <1>6, <2>1
  <2> QED BY <1>1, <1>7, <2>1, <2>2 DEF SeedCommitUsers, Seeds, Inserted
<1>8. CASE SeedCommitRows(r)
  <2>1. /\ pc[r] = "rows" /\ job[r].todo = {}
        /\ \E u \in Seeded :
             \/ job[r].devices[u] = NoRow /\ devices[DefaultDevice[u]] # NoRow
             \/ job[r].sessions[u] = NoRow /\ sessions[Raw(DevToken[u])] # NoRow
        /\ Continue(r, "failed", NoJob)
    BY <1>3, <1>6, <1>8 DEF SeedCommitRows, Stop
  <2>2. r = s
    BY <1>3, <1>6, <2>1
  <2> QED BY <1>1, <2>1, <2>2 DEF Seeds
<1>9. CASE SeedReadUsers(r)
  <2>1. \E carried : Continue(r, "users", carried)
    BY <1>9 DEF SeedReadUsers
  <2> QED BY <1>3, <1>6, <2>1
<1>10. CASE SeedReadDevice(r)
  <2>1. \E carried : Continue(r, "session", carried)
    BY <1>10 DEF SeedReadDevice
  <2> QED BY <1>3, <1>6, <2>1
<1>11. CASE SeedReadSession(r)
  <2>1. \E carried : Continue(r, "rows", carried)
    BY <1>11 DEF SeedReadSession
  <2> QED BY <1>3, <1>6, <2>1
<1> QED BY <1>5, <1>7, <1>8, <1>9, <1>10, <1>11 DEF Seed

\* What a dead script has left behind never makes a later one fail.
THEOREM SeedRecovery == Spec => SeedsRecover
<1>1. IndInv /\ [Next]_vars =>
        [\A s \in Seeder :
           pc[s] # "failed" /\ pc'[s] = "failed" => s \in disturbed]_vars
  BY RefusedWhenDisturbed
<1> QED BY <1>1, Invariance, PTL DEF Spec, SeedsRecover

=============================================================================
