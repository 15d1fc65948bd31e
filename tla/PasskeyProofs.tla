--------------------------- MODULE PasskeyProofs ---------------------------
(* What holds of Passkey for every set of users, devices, credentials,       *)
(* challenges and threads, with or without foreign keys.                     *)
EXTENDS Passkey, FiniteSetTheorems, TLAPS

(* An UPDATE of the columns that differ leaves a row whose every column is    *)
(* the one written or the one that was stored (the ORM's unit of work).      *)
LEMMA WrittenCredential ==
  ASSUME NEW stored \in CredentialRow, NEW seen \in CredentialRow,
         NEW row \in CredentialRow
  PROVE  /\ Written(stored, seen, row) \in CredentialRow
         /\ Written(stored, seen, row).user \in {row.user, stored.user}
         /\ Written(stored, seen, row).device \in {row.device, stored.device}
<1>1. seen # NoRow
  BY PasskeyAssumption
<1>2. DOMAIN row = {"user", "device", "count"}
  BY DEF CredentialRow
<1>3. Written(stored, seen, row) =
        [column \in {"user", "device", "count"} |->
           IF row[column] # seen[column] THEN row[column] ELSE stored[column]]
  BY <1>1, <1>2 DEF Written
<1> QED
  BY <1>3 DEF CredentialRow

LEMMA WrittenDevice ==
  ASSUME NEW stored \in DeviceRow, NEW seen \in DeviceRow, NEW row \in DeviceRow
  PROVE  /\ Written(stored, seen, row) \in DeviceRow
         /\ Written(stored, seen, row).owner \in {row.owner, stored.owner}
<1>1. seen # NoRow
  BY PasskeyAssumption
<1>2. DOMAIN row = {"owner"}
  BY DEF DeviceRow
<1>3. Written(stored, seen, row) =
        [column \in {"owner"} |->
           IF row[column] # seen[column] THEN row[column] ELSE stored[column]]
  BY <1>1, <1>2 DEF Written
<1> QED
  BY <1>3 DEF DeviceRow
----------------------------------------------------------------------------
\* A challenge that has been exchanged is used up.
GrantedIsUsed ==
  \A c \in Challenge : granted[c] > 0 =>
    challenges[c] # NoRow /\ challenges[c].consumed

\* What a thread has read still stands when it commits, as no row is deleted
\* and no challenge changes hands.
BeginHolds(w) == pc[w] = "store" => (job[w].known => job[w].user \in users)

FinishHolds(w) ==
  pc[w] \in {"device", "credential", "commit"} =>
    /\ challenges[job[w].challenge] # NoRow
    /\ challenges[job[w].challenge].user = job[w].user
    /\ ~ job[w].late
    /\ job[w].seenDevice # NoRow =>
         job[w].device \in Device /\ devices[job[w].device] # NoRow
    /\ job[w].seenCredential # NoRow =>
         /\ credentials[job[w].credential] # NoRow
         /\ job[w].seenCredential.user \in users
         /\ devices[job[w].seenCredential.device] # NoRow

Inv ==
  /\ TypeOK
  /\ ReferencesExist
  /\ SessionsAreVouched
  /\ GrantedIsUsed
  /\ \A w \in Worker : BeginHolds(w) /\ FinishHolds(w)

----------------------------------------------------------------------------
(* What the steps of one thread do to the threads.                           *)

Frame(w) ==
  /\ DOMAIN pc' = Worker /\ DOMAIN job' = Worker
  /\ \A v \in Worker : v # w => pc'[v] = pc[v] /\ job'[v] = job[v]
  /\ \A v \in Worker : Carries(pc'[v], job'[v])

LEMMA AnswerFrame ==
  ASSUME TypeOK, NEW w \in Worker, Answer(w)
  PROVE  Frame(w) /\ pc'[w] = "idle" /\ job'[w] = NoJob
BY DEF TypeOK, Frame, Carries, Answer

LEMMA ContinueFrame ==
  ASSUME TypeOK, NEW w \in Worker, NEW statement, NEW carried,
         Carries(statement, carried), Continue(w, statement, carried)
  PROVE  Frame(w) /\ pc'[w] = statement /\ job'[w] = carried
<1>1. /\ pc'[w] = statement /\ job'[w] = carried
      /\ \A v \in Worker : v # w => pc'[v] = pc[v] /\ job'[v] = job[v]
  BY DEF TypeOK, Continue
<1>2. \A v \in Worker : Carries(pc'[v], job'[v])
  BY <1>1 DEF TypeOK
<1> QED BY <1>1, <1>2 DEF TypeOK, Continue, Frame

----------------------------------------------------------------------------
(* What the steps of one thread do to the tables.                            *)

\* No row disappears, no challenge changes hands or becomes unused.
Grows ==
  /\ users \subseteq users'
  /\ \A d \in Device : devices[d] # NoRow => devices'[d] # NoRow
  /\ \A k \in Credential : credentials[k] # NoRow => credentials'[k] # NoRow
  /\ \A c \in Challenge : challenges[c] # NoRow =>
       challenges'[c] # NoRow /\ challenges'[c].user = challenges[c].user

TypedTables ==
  /\ users \in SUBSET User
  /\ devices \in [Device -> DeviceRow \cup {NoRow}]
  /\ credentials \in [Credential -> CredentialRow \cup {NoRow}]
  /\ challenges \in [Challenge -> ChallengeRow \cup {NoRow}]
  /\ sessions \in SUBSET
       [user : User, device : Device, challenge : Challenge]
  /\ now \in 0 .. MaxTime
  /\ granted \in [Challenge -> Nat]

\* As the tables only grow, the other threads keep what they hold.
LEMMA Keeps ==
  ASSUME Inv, NEW w \in Worker, Frame(w), Grows, TypedTables',
         ReferencesExist', SessionsAreVouched', GrantedIsUsed',
         BeginHolds(w)', FinishHolds(w)'
  PROVE  Inv'
<1>1. TypeOK'
  BY DEF Frame, TypedTables, TypeOK
<1>2. ASSUME NEW v \in Worker, v # w
      PROVE  BeginHolds(v)' /\ FinishHolds(v)'
  <2>1. pc'[v] = pc[v] /\ job'[v] = job[v] /\ Carries(pc[v], job[v])
    BY <1>2 DEF Inv, TypeOK, Frame
  <2>2. BeginHolds(v)'
    BY <2>1 DEF Inv, BeginHolds, Grows
  <2>3. FinishHolds(v)'
    <3>1. SUFFICES ASSUME pc[v] \in {"device", "credential", "commit"}
                   PROVE  FinishHolds(v)'
      BY <2>1 DEF FinishHolds
    <3>2. job[v] \in FinishJob
      BY <2>1, <3>1 DEF Carries
    <3>3. /\ job[v].challenge \in Challenge
          /\ job[v].credential \in Credential
          /\ job[v].seenCredential # NoRow =>
               job[v].seenCredential.device \in Device
      BY <3>2 DEF FinishJob, CredentialRow
    <3>4. FinishHolds(v)
      BY DEF Inv
    <3> QED BY <2>1, <3>1, <3>3, <3>4 DEF FinishHolds, Grows
  <2> QED BY <2>2, <2>3
<1> QED BY <1>1, <1>2 DEF Inv

\* A step that only reads the tables.
LEMMA Reads ==
  ASSUME Inv, NEW w \in Worker, Frame(w), UNCHANGED <<tables, now, granted>>,
         BeginHolds(w)', FinishHolds(w)'
  PROVE  Inv'
<1>1. TypedTables' /\ Grows
  BY DEF Inv, TypeOK, TypedTables, Grows, tables
<1>2. ReferencesExist'
  BY DEF Inv, ReferencesExist, tables
<1>3. SessionsAreVouched'
  BY DEF Inv, SessionsAreVouched, tables
<1>4. GrantedIsUsed'
  BY DEF Inv, GrantedIsUsed, tables
<1> QED BY <1>1, <1>2, <1>3, <1>4, Keeps

LEMMA Answers ==
  ASSUME Inv, NEW w \in Worker, Answer(w),
         UNCHANGED <<tables, now, granted>>
  PROVE  Inv'
<1>1. Frame(w) /\ pc'[w] = "idle"
  BY AnswerFrame DEF Inv
<1>2. BeginHolds(w)' /\ FinishHolds(w)'
  BY <1>1 DEF BeginHolds, FinishHolds
<1> QED BY <1>1, <1>2, Reads

----------------------------------------------------------------------------
(* The steps that begin a request.                                           *)

LEMMA BeginStep ==
  ASSUME Inv, NEW w \in Worker, Begin(w)
  PROVE  Inv'
<1>1. PICK u \in User, valid \in BOOLEAN :
        \/ BeginRegister(w, u, valid)
        \/ \E d \in Device \cup {NoRow} : BeginLogin(w, u, d, valid)
  BY DEF Begin
<1>2. CASE Answer(w) /\ UNCHANGED <<tables, now, granted>>
  BY <1>2, Answers
<1>3. CASE \E d \in Device \cup {NoRow}, flow \in Flow, known \in BOOLEAN :
             /\ Continue(w, "store", [flow |-> flow, user |-> u, device |-> d,
                                      known |-> known])
             /\ known => u \in users
             /\ UNCHANGED <<tables, now, granted>>
  <2>1. PICK d \in Device \cup {NoRow}, flow \in Flow, known \in BOOLEAN :
             /\ Continue(w, "store", [flow |-> flow, user |-> u, device |-> d,
                                      known |-> known])
             /\ known => u \in users
             /\ UNCHANGED <<tables, now, granted>>
    BY <1>3
  <2> DEFINE carried ==
        [flow |-> flow, user |-> u, device |-> d, known |-> known]
  <2>2. Carries("store", carried)
    BY DEF Carries, BeginJob
  <2>3. Frame(w) /\ pc'[w] = "store" /\ job'[w] = carried
    <3> HIDE DEF carried
    <3> QED BY <2>1, <2>2, ContinueFrame DEF Inv, carried
  <2>4. BeginHolds(w)' /\ FinishHolds(w)'
    BY <2>1, <2>3 DEF BeginHolds, FinishHolds, tables
  <2> QED BY <2>1, <2>3, <2>4, Reads
<1>4. CASE BeginRegister(w, u, valid)
  <2>1. CASE ~ valid
    BY <1>2, <1>4, <2>1 DEF BeginRegister
  <2>2. CASE valid
    <3>1. /\ Continue(w, "store", [flow |-> "register", user |-> u,
                                   device |-> NoRow, known |-> u \in users])
          /\ UNCHANGED <<tables, now, granted>>
      BY <1>4, <2>2 DEF BeginRegister, Known
    <3>2. /\ NoRow \in Device \cup {NoRow} /\ "register" \in Flow
          /\ (u \in users) \in BOOLEAN
      BY DEF Flow
    <3> QED BY <1>3, <3>1, <3>2
  <2> QED BY <2>1, <2>2
<1>5. CASE \E d \in Device \cup {NoRow} : BeginLogin(w, u, d, valid)
  <2>1. PICK d \in Device \cup {NoRow} : BeginLogin(w, u, d, valid)
    BY <1>5
  <2>2. "login" \in Flow /\ TRUE \in BOOLEAN
    BY DEF Flow
  <2> QED BY <1>2, <1>3, <2>1, <2>2 DEF BeginLogin, Known
<1> QED BY <1>1, <1>4, <1>5

LEMMA FinishStep ==
  ASSUME Inv, NEW w \in Worker, Finish(w)
  PROVE  Inv'
<1>1. PICK c \in Challenge, u \in User \cup {NoRow} :
        FinishRegister(w, c, u) \/ FinishLogin(w, c, u)
  BY DEF Finish
<1>2. CASE Answer(w) /\ UNCHANGED <<tables, now, granted>>
  BY <1>2, Answers
<1>3. ASSUME NEW flow \in Flow, NEW statement, Valid(c, flow),
             NEW r \in Response,
             \/ statement = "device" /\ flow = "register" /\ r.device # NoRow
             \/ statement = "credential" /\ flow = "login",
             Continue(w, statement, Request(flow, c, r)),
             UNCHANGED <<tables, now, granted>>
      PROVE  Inv'
  <2> DEFINE carried == Request(flow, c, r)
  <2>1. challenges[c] \in ChallengeRow /\ ~ challenges[c].consumed
    BY <1>3 DEF Valid, Inv, TypeOK
  <2>2. granted[c] \in Nat /\ ~ granted[c] > 0
    BY <2>1 DEF Inv, TypeOK, GrantedIsUsed
  <2>3. /\ carried \in FinishJob
        /\ carried.flow = flow /\ carried.device = r.device
        /\ carried.challenge = c /\ carried.user = challenges[c].user
        /\ carried.seenDevice = NoRow /\ carried.seenCredential = NoRow
        /\ carried.late = FALSE
    BY <2>1, <2>2 DEF Request, FinishJob, Response, ChallengeRow
  <2> HIDE DEF carried
  <2>4. Carries(statement, carried)
    BY <1>3, <2>3 DEF Carries, Response
  <2>5. Frame(w) /\ pc'[w] = statement /\ job'[w] = carried
    BY <1>3, <2>4, ContinueFrame DEF Inv, carried
  <2>6. BeginHolds(w)' /\ FinishHolds(w)'
    BY <1>3, <2>3, <2>5 DEF BeginHolds, FinishHolds, tables, Valid
  <2> QED BY <1>3, <2>5, <2>6, Reads
<1>4. CASE FinishRegister(w, c, u)
  BY <1>2, <1>3, <1>4 DEF FinishRegister, Flow
<1>5. CASE FinishLogin(w, c, u)
  BY <1>2, <1>3, <1>5 DEF FinishLogin, Flow
<1> QED BY <1>1, <1>4, <1>5

----------------------------------------------------------------------------
(* The steps that look up the rows to be written.                            *)

\* What a thread carries while it finishes a request.
LEMMA Carried ==
  ASSUME Inv, NEW w \in Worker, pc[w] \in {"device", "credential", "commit"}
  PROVE  /\ job[w] \in FinishJob
         /\ Carries(pc[w], job[w])
         /\ FinishHolds(w)
BY DEF Inv, TypeOK, Carries

LEMMA FindDeviceStep ==
  ASSUME Inv, NEW w \in Worker, FindDevice(w)
  PROVE  Inv'
<1> DEFINE j == job[w]
           seen == [j EXCEPT !.seenDevice = devices[j.device]]
<1>1. pc[w] = "device"
  BY DEF FindDevice
<1>2. j \in FinishJob /\ Carries("device", j) /\ FinishHolds(w)
  BY <1>1, Carried
<1>3. j.device \in Device /\ devices[j.device] \in DeviceRow \cup {NoRow}
  BY <1>2 DEF Carries, Inv, TypeOK
<1>4. /\ seen \in FinishJob
      /\ seen.challenge = j.challenge /\ seen.user = j.user
      /\ seen.credential = j.credential /\ seen.device = j.device
      /\ seen.flow = j.flow /\ seen.late = j.late
      /\ seen.seenDevice = devices[j.device]
      /\ seen.seenCredential = j.seenCredential
  BY <1>2, <1>3 DEF FinishJob
<1>5. CASE Answer(w)
  BY <1>5, Answers DEF FindDevice
<1>6. ASSUME NEW statement,
             \/ statement = "commit" /\ j.flow = "login"
             \/ statement = "credential" /\ j.flow = "register",
             Continue(w, statement, seen)
      PROVE  Inv'
  <2> HIDE DEF seen
  <2>1. Carries(statement, seen)
    BY <1>2, <1>3, <1>4, <1>6 DEF Carries
  <2>2. Frame(w) /\ pc'[w] = statement /\ job'[w] = seen
    BY <1>6, <2>1, ContinueFrame DEF Inv
  <2>3. UNCHANGED <<tables, now, granted>>
    BY DEF FindDevice
  <2>4. BeginHolds(w)' /\ FinishHolds(w)'
    <3> HIDE DEF j
    <3>1. BeginHolds(w)'
      BY <1>6, <2>2 DEF BeginHolds
    <3>2. /\ challenges[j.challenge] # NoRow
          /\ challenges[j.challenge].user = j.user
          /\ ~ j.late
          /\ j.seenCredential # NoRow =>
               /\ credentials[j.credential] # NoRow
               /\ j.seenCredential.user \in users
               /\ devices[j.seenCredential.device] # NoRow
      BY <1>1, <1>2 DEF FinishHolds, j
    <3>3. FinishHolds(w)'
      BY <1>3, <1>4, <2>2, <2>3, <3>2 DEF FinishHolds, tables
    <3> QED BY <3>1, <3>3
  <2> QED BY <2>2, <2>3, <2>4, Reads
<1> HIDE DEF seen
<1> QED BY <1>5, <1>6 DEF FindDevice, seen

LEMMA FindCredentialStep ==
  ASSUME Inv, NEW w \in Worker, FindCredential(w)
  PROVE  Inv'
<1> DEFINE j == job[w]
           stored == credentials[j.credential]
<1>1. pc[w] = "credential"
  BY DEF FindCredential
<1>2. j \in FinishJob /\ Carries("credential", j) /\ FinishHolds(w)
  BY <1>1, Carried
<1>3. /\ j.credential \in Credential
      /\ stored \in CredentialRow \cup {NoRow}
      /\ stored # NoRow =>
           /\ stored.user \in users
           /\ stored.device \in Device
           /\ devices[stored.device] # NoRow
  <2>1. j.credential \in Credential
    BY <1>2 DEF FinishJob
  <2>2. stored \in CredentialRow \cup {NoRow}
    BY <2>1 DEF Inv, TypeOK
  <2> QED BY <2>1, <2>2 DEF Inv, ReferencesExist, CredentialRow
<1>4. /\ challenges[j.challenge] # NoRow
      /\ challenges[j.challenge].user = j.user
      /\ ~ j.late
      /\ j.seenDevice # NoRow =>
           j.device \in Device /\ devices[j.device] # NoRow
  BY <1>1, <1>2 DEF FinishHolds
<1>5. UNCHANGED <<tables, now, granted>>
  BY DEF FindCredential
<1>6. CASE Answer(w)
  BY <1>5, <1>6, Answers
<1>7. ASSUME NEW statement, NEW found \in FinishJob,
             statement \in {"commit", "device"},
             Continue(w, statement, found),
             found.flow = j.flow, found.challenge = j.challenge,
             found.user = j.user, found.credential = j.credential,
             found.late = j.late, found.seenDevice = j.seenDevice,
             found.seenCredential = stored,
             found.device \in Device,
             j.device \in Device => found.device = j.device,
             j.flow = "login" => stored # NoRow
      PROVE  Inv'
  <2>1. Carries(statement, found)
    BY <1>7 DEF Carries
  <2>2. Frame(w) /\ pc'[w] = statement /\ job'[w] = found
    BY <1>7, <2>1, ContinueFrame DEF Inv
  <2>3. BeginHolds(w)' /\ FinishHolds(w)'
    <3> HIDE DEF j, stored
    <3>1. stored = credentials[j.credential]
      BY DEF stored
    <3> QED BY <1>3, <1>4, <1>5, <1>7, <2>2, <3>1
              DEF BeginHolds, FinishHolds, tables
  <2> QED BY <1>5, <2>2, <2>3, Reads
<1>8. CASE j.flow = "register"
           /\ Continue(w, "commit", [j EXCEPT !.seenCredential = stored])
  <2> DEFINE found == [j EXCEPT !.seenCredential = stored]
  <2>1. /\ found \in FinishJob
        /\ found.flow = j.flow /\ found.challenge = j.challenge
        /\ found.user = j.user /\ found.credential = j.credential
        /\ found.late = j.late /\ found.seenDevice = j.seenDevice
        /\ found.seenCredential = stored /\ found.device = j.device
    BY <1>2, <1>3 DEF FinishJob
  <2>2. j.device \in Device
    BY <1>2, <1>8 DEF Carries
  <2>3. Continue(w, "commit", found)
    BY <1>8
  <2> HIDE DEF found, stored
  <2> QED BY <1>7, <1>8, <2>1, <2>2, <2>3
<1>9. CASE /\ j.flow = "login" /\ Usable(j, stored)
           /\ Continue(w, "device",
                [j EXCEPT !.seenCredential = stored, !.user = stored.user,
                          !.device = IF @ = NoRow THEN stored.device ELSE @])
  <2> DEFINE found ==
        [j EXCEPT !.seenCredential = stored, !.user = stored.user,
                  !.device = IF @ = NoRow THEN stored.device ELSE @]
  <2>1. stored # NoRow /\ stored.user = j.user
    BY <1>9 DEF Usable
  <2>2. /\ found \in FinishJob
        /\ found.flow = j.flow /\ found.challenge = j.challenge
        /\ found.user = j.user /\ found.credential = j.credential
        /\ found.late = j.late /\ found.seenDevice = j.seenDevice
        /\ found.seenCredential = stored /\ found.device \in Device
        /\ j.device \in Device => found.device = j.device
    BY <1>2, <1>3, <2>1, PasskeyAssumption DEF FinishJob, CredentialRow
  <2>3. Continue(w, "device", found)
    BY <1>9
  <2> HIDE DEF found, stored
  <2> QED BY <1>7, <1>9, <2>1, <2>2, <2>3
<1> QED BY <1>6, <1>8, <1>9 DEF FindCredential

----------------------------------------------------------------------------
(* The steps that write.                                                     *)

LEMMA StoreStep ==
  ASSUME Inv, NEW w \in Worker, StoreChallenge(w)
  PROVE  Inv'
<1> DEFINE j == job[w]
<1>1. pc[w] = "store" /\ j \in BeginJob
  BY DEF StoreChallenge, Inv, TypeOK, Carries
<1>2. /\ j.flow \in Flow /\ j.user \in User
      /\ j.device \in Device \cup {NoRow}
  BY <1>1 DEF BeginJob
<1>3. CASE ~ Storable(j)
  <2>1. Answer(w) /\ UNCHANGED <<tables, now, granted>>
    BY <1>3 DEF StoreChallenge, tables
  <2> QED BY <2>1, Answers
<1>4. CASE Storable(j)
  <2> DEFINE row(t) == [flow |-> j.flow, user |-> j.user, device |-> j.device,
                        expiresAt |-> t, consumed |-> FALSE]
  <2>1. /\ users' = users \cup {j.user}
        /\ Answer(w)
        /\ UNCHANGED <<devices, credentials, sessions, now, granted>>
    BY <1>4 DEF StoreChallenge
  <2>2. PICK c \in Challenge :
          /\ challenges[c] = NoRow
          /\ challenges' = [challenges EXCEPT ![c] = row(now + Lifetime)]
    BY <1>4 DEF StoreChallenge
  <2>3. /\ row(now + Lifetime) \in ChallengeRow
        /\ row(now + Lifetime).user = j.user
        /\ row(now + Lifetime).device = j.device
    <3>1. now + Lifetime \in Nat
      BY PasskeyAssumption DEF Inv, TypeOK
    <3> QED BY <1>2, <3>1 DEF ChallengeRow
  <2>4. row(now + Lifetime) # NoRow
    BY <2>3, PasskeyAssumption
  <2> HIDE DEF j, row
  <2>5. /\ challenges'[c] = row(now + Lifetime)
        /\ \A e \in Challenge \ {c} : challenges'[e] = challenges[e]
        /\ challenges' \in [Challenge -> ChallengeRow \cup {NoRow}]
    BY <2>2, <2>3 DEF Inv, TypeOK
  <2>6. Frame(w) /\ pc'[w] = "idle"
    BY <2>1, AnswerFrame DEF Inv
  <2>7. TypedTables'
    BY <1>2, <2>1, <2>5 DEF Inv, TypeOK, TypedTables
  <2>8. Grows
    BY <2>1, <2>2, <2>5 DEF Grows
  <2>9. ReferencesExist'
    <3>1. ForeignKeys /\ j.device # NoRow => devices[j.device] # NoRow
      BY <1>4 DEF Storable
    <3>2. \A e \in Challenge : challenges'[e] # NoRow =>
            /\ challenges'[e].user \in users'
            /\ ForeignKeys /\ challenges'[e].device # NoRow
                 => devices[challenges'[e].device] # NoRow
      BY <2>1, <2>3, <2>5, <3>1 DEF Inv, ReferencesExist
    <3> QED BY <2>1, <3>2 DEF Inv, ReferencesExist
  <2>10. SessionsAreVouched'
    <3>1. ASSUME NEW s \in sessions  PROVE s.challenge # c /\ s.challenge \in Challenge
      BY <2>2 DEF Inv, SessionsAreVouched, TypeOK
    <3> QED BY <2>1, <2>5, <3>1 DEF Inv, SessionsAreVouched
  <2>11. GrantedIsUsed'
    BY <2>1, <2>2, <2>5 DEF Inv, GrantedIsUsed
  <2>12. BeginHolds(w)' /\ FinishHolds(w)'
    BY <2>6 DEF BeginHolds, FinishHolds
  <2> QED BY <2>6, <2>7, <2>8, <2>9, <2>10, <2>11, <2>12, Keeps
<1> QED BY <1>3, <1>4

LEMMA CommitStep ==
  ASSUME Inv, NEW w \in Worker, CommitFinish(w)
  PROVE  Inv'
<1> DEFINE j == job[w]
           d == j.device
           k == j.credential
           c == j.challenge
           device == Written(devices[d], j.seenDevice, [owner |-> j.user])
           row == IF j.flow = "register"
                  THEN [user |-> j.user, device |-> d, count |-> j.count]
                  ELSE [j.seenCredential EXCEPT !.count = j.count]
           credential == Written(credentials[k], j.seenCredential, row)
           session == Session(j)
<1>1. pc[w] = "commit"
  BY DEF CommitFinish
<1>2. j \in FinishJob /\ Carries("commit", j) /\ FinishHolds(w)
  BY <1>1, Carried
<1>3. /\ d \in Device /\ k \in Credential /\ c \in Challenge
      /\ j.user \in User /\ j.count \in Count
      /\ j.seenDevice \in DeviceRow \cup {NoRow}
      /\ j.seenCredential \in CredentialRow \cup {NoRow}
      /\ j.flow \in Flow
      /\ j.flow = "login" => j.seenCredential # NoRow
  BY <1>2 DEF FinishJob, Carries
<1>4. /\ challenges[c] # NoRow /\ challenges[c].user = j.user
      /\ j.seenDevice # NoRow => devices[d] # NoRow
      /\ j.seenCredential # NoRow =>
           /\ credentials[k] # NoRow
           /\ j.seenCredential.user \in users
           /\ devices[j.seenCredential.device] # NoRow
  BY <1>1, <1>2 DEF FinishHolds
<1>5. j.user \in users
  BY <1>3, <1>4 DEF Inv, ReferencesExist
<1>6. CASE Collides(j.seenDevice, devices[d])
           \/ Collides(j.seenCredential, credentials[k])
  <2>1. Answer(w) /\ UNCHANGED <<tables, now, granted>>
    BY <1>6 DEF CommitFinish
  <2> QED BY <2>1, Answers
<1>7. CASE /\ ~ Collides(j.seenDevice, devices[d])
           /\ ~ Collides(j.seenCredential, credentials[k])
  <2>1. /\ devices' = [devices EXCEPT ![d] = device]
        /\ credentials' = [credentials EXCEPT ![k] = credential]
        /\ challenges' = [challenges EXCEPT ![c].consumed = TRUE]
        /\ sessions' = sessions \cup {session}
        /\ granted' = [granted EXCEPT ![c] = @ + 1]
        /\ Answer(w)
        /\ UNCHANGED <<users, now>>
    BY <1>7 DEF CommitFinish, Consume
  <2>2. device \in DeviceRow /\ device.owner \in users
    <3>1. [owner |-> j.user] \in DeviceRow
      BY <1>3 DEF DeviceRow
    <3>2. CASE j.seenDevice = NoRow
      BY <1>5, <3>1, <3>2 DEF Written
    <3>3. CASE j.seenDevice # NoRow
      <4>1. devices[d] \in DeviceRow /\ devices[d].owner \in users
        BY <1>3, <1>4, <3>3 DEF Inv, TypeOK, ReferencesExist
      <4>2. j.seenDevice \in DeviceRow
        BY <1>3, <3>3
      <4> HIDE DEF j
      <4>3. /\ device \in DeviceRow
            /\ device.owner \in {[owner |-> j.user].owner, devices[d].owner}
        BY <3>1, <4>1, <4>2, WrittenDevice
      <4> QED BY <1>5, <4>1, <4>3
    <3> QED BY <3>2, <3>3
  <2>3. /\ row \in CredentialRow
        /\ row.user \in users
        /\ row.device = d \/ devices[row.device] # NoRow
    <3>1. CASE j.flow = "register"
      BY <1>3, <1>5, <3>1 DEF CredentialRow
    <3>2. CASE j.flow # "register"
      <4>1. j.seenCredential \in CredentialRow /\ j.seenCredential # NoRow
        BY <1>3, <3>2 DEF Flow
      <4>2. /\ row = [j.seenCredential EXCEPT !.count = j.count]
            /\ row \in CredentialRow
            /\ row.user = j.seenCredential.user
            /\ row.device = j.seenCredential.device
        BY <1>3, <3>2, <4>1 DEF CredentialRow
      <4> QED BY <1>4, <4>1, <4>2
    <3> QED BY <3>1, <3>2
  <2> HIDE DEF row
  <2>4. /\ credential \in CredentialRow
        /\ credential.user \in users
        /\ credential.device = d \/ devices[credential.device] # NoRow
    <3>1. CASE j.seenCredential = NoRow
      BY <2>3, <3>1 DEF Written
    <3>2. CASE j.seenCredential # NoRow
      <4>1. /\ credentials[k] \in CredentialRow
            /\ credentials[k].user \in users
            /\ devices[credentials[k].device] # NoRow
        BY <1>3, <1>4, <3>2 DEF Inv, TypeOK, ReferencesExist
      <4>2. j.seenCredential \in CredentialRow
        BY <1>3, <3>2
      <4> HIDE DEF j
      <4>3. /\ credential \in CredentialRow
            /\ credential.user \in {row.user, credentials[k].user}
            /\ credential.device \in {row.device, credentials[k].device}
        BY <2>3, <4>1, <4>2, WrittenCredential
      <4> QED BY <2>3, <4>1, <4>3
    <3> QED BY <3>1, <3>2
  <2> HIDE DEF device, credential
  <2>5. session \in [user : User, device : Device, challenge : Challenge]
        /\ session.user = j.user /\ session.device = d /\ session.challenge = c
    BY <1>3 DEF Session
  <2> HIDE DEF session
  <2>6. /\ challenges[c] \in ChallengeRow
        /\ [challenges[c] EXCEPT !.consumed = TRUE] \in ChallengeRow
        /\ [challenges[c] EXCEPT !.consumed = TRUE].user = j.user
        /\ [challenges[c] EXCEPT !.consumed = TRUE].device
             = challenges[c].device
        /\ [challenges[c] EXCEPT !.consumed = TRUE].consumed
    BY <1>3, <1>4 DEF Inv, TypeOK, ChallengeRow
  <2> HIDE DEF j, d, k, c
  <2>7. /\ challenges' \in [Challenge -> ChallengeRow \cup {NoRow}]
        /\ challenges'[c] # NoRow
        /\ challenges'[c].user = j.user /\ challenges'[c].consumed
        /\ challenges'[c].device = challenges[c].device
        /\ \A e \in Challenge \ {c} : challenges'[e] = challenges[e]
    <3>1. challenges' =
            [challenges EXCEPT ![c] = [challenges[c] EXCEPT !.consumed = TRUE]]
      BY <2>1
    <3> DEFINE used == [challenges[c] EXCEPT !.consumed = TRUE]
    <3>2. used # NoRow
      BY <2>6, PasskeyAssumption
    <3> HIDE DEF used
    <3>3. challenges' = [challenges EXCEPT ![c] = used]
      BY <3>1 DEF used
    <3>4. challenges'[c] = used
      BY <1>3, <3>3 DEF Inv, TypeOK
    <3>5. used \in ChallengeRow /\ used.user = j.user /\ used.consumed
          /\ used.device = challenges[c].device
      BY <2>6 DEF used
    <3> QED BY <1>3, <3>2, <3>3, <3>4, <3>5 DEF Inv, TypeOK
  <2>8. /\ devices' \in [Device -> DeviceRow \cup {NoRow}]
        /\ devices'[d] = device /\ device # NoRow
        /\ \A e \in Device \ {d} : devices'[e] = devices[e]
    BY <1>3, <2>1, <2>2, PasskeyAssumption DEF Inv, TypeOK
  <2>9. /\ credentials' \in [Credential -> CredentialRow \cup {NoRow}]
        /\ credentials'[k] = credential /\ credential # NoRow
        /\ \A e \in Credential \ {k} : credentials'[e] = credentials[e]
    BY <1>3, <2>1, <2>4, PasskeyAssumption DEF Inv, TypeOK
  <2>10. Frame(w) /\ pc'[w] = "idle"
    BY <2>1, AnswerFrame DEF Inv
  <2>11. TypedTables'
    <3>1. granted' \in [Challenge -> Nat]
      BY <1>3, <2>1 DEF Inv, TypeOK
    <3> QED BY <2>1, <2>5, <2>7, <2>8, <2>9, <3>1
            DEF Inv, TypeOK, TypedTables
  <2>12. Grows
    BY <1>4, <2>1, <2>7, <2>8, <2>9 DEF Grows
  <2>13. ReferencesExist'
    <3>1. \A e \in Device : devices'[e] # NoRow => devices'[e].owner \in users
      BY <2>2, <2>8 DEF Inv, ReferencesExist
    <3>2. \A e \in Device : devices[e] # NoRow => devices'[e] # NoRow
      BY <2>8
    <3>3. \A e \in Credential : credentials'[e] # NoRow =>
            credentials'[e].user \in users /\ devices'[credentials'[e].device] # NoRow
      <4>1. ASSUME NEW e \in Credential \ {k}, credentials[e] # NoRow
            PROVE  credentials[e].user \in users
                   /\ devices'[credentials[e].device] # NoRow
        <5>1. credentials[e].device \in Device
          BY <4>1 DEF Inv, TypeOK, CredentialRow
        <5> QED BY <3>2, <4>1, <5>1 DEF Inv, ReferencesExist
      <4>2. credential.device \in Device
        BY <2>4 DEF CredentialRow
      <4>3. devices'[credential.device] # NoRow
        BY <2>4, <2>8, <3>2, <4>2
      <4> QED BY <2>4, <2>9, <4>1, <4>3
    <3>4. \A e \in Challenge : challenges'[e] # NoRow =>
            /\ challenges'[e].user \in users
            /\ ForeignKeys /\ challenges'[e].device # NoRow
                 => devices'[challenges'[e].device] # NoRow
      <4>1. ASSUME NEW e \in Challenge, challenges'[e] # NoRow
            PROVE  /\ challenges[e] # NoRow
                   /\ challenges'[e].user = challenges[e].user
                   /\ challenges'[e].device = challenges[e].device
                   /\ challenges[e].device \in Device \cup {NoRow}
        <5>1. /\ challenges[e] # NoRow
              /\ challenges'[e].user = challenges[e].user
              /\ challenges'[e].device = challenges[e].device
          BY <1>4, <2>7, <4>1
        <5> QED BY <5>1 DEF Inv, TypeOK, ChallengeRow
      <4> QED BY <3>2, <4>1 DEF Inv, ReferencesExist
    <3>5. \A s \in sessions' : s.user \in users /\ devices'[s.device] # NoRow
      <4>1. ASSUME NEW s \in sessions
            PROVE  s.user \in users /\ devices'[s.device] # NoRow
        <5>1. s.device \in Device
          BY DEF Inv, TypeOK
        <5> QED BY <3>2, <5>1 DEF Inv, ReferencesExist
      <4> QED BY <1>5, <2>1, <2>5, <2>8, <4>1
    <3> QED BY <2>1, <3>1, <3>3, <3>4, <3>5 DEF ReferencesExist
  <2>14. SessionsAreVouched'
    <3>1. ASSUME NEW s \in sessions
          PROVE  /\ challenges'[s.challenge] # NoRow
                 /\ challenges'[s.challenge].user = s.user
                 /\ challenges'[s.challenge].consumed
      <4>1. /\ s.challenge \in Challenge
            /\ challenges[s.challenge] # NoRow
            /\ challenges[s.challenge].user = s.user
            /\ challenges[s.challenge].consumed
        BY DEF Inv, TypeOK, SessionsAreVouched
      <4> QED BY <1>4, <2>7, <4>1
    <3> QED BY <2>1, <2>5, <2>7, <3>1 DEF SessionsAreVouched
  <2>15. GrantedIsUsed'
    <3>1. \A e \in Challenge \ {c} : granted'[e] = granted[e]
      BY <2>1 DEF Inv, TypeOK
    <3> QED BY <2>7, <3>1 DEF Inv, GrantedIsUsed
  <2>16. BeginHolds(w)' /\ FinishHolds(w)'
    BY <2>10 DEF BeginHolds, FinishHolds
  <2> QED BY <2>10, <2>11, <2>12, <2>13, <2>14, <2>15, <2>16, Keeps
<1> QED BY <1>6, <1>7

----------------------------------------------------------------------------
LEMMA InitInv == Init => Inv
BY PasskeyAssumption
   DEF Init, Inv, TypeOK, Carries, ReferencesExist, SessionsAreVouched,
       GrantedIsUsed, BeginHolds, FinishHolds

LEMMA StutterInv == Inv /\ UNCHANGED vars => Inv'
<1> SUFFICES ASSUME Inv, UNCHANGED vars  PROVE Inv'
  OBVIOUS
<1>1. TypeOK'
  BY DEF vars, tables, Inv, TypeOK
<1>2. ReferencesExist' /\ SessionsAreVouched' /\ GrantedIsUsed'
  BY DEF vars, tables, Inv, ReferencesExist, SessionsAreVouched, GrantedIsUsed
<1>3. \A w \in Worker : BeginHolds(w)' /\ FinishHolds(w)'
  BY DEF vars, tables, Inv, BeginHolds, FinishHolds
<1> QED BY <1>1, <1>2, <1>3 DEF Inv

LEMMA TickStep ==
  ASSUME Inv, Tick
  PROVE  Inv'
<1>1. TypeOK'
  BY PasskeyAssumption DEF Tick, tables, Inv, TypeOK
<1>2. ReferencesExist' /\ SessionsAreVouched' /\ GrantedIsUsed'
  BY DEF Tick, tables, Inv, ReferencesExist, SessionsAreVouched, GrantedIsUsed
<1>3. \A w \in Worker : BeginHolds(w)' /\ FinishHolds(w)'
  BY DEF Tick, tables, Inv, BeginHolds, FinishHolds
<1> QED BY <1>1, <1>2, <1>3 DEF Inv

LEMMA NextInv == Inv /\ [Next]_vars => Inv'
<1> SUFFICES ASSUME Inv, [Next]_vars  PROVE Inv'
  OBVIOUS
<1>1. CASE Tick
  BY <1>1, TickStep
<1>2. ASSUME NEW w \in Worker, Crash(w)  PROVE Inv'
  BY <1>2, Answers DEF Crash
<1>3. CASE UNCHANGED vars
  BY <1>3, StutterInv
<1> QED
  BY <1>1, <1>2, <1>3, BeginStep, StoreStep, FinishStep, FindDeviceStep,
     FindCredentialStep, CommitStep DEF Next

LEMMA Invariance == Spec => []Inv
BY InitInv, NextInv, PTL DEF Spec

\* Every table holds rows of its type, and every thread carries what its next
\* statement uses.
THEOREM TypeCorrect == Spec => []TypeOK
<1>1. Inv => TypeOK
  BY DEF Inv
<1> QED BY <1>1, Invariance, PTL

\* Whatever requests are interleaved or die between the statements that look
\* up and insert users and devices and the commit that refers to them, no row
\* refers to one that is not there.
THEOREM References == Spec => []ReferencesExist
<1>1. Inv => ReferencesExist
  BY DEF Inv
<1> QED BY <1>1, Invariance, PTL

\* Every session was granted for a challenge issued to its user, and that
\* challenge can start no other request.
THEOREM Vouched == Spec => []SessionsAreVouched
<1>1. Inv => SessionsAreVouched
  BY DEF Inv
<1> QED BY <1>1, Invariance, PTL

\* Only requests that began before a challenge was first exchanged are ever
\* granted a session for it: those that check it in time, and no other.
THEOREM GrantsAreTimely == Spec => NoLateGrant
<1> DEFINE Timely ==
      \A c \in Challenge : granted'[c] > granted[c] =>
        \E w \in Worker :
          /\ pc[w] = "commit" /\ pc'[w] = "idle"
          /\ job[w].challenge = c /\ ~ job[w].late
<1>1. Inv /\ [Next]_vars => [Timely]_vars
  <2> SUFFICES ASSUME Inv, Next  PROVE Timely
    BY DEF vars
  <2>1. ASSUME granted' = granted  PROVE Timely
    BY <2>1 DEF Inv, TypeOK
  <2>2. ASSUME NEW w \in Worker, CommitFinish(w)  PROVE Timely
    <3>1. pc[w] = "commit" /\ pc'[w] = "idle"
      BY <2>2 DEF CommitFinish, Answer, Inv, TypeOK
    <3>2. job[w].challenge \in Challenge /\ ~ job[w].late
      BY <3>1, Carried DEF FinishJob, FinishHolds
    <3>3. \A c \in Challenge \ {job[w].challenge} : granted'[c] = granted[c]
      BY <2>2 DEF CommitFinish, Inv, TypeOK
    <3>4. \A c \in Challenge : ~ granted[c] > granted[c]
      BY DEF Inv, TypeOK
    <3> QED BY <3>1, <3>2, <3>3, <3>4
  <2>3. \/ granted' = granted
        \/ \E w \in Worker : CommitFinish(w)
    BY DEF Next, Tick, Begin, BeginRegister, BeginLogin, StoreChallenge,
           Finish, FinishRegister, FinishLogin, FindDevice, FindCredential,
           Crash
  <2> QED BY <2>1, <2>2, <2>3
<1> QED BY <1>1, Invariance, PTL DEF Spec, NoLateGrant
----------------------------------------------------------------------------
(* Passkey implements Exchange: every step of a thread issues a challenge,    *)
(* admits, drops or grants a request, or changes nothing that Exchange sees.  *)

AtFinish(w) == pc[w] \in {"device", "credential", "commit"}

\* What a step of w leaves alone.
Others(w) ==
  \A v \in Worker : v # w => pc'[v] = pc[v] /\ job'[v] = job[v]

LEMMA AnswerMoves ==
  ASSUME TypeOK, NEW w \in Worker, Answer(w)
  PROVE  Others(w) /\ pc'[w] = "idle"
BY DEF TypeOK, Others, Answer

LEMMA ContinueMoves ==
  ASSUME TypeOK, NEW w \in Worker, NEW statement, NEW carried,
         Continue(w, statement, carried)
  PROVE  Others(w) /\ pc'[w] = statement /\ job'[w] = carried
BY DEF TypeOK, Others, Continue

\* What Exchange sees of the challenges when their rows stay.
LEMMA StageKept ==
  ASSUME UNCHANGED challenges
  PROVE  \A c \in Challenge : Stage(c)' = Stage(c)
BY DEF Stage

\* A step that neither begins nor ends the finishing of a challenge.
LEMMA Unseen ==
  ASSUME UNCHANGED <<challenges, granted>>, NEW w \in Worker, Others(w),
         \/ ~ AtFinish(w) /\ ~ AtFinish(w)'
         \/ AtFinish(w) /\ AtFinish(w)' /\ job'[w].challenge = job[w].challenge
  PROVE  UNCHANGED X!vars
<1>1. \A c \in Challenge, v \in Worker : Finishing(v, c)' = Finishing(v, c)
  BY DEF Others, Finishing, AtFinish
<1>2. \A c \in Challenge :
        {v \in Worker : Finishing(v, c)}' = {v \in Worker : Finishing(v, c)}
  BY <1>1
<1> QED BY <1>2, StageKept DEF X!vars

\* A request that is refused, or dies.
LEMMA Dropped ==
  ASSUME Inv, UNCHANGED <<challenges, granted>>, NEW w \in Worker, Others(w),
         AtFinish(w), pc'[w] = "idle"
  PROVE  \E c \in Challenge : X!Drop(c, w)
<1>1. PICK c \in Challenge : c = job[w].challenge
  BY Carried DEF AtFinish, FinishJob
<1>2. Finishing(w, c)
  BY <1>1 DEF Finishing, AtFinish
<1>3. \A d \in Challenge, v \in Worker :
        Finishing(v, d)' = (Finishing(v, d) /\ ~ (v = w /\ d = c))
  BY <1>1 DEF Others, Finishing
<1>4. \A d \in Challenge \ {c} :
        {v \in Worker : Finishing(v, d)}' = {v \in Worker : Finishing(v, d)}
  BY <1>3
<1>5. {v \in Worker : Finishing(v, c)}' = {v \in Worker : Finishing(v, c)} \ {w}
  BY <1>1, <1>3
<1>6. X!Drop(c, w)
  BY <1>1, <1>2, <1>4, <1>5, StageKept DEF X!Drop
<1> QED BY <1>1, <1>6

LEMMA Admitted ==
  ASSUME Inv, UNCHANGED <<challenges, granted>>, NEW w \in Worker, Others(w),
         ~ AtFinish(w), NEW c \in Challenge, Stage(c) = "open",
         AtFinish(w)', job'[w].challenge = c
  PROVE  X!Admit(c, w)
<1>1. \A d \in Challenge : ~ Finishing(w, d)
  BY DEF Finishing, AtFinish
<1>2. \A d \in Challenge, v \in Worker :
        Finishing(v, d)' = (Finishing(v, d) \/ (v = w /\ d = c))
  BY <1>1 DEF Others, Finishing, AtFinish
<1>3. \A d \in Challenge \ {c} :
        {v \in Worker : Finishing(v, d)}' = {v \in Worker : Finishing(v, d)}
  BY <1>2
<1>4. {v \in Worker : Finishing(v, c)}' = {v \in Worker : Finishing(v, c)} \cup {w}
  BY <1>2
<1> QED BY <1>1, <1>3, <1>4, StageKept DEF X!Admit

LEMMA IssueStep ==
  ASSUME Inv, NEW w \in Worker, StoreChallenge(w)
  PROVE  X!Next \/ UNCHANGED X!vars
<1>1. Others(w) /\ ~ AtFinish(w) /\ ~ AtFinish(w)' /\ granted' = granted
  BY AnswerMoves DEF Inv, StoreChallenge, AtFinish
<1>2. CASE challenges' = challenges
  BY <1>1, <1>2, Unseen
<1>3. CASE \E c \in Challenge :
             /\ challenges[c] = NoRow
             /\ challenges' = [challenges EXCEPT ![c] =
                  [flow |-> job[w].flow, user |-> job[w].user,
                   device |-> job[w].device, expiresAt |-> now + Lifetime,
                   consumed |-> FALSE]]
  <2>1. PICK c \in Challenge :
             /\ challenges[c] = NoRow
             /\ challenges' = [challenges EXCEPT ![c] =
                  [flow |-> job[w].flow, user |-> job[w].user,
                   device |-> job[w].device, expiresAt |-> now + Lifetime,
                   consumed |-> FALSE]]
    BY <1>3
  <2>2. /\ challenges'[c].consumed = FALSE
        /\ \A d \in Challenge \ {c} : challenges'[d] = challenges[d]
    BY <2>1 DEF Inv, TypeOK
  <2>3. challenges'[c] # NoRow
    <3>1. pc[w] = "store" /\ job[w] \in BeginJob /\ now \in Nat
      BY DEF StoreChallenge, Inv, TypeOK, Carries
    <3>2. challenges'[c] \in ChallengeRow
      BY <2>1, <3>1, PasskeyAssumption DEF Inv, TypeOK, BeginJob, ChallengeRow
    <3> QED BY <3>2, PasskeyAssumption
  <2>4. \A d \in Challenge, v \in Worker : Finishing(v, d)' = Finishing(v, d)
    BY <1>1 DEF Others, Finishing, AtFinish
  <2>5. \A d \in Challenge :
          {v \in Worker : Finishing(v, d)}' = {v \in Worker : Finishing(v, d)}
    BY <2>4
  <2>6. /\ Stage(c) = "unknown" /\ Stage(c)' = "open"
        /\ \A d \in Challenge \ {c} : Stage(d)' = Stage(d)
    BY <2>1, <2>2, <2>3 DEF Stage
  <2>7. X!Issue(c)
    BY <1>1, <2>5, <2>6 DEF X!Issue
  <2> QED BY <2>7 DEF X!Next
<1> QED BY <1>2, <1>3 DEF StoreChallenge

LEMMA GrantStep ==
  ASSUME Inv, NEW w \in Worker, CommitFinish(w)
  PROVE  X!Next
<1>1. PICK c \in Challenge : c = job[w].challenge /\ challenges[c] # NoRow
  BY Carried DEF CommitFinish, FinishJob, FinishHolds
<1>2. Others(w) /\ AtFinish(w) /\ pc'[w] = "idle"
  BY AnswerMoves DEF Inv, CommitFinish, AtFinish
<1>3. CASE UNCHANGED <<tables, granted>>
  BY <1>2, <1>3, Dropped DEF tables, X!Next
<1>4. CASE challenges' = Consume(c) /\ granted' = [granted EXCEPT ![c] = @ + 1]
  <2>1. challenges[c] \in ChallengeRow
    BY <1>1 DEF Inv, TypeOK
  <2>2. /\ challenges'[c].consumed = TRUE /\ challenges'[c] \in ChallengeRow
        /\ \A d \in Challenge \ {c} : challenges'[d] = challenges[d]
    BY <1>1, <1>4, <2>1 DEF Inv, TypeOK, Consume, ChallengeRow
  <2>3. /\ Stage(c)' = "used"
        /\ \A d \in Challenge \ {c} : Stage(d)' = Stage(d)
    BY <2>2, PasskeyAssumption DEF Stage
  <2>4. Finishing(w, c)
    BY <1>1, <1>2 DEF Finishing, AtFinish
  <2>5. \A d \in Challenge, v \in Worker :
          Finishing(v, d)' = (Finishing(v, d) /\ ~ (v = w /\ d = c))
    BY <1>1, <1>2 DEF Others, Finishing
  <2>6. \A d \in Challenge \ {c} :
          {v \in Worker : Finishing(v, d)}' = {v \in Worker : Finishing(v, d)}
    BY <2>5
  <2>7. {v \in Worker : Finishing(v, c)}' = {v \in Worker : Finishing(v, c)} \ {w}
    BY <1>1, <2>5
  <2>8. X!Grant(c, w)
    BY <1>1, <1>4, <2>3, <2>4, <2>6, <2>7 DEF X!Grant
  <2> QED BY <1>1, <2>8 DEF X!Next
<1> QED BY <1>1, <1>3, <1>4 DEF CommitFinish

LEMMA FinishAdmits ==
  ASSUME Inv, NEW w \in Worker, Finish(w)
  PROVE  X!Next \/ UNCHANGED X!vars
<1>1. PICK c \in Challenge, u \in User \cup {NoRow} :
        FinishRegister(w, c, u) \/ FinishLogin(w, c, u)
  BY DEF Finish
<1>2. /\ UNCHANGED <<challenges, granted>> /\ pc[w] = "idle" /\ ~ AtFinish(w)
  BY <1>1 DEF FinishRegister, FinishLogin, tables, AtFinish
<1>3. CASE Answer(w)
  BY <1>2, <1>3, AnswerMoves, Unseen DEF Inv, AtFinish
<1>4. ASSUME NEW flow, Valid(c, flow), NEW r \in Response,
             NEW statement \in {"device", "credential"},
             Continue(w, statement, Request(flow, c, r))
      PROVE  X!Next
  <2>1. /\ Others(w) /\ pc'[w] = statement
        /\ job'[w] = Request(flow, c, r)
    BY <1>4, ContinueMoves DEF Inv
  <2>2. AtFinish(w)' /\ job'[w].challenge = c
    BY <1>4, <2>1 DEF AtFinish, Request
  <2>3. Stage(c) = "open"
    BY <1>4 DEF Valid, Stage
  <2> QED BY <1>2, <2>1, <2>2, <2>3, Admitted DEF X!Next
<1>5. CASE FinishRegister(w, c, u)
  BY <1>3, <1>4, <1>5 DEF FinishRegister
<1>6. CASE FinishLogin(w, c, u)
  BY <1>3, <1>4, <1>6 DEF FinishLogin
<1> QED BY <1>1, <1>5, <1>6

LEMMA FindKeeps ==
  ASSUME Inv, NEW w \in Worker, FindDevice(w) \/ FindCredential(w)
  PROVE  X!Next \/ UNCHANGED X!vars
<1>1. UNCHANGED <<challenges, granted>> /\ AtFinish(w) /\ job[w] \in FinishJob
  BY Carried DEF FindDevice, FindCredential, tables, AtFinish
<1>2. CASE Answer(w)
  BY <1>1, <1>2, AnswerMoves, Dropped DEF Inv, X!Next
<1>3. ASSUME NEW statement \in {"device", "credential", "commit"}, NEW carried,
             Continue(w, statement, carried), carried.challenge = job[w].challenge
      PROVE  UNCHANGED X!vars
  <2>1. Others(w) /\ pc'[w] = statement /\ job'[w] = carried
    BY <1>3, ContinueMoves DEF Inv
  <2> QED BY <1>1, <1>3, <2>1, Unseen DEF AtFinish
<1>4. CASE FindDevice(w)
  <2> DEFINE seen == [job[w] EXCEPT !.seenDevice = devices[job[w].device]]
  <2>1. seen.challenge = job[w].challenge
    BY <1>1 DEF FinishJob
  <2>2. Answer(w) \/ \E statement \in {"device", "credential", "commit"} :
                       Continue(w, statement, seen)
    BY <1>4 DEF FindDevice
  <2> HIDE DEF seen
  <2> QED BY <1>2, <1>3, <2>1, <2>2
<1>5. CASE FindCredential(w)
  <2> DEFINE stored == credentials[job[w].credential]
             register == [job[w] EXCEPT !.seenCredential = stored]
             login == [job[w] EXCEPT
                         !.seenCredential = stored, !.user = stored.user,
                         !.device = IF @ = NoRow THEN stored.device ELSE @]
  <2>1. /\ register.challenge = job[w].challenge
        /\ login.challenge = job[w].challenge
    BY <1>1 DEF FinishJob
  <2>2. \/ Answer(w)
        \/ Continue(w, "commit", register)
        \/ Continue(w, "device", login)
    BY <1>5 DEF FindCredential
  <2> HIDE DEF register, login
  <2> QED BY <1>2, <1>3, <2>1, <2>2
<1> QED BY <1>4, <1>5

LEMMA ImplementsNext ==
  ASSUME Inv, [Next]_vars
  PROVE  [X!Next]_X!vars
<1>1. ASSUME NEW w \in Worker, Begin(w) \/ Crash(w)
      PROVE  X!Next \/ UNCHANGED X!vars
  <2>1. UNCHANGED <<challenges, granted>>
    BY <1>1 DEF Begin, BeginRegister, BeginLogin, Crash, tables
  <2>2. CASE Begin(w)
    <3>1. pc[w] = "idle"
      BY <2>2 DEF Begin, BeginRegister, BeginLogin
    <3>2. Answer(w) \/ \E carried : Continue(w, "store", carried)
      BY <2>2 DEF Begin, BeginRegister, BeginLogin
    <3>3. Others(w) /\ pc'[w] \in {"idle", "store"}
      BY <3>2, AnswerMoves, ContinueMoves DEF Inv
    <3> QED BY <2>1, <3>1, <3>3, Unseen DEF AtFinish
  <2>3. CASE Crash(w)
    <3>1. Others(w) /\ pc'[w] = "idle"
      BY <2>3, AnswerMoves DEF Inv, Crash
    <3>2. CASE AtFinish(w)
      BY <2>1, <3>1, <3>2, Dropped DEF X!Next
    <3>3. CASE ~ AtFinish(w)
      BY <2>1, <3>1, <3>3, Unseen DEF AtFinish
    <3> QED BY <3>2, <3>3
  <2> QED BY <1>1, <2>2, <2>3
<1>2. ASSUME UNCHANGED <<challenges, granted, pc, job>>
      PROVE  UNCHANGED X!vars
  BY <1>2 DEF X!vars, Stage, Finishing
<1>3. CASE Tick \/ UNCHANGED vars
  BY <1>2, <1>3 DEF Tick, vars, tables
<1> QED BY <1>1, <1>3, IssueStep, FinishAdmits, FindKeeps, GrantStep DEF Next

\* The statements that finish registrations and logins, with their reads ahead
\* of one commit, keep what Exchange promises of every challenge.
THEOREM Implements == Spec => ImplementsExchange
<1>1. Init => X!Init
  BY DEF Init, X!Init, Stage, Finishing
<1>2. Inv /\ [Next]_vars => [X!Next]_X!vars
  BY ImplementsNext
<1> QED BY <1>1, <1>2, Invariance, PTL DEF Spec, ImplementsExchange, X!Spec
----------------------------------------------------------------------------
(* What Exchange implies, carried back along the refinement.                 *)

XP == INSTANCE ExchangeProofs WITH
        Client <- Worker,
        state <- [c \in Challenge |-> Stage(c)],
        admitted <- [c \in Challenge |-> {w \in Worker : Finishing(w, c)}]

LEMMA SameExchange ==
  /\ X!Init => XP!Init
  /\ [X!Next]_(X!vars) => [XP!Next]_(XP!vars)
BY DEF X!Init, X!Next, X!Issue, X!Admit, X!Grant, X!Drop, X!vars,
       XP!Init, XP!Next, XP!Issue, XP!Admit, XP!Grant, XP!Drop, XP!vars

LEMMA SameCardinality ==
  /\ \A S : XP!Cardinality(S) = Cardinality(S)
  /\ \A S : IsFiniteSet(S) => XP!IsFiniteSet(S)
BY DEF XP!Cardinality, Cardinality, XP!IsFiniteSet, IsFiniteSet

\* The sessions granted for a challenge, and the threads that may still get one,
\* are never more than the threads of the server: the race that grants two
\* sessions for one challenge grants at most as many as there are threads.
THEOREM GrantsHaveABound == Spec => []GrantsAreBounded
<1>1. ImplementsExchange => XP!Spec
  BY SameExchange, PTL DEF ImplementsExchange, X!Spec, XP!Spec
<1>2. XP!Spec => []XP!AtMostOneEach
  <2>1. XP!IsFiniteSet(Worker)
    BY ThreadsAssumption, SameCardinality
  <2> QED BY <2>1, XP!Bounded
<1>3. Inv /\ XP!AtMostOneEach => GrantsAreBounded
  <2> SUFFICES ASSUME Inv, XP!AtMostOneEach, NEW c \in Challenge
               PROVE  granted[c] =< Cardinality(Worker)
    BY DEF GrantsAreBounded
  <2> DEFINE S == {w \in Worker : Finishing(w, c)}
  <2>1. granted[c] + Cardinality(S) =< Cardinality(Worker)
    BY SameCardinality DEF XP!AtMostOneEach
  <2>2. granted[c] \in Nat
    BY DEF Inv, TypeOK
  <2>3. Cardinality(S) \in Nat /\ Cardinality(Worker) \in Nat
    <3>1. IsFiniteSet(S)
      BY ThreadsAssumption, FS_Subset
    <3> QED BY <3>1, ThreadsAssumption, FS_CardinalityType
  <2> HIDE DEF S
  <2> QED BY <2>1, <2>2, <2>3
<1> QED BY <1>1, <1>2, <1>3, Implements, Invariance, PTL
----------------------------------------------------------------------------
(***************************************************************************)
(* How far a signature counter can be turned back.  A login is let through *)
(* when its count is above that of the row it has read, and the UPDATE     *)
(* names the counter if it differs from that row: so the counter only goes *)
(* back if another request has moved it in between.                        *)
(***************************************************************************)

\* A login on its way to the commit counts up from the row it has read.
SeenCountsUp(w) ==
  pc[w] \in {"device", "commit"} /\ job[w].flow = "login" =>
    CountsUp(job[w].proof, job[w].seenCredential.count, job[w].count)

CountInv == \A w \in Worker : SeenCountsUp(w)

LEMMA CountKeeps ==
  ASSUME CountInv, NEW w \in Worker, Others(w), SeenCountsUp(w)'
  PROVE  CountInv'
BY DEF CountInv, SeenCountsUp, Others

\* The steps after which a thread is not a login that has found its credential.
LEMMA OtherStepsCount ==
  ASSUME Inv, CountInv, NEW w \in Worker,
         \/ Begin(w) \/ StoreChallenge(w) \/ Finish(w) \/ CommitFinish(w)
         \/ Crash(w)
  PROVE  CountInv'
<1>1. CASE Answer(w)
  BY <1>1, AnswerMoves, CountKeeps DEF Inv, SeenCountsUp
<1>2. ASSUME NEW statement, NEW carried, Continue(w, statement, carried),
             \/ statement \in {"store", "credential"}
             \/ carried.flow = "register"
      PROVE  CountInv'
  <2>1. Others(w) /\ pc'[w] = statement /\ job'[w] = carried
    BY <1>2, ContinueMoves DEF Inv
  <2> QED BY <1>2, <2>1, CountKeeps DEF SeenCountsUp
<1>3. CASE Begin(w)
  BY <1>1, <1>2, <1>3 DEF Begin, BeginRegister, BeginLogin
<1>4. CASE Finish(w)
  <2>1. PICK c \in Challenge, u \in User \cup {NoRow} :
          FinishRegister(w, c, u) \/ FinishLogin(w, c, u)
    BY <1>4 DEF Finish
  <2>2. \A r : Request("register", c, r).flow = "register"
    BY DEF Request
  <2> QED BY <1>1, <1>2, <2>1, <2>2 DEF FinishRegister, FinishLogin
<1> QED BY <1>1, <1>3, <1>4 DEF StoreChallenge, CommitFinish, Crash

LEMMA FindDeviceCount ==
  ASSUME Inv, CountInv, NEW w \in Worker, FindDevice(w)
  PROVE  CountInv'
<1> DEFINE j == job[w]
           seen == [j EXCEPT !.seenDevice = devices[j.device]]
<1>1. pc[w] = "device" /\ j \in FinishJob
  BY Carried DEF FindDevice
<1>2. /\ seen.flow = j.flow /\ seen.proof = j.proof /\ seen.count = j.count
      /\ seen.seenCredential = j.seenCredential
  BY <1>1 DEF FinishJob
<1>3. SeenCountsUp(w)
  BY DEF CountInv
<1> HIDE DEF seen
<1>4. CASE Answer(w)
  BY <1>4, AnswerMoves, CountKeeps DEF Inv, SeenCountsUp
<1>5. CASE \E statement \in {"credential", "commit"} :
             Continue(w, statement, seen)
  <2>1. PICK statement \in {"credential", "commit"} :
               Continue(w, statement, seen)
    BY <1>5
  <2>2. Others(w) /\ pc'[w] = statement /\ job'[w] = seen
    BY <2>1, ContinueMoves DEF Inv
  <2>3. SeenCountsUp(w)'
    BY <1>1, <1>2, <1>3, <2>2 DEF SeenCountsUp
  <2> QED BY <2>2, <2>3, CountKeeps
<1> QED BY <1>4, <1>5 DEF FindDevice, seen

LEMMA FindCredentialCount ==
  ASSUME Inv, CountInv, NEW w \in Worker, FindCredential(w)
  PROVE  CountInv'
<1> DEFINE j == job[w]
           stored == credentials[j.credential]
           register == [j EXCEPT !.seenCredential = stored]
           login == [j EXCEPT
                       !.seenCredential = stored, !.user = stored.user,
                       !.device = IF @ = NoRow THEN stored.device ELSE @]
<1>1. pc[w] = "credential" /\ j \in FinishJob
  BY Carried DEF FindCredential
<1>2. /\ register.flow = j.flow
      /\ login.proof = j.proof /\ login.count = j.count
      /\ login.seenCredential = stored
  BY <1>1 DEF FinishJob
<1> HIDE DEF register, login
<1>3. CASE Answer(w)
  BY <1>3, AnswerMoves, CountKeeps DEF Inv, SeenCountsUp
<1>4. CASE j.flow = "register" /\ Continue(w, "commit", register)
  <2>1. Others(w) /\ job'[w] = register
    BY <1>4, ContinueMoves DEF Inv
  <2> QED BY <1>2, <1>4, <2>1, CountKeeps DEF SeenCountsUp
<1>5. CASE Usable(j, stored) /\ Continue(w, "device", login)
  <2>1. Others(w) /\ job'[w] = login
    BY <1>5, ContinueMoves DEF Inv
  <2>2. CountsUp(j.proof, stored.count, j.count)
    BY <1>5 DEF Usable, Asserted
  <2>3. SeenCountsUp(w)'
    BY <1>2, <2>1, <2>2 DEF SeenCountsUp
  <2> QED BY <2>1, <2>3, CountKeeps
<1> QED BY <1>3, <1>4, <1>5 DEF FindCredential, register, login

LEMMA CountNext ==
  ASSUME Inv, CountInv, [Next]_vars
  PROVE  CountInv'
<1>1. CASE Tick \/ UNCHANGED vars
  BY <1>1 DEF Tick, vars, CountInv, SeenCountsUp
<1> QED BY <1>1, OtherStepsCount, FindDeviceCount, FindCredentialCount DEF Next

\* A login that turns the counter of its credential back has read another
\* value of it than it overwrites.
TurnsBackByRace ==
  \A w \in Worker, k \in Credential :
    /\ pc[w] = "commit" /\ job[w].flow = "login" /\ job[w].credential = k
    /\ pc'[w] # "commit" /\ credentials'[k].count < credentials[k].count
    => credentials[k].count # job[w].seenCredential.count

LEMMA CommitTurnsBack ==
  ASSUME Inv, CountInv, NEW w \in Worker, CommitFinish(w),
         job[w].flow = "login",
         credentials[job[w].credential].count = job[w].seenCredential.count
  PROVE  ~ credentials'[job[w].credential].count
             < credentials[job[w].credential].count
<1> DEFINE j == job[w]
           k == j.credential
           seen == j.seenCredential
           row == [seen EXCEPT !.count = j.count]
<1>1. pc[w] = "commit" /\ j \in FinishJob /\ seen # NoRow
  BY Carried DEF CommitFinish, Carries
<1>2. k \in Credential /\ credentials[k] \in CredentialRow
  BY <1>1, Carried DEF FinishJob, FinishHolds, Inv, TypeOK
<1>3. seen \in CredentialRow /\ credentials[k].count \in Nat
  BY <1>1, <1>2, PasskeyAssumption DEF FinishJob, CredentialRow, Count
<1>4. CASE UNCHANGED tables
  BY <1>3, <1>4 DEF tables
<1>5. CASE credentials' = [credentials EXCEPT ![k] =
                             Written(@, seen, row)]
  <2>1. credentials'[k] = Written(credentials[k], seen, row)
    BY <1>2, <1>5 DEF Inv, TypeOK
  <2>2. DOMAIN row = {"user", "device", "count"} /\ row.count = j.count
    BY <1>3 DEF CredentialRow
  <2>3. credentials'[k].count =
          IF j.count # seen.count THEN j.count ELSE credentials[k].count
    BY <1>1, <2>1, <2>2 DEF Written
  <2>4. CountsUp(j.proof, seen.count, j.count)
    BY <1>1 DEF CountInv, SeenCountsUp
  <2>5. j.count \in Nat /\ (j.count > seen.count \/ j.count = seen.count)
    BY <1>1, <2>4, PasskeyAssumption DEF CountsUp, FinishJob, Count
  <2>6. credentials[k].count = seen.count
    OBVIOUS
  <2> HIDE DEF j, k, seen
  <2> QED BY <1>3, <2>3, <2>5, <2>6 DEF k, j
<1> QED BY <1>1, <1>4, <1>5 DEF CommitFinish

\* However logins with one credential interleave, its counter goes back only
\* in a commit that overwrites a value its request has never read: without
\* such a race every accepted login counts up.
THEOREM CountersRace == Spec => [][TurnsBackByRace]_vars
<1>1. Init => CountInv
  BY DEF Init, CountInv, SeenCountsUp
<1>2. Inv /\ CountInv /\ [Next]_vars => CountInv'
  BY CountNext
<1>3. Inv /\ CountInv /\ [Next]_vars => [TurnsBackByRace]_vars
  <2> SUFFICES ASSUME Inv, CountInv, Next, NEW w \in Worker,
                      NEW k \in Credential,
                      pc[w] = "commit", job[w].flow = "login",
                      job[w].credential = k, pc'[w] # "commit",
                      credentials'[k].count < credentials[k].count,
                      credentials[k].count = job[w].seenCredential.count
               PROVE  FALSE
    BY DEF TurnsBackByRace
  <2>1. credentials[k].count \in Nat
    <3>1. job[w].seenCredential # NoRow
      BY DEF Inv, TypeOK, Carries
    <3>2. credentials[k] # NoRow
      BY <3>1 DEF FinishHolds, Inv
    <3>3. credentials[k] \in CredentialRow
      BY <3>2 DEF Inv, TypeOK
    <3> QED BY <3>3, PasskeyAssumption DEF CredentialRow, Count
  <2>2. credentials' # credentials
    BY <2>1
  <2>3. PICK v \in Worker : CommitFinish(v)
    BY <2>2 DEF Next, Tick, Begin, BeginRegister, BeginLogin, StoreChallenge,
                Finish, FinishRegister, FinishLogin, FindDevice,
                FindCredential, Crash, tables
  <2>4. v = w
    BY <2>3, AnswerMoves DEF Others, CommitFinish, Inv
  <2> QED BY <2>3, <2>4, CommitTurnsBack
<1> QED BY <1>1, <1>2, <1>3, Invariance, PTL DEF Spec

=============================================================================
