------------------------------ MODULE Passkey ------------------------------
(***************************************************************************)
(* Passkey authentication: AuthService behind app/api/auth.py, over the    *)
(* tables users, devices, passkey_credentials, auth_challenges and         *)
(* auth_sessions.                                                          *)
(*                                                                         *)
(* A registration or a login begins with a challenge, which is stored, and *)
(* finishes with a response to it, which is verified and exchanged for a   *)
(* session.  Finishing reads the challenge, the device and the credential  *)
(* in separate statements and writes everything in one commit.  Requests   *)
(* run on threads and database sessions of their own, and a thread may die *)
(* after any step.  The routes translate no exception: whatever is refused *)
(* is answered with 500.                                                   *)
(*                                                                         *)
(* INSERTs that a flush sends ahead of the commit are checked at the       *)
(* commit here: until then another transaction sees nothing of them, and   *)
(* one that inserts the same key waits.  The cryptographic verification is *)
(* an oracle: `proof' says which one a response passes.                    *)
(***************************************************************************)
EXTENDS Naturals, FiniteSets

CONSTANTS
  User,          \* user ids, normalized
  Device,        \* device ids, chosen by clients
  Credential,    \* credential ids, chosen by authenticators
  Challenge,     \* random challenges
  Worker,        \* request threads
  ForeignKeys,   \* whether the database checks references; SQLite does not
  Development,   \* ENABLE_DEVELOPMENT_PASSKEY_AUTH
  Lifetime,      \* CHALLENGE_TTL_MINUTES
  MaxTime,       \* bound: the clock stops here
  MaxCount,      \* bound: signature counters
  NoRow,         \* the result of a lookup that finds nothing
  NoJob          \* what an idle thread is working on

Count == 0 .. MaxCount

Flow == {"register", "login"}

\* What a response passes: the strict verification, that of development, or
\* neither.
Proof == {"webauthn", "development", "none"}

DeviceRow == [owner : User]

CredentialRow == [user : User, device : Device, count : Count]

ChallengeRow ==
  [flow : Flow, user : User, device : Device \cup {NoRow}, expiresAt : Nat,
   consumed : BOOLEAN]

ASSUME PasskeyAssumption ==
  /\ ForeignKeys \in BOOLEAN
  /\ Development \in BOOLEAN
  /\ Lifetime \in Nat
  /\ MaxTime \in Nat
  /\ MaxCount \in Nat
  /\ NoRow \notin Device \cup DeviceRow \cup CredentialRow \cup ChallengeRow

\* A server has so many threads.
ASSUME ThreadsAssumption == IsFiniteSet(Worker)

VARIABLES
  users,        \* the table users: the ids registered
  devices,      \* the table devices: [Device -> row]
  credentials,  \* the table passkey_credentials: [Credential -> row]
  challenges,   \* the table auth_challenges: [Challenge -> row]
  sessions,     \* the table auth_sessions, with the challenge as history
  now,          \* the servers' clock
  pc,           \* the next statement of each thread
  job,          \* what a thread carries from one statement to the next
  granted       \* history: the sessions granted for each challenge

vars == <<users, devices, credentials, challenges, sessions, now, pc, job,
          granted>>

tables == <<users, devices, credentials, challenges, sessions>>

\* _get_user_or_raise
Known(u) == u \in users

\* A thread is done, with a challenge, a session or a refusal for its client.
Answer(w) ==
  /\ pc' = [pc EXCEPT ![w] = "idle"]
  /\ job' = [job EXCEPT ![w] = NoJob]

Continue(w, statement, carried) ==
  /\ pc' = [pc EXCEPT ![w] = statement]
  /\ job' = [job EXCEPT ![w] = carried]

----------------------------------------------------------------------------
(***************************************************************************)
(* POST /auth/passkey/register/begin and /auth/passkey/login/begin         *)
(***************************************************************************)

\* `valid': the name and the display name pass their checks.
BeginRegister(w, u, valid) ==
  /\ pc[w] = "idle"
  /\ \/ ~ valid /\ Answer(w)
     \/ /\ valid
        /\ Continue(w, "store",
                    [flow |-> "register", user |-> u, device |-> NoRow,
                     known |-> Known(u)])
  /\ UNCHANGED <<tables, now, granted>>

\* A login may name the device it is for.
BeginLogin(w, u, d, valid) ==
  /\ pc[w] = "idle"
  /\ \/ /\ ~ (valid /\ Known(u))
        /\ Answer(w)
     \/ /\ valid /\ Known(u)
        /\ Continue(w, "store",
                    [flow |-> "login", user |-> u, device |-> d, known |-> TRUE])
  /\ UNCHANGED <<tables, now, granted>>

\* A user that was not found is inserted by the same commit.  The database
\* refuses the whole if that user is there by now, and, if it checks references,
\* if the device that the challenge is for is not.
Storable_AnyDevice(j) == j.known \/ j.user \notin users

Storable(j) ==
  /\ j.known \/ j.user \notin users
  /\ ForeignKeys /\ j.device # NoRow => devices[j.device] # NoRow

StoreChallenge(w) ==
  /\ pc[w] = "store"
  /\ LET j == job[w] IN
       \/ /\ Storable(j)
          /\ users' = users \cup {j.user}
          /\ \E c \in Challenge :
               /\ challenges[c] = NoRow
               /\ challenges' = [challenges EXCEPT ![c] =
                    [flow |-> j.flow, user |-> j.user, device |-> j.device,
                     expiresAt |-> now + Lifetime, consumed |-> FALSE]]
          /\ Answer(w)
       \/ /\ ~ Storable(j)
          /\ Answer(w)
          /\ UNCHANGED <<users, challenges>>
  /\ UNCHANGED <<devices, credentials, sessions, now, granted>>

----------------------------------------------------------------------------
(***************************************************************************)
(* POST /auth/passkey/register/finish and /auth/passkey/login/finish       *)
(***************************************************************************)

\* _get_valid_challenge_or_raise
Valid_Reused(c, flow) ==
  /\ challenges[c] # NoRow
  /\ challenges[c].flow = flow
  /\ ~ challenges[c].expiresAt < now

Valid(c, flow) ==
  /\ challenges[c] # NoRow
  /\ challenges[c].flow = flow
  /\ ~ challenges[c].consumed
  /\ ~ challenges[c].expiresAt < now

\* What else a request holds; a login may leave out the device, and the device
\* that a registration leaves out is named after its user.
Response ==
  [credential : Credential, device : Device \cup {NoRow}, count : Count,
   proof : Proof]

\* A request as it is carried on; `late' is history: the challenge had been
\* exchanged for a session before the request began.
Request(flow, c, r) ==
  [flow |-> flow, challenge |-> c, user |-> challenges[c].user,
   credential |-> r.credential, device |-> r.device, count |-> r.count,
   proof |-> r.proof, seenDevice |-> NoRow, seenCredential |-> NoRow,
   late |-> granted[c] > 0]

FinishRegister(w, c, u) ==
  /\ pc[w] = "idle"
  /\ \/ /\ ~ (Valid(c, "register") /\ challenges[c].user = u /\ Known(u))
        /\ Answer(w)
     \/ /\ Valid(c, "register") /\ challenges[c].user = u /\ Known(u)
        /\ \E r \in Response :
             /\ r.device # NoRow
             /\ Continue(w, "device", Request("register", c, r))
  /\ UNCHANGED <<tables, now, granted>>

\* A login may leave out the user.
FinishLogin(w, c, u) ==
  /\ pc[w] = "idle"
  /\ \/ /\ ~ (Valid(c, "login") /\ (u # NoRow => challenges[c].user = u))
        /\ Answer(w)
     \/ /\ Valid(c, "login") /\ (u # NoRow => challenges[c].user = u)
        /\ \E r \in Response :
             Continue(w, "credential", Request("login", c, r))
  /\ UNCHANGED <<tables, now, granted>>

\* _verify_registration, with its fallback
Attested(proof) ==
  proof = "webauthn" \/ (proof = "development" /\ Development)

\* Counters must grow, but for authenticators without one, which WebAuthn lets
\* answer zero.
CountsUp(proof, stored, n) ==
  n > stored \/ (proof = "webauthn" /\ n = 0 /\ stored = 0)

\* _verify_authentication, with its fallback
Asserted(proof, stored, n) == Attested(proof) /\ CountsUp(proof, stored, n)

\* A registration is verified between its reads of device and credential.
FindDevice(w) ==
  /\ pc[w] = "device"
  /\ LET j == job[w]
         seen == [j EXCEPT !.seenDevice = devices[j.device]]
     IN  \/ /\ j.flow = "login"
            /\ Continue(w, "commit", seen)
         \/ /\ j.flow = "register" /\ Attested(j.proof)
            /\ Continue(w, "credential", seen)
         \/ /\ j.flow = "register" /\ ~ Attested(j.proof)
            /\ Answer(w)
  /\ UNCHANGED <<tables, now, granted>>

\* A login needs a stored credential of the user that the challenge is for.
Usable_AnyUser(j, stored) ==
  stored # NoRow /\ Asserted(j.proof, stored.count, j.count)

Usable(j, stored) ==
  /\ stored # NoRow
  /\ stored.user = j.user
  /\ Asserted(j.proof, stored.count, j.count)

FindCredential(w) ==
  /\ pc[w] = "credential"
  /\ LET j == job[w]
         stored == credentials[j.credential]
     IN  \/ /\ j.flow = "register"
            /\ Continue(w, "commit", [j EXCEPT !.seenCredential = stored])
         \/ /\ j.flow = "login" /\ Usable(j, stored)
            /\ Continue(w, "device",
                 [j EXCEPT !.seenCredential = stored, !.user = stored.user,
                           !.device = IF @ = NoRow THEN stored.device ELSE @])
         \/ /\ j.flow = "login" /\ ~ Usable(j, stored)
            /\ Answer(w)
  /\ UNCHANGED <<tables, now, granted>>

\* The row after the commit: a new one, or, as the ORM names in an UPDATE the
\* columns that differ from those loaded, the stored one with these changed.
Written(stored, seen, row) ==
  IF seen = NoRow THEN row
  ELSE [column \in DOMAIN row |->
          IF row[column] # seen[column] THEN row[column] ELSE stored[column]]

\* The unique constraints on device_id and credential_id.
Collides(seen, stored) == seen = NoRow /\ stored # NoRow

\* _create_session_token
Session(j) == [user |-> j.user, device |-> j.device, challenge |-> j.challenge]

Consume_Keep(c) == challenges

Consume(c) == [challenges EXCEPT ![c].consumed = TRUE]

CommitFinish(w) ==
  /\ pc[w] = "commit"
  /\ LET j == job[w] IN
       \/ /\ Collides(j.seenDevice, devices[j.device])
               \/ Collides(j.seenCredential, credentials[j.credential])
          /\ Answer(w)
          /\ UNCHANGED <<tables, granted>>
       \/ /\ ~ Collides(j.seenDevice, devices[j.device])
          /\ ~ Collides(j.seenCredential, credentials[j.credential])
          /\ devices' = [devices EXCEPT ![j.device] =
               Written(@, j.seenDevice, [owner |-> j.user])]
          /\ credentials' = [credentials EXCEPT ![j.credential] =
               IF j.flow = "register"
               THEN Written(@, j.seenCredential,
                      [user |-> j.user, device |-> j.device, count |-> j.count])
               ELSE Written(@, j.seenCredential,
                      [j.seenCredential EXCEPT !.count = j.count])]
          /\ challenges' = Consume(j.challenge)
          /\ sessions' = sessions \cup {Session(j)}
          /\ granted' = [granted EXCEPT ![j.challenge] = @ + 1]
          /\ Answer(w)
          /\ UNCHANGED users
  /\ UNCHANGED now

----------------------------------------------------------------------------
\* A thread dies, or its connection does: the database rolls back what has
\* not been committed.
Crash_KeepJob(w) ==
  /\ pc[w] # "idle"
  /\ pc' = [pc EXCEPT ![w] = "idle"]
  /\ UNCHANGED <<tables, now, granted, job>>

Crash(w) ==
  /\ pc[w] # "idle"
  /\ Answer(w)
  /\ UNCHANGED <<tables, now, granted>>

\* bound: MaxTime
Tick ==
  /\ now < MaxTime
  /\ now' = now + 1
  /\ UNCHANGED <<tables, pc, job, granted>>

Init ==
  /\ users = {}
  /\ devices = [d \in Device |-> NoRow]
  /\ credentials = [k \in Credential |-> NoRow]
  /\ challenges = [c \in Challenge |-> NoRow]
  /\ sessions = {}
  /\ now = 0
  /\ pc = [w \in Worker |-> "idle"]
  /\ job = [w \in Worker |-> NoJob]
  /\ granted = [c \in Challenge |-> 0]

Begin(w) ==
  \E u \in User, valid \in BOOLEAN :
    \/ BeginRegister(w, u, valid)
    \/ \E d \in Device \cup {NoRow} : BeginLogin(w, u, d, valid)

Finish(w) ==
  \E c \in Challenge, u \in User \cup {NoRow} :
    FinishRegister(w, c, u) \/ FinishLogin(w, c, u)

Next ==
  \/ Tick
  \/ \E w \in Worker :
       \/ Begin(w)
       \/ StoreChallenge(w)
       \/ Finish(w)
       \/ FindDevice(w)
       \/ FindCredential(w)
       \/ CommitFinish(w)
       \/ Crash(w)

Spec == Init /\ [][Next]_vars

----------------------------------------------------------------------------
(***************************************************************************)
(* Properties                                                              *)
(***************************************************************************)

BeginJob ==
  [flow : Flow, user : User, device : Device \cup {NoRow}, known : BOOLEAN]

FinishJob ==
  [flow : Flow, challenge : Challenge, user : User, credential : Credential,
   device : Device \cup {NoRow}, count : Count, proof : Proof,
   seenDevice : DeviceRow \cup {NoRow},
   seenCredential : CredentialRow \cup {NoRow}, late : BOOLEAN]

\* What a thread carries at each statement.  A login has found its credential
\* when it looks up the device, and by then the device is known.
Carries(statement, j) ==
  /\ statement \in {"idle", "store", "device", "credential", "commit"}
  /\ statement = "idle" => j = NoJob
  /\ statement = "store" => j \in BeginJob
  /\ statement \in {"device", "credential", "commit"} => j \in FinishJob
  /\ statement = "credential" => (j.flow = "register" => j.device \in Device)
  /\ statement \in {"device", "commit"} =>
       /\ j.device \in Device
       /\ j.flow = "login" => j.seenCredential # NoRow

\* The tables hold rows of their types, and a thread carries what its next
\* statement uses, and nothing between two requests.
TypeOK ==
  /\ users \in SUBSET User
  /\ devices \in [Device -> DeviceRow \cup {NoRow}]
  /\ credentials \in [Credential -> CredentialRow \cup {NoRow}]
  /\ challenges \in [Challenge -> ChallengeRow \cup {NoRow}]
  /\ sessions \in SUBSET
       [user : User, device : Device, challenge : Challenge]
  /\ now \in 0 .. MaxTime
  /\ DOMAIN pc = Worker /\ DOMAIN job = Worker
  /\ \A w \in Worker : Carries(pc[w], job[w])
  /\ granted \in [Challenge -> Nat]

\* Every row refers to rows that exist, although users and devices are looked
\* up, and inserted, in other statements than the rows that refer to them.  A
\* login may name a device that does not: only the database refuses that.
ReferencesExist ==
  /\ \A d \in Device : devices[d] # NoRow => devices[d].owner \in users
  /\ \A k \in Credential : credentials[k] # NoRow =>
       /\ credentials[k].user \in users
       /\ devices[credentials[k].device] # NoRow
  /\ \A c \in Challenge : challenges[c] # NoRow =>
       /\ challenges[c].user \in users
       /\ ForeignKeys /\ challenges[c].device # NoRow
            => devices[challenges[c].device] # NoRow
  /\ \A s \in sessions : s.user \in users /\ devices[s.device] # NoRow

\* A session is only ever granted for a challenge that was issued to its user
\* and is used up, whatever credential and device the request names and
\* whatever other requests do to their rows between its statements.
SessionsAreVouched ==
  \A s \in sessions :
    /\ challenges[s.challenge] # NoRow
    /\ challenges[s.challenge].user = s.user
    /\ challenges[s.challenge].consumed

\* Once a challenge has been exchanged, no request that begins later gets a
\* session for it: whoever does had checked it before.
NoLateGrant ==
  [][\A c \in Challenge : granted'[c] > granted[c] =>
       \E w \in Worker :
         /\ pc[w] = "commit" /\ pc'[w] = "idle"
         /\ job[w].challenge = c /\ ~ job[w].late]_vars

\* The stages of a challenge, and who is answering it.
Stage(c) ==
  IF challenges[c] = NoRow THEN "unknown"
  ELSE IF challenges[c].consumed THEN "used" ELSE "open"

Finishing(w, c) ==
  pc[w] \in {"device", "credential", "commit"} /\ job[w].challenge = c

X == INSTANCE Exchange WITH
       Client <- Worker,
       state <- [c \in Challenge |-> Stage(c)],
       admitted <- [c \in Challenge |-> {w \in Worker : Finishing(w, c)}]

\* Challenges are exchanged as Exchange promises: issued once, answered only by
\* requests that began while they were unused, closed by the first grant.
ImplementsExchange == X!Spec

\* How far a challenge can be exchanged more than once: all threads may be
\* finishing it when the first of them commits, and each gets a session, but
\* nobody gets a second one.
GrantsAreBounded == \A c \in Challenge : granted[c] =< Cardinality(Worker)

\* A challenge is exchanged for one session: a second use of it is answered
\* with "challenge_already_used".
ChallengeOnce == \A c \in Challenge : granted[c] =< 1

\* No login turns the signature counter of a credential back: a count that is
\* not above it is answered with "dev_auth_sign_count_not_increasing".
CounterGrows ==
  [][\A w \in Worker, k \in Credential :
       pc[w] = "commit" /\ pc'[w] # "commit"
         /\ job[w].flow = "login" /\ job[w].credential = k
       => credentials'[k].count >= credentials[k].count]_vars
=============================================================================
