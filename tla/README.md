# TLA+ models of VilLov-API

VilLov-API is the backend of an end-to-end encrypted messenger: a FastAPI
application over one SQL database that authenticates users with passkeys,
distributes their public keys, and relays ciphertexts. The server keeps all its
state in the database. Routes are plain functions, so every request runs on a
thread of its own with a database session of its own, in any number of
processes behind a load balancer; nothing but the database orders them.

So the interesting questions are about SQL statements of different requests
that interleave, and about requests that die between two statements. Almost
every operation of the code reads a row, decides, and writes in a second
statement. The models ask whether what the server has told its clients stays
true all the same.

## Inventory

| Component | Code (`src/app/`) | State | Operations |
|---|---|---|---|
| Message relay | `api/messages.py`, `services/message_service.py`, `db/repositories/message_repository.py` | `message_envelopes` | send, inbox, acknowledge, delete |
| Conversations | `api/conversations.py`, `services/conversation_service.py`, `db/repositories/conversation_repository.py` | `conversations` | get-or-create, list |
| Key directory | `api/keys.py`, `services/key_service.py`, `db/repositories/key_bundle_repository.py` | `key_bundles`, `one_time_prekeys` | upload, fetch (consumes a one-time prekey), count |
| Passkey authentication | `api/auth.py`, `services/auth_service.py` | `users`, `devices`, `passkey_credentials`, `auth_challenges`, `auth_sessions` | begin and finish of registration and of login |
| Sessions | `dependencies/auth.py`, `db/repositories/auth_repository.py`, `db/seed.py` | `auth_sessions` | lookup of a bearer token on every request, seeding |
| Database access, threads | `db/database.py`, FastAPI's thread pool | connections, threads | open and close a session |
| Contacts, health, application | `api/contacts.py`, `main.py`, `db/repositories/user_repository.py` | none | read-only |
| Schemas, logging, configuration | `schemas/`, `utils/`, `config.py` | none | validation, formatting |

How they interact. Components never call each other; they meet in the database.
A message names a conversation and two users by foreign key; a conversation
names two users; keys name their user. Every route but those of authentication
and health depends on `get_current_user`, which reads a session with the same
database session as the route. A send is not checked to name the conversation of
its sender and recipient. Requests of one process share its threads and its
connections. The seeding script is a process of its own on the same tables.

What is hard in each, and what makes it correct:

* **Relay.** Acknowledge and delete check a row and then act with a conditional
  statement. A statement that matches no row is answered as success
  (acknowledge) or as "already delivered" (delete). Identifiers are chosen by
  clients and are free again after a deletion, so between the two statements a
  row may be replaced by another message under the same identifier. Correct:
  whoever was told the end of a message never sees it pending again, only the
  sender deletes a message, and only before it is delivered, only the recipient
  acknowledges it, an inbox is not staler than what was known
  when it was asked for.
* **Conversations.** Two users look up, find nothing and insert, at the same
  time. The loser rolls back and looks again. Correct: one conversation per
  pair, the same answer for everybody, and no error from the race.
* **Key directory.** One-time prekeys must be used once. A fetch selects with
  `FOR UPDATE SKIP LOCKED` and consumes in a second statement. An upload
  commits twice. Correct: no prekey for two requesters, no lock that outlives
  its request, no prekeys without a bundle, a fetch that never waits.
* **Authentication.** Challenges and signature counters are checked and then
  updated; users, devices and credentials are looked up and then inserted.
  Correct: sessions are granted only for challenges that are the user's, are
  still good, and are used once; counters only grow; no row refers to one that
  is missing. The code achieves the first and the last of these; of the others
  it keeps the sequential part (see the runs).
* **Sessions.** A token is looked up by its hash in one statement and judged
  by a clock read later, while logins and the seeding script change users,
  devices and sessions. The script commits twice, may die in between, may be
  run again, and may race with another one. Correct: a token admits its user
  until its expiry and nobody afterwards; a script that reports success has
  seeded everything; what a dead script leaves never blocks the next.
* **Threads and connections.** A request takes a connection when it is
  authenticated and keeps it while it waits for a thread for its endpoint, so
  that requests with connections may wait for threads that wait for
  connections. Correct: every request ends, and leaves nothing behind.
* **Relay and conversations.** They meet in the foreign key of a message.
  Correct: an identifier that get-or-create has answered can be sent to, two
  users who use what they were answered have one thread, and a reader finds the
  conversation of a message in its list.

`PROJECT.json` lists these hazards one by one with their source lines.

## Modules

| Module | What it is |
|---|---|
| `Mailbox` | abstract: every life of an identifier is posted, then acknowledged or deleted, and clients are told so only once it is final |
| `Relay` | the message relay, statement by statement |
| `RelayProofs` | its theorems |
| `Registry` | abstract: a write-once register for every pair of users |
| `Conversations` | get-or-create and the list, statement by statement |
| `ConversationsProofs` | its theorems |
| `OpkPool` | abstract: a prekey is taken from the pool and given to one requester, or lost on the way; hand-outs are counted |
| `KeyDirectory` | upload and fetch of keys, statement by statement |
| `KeyDirectoryProofs` | its theorems |
| `Exchange` | abstract: a challenge is issued, answered by requests admitted while it is unused, and closed by the first grant |
| `ExchangeProofs` | how many sessions `Exchange` grants, with proof |
| `Passkey` | registration and login, statement by statement |
| `PasskeyProofs` | its theorems, one of them from `ExchangeProofs` along the refinement |
| `Sessions` | issue, lookup and check of access tokens, and the seeding script |
| `SessionsProofs` | its theorems |
| `RequestPool` | the way of a request over the thread pool and the connection pool |
| `RequestPoolProofs` | its theorems |
| `Messenger` | `Relay` and `Conversations` composed over one database |
| `MessengerProofs` | its theorems, from those of the two components |
| `MCRelay`, `MCConversations`, `MCKeyDirectory`, `MCPasskey`, `MCSessions`, `MCRequestPool`, `MCMessenger` | constants and symmetry for TLC |

### Conventions

The detailed modules of statements have the same shape (`RequestPool` is about
what the others take for granted, and has its own). `pc[w]` is the next SQL
statement of thread `w`, `job[w]` the local variables it still needs, `reply[w]`
the status of its last answer (but for `Passkey` and `Sessions`). An action is
one statement together with the commit that follows it. A request begins with
the action that makes its first checks and reads (`BeginSend`, `GetForAck`, `Lookup`, `BeginFetch`, ...) and ends with
`Answer`. Names of actions are those of the repository methods where there is
one.

* A statement sees what is committed when it runs: READ COMMITTED on
  PostgreSQL, and SQLite as pysqlite drives it, where a SELECT opens no
  transaction. A conditional UPDATE or DELETE and its commit are one step since
  the matched row stays locked in between; an INSERT and its commit are one
  step since a conflicting insert waits for it.
* Where the code refreshes an object after the commit, the read is a step of
  its own (`Refresh`) when its result can differ.
* `Crash(w)` ends a request at any point without an answer. It stands for a
  killed process as well as for a lost connection: the session is closed, so
  what was committed stays and the rest, locks included, is gone. A client that
  retries is another request. A lost answer is a crash before the last step.
* IntegrityErrors that a service does not catch are the status `server_error`.
* Requests start from an authenticated principal and validated fields; how the
  principal comes about is in `Sessions`.
* The tables are empty in `Init` (`create_all` at start-up).

### Relay

`envelopes` is the table. `ValidExpiry` are the three checks of `send`;
`Create` inserts, or fails on the primary key or, with `ForeignKeys`, on a
reference; SQLite does not check references. `Visible`, `Acknowledgeable` and
`Deletable` are the WHERE clauses. `lives`, `life`, `settled` and `before` are
history: identifiers can be inserted again after a deletion, and the model
numbers the rows so that properties can say which row an answer is about.
Payload, header and sending time are left out, and with them the order of an
inbox, which is by the time the sender claims. `inbox` reads the clock before
the query: `BeginInbox` and `InboxForUser`.

### Conversations

`rows` is the table. User ids are numbers since the code sorts them. `Lookup`
draws the identifier when it finds nothing; `uuid4` is assumed not to collide
(`Fresh`). `Insert` is accepted or refused by the unique constraint, `Requery`
is the second lookup after the rollback. `AnswerFound` is
`scalar_one_or_none`: anything but exactly one row becomes an error, so that
the model does not presuppose the uniqueness it is to show. The registered
users are fixed.

### KeyDirectory

`bundles` and `opks` are the tables, `holder` the row locks of prekeys.
`WriteBundle` is the commit of `upsert`: an insertion that is refused if the
row has appeared, or an UPDATE of the columns that differ from those loaded
when the request began (`Updated`, which is how SQLAlchemy writes it).
`InsertOpks` stores a batch or nothing. `SelectOpk` takes one of the oldest
unconsumed prekeys of the user that nobody has locked; `ConsumeOpk` writes by
primary key alone, commits and unlocks; `AnswerFetch` answers. `RowLocks` is
TRUE for PostgreSQL and FALSE for SQLite, where SQLAlchemy emits no FOR UPDATE.
In the refinement of `OpkPool` a stored prekey is available until it is
consumed (`Phase`), and an answer that contains one is a step of its own that
counts (`handed`). So a second answer with the same prekey is a step that
`OpkPool` does not have; without row locks the refinement fails.
Six columns of a bundle are reduced to two. `batches` stands for `created_at`.
The read-only count is left out.

### Passkey

`users`, `devices`, `credentials`, `challenges` and `sessions` are the tables.
`BeginRegister` and `BeginLogin` read the user; `StoreChallenge` is the commit
that inserts the challenge and, in a first registration, the user; it is
refused if the user has appeared (`known`), or if a login names a device
without a row and the database checks references (`ForeignKeys`). The finishing
requests check the challenge (`Valid`) and then read device and credential,
a registration in this order and a login in the other, so the statement after
`FindDevice` and `FindCredential` depends on the flow. `CommitFinish` writes
device, credential, challenge and session at once, or nothing when a row that
was not found is there by now (`Collides`). `Written` is the ORM's UPDATE of
the columns that differ from those loaded.

The flushes of users and devices inside a transaction are part of its commit in
the model: nobody sees them before, and of two transactions that insert one key
the second waits for the first and then fails.

The verification of attestations and signatures is not modelled: a response
carries which verification it passes, that of WebAuthn, that of development
(if `Development`), or none. Counters are compared as the code does, WebAuthn
itself accepting zero for authenticators without counters. A credential id is
the one stored; its encoding is left out, as are names and public keys. Devices
are chosen by the client; the default name that the code derives from the user
is one of them. `Exchange` forgets all of this but the challenge: `Stage` is
what the row says of it, `Finishing` the requests that have passed its check and
not committed. It promises what the code achieves, which is less than one
session for one challenge. `granted` and `late` are history: how many sessions a
challenge was exchanged for, and whether it had been when a request began.
Answers are not state here: a refusal, which is always a 500 as these routes
translate no exception, leaves no trace but the end of its request. The two
legacy routes are those of login under other names.

### Sessions

`users`, `devices` and `sessions` are the tables, `sessions` by the column
`access_token`, which holds a token (`Raw`) or its HMAC (`Hash`). A login draws
a token nobody holds (`secrets.token_urlsafe`), commits the session and the
device it has looked up (`CommitToken`), and `issued` records what the client
was answered. What comes before, the challenge and the credential, is in
`Passkey`. A guarded request is `Present`, `Lookup`, `Check`, `Principal`: the
SELECT, the comparison with a clock read afterwards, and the lazy load of the
user. `revoked_at` is checked by the code and set nowhere, so no session is
revoked here. A script (`Seeder`) reads the users, commits the missing ones,
reads device and session of one seeded user after the other and commits them
all; a row that was missing and has appeared refuses the commit and ends the
script (`failed`). It may be run again, and two may run at a time. An update of
a row that was found rewrites what the script would insert; only the owner of a
device can differ, and the ORM writes it if it differs from what was loaded
(`Owner`). `answered`, `disturbed` and `seeded` are history.

### RequestPool

A request is at a `stage`: `get_db`, `get_current_user`, `get_current_user_id`
(contacts only), the endpoint, the validation of the response, the end of
`get_db`. Each but the last is a function that FastAPI runs on a thread of its
pool: it gets in line (`queue`), starts when a thread is free (`Start`) and
gives the thread back (`Advance`, `Fail`). The session has a connection from
its first statement (`Checkout`) to its next commit, or to the close. So the
connection of `get_current_user` is kept, with its transaction, while the
request waits for a thread for its endpoint. `Ready`, `Contacts`, `Inbox`,
`Send` and so on give the statements of every kind of route (`Endpoint`), a
commit giving the connection back: that is why the
refresh after a commit needs another one. A request that finds no connection
waits on its thread (`waiting`) until one comes back (`Resume`) or
`pool_timeout` passes (`TimeOut`). Closing the session is cleanup on a thread
outside of the limit. Threads, queue and connection pool are external code,
modelled from how the application uses them; 40 threads, 5 + 10 connections and
30 seconds are their defaults, and the model has them as `Threads`,
`Connections` and fairness.

### Messenger

`R` is `Relay` and `C` is `Conversations`, on threads of their own over one
database. `named[w]` is the conversation that the send on thread `w` names,
`filed[m]` the column `conversation_id`. `Relay` leaves open whether the
references of a send resolve; `Create` here takes the outcome from the table
of conversations at the moment of the INSERT (`Exists`). Since `Relay` fixes the
outcome when the send begins, `BeginSend` guesses it and `Create` only goes on
with a right guess, a prophecy; a thread with a wrong one can only die, as every
thread can. A send may name any conversation, like the code. `answered` is
history: whether get-or-create had answered that conversation for these two users
when the send began.

## Runs

| Run | Question | Result |
|---|---|---|
| `relay` | `TypeOK`, `SettledIsFinal`, `NoLateDelivery`, `AcceptedIsDelivered`, `OnlyOwnersSettle`, refinement of `Mailbox` (`ImplementsMailbox`) | hold |
| `relay_conflict` | does the 409 "Message already delivered" mean delivered? (`ConflictMeansDelivered`) | violated |
| `conversations` | `TypeOK`, `OnePerPair`, `Agreement`, `NoServerError`, `ListIsComplete`, refinement of `Registry` (`ImplementsRegistry`) | hold |
| `keys` | with row locks: `TypeOK`, `HandedOutOnce`, `NoOrphanLock`, `KeysHaveBundle`, `UploadedKeysExist`, refinement of `OpkPool` (`ImplementsOpkPool`); does a fetch end although another thread stalls on a locked prekey? (`FetchEnds`) | hold |
| `keys_without_row_locks` | `HandedOutOnce` on SQLite | violated |
| `keys_torn_bundle` | is a stored bundle always one that was uploaded? (`StoredAsUploaded`) | violated |
| `passkey` | does every row refer to rows that exist, whose challenges are exchanged for sessions, until when, and how often at most? (`TypeOK`, `ReferencesExist`, `SessionsAreVouched`, `NoLateGrant`, `GrantsAreBounded`, refinement of `Exchange`, that is `ImplementsExchange`) | hold |
| `passkey_once` | is a challenge exchanged for at most one session? (`ChallengeOnce`) | violated |
| `passkey_counter` | does a login never turn a counter back? (`CounterGrows`) | violated |
| `messenger` | can what get-or-create answers be sent to, do two users have one thread, do readers find it? (`TypeOK`, `OneThread`, `AnsweredIsSendable`, `ReadersFindIt`) | hold |
| `sessions` | whom does a token admit, and until when; is a successful seed complete, and does a dead one block the next? (`TypeOK`, `AdmittedInTime`, `IssuedTokensAdmit`, `SeedIsComplete`, `SeedsRecover`) | hold |
| `request_pool` | do the pools keep their limits, is anything leaked, whom does a shortage hit, is a request ever set back, does every request end? (`TypeOK`, `NothingIsLeaked`, `LoadSparesTheAdmitted`, `StepsCountDown`, `EveryRequestEnds`) | hold |

Bounds, and why they are enough:

* `relay`: two users, one identifier, two threads, times 0 to 2 with a maximal
  lifetime of 1, two lives (`MaxLives`). Rows of different identifiers do not
  influence each other. Two lives are what it takes for a row to be replaced
  under a thread that has read it, with the roles of the users exchanged. The
  times include requests that are too late, too long, and expire in flight.
  `Create` does not happen once an identifier has had `MaxLives` lives; `Tick`
  stops at `MaxTime`.
* `conversations`: three of four names registered, three threads, four
  identifiers (three pairs and one drawn in vain at a time; a thread that finds
  none left does not go on). Three threads let two insertions race while a
  third lists.
* `keys`: two users, two prekeys, two threads, one value of the key columns.
  The upload of a bundle that exists already writes the same values; what
  different values do is the question of `keys_torn_bundle`, with two values
  and one user. `w1` is patient (see below) and `w2` is not.
* `passkey`: two users, one device, one credential, three challenges, two
  threads, times 0 and 1 with a lifetime of 0. A login that uses another user's
  credential takes three challenges, one to register each user and one to log
  in. A device may be missing when a login begins, and both users claim it; a
  challenge may be used at the instant of its expiry, or too late. The counters
  stay 0 here (`MaxCount`), which only development logins notice: they are
  refused, and `passkey_counter` has the ones that are not. `StoreChallenge`
  waits when no challenge is left: a bound of the model, as challenges are
  random.
* `passkey_once` needs one user and one challenge, `passkey_counter` counters
  to 2.
* `messenger`: two users, two messages, two conversation identifiers, one thread
  for each component, times 0 and 1. Two messages let both users write; one
  thread each lets every statement of get-or-create interleave with every
  statement of a send or an inbox. The races of two openers, and messages that
  expire (here `MaxLifetime` is 0, so they have no expiry), are in the
  components' own runs, and the theorems cover any number of threads.
* `sessions`: two seeded users with a device and a development token each, one
  token to draw, one request thread, two scripts, times 0 and 1 with a lifetime
  of 1, so that requests find sessions before, at and after their expiry. Two
  users let a script find one of them there and insert the other; two scripts
  race with each other, and each with a login that takes the device of a seeded
  user. One token drawn at a time suffices, as rows under different tokens do
  not influence each other; that logins race with logins only for the owner of a
  device, which no answer depends on, is left to the theorems, which hold for
  any number of threads. Here the users are symmetric only together with their
  devices and tokens (`Exchanged`).
* `request_pool`: three requests, two threads, one connection; contacts, which
  has the stage of the principal, and a send, which has a statement after a
  commit. One request holds the connection and waits in line, the other two hold
  the threads and wait for the connection: the smallest stall with two threads.
  The other routes are of the same statements in other numbers, or leave stages
  out; the theorems cover all of them. The model stops when all requests are
  done, hence `CHECK_DEADLOCK FALSE`.

Threads, identifiers and, where nothing compares them, users are symmetric,
except in `keys` and `request_pool`, which check liveness, and in
`passkey_once` and `passkey_counter`.

Fairness. `keys` and `request_pool` assume it, for `FetchEnds` and
`EveryRequestEnds`. In `keys`, `w1` is weakly fair for the statements of a
request it has begun (`Handle`), which is what a scheduler gives a thread that
nothing blocks. Nothing is assumed about other threads: they may stop
between any two statements and keep their locks. So `FetchEnds` is about SKIP
LOCKED; with a plain FOR UPDATE it fails. It also holds, trivially, for a
request that dies.

In `request_pool`, `Start` and the next step of every request are weakly
fair: the thread pool serves whenever a thread is free, functions return, and a
wait for a connection ends by `pool_timeout` at the latest. No request has to
arrive. The property needs the time-out: requests that hold all connections may
stand in line behind others that hold all threads and wait for connections, and
nothing else ends that. The engine sets no `pool_timeout` (`db/database.py:15`),
so it is the default. So an overload stalls a process for the 30 seconds of
the time-out, and not for longer: whoever times out answers 500 and frees its
thread.

### Disagreements with the repository's texts

1. `relay_conflict`: a sender deletes a message twice at the same time. Both
   requests read the row; the second DELETE matches nothing and is answered
   with 409 "Message already delivered" (`api/messages.py:144`), although the
   message was withdrawn. The comment in `message_service.py:192` knows of the
   race, the answer does not distinguish it.
2. `keys_without_row_locks`: SQLite is the default database
   (`config.py:14`). Two concurrent fetches there select the same prekey and
   both answer with it, since the UPDATE names the row by its key alone. The
   test `test_opk_is_consumed_exactly_once_across_multiple_fetches` fetches one
   after the other.
3. `keys_torn_bundle`: two uploads of one user load the same bundle; each
   UPDATE names the columns in which its request differs from what it loaded.
   If one changes the identity keys and the other the signed prekey, the stored
   bundle has the one of each, and the signature of the prekey does not fit the
   identity.
4. `passkey_once`: two finishes with the same challenge both check it before
   either commits; each returns a session, although the second use of a
   challenge is meant to be `challenge_already_used`
   (`auth_service.py:509`). `NoLateGrant` says what remains true: a request
   that begins after the first exchange gets nothing; and `GrantsAreBounded`: there
   are at most as many sessions for a challenge as threads.
5. `passkey_counter`: two logins compare their counts, 1 and 2, with the stored
   0; the one with 1 commits last. The check behind
   `dev_auth_sign_count_not_increasing` (`auth_service.py:440`) holds only for
   logins one after the other.

The seeding script stores the development tokens themselves, where a login
stores a hash (`db/seed.py:77`), and the lookup hashes what it is given: no
seeded token is ever accepted. The model has it so (`Raw`, `Hash`), and
`AdmittedInTime` says that only the tokens of logins admit.
`tests/test_keys_auth_integration.py:42` asserts of a login that the stored
value is not the token.

## Theorems

Checked by TLAPS for any sets of users, identifiers and threads, and for any
values of the bounds, from the assumptions that the modules name
(`RelayAssumption`, `ConversationsAssumption`, `KeyDirectoryAssumption`,
`PasskeyAssumption`, `SessionsAssumption`, `PoolAssumption`,
`MessengerAssumption`): the marks for "nothing" are no rows, bounds are numbers.
Where the number of threads is counted, there are finitely many
(`ThreadsAssumption` in `Passkey`, `PoolAssumption`, a hypothesis of the other
theorems).

**RelayProofs.** `TypeCorrect`, `SettledStaysFinal`, `InboxIsCurrent`,
`InboxIsComplete`, `OwnersSettle` and `Implements` (the relay implements `Mailbox`) follow from
the invariant `IndInv` (`Invariance`). `SettledIsFinal` is not inductive by
itself: a thread in the middle of an acknowledgement will settle the life it
has read, so the invariant has to say what it knows. `RowIsLatest`: the row
under an identifier is its latest life. `ReadHolds`: the life a thread has read
was born, and if it is still the row there, it belongs to the user of the
request. Hence when the statement matches nothing, that life is acknowledged or
deleted, whatever happened to the identifier since. `BeforeHolds`: what an
inbox request knew to be settled is still settled. `AnswersStayTrue` carries
this over to the answers that clients remember: no answer about the end of a
message, the 409 of `relay_conflict` included, is about a pending one.

**ConversationsProofs.** `Invariance` for `IndInv`: rows and requests hold their
participants in ascending order (`Sorted`), which makes the unique constraint
on the ordered pair one on the unordered pair (`UniqueRows`); identifiers about
to be inserted are nobody else's (`DrawnFresh`); rows never disappear, so the
second lookup after a refused insertion finds one (`Finds`); answered
conversations are in the table (`Recorded`). From it: `AtMostOne`,
`AnswersAgree`, `NeverFails`, `ListsAreComplete`, `Implements`.

**KeyDirectoryProofs.** Two invariants. `TableInv` (`Tables`) holds on every
database: an upload past its first commit has a bundle, one past its second has
its prekeys, rows never disappear or change owner. From it: `TypeCorrect`,
`PrekeysHaveBundles`, `UploadsAreStored`. `PoolInv` (`Pool`) needs `RowLocks`:
who is about to consume a prekey holds its lock, a locked prekey is
unconsumed, and who is about to answer with a consumed prekey is alone with it
and it has not been handed out. From it: `SingleUse`, `LocksAreReleased`,
`Implements` (every answer with a prekey is the first one, a step of
`OpkPool`). Without `RowLocks` the first conjunct fails, and run
`keys_without_row_locks` shows that the conclusion does, too.

What is left without row locks has an invariant of its own, `ReuseInv`. As long
as a prekey is unconsumed, nobody has been answered with it
(`UnconsumedIsUnhanded`) and those who have selected it (`Takers`) are among the
threads; from then on nobody selects it any more, and every answer has one taker
less (`Answerable`). So `ReuseHasABound`: on any database a prekey goes to at most
as many requesters as there are threads. In the same way `BundlesTearByRace`
bounds what `keys_torn_bundle` shows: a write that does not leave the bundle of
its upload overwrites a row other than the one that was loaded. `FetchesRunThrough`
is the part of `FetchEnds` that is not fairness: a thread at the SELECT finds a
prekey that nobody holds or learns that there is none (`NeverWaits`; that ORDER
BY LIMIT 1 finds a row if there is one takes the least-number principle,
`Least`), and every statement brings a request closer to its answer
(`CountsDown`).

**PasskeyProofs.** `Invariance` for `Inv`, which adds to the invariants of
the runs what threads know: the challenge a request has checked is still
there and still its user's, a row it has found is still there and, if a
credential, still refers to rows that exist (`FinishHolds`); a user it has
found is still registered (`BeginHolds`); and an exchanged challenge is used up
(`GrantedIsUsed`), so that a request that has passed the check began before the
first exchange. Two lemmas say what `Written` makes of a row: every column is
the one written or the one stored, so that even a torn row refers to rows that
exist. From it: `TypeCorrect`, `References`, `Vouched`, `GrantsAreTimely`, with
or without foreign keys, and `Implements`: every statement is a step of
`Exchange` or none.

`Exchange` is simple enough to count: until the first grant those admitted are
among the clients, and afterwards each grant takes one of them away
(`ExchangeProofs`, `Bounded`). As `Passkey` implements `Exchange`, this is a
theorem of `Passkey`, too (`GrantsHaveABound`), without another induction over
its statements. `CountersRace` says when `passkey_counter` can happen at all: a
login on its way to the commit counts up from the row it has read
(`SeenCountsUp`), so it turns the counter back only if somebody has moved it
since.

**SessionsProofs.** `Invariance` for `IndInv`: what is stored under a hash is
exactly what logins have answered (`Granted`), because a drawn token is nobody
else's (`Grants`) and scripts write under the tokens themselves; a thread that
has found a row holds that of its token, and has not found it expired before it
goes on (`Checks`); what a script has read stays true while it is undisturbed
(`Seeds`). From it: `TypeCorrect`, `Admission`, `GoodTokens`, `SeedComplete`,
`SeedRecovery`, for any number of threads, scripts and seeded users.

**RequestPoolProofs.** `Invariance` for `IndInv`: a request is on a thread, in
line once, or neither, as its stage says (`Lined`); connections belong to
sessions between authentication and close (`Held`); an admitted request keeps
its connection until its first commit, so that it cannot wait for one before
(`Spared`). From it: `TypeCorrect`, `NoLeak`, `AdmittedAreSpared`. Two more
are what `EveryRequestEnds` rests on. `Countdown` (of `StepsCountDown`): `Ahead`, the distance of a request from its
end by stage, statements left, connection and thread, grows by no step of
anybody and shrinks for one request by each. `NeverStandsStill`: as long as a
request is under way, somebody is on a thread and can take a step, or a thread
is free for whoever is in line (the lemma `EveryoneIsFound`). The guards of the steps are written out there
(`Possible`, `StartPossible`), as ENABLED is out of the prover's reach.

**MessengerProofs.** The composition runs `Relay` and `Conversations`
(`RunsRelay`, `RunsConversations`), so that their theorems are theorems of it.
It adds one invariant (`StillTold`): what a send was told when it began is still
told when its row is inserted and ever after. With `Recorded` and `Agreement` of
`Conversations`: `TypeCorrect`, `Threads`, `AnswersAreSendable`, `ReadersFind`.
`ComponentsKeepTheirPromises` says in one theorem that in the composition the
relay still implements `Mailbox`, conversations still implement `Registry`, and
inboxes and lists are what the components' own theorems say.

Only model-checked: `FetchEnds` and `EveryRequestEnds`, because liveness under
fairness and ENABLED are beyond TLAPS. Of both, everything but the step from
fairness is proved (`FetchesRunThrough`; `Countdown`,
`NeverStandsStill`). The five violations are TLC's; for each a theorem says how
far it goes: `AnswersStayTrue`, `ReuseHasABound`, `BundlesTearByRace`,
`GrantsHaveABound`, `CountersRace`.

## Not modelled

* Schemas, logging, configuration, start-up and the static routes: no state. The
  readiness route and contacts are routes of `RequestPool`; what contacts lists
  is one SELECT with nothing to interleave.
* `user_repository.py`: `get_user` and `list_users` are single reads; nobody
  calls its other methods, those for challenges and sessions among them.
* The revocation of sessions: the code checks `revoked_at` and never sets it.
* The clock is one clock; skew between server processes is left out.
* Serialization failures and deadlocks of the database itself: no operation but
  the finish of an authentication locks more than one existing row at a time,
  and that one locks them in the order of the ORM's unit of work, which is the
  same for all (devices, then credentials and challenges).
* In `RequestPool`, the death of the whole process, which ends all its requests
  and pools at once.
* The relation between one-time prekeys and the bundle they were uploaded with:
  a prekey that was uploaded with an older bundle is handed out with a newer
  one. Nothing in the code or its texts ties them.
* Orders and payloads: the order of an inbox, which is by the time the sender
  claims, ciphertexts, key material beyond two columns, names.

## What could follow

* `Passkey` and `Sessions` share their tables, and `Sessions` abstracts from how
  a login comes to its commit; a composition as that of `Messenger` would make
  the seeding script race with registrations as well.
* `KeyDirectory` with the key material of answers.
* Fairness for the relay: a message is delivered to a recipient who keeps
  asking, unless it expires or is withdrawn.
