------------------------------ MODULE Sessions ------------------------------
(***************************************************************************)
(* Access tokens: their issue at the end of a registration or a login      *)
(* (AuthService._create_session_token), their lookup and check in front of *)
(* every guarded route (get_current_user), and the script that seeds users *)
(* with a device and a session (app/db/seed.py).                           *)
(*                                                                         *)
(* A client holds the token itself.  A login stores its hash, under which  *)
(* a request is looked up; the script stores the token as it is.  Requests *)
(* and scripts run on connections of their own, and may die after any      *)
(* statement; a script may be run again, and twice at the same time.       *)
(*                                                                         *)
(* What precedes the issue of a token is in Passkey; here a login commits  *)
(* its session with the device it has looked up before.  Nothing sets      *)
(* revoked_at, so that no session is ever found revoked.                   *)
(***************************************************************************)
EXTENDS Naturals

CONSTANTS
  User,           \* user ids
  Seeded,         \* SEEDED_USERS
  Device,         \* device ids
  DefaultDevice,  \* _device_id_for_user
  Token,          \* access tokens, as clients hold them
  DevToken,       \* _token_for_user
  Worker,         \* request threads
  Seeder,         \* processes that run the script
  Lifetime,       \* TOKEN_TTL_DAYS
  MaxTime,        \* bound: the clock stops here
  NoRow,          \* the result of a lookup that finds nothing
  NoJob           \* what an idle process is working on

Process == Worker \cup Seeder

\* The tokens that secrets.token_urlsafe may draw.
Random == Token \ {DevToken[u] : u \in Seeded}

\* The column access_token: a token, or its HMAC.
Value == {"raw", "hash"} \X Token

Raw(t) == <<"raw", t>>

\* _hash_session_token, of AuthService and of AuthRepository
Hash(t) == <<"hash", t>>

SessionRow == [user : User, device : Device, expiresAt : Nat]

ASSUME SessionsAssumption ==
  /\ Seeded \in SUBSET User
  /\ DefaultDevice \in [Seeded -> Device]
  /\ \A u, v \in Seeded : DefaultDevice[u] = DefaultDevice[v] => u = v
  /\ DevToken \in [Seeded -> Token]
  /\ \A u, v \in Seeded : DevToken[u] = DevToken[v] => u = v
  /\ Worker \cap Seeder = {}
  /\ Lifetime \in Nat
  /\ MaxTime \in Nat
  /\ NoRow \notin User \cup SessionRow

VARIABLES
  users,      \* the table users: the ids registered
  devices,    \* the table devices: [Device -> the owner]
  sessions,   \* the table auth_sessions: [Value -> row]
  now,        \* the servers' clock
  pc,         \* the next statement of each process
  job,        \* what it carries from one statement to the next
  issued,     \* history: what the login that issued a token has answered
  answered,   \* history: the last answer of get_current_user on a thread
  disturbed,  \* history: the scripts since whose start others have committed
  seeded      \* history: a script has reported success

tables == <<users, devices, sessions>>

history == <<issued, answered, disturbed, seeded>>

vars == <<tables, now, pc, job, history>>

Continue(p, statement, carried) ==
  /\ pc' = [pc EXCEPT ![p] = statement]
  /\ job' = [job EXCEPT ![p] = carried]

Stop(p) == Continue(p, "idle", NoJob)

\* A commit of p is one that the others have to reckon with.
Disturb(p) == disturbed' = Seeder \ {p}

\* What a thread has answered is of no interest once it serves another request.
Forget(w) == answered' = [answered EXCEPT ![w] = NoJob]

----------------------------------------------------------------------------
(***************************************************************************)
(* The end of a registration or a login                                    *)
(***************************************************************************)

\* A registration that begins inserts its user.
Register(u) ==
  /\ u \notin users
  /\ users' = users \cup {u}
  /\ disturbed' = Seeder
  /\ UNCHANGED <<devices, sessions, now, pc, job, issued, answered, seeded>>

\* _create_session_token, after the device has been looked up
CreateToken(w, u, d) ==
  /\ pc[w] = "idle"
  /\ u \in users
  /\ \E t \in Random :
       /\ \A p \in Process : pc[p] = "grant" => job[p].token # t
       /\ sessions[Hash(t)] = NoRow
       /\ Continue(w, "grant",
            [token |-> t, seen |-> devices[d],
             row |-> [user |-> u, device |-> d, expiresAt |-> now + Lifetime]])
  /\ Forget(w)
  /\ UNCHANGED <<tables, now, issued, disturbed, seeded>>

\* The owner of a device after a commit: that of the new row, or the stored one,
\* unless the owner that was loaded has been changed.
Owner(stored, seen, u) == IF seen = u THEN stored ELSE u

CommitToken(w) ==
  /\ pc[w] = "grant"
  /\ LET j == job[w]
         d == j.row.device
         refused == j.seen = NoRow /\ devices[d] # NoRow
     IN \/ /\ refused
           /\ UNCHANGED <<tables, history>>
        \/ /\ ~ refused
           /\ devices' = [devices EXCEPT ![d] = Owner(@, j.seen, j.row.user)]
           /\ sessions' = [sessions EXCEPT ![Hash(j.token)] = j.row]
           /\ issued' = [issued EXCEPT ![j.token] = j.row]
           /\ Disturb(w)
           /\ UNCHANGED <<users, answered, seeded>>
  /\ Stop(w)
  /\ UNCHANGED now

----------------------------------------------------------------------------
(***************************************************************************)
(* get_current_user                                                        *)
(***************************************************************************)

\* A request with a token.  History: what was known of it then, and when.
Present(w, t) ==
  /\ pc[w] = "idle"
  /\ Continue(w, "lookup",
       [token |-> t, known |-> issued[t], began |-> now, row |-> NoRow])
  /\ Forget(w)
  /\ UNCHANGED <<tables, now, issued, disturbed, seeded>>

\* `who' is the principal, or NoRow for a 401.
Answer(w, who) ==
  /\ answered' = [answered EXCEPT ![w] =
       [token |-> job[w].token, known |-> job[w].known, began |-> job[w].began,
        at |-> now, who |-> who]]
  /\ Stop(w)
  /\ UNCHANGED <<tables, now, issued, disturbed, seeded>>

\* get_session_by_access_token
Found_Raw(t) == sessions[Raw(t)]

Found(t) == sessions[Hash(t)]

Lookup(w) ==
  /\ pc[w] = "lookup"
  /\ LET row == Found(job[w].token) IN
       \/ /\ row = NoRow
          /\ Answer(w, NoRow)
       \/ /\ row # NoRow
          /\ Continue(w, "check", [job[w] EXCEPT !.row = row])
          /\ UNCHANGED <<tables, now, history>>

\* A session is over at the instant of its expiry.
Expired_Later(row) == row.expiresAt < now

Expired(row) == row.expiresAt =< now

Check(w) ==
  /\ pc[w] = "check"
  /\ \/ /\ Expired(job[w].row)
        /\ Answer(w, NoRow)
     \/ /\ ~ Expired(job[w].row)
        /\ Continue(w, "principal", job[w])
        /\ UNCHANGED <<tables, now, history>>

\* The user and the device of the session are loaded on their first use, and
\* without a row for its user the request fails.
Principal(w) ==
  /\ pc[w] = "principal"
  /\ LET u == job[w].row.user IN Answer(w, IF u \in users THEN u ELSE NoRow)

----------------------------------------------------------------------------
(***************************************************************************)
(* python -m app.db.seed                                                   *)
(***************************************************************************)

SeedReadUsers(s) ==
  /\ pc[s] \in {"idle", "failed"}
  /\ Continue(s, "users",
       [known |-> users \cap Seeded, todo |-> Seeded, user |-> NoRow, started |-> now,
        devices |-> [u \in Seeded |-> NoRow],
        sessions |-> [u \in Seeded |-> NoRow]])
  /\ disturbed' = disturbed \ {s}
  /\ UNCHANGED <<tables, now, issued, answered, seeded>>

\* The first commit.  A user that was missing and is there by now refuses it.
Inserted_IfEmpty(j) == IF j.known = {} THEN Seeded ELSE {}

Inserted(j) == Seeded \ j.known

SeedCommitUsers(s) ==
  /\ pc[s] = "users"
  /\ \/ /\ Inserted(job[s]) \cap users = {}
        /\ users' = users \cup Inserted(job[s])
        /\ Disturb(s)
        /\ Continue(s, "rows", job[s])
     \/ /\ Inserted(job[s]) \cap users # {}
        /\ Continue(s, "failed", NoJob)
        /\ UNCHANGED <<users, disturbed>>
  /\ UNCHANGED <<devices, sessions, now, issued, answered, seeded>>

\* The device and the session of one seeded user after the other.
SeedReadDevice(s) ==
  /\ pc[s] = "rows"
  /\ \E u \in job[s].todo :
       Continue(s, "session",
         [job[s] EXCEPT !.todo = @ \ {u}, !.user = u,
                        !.devices[u] = devices[DefaultDevice[u]]])
  /\ UNCHANGED <<tables, now, history>>

Stored_Hashed(u) == sessions[Hash(DevToken[u])]

Stored(u) == sessions[Raw(DevToken[u])]

SeedReadSession(s) ==
  /\ pc[s] = "session"
  /\ LET u == job[s].user IN
       Continue(s, "rows", [job[s] EXCEPT !.sessions[u] = Stored(u)])
  /\ UNCHANGED <<tables, now, history>>

\* The second commit.  A row that was missing and is there by now refuses it.
SeedCommitRows(s) ==
  /\ pc[s] = "rows" /\ job[s].todo = {}
  /\ LET j == job[s]
         default(d) == CHOOSE u \in Seeded : DefaultDevice[u] = d
         dev(v) == CHOOSE u \in Seeded : Raw(DevToken[u]) = v
         refused ==
           \E u \in Seeded :
             \/ j.devices[u] = NoRow /\ devices[DefaultDevice[u]] # NoRow
             \/ j.sessions[u] = NoRow /\ sessions[Raw(DevToken[u])] # NoRow
     IN \/ /\ refused
           /\ Continue(s, "failed", NoJob)
           /\ UNCHANGED <<devices, sessions, disturbed, seeded>>
        \/ /\ ~ refused
           /\ devices' = [d \in Device |->
                IF \E u \in Seeded : DefaultDevice[u] = d
                THEN Owner(devices[d], j.devices[default(d)], default(d))
                ELSE devices[d]]
           /\ sessions' = [v \in Value |->
                IF \E u \in Seeded : Raw(DevToken[u]) = v
                THEN [user |-> dev(v), device |-> DefaultDevice[dev(v)],
                      expiresAt |-> j.started + Lifetime]
                ELSE sessions[v]]
           /\ seeded' = TRUE
           /\ Disturb(s)
           /\ Stop(s)
  /\ UNCHANGED <<users, now, issued, answered>>

----------------------------------------------------------------------------
\* A thread or a script dies: what it has not committed is rolled back.
Crash_KeepJob(p) ==
  /\ pc[p] \notin {"idle", "failed"}
  /\ pc' = [pc EXCEPT ![p] = "idle"]
  /\ UNCHANGED <<tables, now, job, history>>

Crash(p) ==
  /\ pc[p] \notin {"idle", "failed"}
  /\ Stop(p)
  /\ UNCHANGED <<tables, now, history>>

\* bound: MaxTime
Tick ==
  /\ now < MaxTime
  /\ now' = now + 1
  /\ UNCHANGED <<tables, pc, job, history>>

Init ==
  /\ users = {}
  /\ devices = [d \in Device |-> NoRow]
  /\ sessions = [v \in Value |-> NoRow]
  /\ now = 0
  /\ pc = [p \in Process |-> "idle"]
  /\ job = [p \in Process |-> NoJob]
  /\ issued = [t \in Token |-> NoRow]
  /\ answered = [w \in Worker |-> NoJob]
  /\ disturbed = {}
  /\ seeded = FALSE

Serve(w) ==
  \/ \E u \in User, d \in Device : CreateToken(w, u, d)
  \/ CommitToken(w)
  \/ \E t \in Token : Present(w, t)
  \/ Lookup(w)
  \/ Check(w)
  \/ Principal(w)

Seed(s) ==
  \/ SeedReadUsers(s)
  \/ SeedCommitUsers(s)
  \/ SeedReadDevice(s)
  \/ SeedReadSession(s)
  \/ SeedCommitRows(s)

Next ==
  \/ Tick
  \/ \E u \in User : Register(u)
  \/ \E w \in Worker : Serve(w)
  \/ \E s \in Seeder : Seed(s)
  \/ \E p \in Process : Crash(p)

Spec == Init /\ [][Next]_vars

----------------------------------------------------------------------------
(***************************************************************************)
(* Properties                                                              *)
(***************************************************************************)

GrantJob == [token : Random, seen : User \cup {NoRow}, row : SessionRow]

CheckJob ==
  [token : Token, known : SessionRow \cup {NoRow}, began : Nat,
   row : SessionRow \cup {NoRow}]

SeedJob ==
  [known : SUBSET Seeded, todo : SUBSET Seeded, user : Seeded \cup {NoRow},
   started : Nat, devices : [Seeded -> User \cup {NoRow}],
   sessions : [Seeded -> SessionRow \cup {NoRow}]]

\* What a request thread and a script carry at each statement.
ServesWith(statement, j) ==
  /\ statement \in {"idle", "grant", "lookup", "check", "principal"}
  /\ statement = "idle" => j = NoJob
  /\ statement = "grant" => j \in GrantJob
  /\ statement \in {"lookup", "check", "principal"} => j \in CheckJob
  /\ statement \in {"check", "principal"} => j.row # NoRow

SeedsWith(statement, j) ==
  /\ statement \in {"idle", "users", "rows", "session", "failed"}
  /\ statement \in {"idle", "failed"} => j = NoJob
  /\ statement \in {"users", "rows", "session"} => j \in SeedJob
  /\ statement = "session" => j.user \in Seeded

Answered ==
  [token : Token, known : SessionRow \cup {NoRow}, began : Nat, at : Nat,
   who : User \cup {NoRow}]

\* The tables hold rows of their types, and a process carries what its next
\* statement uses, and nothing when it has stopped.
TypeOK ==
  /\ users \in SUBSET User
  /\ devices \in [Device -> User \cup {NoRow}]
  /\ sessions \in [Value -> SessionRow \cup {NoRow}]
  /\ now \in 0 .. MaxTime
  /\ DOMAIN pc = Process /\ DOMAIN job = Process
  /\ \A w \in Worker : ServesWith(pc[w], job[w])
  /\ \A s \in Seeder : SeedsWith(pc[s], job[s])
  /\ issued \in [Token -> SessionRow \cup {NoRow}]
  /\ answered \in [Worker -> Answered \cup {NoJob}]
  /\ disturbed \in SUBSET Seeder
  /\ seeded \in BOOLEAN

\* Whoever is admitted presented a token that a login has issued to that very
\* user, and the request began before the expiry that the login announced.
AdmittedInTime ==
  \A w \in Worker :
    answered[w] # NoJob /\ answered[w].who # NoRow =>
      LET grant == issued[answered[w].token] IN
        /\ grant # NoRow
        /\ answered[w].who = grant.user
        /\ answered[w].began < grant.expiresAt

\* A token that a login has answered is good until its expiry, whatever scripts
\* and other logins do to users, devices and sessions meanwhile.
IssuedTokensAdmit ==
  \A w \in Worker :
    answered[w] # NoJob /\ answered[w].who = NoRow =>
      \/ answered[w].known = NoRow
      \/ answered[w].known.expiresAt =< answered[w].at

\* After a script has reported success, every seeded user is there, with its
\* device and a session of its own, whatever died or failed before.
SeedIsComplete ==
  seeded => \A u \in Seeded :
    LET session == sessions[Raw(DevToken[u])] IN
      /\ u \in users
      /\ devices[DefaultDevice[u]] # NoRow
      /\ session # NoRow
      /\ session.user = u /\ session.device = DefaultDevice[u]

\* What a script that has died leaves behind never makes a later one fail: one
\* fails only if somebody else has committed since it started.
SeedsRecover ==
  [][\A s \in Seeder :
       pc[s] # "failed" /\ pc'[s] = "failed" => s \in disturbed]_vars
=============================================================================
