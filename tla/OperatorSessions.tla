--------------------------- MODULE OperatorSessions ---------------------------
(***************************************************************************)
(* app/auth.py: the registration of the one operator, logins, requests     *)
(* that show a session cookie, and logouts, each on a connection of its    *)
(* own.  Time is the server's clock; a session row carries the time at     *)
(* which it expires.                                                       *)
(*                                                                         *)
(*   register_first_user   begin -> check -> write -> answer -> commit     *)
(*   create_session                user -> write -> answer -> commit       *)
(*   user_from_session     session -> work -> answer -> commit             *)
(*                         session -> expire, refused                      *)
(*   delete_session               delete -> answer -> commit               *)
(*                                                                         *)
(* work stands for whatever protected handler runs after the session was   *)
(* accepted (the business ones are AuctionService's).                      *)
(***************************************************************************)
EXTENDS Integers, FiniteSets, Connection

CONSTANTS
    Names,      \* user names, casefolded
    Tokens,     \* hashes of session tokens
    NoToken,    \* a request without a cookie
    Ttl,        \* SESSION_TTL_HOURS
    MaxWait,    \* bound: clock ticks one login may spend between stamp and commit
    MaxTime     \* bound: the clock stops there

ASSUME TimeAssumption == Ttl \in Nat /\ MaxWait \in Nat /\ MaxTime \in Nat
(* A lock is waited for five seconds, a session lasts at least an hour.    *)
ASSUME WaitAssumption == MaxWait < Ttl
ASSUME NoTokenAssumption == NoToken \notin Tokens

Session == [token : Tokens, user : Names, expires : Nat]
Tables == [users : [Names -> {"none", "active", "inactive"}], sessions : SUBSET Session]
EmptyTables == [users |-> [n \in Names |-> "none"], sessions |-> {}]

(* good: the password matches the stored hash.                             *)
Operations ==
    [kind : {"register"}, name : Names]
        \cup [kind : {"login"}, name : Names, good : BOOLEAN, now : Nat]
        \cup [kind : {"protected", "logout"}, token : Tokens \cup {NoToken}]
NoOperation == [kind |-> "none"]

Labels == {"idle", "begin", "check", "user", "session", "expire", "delete", "write",
           "work", "answer", "commit"}

VARIABLES at, op, now
vars == <<connection, at, op, now>>

Init == /\ ConnectionInit(EmptyTables)
        /\ at = [r \in Requests |-> "idle"]
        /\ op = [r \in Requests |-> NoOperation]
        /\ now = 0

Goto(r, label) == at' = [at EXCEPT ![r] = label] /\ UNCHANGED <<op, now>>
Leave(r) == /\ at' = [at EXCEPT ![r] = "idle"]
            /\ op' = [op EXCEPT ![r] = NoOperation]
            /\ UNCHANGED now

-----------------------------------------------------------------------------
Registered(d) == {n \in Names : d.users[n] # "none"}
registration_is_open(d) == Registered(d) = {}

SessionsOf(d, token) == {s \in d.sessions : s.token = token}
Live(s, time) == s.expires > time

(* Deviations: no purge, and a purge of what has one tick left.             *)
NotPurged(d, time) == d
PurgedEarly(d, time) == [d EXCEPT !.sessions = {s \in @ : Live(s, time + 1)}]

(* DELETE FROM sessions WHERE expires_at <= time.                          *)
Purged(d, time) == [d EXCEPT !.sessions = {s \in @ : Live(s, time)}]
SessionAdded(d, s) == [d EXCEPT !.sessions = @ \cup {s}]
SessionDeleted(d, token) == [d EXCEPT !.sessions = @ \ SessionsOf(d, token)]

(* secrets.token_urlsafe(32): a token no row and no request has.  Were one   *)
(* ever drawn twice, UNIQUE (token_hash) of migrations/baseline.sql would   *)
(* make the INSERT fail: a StorageError.                                   *)
Fresh(token) == /\ SessionsOf(db, token) = {} /\ SessionsOf(image, token) = {}
                /\ \A q \in Requests : op[q].kind \in {"protected", "logout"} =>
                                          op[q].token # token

-----------------------------------------------------------------------------
FirstLabel(kind) == CASE kind = "register" -> "begin" [] kind = "login" -> "user"
                      [] kind = "protected" -> "session" [] kind = "logout" -> "delete"

(* A login's now is read later, by ReadUser.                               *)
Receive(r) ==
    /\ at[r] = "idle"
    /\ \E o \in [kind : {"register"}, name : Names]
                   \cup [kind : {"login"}, name : Names, good : BOOLEAN, now : {0}]
                   \cup [kind : {"protected", "logout"}, token : Tokens \cup {NoToken}] :
          /\ op' = [op EXCEPT ![r] = o]
          /\ at' = [at EXCEPT ![r] = FirstLabel(o.kind)]
    /\ UNCHANGED <<connection, now>>

Begin(r) == at[r] = "begin" /\ BeginImmediate(r) /\ Goto(r, "check")

CheckRegistration(r) == /\ at[r] = "check" /\ registration_is_open(View(r))
                        /\ Goto(r, "write") /\ UNCHANGED connection

(* INSERT INTO users, after hashing the password.                          *)
CreateUser(r) ==
    /\ at[r] = "write" /\ op[r].kind = "register"
    /\ Execute(r, [View(r) EXCEPT !.users[op[r].name] = "active"])
    /\ Goto(r, "answer")

(* Deviation: the stamp of a clock that is behind.                          *)
ReadUserBehind(r) ==
    /\ at[r] = "user" /\ op[r].good /\ View(r).users[op[r].name] = "active"
    /\ op' = [op EXCEPT ![r].now = now - 1]
    /\ at' = [at EXCEPT ![r] = "write"]
    /\ UNCHANGED <<connection, now>>

(* The user row and the password; then now is taken, before the write lock. *)
ReadUser(r) ==
    /\ at[r] = "user" /\ op[r].good /\ View(r).users[op[r].name] = "active"
    /\ op' = [op EXCEPT ![r].now = now]
    /\ at' = [at EXCEPT ![r] = "write"]
    /\ UNCHANGED <<connection, now>>

(* DELETE of the expired sessions and INSERT of the new one.               *)
CreateSession(r) ==
    /\ at[r] = "write" /\ op[r].kind = "login"
    /\ \E token \in Tokens :
          /\ Fresh(token)
          /\ Execute(r, SessionAdded(Purged(View(r), op[r].now),
                                     [token |-> token, user |-> op[r].name,
                                      expires |-> op[r].now + Ttl]))
    /\ Goto(r, "answer")

(* user_from_session: the row, its expiry, the user's activity.            *)
Admit(r) ==
    /\ at[r] = "session"
    /\ \E s \in SessionsOf(View(r), op[r].token) :
          Live(s, now) /\ View(r).users[s.user] = "active"
    /\ Goto(r, "work") /\ UNCHANGED connection

(* An expired row is found: its DELETE still has to be executed.           *)
FindExpired(r) ==
    /\ at[r] = "session"
    /\ \E s \in SessionsOf(View(r), op[r].token) : ~Live(s, now)
    /\ Goto(r, "expire") /\ UNCHANGED connection

Work(r) == at[r] = "work" /\ Goto(r, "answer") /\ UNCHANGED connection

(* delete_session; no cookie, no statement.                                *)
Logout(r) ==
    /\ at[r] = "delete"
    /\ IF op[r].token = NoToken
       THEN UNCHANGED connection
       ELSE Execute(r, SessionDeleted(View(r), op[r].token))
    /\ Goto(r, "answer")

(* 409, 401 or 403: rolled back, and with it the DELETE of an expired row.  *)
Refuse(r) ==
    /\ \/ at[r] = "check" /\ ~registration_is_open(View(r))
       \/ at[r] = "user" /\ ~(op[r].good /\ View(r).users[op[r].name] = "active")
       \/ at[r] = "session" /\ SessionsOf(View(r), op[r].token) = {}
       \/ /\ at[r] = "session"
          /\ \E s \in SessionsOf(View(r), op[r].token) :
                Live(s, now) /\ View(r).users[s.user] = "inactive"
       \/ at[r] = "expire" /\ LockFree(r)
    /\ Rollback(r) /\ Leave(r)

Answer(r) == at[r] = "answer" /\ Goto(r, "commit") /\ UNCHANGED connection
Finish(r) == at[r] = "commit" /\ Commit(r) /\ Leave(r)

Unavailable(r) ==
    /\ at[r] \in {"begin", "write", "expire", "delete"}
    /\ op[r] # [kind |-> "logout", token |-> NoToken]
    /\ WaitTimesOut(r) /\ Leave(r)
StorageError(r) == at[r] # "idle" /\ Rollback(r) /\ Leave(r)

Crash == /\ LoseTransactions
         /\ at' = [r \in Requests |-> "idle"] /\ op' = [r \in Requests |-> NoOperation]
         /\ UNCHANGED now

(* The clock.  No login is kept waiting longer than MaxWait.               *)
Stamped(r) == op[r].kind = "login" /\ at[r] \in {"write", "answer", "commit"}
Tick == /\ now < MaxTime
        /\ \A r \in Requests : Stamped(r) => now < op[r].now + MaxWait
        /\ now' = now + 1 /\ UNCHANGED <<connection, at, op>>

(* UPDATE users SET is_active = ..., by another program.                   *)
Switch == /\ \E n \in Registered(db), activity \in {"active", "inactive"} :
                ExecuteOutside([db EXCEPT !.users[n] = activity])
          /\ UNCHANGED <<at, op, now>>

Step(r) == \/ Begin(r) \/ CheckRegistration(r) \/ CreateUser(r) \/ ReadUser(r)
           \/ CreateSession(r) \/ Admit(r) \/ FindExpired(r) \/ Work(r) \/ Logout(r)
           \/ Refuse(r) \/ Answer(r) \/ Finish(r) \/ Unavailable(r)

Next == \/ \E r \in Requests : Receive(r) \/ Step(r) \/ StorageError(r)
        \/ Crash \/ Tick \/ Switch

Spec == Init /\ [][Next]_vars

-----------------------------------------------------------------------------
(* Rows, labels and operations have their shapes; no copy is ever made here. *)
TypeOK == /\ db \in Tables /\ image \in Tables
          /\ writer \in Requests \cup {NoOne} /\ copying = FALSE
          /\ at \in [Requests -> Labels]
          /\ op \in [Requests -> Operations \cup {NoOperation}]
          /\ now \in 0..MaxTime

(* The first registration closes registration for good: however many       *)
(* clients register at once, one user is ever created.                     *)
OneOperator ==
    /\ Cardinality(Registered(db)) <= 1
    /\ \A r \in Requests : at[r] = "commit" /\ writer = r =>
          Cardinality(Registered(image)) <= 1

(* A session is removed only once it has expired or by a logout that shows *)
(* its token: no login's purge, with its older now, takes a live one.      *)
LiveSessionsStay ==
    [][\A s \in db.sessions : Live(s, now) /\ s \notin db'.sessions =>
          \E r \in Requests : /\ at[r] = "commit" /\ op[r].kind = "logout"
                              /\ op[r].token = s.token]_vars

(* The purge of the logins keeps the table in one Ttl window, although the *)
(* DELETE of user_from_session never takes effect.                         *)
SessionsPurged == \A s, t \in db.sessions : s.expires - t.expires < Ttl
=============================================================================
