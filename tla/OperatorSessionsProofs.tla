------------------------ MODULE OperatorSessionsProofs ------------------------
(***************************************************************************)
(* For any number of requests, names, tokens and lifetimes: one operator,  *)
(* sessions that live as long as they should and leave only expired or by  *)
(* a logout.                                                               *)
(*                                                                         *)
(* The lock makes registration_is_open still true when the user is         *)
(* written; a login reads the clock before it has the lock, so its stamp   *)
(* may be MaxWait old, and what it purges then had expired long before.    *)
(***************************************************************************)
EXTENDS OperatorSessions, FiniteSetTheorems, TLAPS

(* What a database keeps, committed or not, as the clock stands.            *)
Sound(d) ==
    /\ \A m, n \in Registered(d) : m = n
    /\ \A s \in d.sessions : s.expires <= now + Ttl
    /\ \A s, t \in d.sessions : s.expires - t.expires < Ttl

(* The sessions a transaction takes away, and why.                          *)
Changed(o) == \A s \in db.sessions \ image.sessions :
                 \/ o.kind = "login" /\ s.expires <= o.now
                 \/ o.kind = "logout" /\ s.token = o.token

Kinds(r) == /\ at[r] \in {"begin", "check"} => op[r].kind = "register"
            /\ at[r] = "user" => op[r].kind = "login"
            /\ at[r] = "delete" => op[r].kind = "logout"
            /\ at[r] \in {"session", "expire", "work"} => op[r].kind = "protected"
            /\ at[r] = "write" => op[r].kind \in {"register", "login"}

Holds(r) == /\ at[r] = "check" => writer = r
            /\ at[r] = "write" /\ op[r].kind = "register" =>
                  writer = r /\ Registered(image) = {}
            /\ writer = r => \/ /\ at[r] \in {"check", "write"}
                                /\ op[r].kind = "register" /\ image = db
                             \/ at[r] \in {"answer", "commit"} /\ Changed(op[r])

Recent(r) == Stamped(r) => op[r].now <= now /\ now <= op[r].now + MaxWait

Fits(r) == Kinds(r) /\ Holds(r) /\ Recent(r)

IInv == /\ TypeOK
        /\ writer = NoOne => image = db
        /\ Sound(db) /\ Sound(image)
        /\ \A r \in Requests : Fits(r)

-----------------------------------------------------------------------------
Logins == [kind : {"login"}, name : Names, good : BOOLEAN, now : Nat]

LEMMA OperationKinds ==
    ASSUME NEW o \in Operations \cup {NoOperation}
    PROVE  /\ o.kind = "register" => o.name \in Names
           /\ o.kind = "login" => o \in Logins
           /\ o.kind = "logout" => o.token \in Tokens \cup {NoToken}
  BY DEF Operations, NoOperation, Logins

(* What a transaction of request r sees is typed and sound.                *)
LEMMA ViewSound ==
    ASSUME IInv, NEW r \in Requests
    PROVE  View(r) \in Tables /\ Sound(View(r))
  BY DEF IInv, TypeOK, View

(* Only request r has moved, and neither the connection nor the clock.      *)
LEMMA Moving ==
    ASSUME IInv, NEW r \in Requests, UNCHANGED <<connection, now>>,
           at' \in [Requests -> Labels], op' \in [Requests -> Operations \cup {NoOperation}],
           \A q \in Requests \ {r} : at'[q] = at[q] /\ op'[q] = op[q],
           Fits(r)'
    PROVE  IInv'
  <1> USE DEF connection
  <1>1. TypeOK'
    BY DEF IInv, TypeOK
  <1>2. (writer = NoOne => image = db)' /\ Sound(db)' /\ Sound(image)'
    BY DEF IInv, Sound, Registered
  <1>3. ASSUME NEW q \in Requests \ {r}
        PROVE  Fits(q)'
    <2>1. at'[q] = at[q] /\ op'[q] = op[q] /\ Fits(q)
      BY DEF IInv
    <2>2. Kinds(q)' /\ Recent(q)'
      BY <2>1 DEF Fits, Kinds, Recent, Stamped
    <2>3. Holds(q)'
      BY <2>1 DEF Fits, Holds, Changed, Registered
    <2>4. QED
      BY <2>2, <2>3 DEF Fits
  <1>4. QED
    BY <1>1, <1>2, <1>3 DEF IInv

LEMMA Going ==
    ASSUME TypeOK, NEW r \in Requests, NEW label \in Labels, Goto(r, label)
    PROVE  /\ at' \in [Requests -> Labels] /\ at'[r] = label
           /\ op' \in [Requests -> Operations \cup {NoOperation}]
           /\ UNCHANGED <<op, now>>
           /\ \A q \in Requests \ {r} : at'[q] = at[q] /\ op'[q] = op[q]
  BY DEF TypeOK, Goto

LEMMA Leaving ==
    ASSUME TypeOK, NEW r \in Requests, Leave(r)
    PROVE  /\ at' \in [Requests -> Labels] /\ at'[r] = "idle"
           /\ op' \in [Requests -> Operations \cup {NoOperation}]
           /\ now' = now
           /\ \A q \in Requests \ {r} : at'[q] = at[q] /\ op'[q] = op[q]
  BY DEF TypeOK, Leave, Labels

(* A request that has left fits wherever it does not hold the lock.         *)
LEMMA IdleFits ==
    ASSUME NEW r \in Requests, at'[r] = "idle", writer' # r
    PROVE  Fits(r)'
  BY DEF Fits, Kinds, Holds, Recent, Stamped

(* A step that keeps the others out of the lock's way keeps what they fit.  *)
LEMMA OthersFit ==
    ASSUME IInv, NEW r \in Requests, NEW q \in Requests \ {r},
           at'[q] = at[q], op'[q] = op[q], now' = now,
           writer \in {NoOne, r}, writer' \in {NoOne, r}
    PROVE  Fits(q)'
  <1>1. Fits(q) /\ writer # q /\ writer' # q
    BY NoOneAssumption DEF IInv
  <1>2. Kinds(q)' /\ Recent(q)'
    BY <1>1 DEF Fits, Kinds, Recent, Stamped
  <1>3. Holds(q)'
    BY <1>1 DEF Fits, Holds
  <1>4. QED
    BY <1>2, <1>3 DEF Fits

(* Rolled back, request r has left no trace.                               *)
LEMMA RollingBack ==
    ASSUME IInv, NEW r \in Requests, Rollback(r), Leave(r)
    PROVE  IInv'
  <1>1. CASE writer # r
    <2>1. UNCHANGED <<connection, now>>
      BY <1>1, Leaving DEF IInv, Rollback, connection
    <2>2. Fits(r)'
      BY <1>1, <2>1, IdleFits, Leaving DEF IInv, connection
    <2>3. QED
      BY <2>1, <2>2, Leaving, Moving DEF IInv
  <1>2. CASE writer = r
    <2>1. writer' = NoOne /\ image' = db /\ UNCHANGED <<db, copying, now>>
      BY <1>2, Leaving DEF IInv, Rollback
    <2>2. TypeOK'
      BY <2>1, Leaving DEF IInv, TypeOK
    <2>3. (writer = NoOne => image = db)' /\ Sound(db)' /\ Sound(image)'
      BY <2>1 DEF IInv, Sound, Registered
    <2>4. Fits(r)'
      BY <2>1, IdleFits, Leaving, NoOneAssumption DEF IInv
    <2>5. \A q \in Requests \ {r} : Fits(q)'
      BY <1>2, <2>1, OthersFit, Leaving DEF IInv
    <2>6. QED
      BY <2>2, <2>3, <2>4, <2>5 DEF IInv
  <1>3. QED
    BY <1>1, <1>2

(* Statements of request r under the lock: rows are sound, and what they    *)
(* lack of the committed sessions has a reason.                            *)
LEMMA Writing ==
    ASSUME IInv, NEW r \in Requests, NEW rows \in Tables, Sound(rows),
           Execute(r, rows), Goto(r, "answer"),
           \A s \in db.sessions \ rows.sessions :
              \/ op[r].kind = "login" /\ s.expires <= op[r].now
              \/ op[r].kind = "logout" /\ s.token = op[r].token,
           op[r].kind = "login" => Recent(r) /\ Stamped(r)
    PROVE  IInv'
  <1>1. /\ writer \in {NoOne, r} /\ writer' = r /\ image' = rows
        /\ UNCHANGED <<db, copying, now, op>>
    BY DEF Execute, LockFree, Goto
  <1>2. at'[r] = "answer" /\ at' \in [Requests -> Labels]
    BY Going DEF IInv, Labels
  <1>3. TypeOK'
    BY <1>1, <1>2 DEF IInv, TypeOK
  <1>4. (writer = NoOne => image = db)'
    BY <1>1, NoOneAssumption
  <1>5. Sound(db)' /\ Sound(image)'
    BY <1>1 DEF IInv, Sound, Registered
  <1>6. Fits(r)'
    <2>1. Kinds(r)'
      BY <1>2 DEF Kinds
    <2>2. Changed(op[r])'
      BY <1>1 DEF Changed
    <2>3. Holds(r)'
      BY <1>1, <1>2, <2>2 DEF Holds
    <2>4. Recent(r)'
      BY <1>1, <1>2 DEF Recent, Stamped
    <2>5. QED
      BY <2>1, <2>3, <2>4 DEF Fits
  <1>7. \A q \in Requests \ {r} : Fits(q)'
    BY <1>1, OthersFit, Going DEF IInv, Labels
  <1>8. QED
    BY <1>3, <1>4, <1>5, <1>6, <1>7 DEF IInv

-----------------------------------------------------------------------------
LEMMA Receiving ==
    ASSUME IInv, NEW r \in Requests, Receive(r)
    PROVE  IInv'
  <1>1. PICK o \in [kind : {"register"}, name : Names]
                     \cup [kind : {"login"}, name : Names, good : BOOLEAN, now : {0}]
                     \cup [kind : {"protected", "logout"}, token : Tokens \cup {NoToken}] :
           /\ op' = [op EXCEPT ![r] = o]
           /\ at' = [at EXCEPT ![r] = FirstLabel(o.kind)]
    BY DEF Receive
  <1>2. o \in Operations /\ o.kind \in {"register", "login", "protected", "logout"}
    BY DEF Operations
  <1>3. /\ FirstLabel(o.kind) \in {"begin", "user", "session", "delete"}
        /\ FirstLabel(o.kind) = "begin" => o.kind = "register"
        /\ FirstLabel(o.kind) = "user" => o.kind = "login"
        /\ FirstLabel(o.kind) = "delete" => o.kind = "logout"
        /\ FirstLabel(o.kind) = "session" => o.kind = "protected"
    BY <1>2 DEF FirstLabel
  <1>4. /\ at' \in [Requests -> Labels] /\ at'[r] = FirstLabel(o.kind)
        /\ op' \in [Requests -> Operations \cup {NoOperation}] /\ op'[r] = o
        /\ \A q \in Requests \ {r} : at'[q] = at[q] /\ op'[q] = op[q]
    BY <1>1, <1>2, <1>3 DEF IInv, TypeOK, Labels
  <1>5. UNCHANGED <<connection, now>> /\ writer # r
    BY DEF Receive, IInv, Fits, Holds
  <1>6. Fits(r)'
    BY <1>3, <1>4, <1>5 DEF Fits, Kinds, Holds, Recent, Stamped, connection
  <1>7. QED
    BY <1>4, <1>5, <1>6, Moving

LEMMA Beginning ==
    ASSUME IInv, NEW r \in Requests, Begin(r)
    PROVE  IInv'
  <1>1. /\ writer = NoOne /\ writer' = r /\ image = db /\ op[r].kind = "register"
        /\ UNCHANGED <<db, image, copying, now, op>>
    BY DEF Begin, BeginImmediate, IInv, Fits, Kinds, Goto
  <1>2. at' \in [Requests -> Labels] /\ at'[r] = "check"
    BY Going DEF IInv, Begin, Labels
  <1>3. TypeOK'
    BY <1>1, <1>2 DEF IInv, TypeOK
  <1>4. (writer = NoOne => image = db)' /\ Sound(db)' /\ Sound(image)'
    BY <1>1, NoOneAssumption DEF IInv, Sound, Registered
  <1>5. Fits(r)'
    BY <1>1, <1>2 DEF Fits, Kinds, Holds, Recent, Stamped
  <1>6. \A q \in Requests \ {r} : Fits(q)'
    BY <1>1, OthersFit, Going DEF IInv, Begin, Labels
  <1>7. QED
    BY <1>3, <1>4, <1>5, <1>6 DEF IInv

(* Under the lock the answer of registration_is_open holds until the write. *)
LEMMA Checking ==
    ASSUME IInv, NEW r \in Requests, CheckRegistration(r)
    PROVE  IInv'
  <1>1. /\ writer = r /\ View(r) = image /\ Registered(image) = {} /\ image = db
        /\ op[r].kind = "register" /\ Goto(r, "write") /\ UNCHANGED connection
    BY DEF CheckRegistration, registration_is_open, View, IInv, Fits, Holds, Kinds
  <1>2. /\ at' \in [Requests -> Labels] /\ at'[r] = "write"
        /\ op' \in [Requests -> Operations \cup {NoOperation}] /\ UNCHANGED <<op, now>>
        /\ \A q \in Requests \ {r} : at'[q] = at[q] /\ op'[q] = op[q]
    BY <1>1, Going DEF IInv, Labels
  <1>3. Fits(r)'
    BY <1>1, <1>2 DEF Fits, Kinds, Holds, Recent, Stamped, connection, Registered
  <1>4. QED
    BY <1>1, <1>2, <1>3, Moving

LEMMA CreatingUser ==
    ASSUME IInv, NEW r \in Requests, CreateUser(r)
    PROVE  IInv'
  <1> DEFINE name == op[r].name
             rows == [image EXCEPT !.users[name] = "active"]
  <1>1. /\ op[r].kind = "register" /\ name \in Names
        /\ writer = r /\ View(r) = image /\ image = db /\ Registered(image) = {}
        /\ image \in Tables
    BY OperationKinds DEF CreateUser, IInv, TypeOK, Fits, Holds, View
  <1>2. rows \in Tables /\ rows.sessions = image.sessions
        /\ \A n \in Names : rows.users[n] = IF n = name THEN "active" ELSE image.users[n]
    BY <1>1 DEF Tables
  <1>3. Sound(rows)
    <2>1. \A n \in Registered(rows) : n = name
      BY <1>1, <1>2 DEF Registered
    <2>2. QED
      BY <1>2, <2>1 DEF IInv, Sound
  <1>4. Execute(r, rows) /\ Goto(r, "answer")
    BY <1>1 DEF CreateUser
  <1> HIDE DEF rows
  <1>5. QED
    BY <1>1, <1>2, <1>3, <1>4, Writing

LEMMA ReadingUser ==
    ASSUME IInv, NEW r \in Requests, ReadUser(r)
    PROVE  IInv'
  <1>1. op[r] \in Logins /\ now \in Nat /\ writer # r
    <2>1. op[r].kind = "login" /\ at[r] = "user"
      BY DEF ReadUser, IInv, Fits, Kinds
    <2>2. op[r] \in Logins
      BY <2>1, OperationKinds DEF IInv, TypeOK
    <2>3. QED
      BY <2>1, <2>2, TimeAssumption DEF IInv, TypeOK, Fits, Holds
  <1> DEFINE stamped == [op[r] EXCEPT !.now = now]
  <1>2. stamped \in Logins /\ stamped.now = now /\ stamped.kind = "login"
    BY <1>1 DEF Logins
  <1>3. stamped \in Operations
    BY <1>2 DEF Operations, Logins
  <1>4. op' = [op EXCEPT ![r] = stamped]
    BY DEF ReadUser
  <1> HIDE DEF stamped
  <1>5. /\ at' \in [Requests -> Labels] /\ at'[r] = "write"
        /\ op' \in [Requests -> Operations \cup {NoOperation}] /\ op'[r] = stamped
        /\ \A q \in Requests \ {r} : at'[q] = at[q] /\ op'[q] = op[q]
    BY <1>3, <1>4 DEF ReadUser, IInv, TypeOK, Labels
  <1>6. UNCHANGED <<connection, now>>
    BY DEF ReadUser
  <1>7. Fits(r)'
    BY <1>1, <1>2, <1>5, <1>6, TimeAssumption
       DEF Fits, Kinds, Holds, Recent, Stamped, connection
  <1>8. QED
    BY <1>5, <1>6, <1>7, Moving

(* The new session expires last but for MaxWait, and the purge before it    *)
(* took only what its stamp, not later than now, says has expired.         *)
LEMMA CreatingSession ==
    ASSUME IInv, NEW r \in Requests, CreateSession(r)
    PROVE  IInv'
  <1> DEFINE o == op[r]
             new(token) == [token |-> token, user |-> o.name, expires |-> o.now + Ttl]
             rows(token) == SessionAdded(Purged(db, o.now), new(token))
  <1>1. /\ o.kind = "login" /\ o.name \in Names /\ o.now \in Nat /\ now \in Nat
        /\ db \in Tables /\ Sound(db) /\ Recent(r) /\ Stamped(r)
    <2>1. o.kind = "login" /\ o \in Logins
      BY OperationKinds DEF CreateSession, IInv, TypeOK
    <2>2. QED
      BY <2>1, TimeAssumption DEF IInv, TypeOK, Logins, Fits, Stamped, CreateSession
  <1>2. o.now <= now /\ now <= o.now + MaxWait
    BY <1>1 DEF Recent
  <1>3. View(r) = db
    BY <1>1 DEF CreateSession, IInv, Fits, Holds, View
  <1>4. PICK token \in Tokens : Execute(r, rows(token))
    BY <1>3 DEF CreateSession
  <1>5. new(token) \in Session /\ new(token).token = token
        /\ new(token).expires = o.now + Ttl
    BY <1>1, TimeAssumption DEF Session
  <1> HIDE DEF new
  <1>6. /\ rows(token) \in Tables /\ rows(token).users = db.users
        /\ rows(token).sessions = {s \in db.sessions : Live(s, o.now)} \cup {new(token)}
    BY <1>1, <1>5 DEF SessionAdded, Purged, Tables
  <1>7. \A s \in db.sessions : /\ s \in Session /\ s.expires \in Nat
                              /\ s.expires <= now + Ttl
    BY <1>1 DEF Tables, Session, Sound
  <1> HIDE DEF rows
  <1>8. Sound(rows(token))
    <2>1. \A m, n \in Registered(rows(token)) : m = n
      BY <1>1, <1>6 DEF Sound, Registered
    <2>2. \A s \in rows(token).sessions : s.expires <= now + Ttl
      BY <1>1, <1>2, <1>5, <1>6, <1>7, TimeAssumption
    <2>3. ASSUME NEW s \in rows(token).sessions, NEW t \in rows(token).sessions
          PROVE  s.expires - t.expires < Ttl
      <3>1. CASE s \in db.sessions /\ t \in db.sessions
        BY <1>1, <3>1 DEF Sound
      <3>2. CASE s = new(token) /\ t = new(token)
        BY <1>1, <1>5, <3>2, TimeAssumption, WaitAssumption
      <3>3. CASE s = new(token) /\ t \in db.sessions /\ Live(t, o.now)
        BY <1>1, <1>5, <1>7, <3>3, TimeAssumption DEF Live
      <3>4. CASE s \in db.sessions /\ t = new(token)
        BY <1>1, <1>2, <1>5, <1>7, <3>4, TimeAssumption, WaitAssumption
      <3>5. QED
        BY <1>6, <3>1, <3>2, <3>3, <3>4
    <2>4. QED
      BY <2>1, <2>2, <2>3 DEF Sound
  <1>9. \A s \in db.sessions \ rows(token).sessions : s.expires <= o.now
    BY <1>1, <1>6, <1>7 DEF Live
  <1>10. Goto(r, "answer")
    BY DEF CreateSession
  <1>11. QED
    BY <1>1, <1>4, <1>6, <1>8, <1>9, <1>10, Writing

LEMMA LoggingOut ==
    ASSUME IInv, NEW r \in Requests, Logout(r)
    PROVE  IInv'
  <1>1. /\ op[r].kind = "logout" /\ Goto(r, "answer") /\ at[r] = "delete"
    BY DEF Logout, IInv, Fits, Kinds
  <1>2. writer # r /\ View(r) = db
    BY <1>1 DEF IInv, Fits, Holds, View
  <1>3. CASE op[r].token = NoToken
    <2>1. UNCHANGED connection
      BY <1>3 DEF Logout
    <2>2. /\ at' \in [Requests -> Labels] /\ at'[r] = "answer"
          /\ op' \in [Requests -> Operations \cup {NoOperation}] /\ UNCHANGED <<op, now>>
          /\ \A q \in Requests \ {r} : at'[q] = at[q] /\ op'[q] = op[q]
      BY <1>1, Going DEF IInv, Labels
    <2>3. Fits(r)'
      BY <1>1, <1>2, <2>1, <2>2 DEF Fits, Kinds, Holds, Recent, Stamped, connection
    <2>4. QED
      BY <2>1, <2>2, <2>3, Moving
  <1>4. CASE op[r].token # NoToken
    <2> DEFINE rows == SessionDeleted(db, op[r].token)
    <2>1. Execute(r, rows)
      BY <1>2, <1>4 DEF Logout
    <2>2. db \in Tables /\ Sound(db)
      BY DEF IInv, TypeOK
    <2>3. /\ rows \in Tables /\ rows.users = db.users
          /\ rows.sessions = db.sessions \ SessionsOf(db, op[r].token)
      BY <2>2 DEF SessionDeleted, Tables
    <2> HIDE DEF rows
    <2>4. Sound(rows)
      BY <2>2, <2>3 DEF Sound, Registered
    <2>5. \A s \in db.sessions \ rows.sessions : s.token = op[r].token
      BY <2>3 DEF SessionsOf
    <2>6. QED
      BY <1>1, <2>1, <2>3, <2>4, <2>5, Writing
  <1>5. QED
    BY <1>3, <1>4

(* A protected request holds nothing and writes nothing of its own.         *)
LEMMA Passing ==
    ASSUME IInv, NEW r \in Requests, Admit(r) \/ FindExpired(r) \/ Work(r)
    PROVE  IInv'
  <1>1. PICK label \in {"work", "expire", "answer"} : Goto(r, label)
    BY DEF Admit, FindExpired, Work
  <1>2. UNCHANGED connection /\ writer # r /\ op[r].kind = "protected"
    BY DEF Admit, FindExpired, Work, IInv, Fits, Kinds, Holds
  <1>3. /\ at' \in [Requests -> Labels] /\ at'[r] = label
        /\ op' \in [Requests -> Operations \cup {NoOperation}] /\ UNCHANGED <<op, now>>
        /\ \A q \in Requests \ {r} : at'[q] = at[q] /\ op'[q] = op[q]
    BY <1>1, Going DEF IInv, Labels
  <1>4. Fits(r)'
    BY <1>2, <1>3 DEF Fits, Kinds, Holds, Recent, Stamped, connection
  <1>5. QED
    BY <1>2, <1>3, <1>4, Moving

LEMMA Answering ==
    ASSUME IInv, NEW r \in Requests, Answer(r)
    PROVE  IInv'
  <1>1. UNCHANGED connection /\ at[r] = "answer" /\ Goto(r, "commit")
    BY DEF Answer
  <1>2. /\ at' \in [Requests -> Labels] /\ at'[r] = "commit"
        /\ op' \in [Requests -> Operations \cup {NoOperation}] /\ UNCHANGED <<op, now>>
        /\ \A q \in Requests \ {r} : at'[q] = at[q] /\ op'[q] = op[q]
    BY <1>1, Going DEF IInv, Labels
  <1>3. Kinds(r)' /\ Recent(r)'
    BY <1>1, <1>2 DEF IInv, Fits, Kinds, Recent, Stamped
  <1>4. Holds(r)'
    BY <1>1, <1>2 DEF IInv, Fits, Holds, Changed, connection
  <1>5. QED
    BY <1>1, <1>2, <1>3, <1>4, Moving DEF Fits

LEMMA GivingUp ==
    ASSUME IInv, NEW r \in Requests, Unavailable(r)
    PROVE  IInv'
  <1>1. UNCHANGED connection /\ writer # r /\ Leave(r)
    BY DEF Unavailable, WaitTimesOut, LockFree
  <1>2. Fits(r)'
    BY <1>1, IdleFits, Leaving DEF IInv, connection
  <1>3. QED
    BY <1>1, <1>2, Leaving, Moving DEF IInv

(* A commit publishes what was sound in the transaction.                   *)
LEMMA Finishing ==
    ASSUME IInv, NEW r \in Requests, Finish(r)
    PROVE  IInv'
  <1>1. Leave(r) /\ UNCHANGED <<image, copying, now>>
    BY DEF Finish, Commit, Leave
  <1>2. CASE writer # r
    <2>1. UNCHANGED connection
      BY <1>2, <1>1 DEF Finish, Commit, View, connection
    <2>2. Fits(r)'
      BY <1>1, <1>2, <2>1, IdleFits, Leaving DEF IInv, connection
    <2>3. QED
      BY <1>1, <2>1, <2>2, Leaving, Moving DEF IInv
  <1>3. CASE writer = r
    <2>1. db' = image /\ writer' = NoOne
      BY <1>3 DEF Finish, Commit, View
    <2>2. TypeOK'
      BY <1>1, <2>1, Leaving DEF IInv, TypeOK
    <2>3. (writer = NoOne => image = db)' /\ Sound(db)' /\ Sound(image)'
      BY <1>1, <2>1 DEF IInv, Sound, Registered
    <2>4. Fits(r)'
      BY <1>1, <2>1, IdleFits, Leaving, NoOneAssumption DEF IInv
    <2>5. \A q \in Requests \ {r} : Fits(q)'
      BY <1>1, <1>3, <2>1, OthersFit, Leaving DEF IInv
    <2>6. QED
      BY <2>2, <2>3, <2>4, <2>5 DEF IInv
  <1>4. QED
    BY <1>2, <1>3

LEMMA Crashing ==
    ASSUME IInv, Crash
    PROVE  IInv'
  <1>1. /\ writer' = NoOne /\ image' = db /\ UNCHANGED <<db, copying, now>>
        /\ at' = [r \in Requests |-> "idle"] /\ op' = [r \in Requests |-> NoOperation]
    BY DEF Crash, LoseTransactions
  <1>2. TypeOK'
    BY <1>1 DEF IInv, TypeOK, Labels
  <1>3. (writer = NoOne => image = db)' /\ Sound(db)' /\ Sound(image)'
    BY <1>1 DEF IInv, Sound, Registered
  <1>4. \A r \in Requests : Fits(r)'
    BY <1>1, IdleFits, NoOneAssumption
  <1>5. QED
    BY <1>2, <1>3, <1>4 DEF IInv

(* No login's stamp grows older than MaxWait.                              *)
LEMMA Ticking ==
    ASSUME IInv, Tick
    PROVE  IInv'
  <1>1. /\ now' = now + 1 /\ now' \in 0..MaxTime /\ now \in Nat
        /\ UNCHANGED <<connection, at, op>>
    BY TimeAssumption DEF Tick, IInv, TypeOK
  <1>2. TypeOK'
    BY <1>1 DEF IInv, TypeOK, connection
  <1>3. ASSUME NEW d \in Tables, Sound(d)
        PROVE  \A s \in d.sessions : s.expires <= now' + Ttl
    BY <1>1, <1>3, TimeAssumption DEF Tables, Session, Sound
  <1>4. Sound(db)' /\ Sound(image)'
    BY <1>1, <1>3 DEF IInv, TypeOK, Sound, Registered, connection
  <1>5. ASSUME NEW r \in Requests
        PROVE  Fits(r)'
    <2>1. Kinds(r)' /\ Holds(r)'
      BY <1>1 DEF IInv, Fits, Kinds, Holds, Changed, Registered, connection
    <2>2. Recent(r)'
      <3> SUFFICES ASSUME Stamped(r)
                   PROVE  op[r].now <= now + 1 /\ now + 1 <= op[r].now + MaxWait
        BY <1>1 DEF Recent, Stamped
      <3>1. op[r].now \in Nat
        BY OperationKinds DEF IInv, TypeOK, Stamped, Logins
      <3>2. op[r].now <= now /\ now < op[r].now + MaxWait
        BY DEF IInv, Fits, Recent, Tick
      <3>3. QED
        BY <1>1, <3>1, <3>2, TimeAssumption
    <2>3. QED
      BY <2>1, <2>2 DEF Fits
  <1>6. QED
    BY <1>1, <1>2, <1>4, <1>5 DEF IInv, connection

(* Another program switches a user who is registered and creates nobody.    *)
LEMMA Switching ==
    ASSUME IInv, Switch
    PROVE  IInv'
  <1>1. PICK n \in Registered(db), activity \in {"active", "inactive"} :
           ExecuteOutside([db EXCEPT !.users[n] = activity])
    BY DEF Switch
  <1> DEFINE rows == [db EXCEPT !.users[n] = activity]
  <1>2. /\ writer = NoOne /\ db' = rows /\ image' = rows
        /\ UNCHANGED <<writer, copying, at, op, now>>
    BY <1>1 DEF Switch, ExecuteOutside
  <1>3. db \in Tables /\ Sound(db) /\ n \in Names
    BY DEF IInv, TypeOK, Registered
  <1>4. rows \in Tables /\ rows.sessions = db.sessions
        /\ \A m \in Names : rows.users[m] = IF m = n THEN activity ELSE db.users[m]
    BY <1>3 DEF Tables
  <1>5. Registered(rows) = Registered(db)
    BY <1>4 DEF Registered
  <1> HIDE DEF rows
  <1>6. Sound(rows)
    BY <1>3, <1>4, <1>5 DEF Sound
  <1>7. TypeOK'
    BY <1>2, <1>4 DEF IInv, TypeOK
  <1>8. Sound(db)' /\ Sound(image)'
    BY <1>2, <1>6 DEF Sound, Registered
  <1>9. ASSUME NEW r \in Requests
        PROVE  Fits(r)'
    <2>1. Fits(r) /\ writer # r
      BY <1>2, NoOneAssumption DEF IInv
    <2>2. Kinds(r)' /\ Holds(r)' /\ Recent(r)'
      BY <1>2, <2>1 DEF Fits, Kinds, Holds, Recent, Stamped
    <2>3. QED
      BY <2>2 DEF Fits
  <1>10. QED
    BY <1>2, <1>7, <1>8, <1>9 DEF IInv

-----------------------------------------------------------------------------
LEMMA Starting ==
    ASSUME Init
    PROVE  IInv
  <1>1. /\ db = EmptyTables /\ image = EmptyTables /\ writer = NoOne /\ copying = FALSE
        /\ at = [r \in Requests |-> "idle"] /\ op = [r \in Requests |-> NoOperation] /\ now = 0
    BY DEF Init, ConnectionInit
  <1>2. EmptyTables \in Tables /\ EmptyTables.sessions = {} /\ Registered(EmptyTables) = {}
    BY DEF EmptyTables, Tables, Registered
  <1>3. TypeOK
    BY <1>1, <1>2, TimeAssumption DEF TypeOK, Labels
  <1>4. Sound(EmptyTables)
    BY <1>2 DEF Sound
  <1>5. \A r \in Requests : Fits(r)
    BY <1>1, NoOneAssumption DEF Fits, Kinds, Holds, Recent, Stamped
  <1>6. QED
    BY <1>1, <1>3, <1>4, <1>5 DEF IInv

LEMMA Stepping ==
    ASSUME IInv, [Next]_vars
    PROVE  IInv'
  <1>1. CASE UNCHANGED vars
    BY <1>1 DEF vars, connection, IInv, TypeOK, Sound, Registered, Fits, Kinds, Holds,
                Recent, Stamped, Changed
  <1>2. ASSUME NEW r \in Requests, Refuse(r) \/ StorageError(r)
        PROVE  IInv'
    BY <1>2, RollingBack DEF Refuse, StorageError
  <1>3. QED
    BY <1>1, <1>2, Receiving, Beginning, Checking, CreatingUser, ReadingUser, CreatingSession,
       LoggingOut, Passing, Answering, GivingUp, Finishing, Crashing, Ticking, Switching
       DEF Next, Step

(* Every reachable state of the sessions satisfies the strengthened         *)
(* invariant the theorems below are read off.                              *)
THEOREM Invariance == Spec => []IInv
  <1>1. Init => IInv
    BY Starting
  <1>2. IInv /\ [Next]_vars => IInv'
    BY Stepping
  <1>3. QED
    BY <1>1, <1>2, PTL DEF Spec

(* Users, sessions, labels and operations keep their types.                *)
THEOREM TypeCorrect == Spec => []TypeOK
  <1>1. IInv => TypeOK
    BY DEF IInv
  <1>2. QED
    BY <1>1, Invariance, PTL

(* register_first_user of app/auth.py: however many clients register at     *)
(* once, one user is ever created, in the database and in what is about to *)
(* be committed.                                                           *)
THEOREM OneOperatorOnly == Spec => []OneOperator
  <1>1. ASSUME NEW d, \A m, n \in Registered(d) : m = n
        PROVE  Cardinality(Registered(d)) <= 1
    <2>1. CASE Registered(d) = {}
      BY <2>1, FS_EmptySet
    <2>2. CASE Registered(d) # {}
      <3>1. PICK n \in Registered(d) : TRUE
        BY <2>2
      <3>2. Registered(d) = {n}
        BY <1>1, <3>1
      <3>3. QED
        BY <3>2, FS_Singleton
    <2>3. QED
      BY <2>1, <2>2
  <1>2. IInv => OneOperator
    BY <1>1 DEF IInv, Sound, OneOperator
  <1>3. QED
    BY <1>2, Invariance, PTL

(* The purge of create_session keeps the table in one window of the Ttl.    *)
THEOREM SessionsPurgedAlways == Spec => []SessionsPurged
  <1>1. IInv => SessionsPurged
    BY DEF IInv, Sound, SessionsPurged
  <1>2. QED
    BY <1>1, Invariance, PTL

-----------------------------------------------------------------------------
(* The committed sessions only change where a request commits what it has   *)
(* written.                                                                *)
LEMMA SessionChanges ==
    ASSUME IInv, [Next]_vars
    PROVE  \/ db'.sessions = db.sessions
           \/ \E r \in Requests : at[r] = "commit" /\ writer = r /\ db' = image
  <1>1. CASE UNCHANGED vars \/ Crash \/ Tick
    BY <1>1 DEF vars, connection, Crash, LoseTransactions, Tick
  <1>2. CASE Switch
    BY <1>2 DEF Switch, ExecuteOutside, IInv, TypeOK, Tables
  <1>3. ASSUME NEW r \in Requests, Finish(r)
        PROVE  db' = db \/ (at[r] = "commit" /\ writer = r /\ db' = image)
    BY <1>3 DEF Finish, Commit, View
  <1>4. ASSUME NEW r \in Requests,
               Receive(r) \/ CheckRegistration(r) \/ ReadUser(r) \/ Admit(r)
                  \/ FindExpired(r) \/ Work(r) \/ Answer(r)
        PROVE  db' = db
    BY <1>4 DEF connection, Receive, CheckRegistration, ReadUser, Admit, FindExpired, Work, Answer
  <1>5. ASSUME NEW r \in Requests,
               Begin(r) \/ CreateUser(r) \/ CreateSession(r) \/ Logout(r)
        PROVE  db' = db
    BY <1>5 DEF connection, Begin, BeginImmediate, CreateUser, CreateSession, Logout, Execute
  <1>6. ASSUME NEW r \in Requests, Refuse(r) \/ Unavailable(r) \/ StorageError(r)
        PROVE  db' = db
    BY <1>6 DEF connection, Refuse, Unavailable, WaitTimesOut, StorageError, Rollback
  <1>7. QED
    BY <1>1, <1>2, <1>3, <1>4, <1>5, <1>6 DEF Next, Step

(* app/auth.py: a live session leaves only by a logout that shows its       *)
(* token, whatever the logins purge with a stamp from before their wait.    *)
THEOREM LiveSessionsRemain == Spec => LiveSessionsStay
  <1>1. ASSUME IInv, [Next]_vars, NEW s \in db.sessions, Live(s, now), s \notin db'.sessions
        PROVE  \E r \in Requests : /\ at[r] = "commit" /\ op[r].kind = "logout"
                                   /\ op[r].token = s.token
    <2>1. PICK r \in Requests : at[r] = "commit" /\ writer = r /\ db' = image
      BY <1>1, SessionChanges
    <2>2. Changed(op[r]) /\ Recent(r) /\ now \in Nat /\ s.expires \in Nat
      BY <1>1, <2>1, TimeAssumption DEF IInv, Fits, Holds, TypeOK, Tables, Session
    <2>3. CASE op[r].kind = "login" /\ s.expires <= op[r].now
      <3>1. op[r].now <= now /\ op[r].now \in Nat
        BY <1>1, <2>1, <2>2, <2>3, OperationKinds DEF Recent, Stamped, IInv, TypeOK, Logins
      <3>2. QED
        BY <1>1, <2>2, <2>3, <3>1 DEF Live
    <2>4. CASE op[r].kind = "logout" /\ s.token = op[r].token
      BY <2>1, <2>4
    <2>5. QED
      BY <1>1, <2>1, <2>2, <2>3, <2>4 DEF Changed
  <1>2. IInv /\ [Next]_vars =>
           [\A s \in db.sessions : Live(s, now) /\ s \notin db'.sessions =>
               \E r \in Requests : /\ at[r] = "commit" /\ op[r].kind = "logout"
                                   /\ op[r].token = s.token]_vars
    BY <1>1
  <1>3. QED
    BY <1>2, Invariance, PTL DEF Spec, LiveSessionsStay
=============================================================================
