--------------------------- MODULE MigrationProofs ---------------------------
(***************************************************************************)
(* For any number of services and migrations: the committed schema is that *)
(* of its revision, what serves stands at head, nothing goes backwards and *)
(* a foreign schema stays as it is.                                        *)
(*                                                                         *)
(* validate_legacy looks before the lock is taken; Begun says what is left *)
(* of its verdict: the database is still not a foreign one.  Ahead is what *)
(* a commit needs: the image of the transaction is the committed database, *)
(* upgraded by whole revisions but for the one that still lacks its stamp. *)
(***************************************************************************)
EXTENDS Migration, TLAPS

Foreign == {"strangers"}
Holding == {"apply", "stamp"}      \* the steps of an open transaction

(* What a revision of 0 may be: nothing, the baseline without its stamp,    *)
(* or somebody else's tables.                                              *)
Fits(rows) == IF rows.revision = 0 THEN rows.schema \in {{}, Schema(1), Foreign}
              ELSE rows.schema = Schema(rows.revision)

LockFits ==
    /\ writer = NoOne => image = db
    /\ writer # NoOne => file
    /\ \A p \in Requests : process[p].step \in Holding <=> writer = p

Begun == \A p \in Requests :
            process[p].step \in {"begin"} \cup Holding => db.schema # Foreign

Later(p) == db.rows \subseteq image.rows /\ db.revision <= image.revision

Ahead == \A p \in Requests :
    /\ At(p, "apply") => Later(p) /\ Fits(image) /\ image.schema # Foreign
    /\ At(p, "stamp") => /\ Later(p) /\ Behind(p)
                         /\ image.schema = Schema(image.revision + 1)

IInv == TypeOK /\ LockFits /\ Fits(db) /\ Begun /\ Ahead /\ ServesAtHead

-----------------------------------------------------------------------------
(* The schemas of the four revisions, one by one.                          *)
LEMMA SchemaTable ==
    /\ Schema(0) = {}
    /\ Schema(1) = {"baseline"}
    /\ Schema(2) = {"baseline", "commission_bps"}
    /\ Schema(3) = {"baseline", "commission_bps", "commission_kopecks"}
  <1>1. Part[1] = "baseline" /\ Part[2] = "commission_bps" /\ Part[3] = "commission_kopecks"
    BY DEF Part
  <1>2. 1..0 = {} /\ 1..1 = {1} /\ 1..2 = {1, 2} /\ 1..3 = {1, 2, 3}
    OBVIOUS
  <1>3. QED
    BY <1>1, <1>2 DEF Schema

(* Each revision adds its part; none is a foreign schema; all are typed.    *)
LEMMA SchemaGrows ==
    ASSUME NEW n \in 0..2
    PROVE  Schema(n + 1) = Schema(n) \cup {Part[n + 1]}
  <1>1. Part[1] = "baseline" /\ Part[2] = "commission_bps" /\ Part[3] = "commission_kopecks"
    BY DEF Part
  <1>2. n \in {0, 1, 2}
    OBVIOUS
  <1>3. CASE n = 0
    BY <1>1, <1>3, SchemaTable
  <1>4. CASE n = 1
    BY <1>1, <1>4, SchemaTable
  <1>5. CASE n = 2
    BY <1>1, <1>5, SchemaTable
  <1>6. QED
    BY <1>2, <1>3, <1>4, <1>5

LEMMA SchemaOurs ==
    ASSUME NEW n \in 0..Head
    PROVE  /\ "strangers" \notin Schema(n)
           /\ Schema(n) # Foreign
           /\ Schema(n) \in Schemas
  <1>1. n \in {0, 1, 2, 3}
    BY DEF Head
  <1>2. QED
    BY <1>1, SchemaTable DEF Schemas, Foreign, Head

(* A fitting database at the revision of head has exactly head's schema.    *)
LEMMA FitsTyped ==
    ASSUME NEW rows, rows.revision \in 0..Head, Fits(rows)
    PROVE  /\ rows.schema \in Schemas
           /\ "strangers" \in rows.schema => rows.schema = Foreign
           /\ rows.schema # Foreign /\ rows.revision < Head =>
                 rows.schema \cup {Part[rows.revision + 1]} = Schema(rows.revision + 1)
  <1>1. rows.schema \in Schemas
    BY SchemaOurs, SchemaTable DEF Fits, Schemas, Foreign, Head
  <1>2. "strangers" \in rows.schema => rows.schema = Foreign
    BY SchemaOurs, SchemaTable DEF Fits, Foreign, Head
  <1>3. ASSUME rows.schema # Foreign, rows.revision < Head
        PROVE  rows.schema \cup {Part[rows.revision + 1]} = Schema(rows.revision + 1)
    <2>1. rows.revision \in 0..2
      BY <1>3 DEF Head
    <2>2. CASE rows.revision = 0
      <3>1. rows.schema \in {{}, {"baseline"}} /\ Part[1] = "baseline"
        BY <1>3, <2>2, SchemaTable DEF Fits, Part
      <3>2. QED
        BY <3>1, <2>2, SchemaTable
    <2>3. CASE rows.revision # 0
      BY <2>1, <2>3, SchemaGrows DEF Fits
    <2>4. QED
      BY <2>2, <2>3
  <1>4. QED
    BY <1>1, <1>2, <1>3

-----------------------------------------------------------------------------
Steps == {"idle", "look", "open", "validate", "begin", "apply", "stamp", "check", "serving"}
Processes == [step : Steps, mode : {"none", "start", "migrate"}, goal : 1..Head]

(* Only process p has moved, into a step outside the transaction.           *)
MovesTo(p) == /\ process' \in [Requests -> Processes]
              /\ \A q \in Requests \ {p} : process'[q] = process[q]
              /\ process'[p].step \notin Holding

LEMMA Move ==
    ASSUME TypeOK, NEW p \in Requests, NEW new \in Processes,
           process' = [process EXCEPT ![p] = new]
    PROVE  /\ process' \in [Requests -> Processes]
           /\ process'[p] = new
           /\ \A q \in Requests \ {p} : process'[q] = process[q]
  BY DEF TypeOK, Processes, Steps

LEMMA GotoMoves ==
    ASSUME TypeOK, NEW p \in Requests, NEW step \in Steps, Goto(p, step)
    PROVE  /\ process' \in [Requests -> Processes]
           /\ process'[p].step = step
           /\ process'[p].goal = process[p].goal
           /\ \A q \in Requests \ {p} : process'[q] = process[q]
  BY DEF TypeOK, Processes, Steps, Goto

(* Where the database stays as it is and nobody enters or leaves a          *)
(* transaction, only the two steps that claim something of the database    *)
(* need a word: begin and serving.                                         *)
LEMMA Quiet ==
    ASSUME IInv, NEW p \in Requests, MovesTo(p), process[p].step \notin Holding,
           UNCHANGED <<connection, lost>>, file' \in {file, TRUE}, faults' \in 0..MaxFaults,
           process'[p].step = "begin" => db.schema # Foreign,
           process'[p].step = "serving" /\ ~lost => db.revision = Head /\ db.schema = Schema(Head)
    PROVE  IInv'
  <1> USE DEF connection
  <1>1. TypeOK'
    BY NoOneAssumption DEF IInv, TypeOK, MovesTo, Processes, Steps, Databases, Holding, LockFits
  <1>2. LockFits'
    BY DEF IInv, LockFits, MovesTo
  <1>3. Fits(db)'
    BY DEF IInv, Fits
  <1>4. Begun'
    BY DEF IInv, Begun, MovesTo
  <1>5. Ahead'
    BY DEF IInv, Ahead, MovesTo, At, Later, Behind, View, Fits, Holding
  <1>6. ServesAtHead'
    BY DEF IInv, ServesAtHead, MovesTo, At
  <1>7. QED
    BY <1>1, <1>2, <1>3, <1>4, <1>5, <1>6 DEF IInv

(* A process that ends gives its transaction up.                           *)
LEMMA Ending ==
    ASSUME IInv, NEW p \in Requests, Ends(p), faults' \in 0..MaxFaults
    PROVE  IInv'
  <1> USE DEF connection
  <1>0. AtRest \in Processes /\ AtRest.step = "idle"
    BY DEF AtRest, Processes, Steps, Head
  <1>1. /\ process' \in [Requests -> Processes]
        /\ process'[p] = AtRest
        /\ \A q \in Requests \ {p} : process'[q] = process[q]
    BY <1>0, Move DEF IInv, Ends
  <1>2. UNCHANGED <<db, copying, file, lost>>
    BY DEF Ends, Rollback
  <1>3. /\ writer' = IF writer = p THEN NoOne ELSE writer
        /\ image' = IF writer = p THEN db ELSE image
    BY DEF Ends, Rollback
  <1>4. TypeOK'
    BY <1>1, <1>2, <1>3, NoOneAssumption
       DEF IInv, TypeOK, Processes, Steps, Databases, Holding, LockFits
  <1>5. LockFits'
    BY <1>0, <1>1, <1>2, <1>3, NoOneAssumption DEF IInv, LockFits, Holding
  <1>6. Fits(db)'
    BY <1>2 DEF IInv, Fits
  <1>7. Begun'
    BY <1>0, <1>1, <1>2 DEF IInv, Begun, Holding
  <1>8. Ahead'
    BY <1>0, <1>1, <1>2, <1>3 DEF IInv, Ahead, At, Later, Behind, View, Fits, Holding, LockFits
  <1>9. ServesAtHead'
    BY <1>0, <1>1, <1>2 DEF IInv, ServesAtHead, At
  <1>10. QED
    BY <1>4, <1>5, <1>6, <1>7, <1>8, <1>9 DEF IInv

(* An upgrade only starts under the lock on what was recognised before.     *)
LEMMA Beginning ==
    ASSUME IInv, NEW p \in Requests, Begin(p)
    PROVE  IInv'
  <1> USE DEF connection
  <1>1. /\ process' \in [Requests -> Processes]
        /\ process'[p].step = "apply"
        /\ process'[p].goal = process[p].goal
        /\ \A q \in Requests \ {p} : process'[q] = process[q]
    BY GotoMoves DEF IInv, Begin, Steps
  <1>2. /\ writer = NoOne /\ writer' = p /\ image = db
        /\ UNCHANGED <<db, image, copying, lost, faults>> /\ file' = TRUE
        /\ process[p].step = "begin"
    BY DEF IInv, LockFits, Begin, BeginImmediate, At
  <1>3. TypeOK'
    BY <1>1, <1>2, NoOneAssumption
       DEF IInv, TypeOK, Processes, Steps, Databases, Holding, LockFits
  <1>4. LockFits'
    BY <1>1, <1>2, NoOneAssumption DEF IInv, LockFits, Holding
  <1>5. Fits(db)'
    BY <1>2 DEF IInv, Fits
  <1>6. Begun'
    BY <1>1, <1>2 DEF IInv, Begun, Holding
  <1>7. Ahead'
    <2>1. \A q \in Requests \ {p} : ~At(q, "apply")' /\ ~At(q, "stamp")'
      BY <1>1, <1>2, NoOneAssumption DEF IInv, LockFits, Holding, At
    <2>2. Later(p)' /\ Fits(image)' /\ (image.schema # Foreign)'
      BY <1>2 DEF IInv, Begun, Later, TypeOK, Databases, Fits, Head
    <2>3. QED
      BY <1>1, <2>1, <2>2 DEF Ahead, At
  <1>8. ServesAtHead'
    BY <1>1, <1>2 DEF IInv, ServesAtHead, At
  <1>9. QED
    BY <1>3, <1>4, <1>5, <1>6, <1>7, <1>8 DEF IInv

(* Statements under the lock: the image is rows now, and step follows.      *)
LEMMA Executing ==
    ASSUME IInv, NEW p \in Requests, process[p].step \in Holding,
           NEW rows \in Databases, Execute(p, rows),
           NEW step \in Holding, Goto(p, step), UNCHANGED World,
           db.rows \subseteq rows.rows, db.revision <= rows.revision,
           step = "apply" => Fits(rows) /\ rows.schema # Foreign,
           step = "stamp" => /\ rows.revision < process[p].goal
                             /\ rows.schema = Schema(rows.revision + 1)
    PROVE  IInv'
  <1> USE DEF connection, World
  <1>1. /\ process' \in [Requests -> Processes]
        /\ process'[p].step = step
        /\ process'[p].goal = process[p].goal
        /\ \A q \in Requests \ {p} : process'[q] = process[q]
    BY GotoMoves DEF IInv, Steps, Holding
  <1>2. /\ writer = p /\ writer' = p /\ image' = rows
        /\ UNCHANGED <<db, copying, lost, faults, file>>
    BY DEF IInv, LockFits, Execute
  <1>3. TypeOK'
    BY <1>1, <1>2, NoOneAssumption
       DEF IInv, TypeOK, Processes, Steps, Holding, LockFits
  <1>4. LockFits'
    BY <1>1, <1>2, NoOneAssumption DEF IInv, LockFits, Holding
  <1>5. Fits(db)'
    BY <1>2 DEF IInv, Fits
  <1>6. Begun'
    BY <1>1, <1>2 DEF IInv, Begun, Holding
  <1>7. Ahead'
    <2>1. \A q \in Requests \ {p} : ~At(q, "apply")' /\ ~At(q, "stamp")'
      BY <1>1, <1>2 DEF IInv, LockFits, Holding, At
    <2>2. Later(p)'
      BY <1>2 DEF Later
    <2>3. step = "apply" => Fits(image)' /\ (image.schema # Foreign)'
      BY <1>2 DEF Fits
    <2>4. step = "stamp" => Behind(p)' /\ (image.schema = Schema(image.revision + 1))'
      BY <1>1, <1>2 DEF Behind, View, Schema, Part
    <2>5. QED
      BY <1>1, <2>1, <2>2, <2>3, <2>4 DEF Ahead, At
  <1>8. ServesAtHead'
    BY <1>1, <1>2 DEF IInv, ServesAtHead, At, Holding
  <1>9. QED
    BY <1>3, <1>4, <1>5, <1>6, <1>7, <1>8 DEF IInv

LEMMA Applying ==
    ASSUME IInv, NEW p \in Requests, Apply(p)
    PROVE  IInv'
  <1> DEFINE rows == Upgraded(image, image.revision + 1)
  <1>1. /\ process[p].step = "apply" /\ writer = p /\ View(p) = image
        /\ image \in Databases /\ process[p].goal \in 1..Head
        /\ image.revision < process[p].goal
    BY DEF IInv, LockFits, Holding, Apply, At, Behind, View, TypeOK
  <1>2. Later(p) /\ Fits(image) /\ image.schema # Foreign
    BY <1>1 DEF IInv, Ahead, At
  <1>3. image.revision \in 0..Head /\ image.revision < Head
    BY <1>1 DEF Databases, Head
  <1>4. image.schema \cup {Part[image.revision + 1]} = Schema(image.revision + 1)
    BY <1>2, <1>3, FitsTyped
  <1>5. /\ rows.schema = Schema(rows.revision + 1)
        /\ rows.revision = image.revision /\ rows.rows = image.rows
    BY <1>1, <1>4 DEF Upgraded, Databases
  <1>6. rows \in Databases
    <2>1. Schema(image.revision + 1) \in Schemas
      BY <1>3, SchemaOurs DEF Head
    <2>2. QED
      BY <1>1, <1>4, <2>1 DEF Upgraded, Databases
  <1>7. /\ Execute(p, rows) /\ Goto(p, "stamp") /\ UNCHANGED World
        /\ db.rows \subseteq rows.rows /\ db.revision <= rows.revision
        /\ rows.revision < process[p].goal
    BY <1>1, <1>2, <1>5 DEF Apply, NextRevision, Later
  <1> HIDE DEF rows
  <1>8. QED
    BY <1>1, <1>5, <1>6, <1>7, Executing DEF Holding

LEMMA Stamping ==
    ASSUME IInv, NEW p \in Requests, Stamp(p)
    PROVE  IInv'
  <1> DEFINE rows == [image EXCEPT !.revision = image.revision + 1]
  <1>1. /\ process[p].step = "stamp" /\ writer = p /\ View(p) = image
        /\ image \in Databases /\ process[p].goal \in 1..Head
    BY DEF IInv, LockFits, Holding, Stamp, At, View, TypeOK
  <1>2. /\ Later(p) /\ image.revision < process[p].goal
        /\ image.schema = Schema(image.revision + 1)
    BY <1>1 DEF IInv, Ahead, At, Behind
  <1>3. image.revision \in 0..Head /\ image.revision < Head /\ db.revision \in 0..Head
    BY <1>1, <1>2 DEF Databases, Head, IInv, TypeOK
  <1>4. /\ rows.revision = image.revision + 1 /\ rows.schema = image.schema
        /\ rows.rows = image.rows /\ rows \in Databases
    BY <1>1, <1>3 DEF Databases, Head
  <1>5. Fits(rows) /\ rows.schema # Foreign
    <2>1. rows.revision \in 0..Head /\ rows.revision # 0
      BY <1>3, <1>4 DEF Head
    <2>2. rows.schema = Schema(rows.revision)
      BY <1>2, <1>4
    <2>3. QED
      BY <2>1, <2>2, SchemaOurs DEF Fits
  <1>6. /\ Execute(p, rows) /\ Goto(p, "apply") /\ UNCHANGED World
        /\ db.rows \subseteq rows.rows /\ db.revision <= rows.revision
    BY <1>1, <1>2, <1>3, <1>4 DEF Stamp, NextRevision, Later
  <1> HIDE DEF rows
  <1>7. QED
    BY <1>1, <1>4, <1>5, <1>6, Executing DEF Holding

(* A commit publishes whole revisions only; what serves loses nothing.      *)
LEMMA Committing ==
    ASSUME IInv, NEW p \in Requests, Committed(p)
    PROVE  IInv'
  <1> USE DEF connection, World
  <1>0. AtRest \in Processes /\ AtRest.step = "idle"
    BY DEF AtRest, Processes, Steps, Head
  <1>1. \E new \in Processes : /\ process' = [process EXCEPT ![p] = new]
                               /\ new.step \in {"idle", "check"}
    <2>1. CASE process[p].mode = "start"
      <3>1. [process[p] EXCEPT !.step = "check"] \in Processes
        BY DEF IInv, TypeOK, Processes, Steps
      <3>2. [process[p] EXCEPT !.step = "check"].step = "check"
        BY DEF IInv, TypeOK
      <3>3. process' = [process EXCEPT ![p] = [process[p] EXCEPT !.step = "check"]]
        BY <2>1 DEF Committed, Goto
      <3>4. QED
        BY <3>1, <3>2, <3>3
    <2>2. CASE process[p].mode # "start"
      BY <2>2, <1>0 DEF Committed
    <2>3. QED
      BY <2>1, <2>2
  <1>2. /\ process' \in [Requests -> Processes]
        /\ process'[p].step \in {"idle", "check"}
        /\ \A q \in Requests \ {p} : process'[q] = process[q]
    BY <1>1, Move DEF IInv
  <1>3. /\ process[p].step = "apply" /\ writer = p /\ writer' = NoOne
        /\ db' = image /\ UNCHANGED <<image, copying, file, lost, faults>>
    BY DEF IInv, LockFits, Holding, Committed, At, Commit, View
  <1>4. Later(p) /\ Fits(image) /\ image.schema # Foreign
    BY <1>3 DEF IInv, Ahead, At
  <1>5. file /\ \A q \in Requests \ {p} : process[q].step \notin Holding
    BY <1>3, NoOneAssumption DEF IInv, LockFits
  <1>6. TypeOK'
    BY <1>2, <1>3, <1>5, NoOneAssumption DEF IInv, TypeOK, Processes, Steps, Holding
  <1>7. LockFits'
    BY <1>2, <1>3, <1>5, NoOneAssumption DEF LockFits, Holding
  <1>8. Fits(db)'
    BY <1>3, <1>4 DEF Fits
  <1>9. Begun'
    BY <1>3, <1>4 DEF Begun
  <1>10. Ahead'
    BY <1>2, <1>5 DEF Ahead, At, Holding
  <1>11. ServesAtHead'
    <2> SUFFICES ASSUME \E q \in Requests : At(q, "serving")', ~lost
                 PROVE  image.revision = Head /\ image.schema = Schema(Head)
      BY <1>3 DEF ServesAtHead, Schema, Part, Head
    <2>1. \E q \in Requests : At(q, "serving")
      BY <1>2 DEF At
    <2>2. db.revision = Head
      BY <2>1 DEF IInv, ServesAtHead
    <2>3. image.revision = Head
      BY <1>4, <2>2 DEF Later, Head, IInv, TypeOK, Databases
    <2>4. QED
      BY <1>4, <2>3 DEF Fits, Head
  <1>12. QED
    BY <1>6, <1>7, <1>8, <1>9, <1>10, <1>11 DEF IInv

(* A request of a client adds a row and touches nothing else.              *)
LEMMA Serving ==
    ASSUME IInv, NEW p \in Requests, Serve(p)
    PROVE  IInv'
  <1>1. PICK row \in Rows : ExecuteOutside([db EXCEPT !.rows = @ \cup {row}])
    BY DEF Serve
  <1>2. /\ writer = NoOne /\ db' = [db EXCEPT !.rows = @ \cup {row}] /\ image' = db'
        /\ file /\ UNCHANGED <<writer, copying, file, lost, process, faults>>
    BY <1>1 DEF Serve, ExecuteOutside
  <1>3. /\ db' \in Databases /\ db'.schema = db.schema /\ db'.revision = db.revision
    BY <1>2 DEF IInv, TypeOK, Databases
  <1>4. \A q \in Requests : process[q].step \notin Holding
    BY <1>2, NoOneAssumption DEF IInv, LockFits
  <1>5. TypeOK'
    BY <1>2, <1>3 DEF IInv, TypeOK
  <1>6. LockFits'
    BY <1>2 DEF IInv, LockFits
  <1>7. Fits(db)'
    BY <1>3 DEF IInv, Fits
  <1>8. Begun'
    BY <1>2, <1>3 DEF IInv, Begun
  <1>9. Ahead'
    BY <1>2, <1>4 DEF Ahead, At, Holding
  <1>10. ServesAtHead'
    BY <1>2, <1>3 DEF IInv, ServesAtHead, At
  <1>11. QED
    BY <1>5, <1>6, <1>7, <1>8, <1>9, <1>10 DEF IInv

(* A lost file leaves an empty database, which is what a new one fits.      *)
LEMMA Losing ==
    ASSUME IInv, Lose
    PROVE  IInv'
  <1>1. /\ writer = NoOne /\ db' = Empty /\ image' = Empty /\ lost' = TRUE /\ file' = FALSE
        /\ UNCHANGED <<writer, copying, process>> /\ faults' \in 0..MaxFaults
    BY MaxFaultsAssumption DEF Lose, IInv, TypeOK
  <1>2. /\ Empty \in Databases /\ Empty.schema = {} /\ Empty.revision = 0
    BY DEF Empty, Databases, Schemas, Head
  <1>3. \A q \in Requests : process[q].step \notin Holding
    BY <1>1, NoOneAssumption DEF IInv, LockFits
  <1>4. TypeOK'
    BY <1>1, <1>2 DEF IInv, TypeOK
  <1>5. LockFits'
    BY <1>1 DEF IInv, LockFits
  <1>6. Fits(db)'
    BY <1>1, <1>2 DEF Fits
  <1>7. Begun'
    BY <1>1, <1>2 DEF Begun, Foreign
  <1>8. Ahead'
    BY <1>1, <1>3 DEF Ahead, At, Holding
  <1>9. ServesAtHead'
    BY <1>1 DEF ServesAtHead
  <1>10. QED
    BY <1>4, <1>5, <1>6, <1>7, <1>8, <1>9 DEF IInv

-----------------------------------------------------------------------------
(* Every content that may be found fits its revision.                      *)
LEMMA Starting ==
    ASSUME Init
    PROVE  IInv
  <1>1. PICK found \in Found : ConnectionInit(Content(found)) /\ file = (found # "missing")
    BY DEF Init
  <1>2. found \in {"missing", "empty", "legacy", "unknown", "first", "second", "head"}
    BY FoundAssumption
  <1>3. /\ db = Content(found) /\ image = db /\ writer = NoOne /\ copying = FALSE
        /\ file = (found # "missing") /\ lost = FALSE /\ faults = 0
        /\ process = [p \in Requests |-> AtRest]
    BY <1>1 DEF Init, ConnectionInit
  <1>4. \A p \in Requests : process[p] = AtRest /\ process[p].step = "idle"
    BY <1>3 DEF AtRest
  <1>5. AtRest \in Processes
    BY DEF AtRest, Processes, Steps, Head
  <1>6. Content(found) \in Databases /\ Fits(Content(found))
    <2>1. CASE found = "missing" \/ found = "empty"
      <3>1. Content(found) = Empty
        BY <2>1 DEF Content
      <3>2. QED
        BY <3>1 DEF Empty, Databases, Schemas, Head, Fits
    <2>2. CASE found = "legacy"
      <3>1. Content(found) = [schema |-> {"baseline"}, revision |-> 0, rows |-> {"old"}]
        BY <2>2 DEF Content
      <3>2. {"baseline"} \in Schemas
        BY SchemaTable DEF Schemas, Head
      <3>3. QED
        BY <3>1, <3>2, SchemaTable DEF Databases, Head, Fits
    <2>3. CASE found = "unknown"
      <3>1. Content(found) = [schema |-> {"strangers"}, revision |-> 0, rows |-> {}]
        BY <2>3 DEF Content
      <3>2. QED
        BY <3>1 DEF Databases, Schemas, Head, Fits, Foreign
    <2>4. ASSUME NEW n \in 1..3,
                 Content(found) = [schema |-> Schema(n), revision |-> n, rows |-> {"old"}]
          PROVE  Content(found) \in Databases /\ Fits(Content(found))
      <3>1. Schema(n) \in Schemas
        BY SchemaOurs DEF Head
      <3>2. QED
        BY <2>4, <3>1 DEF Databases, Head, Fits
    <2>5. CASE found = "first"
      BY <2>4, <2>5 DEF Content
    <2>6. CASE found = "second"
      BY <2>4, <2>6 DEF Content
    <2>7. CASE found = "head"
      BY <2>4, <2>7 DEF Content
    <2>8. QED
      BY <1>2, <2>1, <2>2, <2>3, <2>5, <2>6, <2>7
  <1>7. TypeOK
    <2>1. ~file => db = Empty
      BY <1>3 DEF Content
    <2>2. process \in [Requests -> Processes]
      BY <1>3, <1>5
    <2>3. file \in BOOLEAN /\ lost \in BOOLEAN /\ faults \in 0..MaxFaults
      <3>1. (found # "missing") \in BOOLEAN
        OBVIOUS
      <3>2. file \in BOOLEAN
        BY <1>3, <3>1, Zenon
      <3>3. lost \in BOOLEAN
        BY <1>3, Zenon
      <3>4. faults \in 0..MaxFaults
        BY <1>3, MaxFaultsAssumption, SMT
      <3>5. QED
        BY <3>2, <3>3, <3>4
    <2>4. db \in Databases /\ image \in Databases /\ writer \in Requests \cup {NoOne}
      BY <1>3, <1>6
    <2>5. \A p \in Requests : writer = p => process[p].step \in {"apply", "stamp"}
      BY <1>3, NoOneAssumption
    <2>6. QED
      BY <1>3, <2>1, <2>2, <2>3, <2>4, <2>5 DEF TypeOK, Processes, Steps
  <1>8. LockFits
    BY <1>3, <1>4, NoOneAssumption DEF LockFits, Holding
  <1>9. Begun /\ Ahead /\ ServesAtHead
    BY <1>4 DEF Begun, Ahead, ServesAtHead, At, Holding
  <1>10. QED
    BY <1>3, <1>6, <1>7, <1>8, <1>9 DEF IInv

LEMMA Stepping ==
    ASSUME IInv, [Next]_vars
    PROVE  IInv'
  <1>0. faults \in 0..MaxFaults /\ process \in [Requests -> Processes]
    BY DEF IInv, TypeOK, Processes, Steps
  <1>1. CASE UNCHANGED vars
    BY <1>1 DEF vars, connection, IInv, TypeOK, LockFits, Fits, Begun, Ahead, ServesAtHead,
                At, Later, Behind, View
  <1>2. CASE Lose
    BY <1>2, Losing
  <1>3. ASSUME NEW p \in Requests, LaunchStart(p) \/ LaunchMigrate(p)
        PROVE  IInv'
    <2>1. PICK new \in Processes : /\ process' = [process EXCEPT ![p] = new]
                                   /\ new.step \in {"look", "open"}
      <3>1. CASE LaunchStart(p)
        <4>1. [step |-> "look", mode |-> "start", goal |-> AtRest.goal] \in Processes
          BY DEF AtRest, Processes, Steps, Head
        <4>2. QED
          BY <3>1, <4>1 DEF LaunchStart
      <3>2. CASE LaunchMigrate(p)
        <4>1. PICK goal \in 1..Head :
                 process' = [process EXCEPT ![p] = [step |-> "open", mode |-> "migrate",
                                                    goal |-> goal]]
          BY <3>2 DEF LaunchMigrate
        <4>2. [step |-> "open", mode |-> "migrate", goal |-> goal] \in Processes
          BY DEF Processes, Steps
        <4>3. QED
          BY <4>1, <4>2
      <3>3. QED
        BY <1>3, <3>1, <3>2
    <2>2. MovesTo(p)
      BY <2>1, Move DEF IInv, MovesTo, Holding
    <2>3. process[p].step \notin Holding /\ process'[p].step \in {"look", "open"}
      BY <1>3, <2>1, Move DEF IInv, LaunchStart, LaunchMigrate, At, Holding
    <2>4. UNCHANGED <<connection, lost>> /\ file' = file /\ faults' = faults
      BY <1>3 DEF LaunchStart, LaunchMigrate, World
    <2>5. QED
      BY <1>0, <2>2, <2>3, <2>4, Quiet
  <1>4. ASSUME NEW p \in Requests, NEW step \in {"look", "open", "validate", "begin", "check", "serving"},
               Goto(p, step), process[p].step \notin Holding,
               UNCHANGED <<connection, lost, faults>>, file' \in {file, TRUE},
               step = "begin" => db.schema # Foreign,
               step = "serving" /\ ~lost => db.revision = Head /\ db.schema = Schema(Head)
        PROVE  IInv'
    <2>1. MovesTo(p) /\ process'[p].step = step
      BY <1>4, GotoMoves DEF IInv, MovesTo, Holding, Steps
    <2>2. QED
      BY <1>0, <1>4, <2>1, Quiet
  <1>5. ASSUME NEW p \in Requests, Look(p)
        PROVE  IInv'
    BY <1>4, <1>5 DEF Look, World, At, Holding
  <1>6. ASSUME NEW p \in Requests, Open(p)
        PROVE  IInv'
    BY <1>4, <1>6 DEF Open, At, Holding
  <1>7. ASSUME NEW p \in Requests, Validate(p)
        PROVE  IInv'
    <2>1. View(p) = db
      BY <1>7 DEF Validate, At, View, IInv, LockFits, Holding
    <2>2. db.schema # Foreign
      <3>1. CASE db.revision > 0
        BY <3>1, SchemaOurs DEF IInv, Fits, TypeOK, Databases, Head
      <3>2. CASE db.schema \in {{}, Schema(1)}
        BY <3>2, SchemaOurs DEF Foreign, Head
      <3>3. QED
        BY <1>7, <2>1, <3>1, <3>2 DEF Validate, Recognised
    <2>3. QED
      BY <1>4, <1>7, <2>2 DEF Validate, World, At, Holding
  <1>8. ASSUME NEW p \in Requests, Check(p)
        PROVE  IInv'
    <2>1. View(p) = db
      BY <1>8 DEF Check, At, View, IInv, LockFits, Holding
    <2>2. db.revision = Head /\ db.schema = Schema(Head)
      BY <1>8, <2>1 DEF Check, AtHead, IInv, Fits, Head
    <2>3. QED
      BY <1>4, <1>8, <2>2 DEF Check, World, At, Holding
  <1>9. ASSUME NEW p \in Requests, GiveUp(p) \/ Stop(p) \/ Fault(p)
        PROVE  IInv'
    <2>1. Ends(p) /\ faults' \in 0..MaxFaults
      BY <1>0, <1>9, MaxFaultsAssumption DEF GiveUp, Stop, Fault
    <2>2. QED
      BY <2>1, Ending
  <1>10. QED
    BY <1>1, <1>2, <1>3, <1>5, <1>6, <1>7, <1>8, <1>9,
       Beginning, Applying, Stamping, Committing, Serving DEF Next, Step

-----------------------------------------------------------------------------
(* Every reachable state of the upgrade satisfies the strengthened          *)
(* invariant the theorems below are read off.                              *)
THEOREM Invariance == Spec => []IInv
  <1>1. Init => IInv
    BY Starting
  <1>2. IInv /\ [Next]_vars => IInv'
    BY Stepping
  <1>3. QED
    BY <1>1, <1>2, PTL DEF Spec

(* The database and every process keep their types, a missing file holds    *)
(* nothing and only a process inside its upgrade holds the write lock.      *)
THEOREM TypeCorrect == Spec => []TypeOK
  <1>1. IInv => TypeOK
    BY DEF IInv
  <1>2. QED
    BY <1>1, Invariance, PTL

(* docs/lr3.md:117: whatever dies where, the committed schema is that of    *)
(* the revision it records, in the transaction of app/migrate.py.           *)
THEOREM SchemaCorrect == Spec => []SchemaFitsRevision
  <1>1. IInv => SchemaFitsRevision
    BY DEF IInv, Fits, SchemaFitsRevision, Foreign
  <1>2. QED
    BY <1>1, Invariance, PTL

(* docs/lr3.md:123: what check_schema let serve stands at head for as long  *)
(* as the file is there, whoever else starts or migrates.                  *)
THEOREM ServingAtHead == Spec => []ServesAtHead
  <1>1. IInv => ServesAtHead
    BY DEF IInv
  <1>2. QED
    BY <1>1, Invariance, PTL

-----------------------------------------------------------------------------
(* What a step does to a database whose file stays: nothing, a row of a     *)
(* client, or the commit of an upgrade.                                    *)
LEMMA Changes ==
    ASSUME IInv, [Next]_vars, file, file'
    PROVE  \/ db' = db
           \/ \E p \in Requests : Serve(p)
           \/ \E p \in Requests : Committed(p)
  <1>1. CASE UNCHANGED vars
    BY <1>1 DEF vars, connection
  <1>2. CASE Lose
    BY <1>2 DEF Lose
  <1>3. ASSUME NEW p \in Requests, LaunchStart(p) \/ LaunchMigrate(p) \/ Look(p) \/ Open(p)
                                     \/ Validate(p) \/ Check(p)
        PROVE  db' = db
    BY <1>3 DEF LaunchStart, LaunchMigrate, Look, Open, Validate, Check, connection
  <1>4. ASSUME NEW p \in Requests, Begin(p) \/ Apply(p) \/ Stamp(p)
        PROVE  db' = db
    BY <1>4 DEF Begin, BeginImmediate, Apply, Stamp, Execute
  <1>5. ASSUME NEW p \in Requests, GiveUp(p) \/ Stop(p) \/ Fault(p)
        PROVE  db' = db
    BY <1>5 DEF GiveUp, Stop, Fault, Ends, Rollback
  <1>6. QED
    BY <1>1, <1>2, <1>3, <1>4, <1>5 DEF Next, Step

(* A commit of the upgrade: from a database that is ours to one that has    *)
(* its rows and a revision no older.                                       *)
LEMMA CommitsLater ==
    ASSUME IInv, NEW p \in Requests, Committed(p)
    PROVE  db' = image /\ Later(p) /\ db.schema # Foreign
  BY DEF Committed, Commit, View, At, IInv, LockFits, Holding, Ahead, Begun

(* A client only adds a row, to a database that is not a foreign one.       *)
LEMMA ServesOurs ==
    ASSUME IInv, NEW p \in Requests, Serve(p)
    PROVE  /\ db.rows \subseteq db'.rows /\ db'.revision = db.revision
           /\ db.schema # Foreign
  <1>1. PICK row \in Rows : ExecuteOutside([db EXCEPT !.rows = @ \cup {row}])
    BY DEF Serve
  <1>2. db' = [db EXCEPT !.rows = @ \cup {row}]
    BY <1>1 DEF ExecuteOutside
  <1>3. db.rows \subseteq db'.rows /\ db'.revision = db.revision
    BY <1>2 DEF IInv, TypeOK, Databases
  <1>4. "baseline" \in db.schema
    BY SchemaTable DEF Serve, Head
  <1>5. QED
    BY <1>3, <1>4 DEF Foreign

(* An upgrade of app/migrate.py loses no row and goes to no older           *)
(* revision, however many of them and of the services run at once.         *)
THEOREM UpgradesGoForward == Spec => ForwardOnly
  <1>1. ASSUME IInv, [Next]_vars, file, file'
        PROVE  db.rows \subseteq db'.rows /\ db.revision <= db'.revision
    <2>1. db.revision \in 0..Head
      BY <1>1 DEF IInv, TypeOK, Databases
    <2>2. CASE db' = db
      BY <2>1, <2>2 DEF Head
    <2>3. CASE \E p \in Requests : Serve(p)
      BY <1>1, <2>1, <2>3, ServesOurs DEF Head
    <2>4. CASE \E p \in Requests : Committed(p)
      BY <1>1, <2>4, CommitsLater DEF Later
    <2>5. QED
      BY <1>1, <2>2, <2>3, <2>4, Changes
  <1>2. IInv /\ [Next]_vars =>
           [file /\ file' => db.rows \subseteq db'.rows /\ db.revision <= db'.revision]_vars
    BY <1>1
  <1>3. QED
    BY <1>2, Invariance, PTL DEF Spec, ForwardOnly

(* docs/lr3.md:117: nothing the service or make migrate does changes a     *)
(* schema that is not ours, although the verdict on it is older than the   *)
(* lock.                                                                   *)
THEOREM ForeignUntouched == Spec => StrangersUntouched
  <1>1. ASSUME IInv, [Next]_vars, file, file', "strangers" \in db.schema
        PROVE  db' = db
    <2>1. db.schema = Foreign
      BY <1>1, FitsTyped DEF IInv, TypeOK, Databases
    <2>2. QED
      BY <1>1, <2>1, Changes, CommitsLater, ServesOurs
  <1>2. IInv /\ [Next]_vars =>
           [file /\ file' /\ "strangers" \in db.schema => db' = db]_vars
    BY <1>1
  <1>3. QED
    BY <1>2, Invariance, PTL DEF Spec, StrangersUntouched
=============================================================================
