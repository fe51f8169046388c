------------------------------ MODULE Migration ------------------------------
(***************************************************************************)
(* Who creates and upgrades the schema, and who may serve on it:           *)
(* app/migrate.py, the lifespan of app/main.py, db.connect.                *)
(*                                                                         *)
(*   start     look (open validate begin apply stamp ... commit) check     *)
(*             serving                                                     *)
(*   migrate        open validate begin apply stamp ... commit             *)
(*                                                                         *)
(* Opening the file creates it, empty, before anything is locked; the      *)
(* revisions are applied in one transaction under the write lock.  A       *)
(* process may be killed or fail at any step, and the file may be lost.    *)
(* Services and migrations may be under way at once.                       *)
(*                                                                         *)
(* A database is the schema (what each revision added), the revision that  *)
(* alembic has recorded (0: it has no table for it) and rows.              *)
(***************************************************************************)
EXTENDS Connection, Integers, FiniteSets

CONSTANTS
    Services,   \* the processes that run the service; the others run make migrate
    Found,      \* what may be there at first
    Rows,       \* what clients write
    MaxFaults   \* bound on kills and failures

ASSUME ServicesAssumption == Services \subseteq Requests
ASSUME FoundAssumption ==
    Found \subseteq {"missing", "empty", "legacy", "unknown", "first", "second", "head"}
ASSUME MaxFaultsAssumption == MaxFaults \in Nat

VARIABLES
    file,       \* there is a file at DATABASE_PATH; without one db is Empty
    lost,       \* the file has been lost once
    process,    \* the runs of the service (mode start) and of make migrate
    faults

vars == <<connection, file, lost, process, faults>>

Head == 3
Part == <<"baseline", "commission_bps", "commission_kopecks">>
Schema(revision) == {Part[r] : r \in 1..revision}

Empty == [schema |-> {}, revision |-> 0, rows |-> {}]
Content(found) ==
    CASE found = "legacy" -> [schema |-> {"baseline"}, revision |-> 0, rows |-> {"old"}]
      [] found = "unknown" -> [schema |-> {"strangers"}, revision |-> 0, rows |-> {}]
      [] found = "first" -> [schema |-> Schema(1), revision |-> 1, rows |-> {"old"}]
      [] found = "second" -> [schema |-> Schema(2), revision |-> 2, rows |-> {"old"}]
      [] found = "head" -> [schema |-> Schema(3), revision |-> 3, rows |-> {"old"}]
      [] OTHER -> Empty

(* Deviation: the service upgrades a new file to the second revision.       *)
AtRestBehind == [step |-> "idle", mode |-> "none", goal |-> Head - 1]

AtRest == [step |-> "idle", mode |-> "none", goal |-> Head]

Init == /\ \E found \in Found : /\ ConnectionInit(Content(found))
                                /\ file = (found # "missing")
        /\ lost = FALSE /\ faults = 0
        /\ process = [p \in Requests |-> AtRest]

At(p, step) == process[p].step = step
Goto(p, step) == process' = [process EXCEPT ![p].step = step]
World == <<file, lost, faults>>

-----------------------------------------------------------------------------
LaunchStart(p) == /\ At(p, "idle") /\ p \in Services
                  /\ process' = [process EXCEPT ![p] =
                        [step |-> "look", mode |-> "start", goal |-> AtRest.goal]]
                  /\ UNCHANGED <<connection, World>>

LaunchMigrate(p) ==
    /\ At(p, "idle") /\ p \notin Services
    /\ \E goal \in 1..Head :
          process' = [process EXCEPT ![p] = [step |-> "open", mode |-> "migrate", goal |-> goal]]
    /\ UNCHANGED <<connection, World>>

(* lifespan: init_db only where there is no file.                          *)
Look(p) == /\ At(p, "look")
           /\ Goto(p, IF file THEN "check" ELSE "open")
           /\ UNCHANGED <<connection, World>>

(* sqlite3.connect(path), without mode=rw.                                 *)
Open(p) == /\ At(p, "open")
           /\ file' = TRUE
           /\ Goto(p, "validate")
           /\ UNCHANGED <<connection, lost, faults>>

(* Deviation: any schema will do.                                           *)
AnySchema(rows) == TRUE

(* validate_legacy, before the lock is taken: nothing yet, a database      *)
(* alembic knows, or exactly the baseline.                                 *)
Recognised(rows) == rows.revision > 0 \/ rows.schema \in {{}, Schema(1)}

Validate(p) == /\ At(p, "validate") /\ Recognised(View(p))
               /\ Goto(p, "begin")
               /\ UNCHANGED <<connection, World>>

(* The engine opens the file anew.                                         *)
Begin(p) == /\ At(p, "begin") /\ BeginImmediate(p)
            /\ file' = TRUE
            /\ Goto(p, "apply")
            /\ UNCHANGED <<lost, faults>>

Behind(p) == View(p).revision < process[p].goal
NextRevision(p) == View(p).revision + 1

(* Deviation: the tables are made anew.                                     *)
Rebuilt(rows, revision) ==
    [rows EXCEPT !.schema = @ \cup {Part[revision]}, !.rows = {}]

(* CREATE TABLE IF NOT EXISTS, ALTER TABLE ADD COLUMN ... DEFAULT 0.       *)
Upgraded(rows, revision) == [rows EXCEPT !.schema = @ \cup {Part[revision]}]

(* Deviation: every statement commits.                                      *)
ApplyAtOnce(p) ==
    /\ At(p, "apply") /\ Behind(p)
    /\ db' = Upgraded(View(p), NextRevision(p)) /\ image' = db'
    /\ Goto(p, "stamp")
    /\ UNCHANGED <<writer, copying, World>>

(* command.upgrade: each missing revision, up to the one asked for.        *)
Apply(p) ==
    /\ At(p, "apply") /\ Behind(p)
    /\ Execute(p, Upgraded(View(p), NextRevision(p)))
    /\ Goto(p, "stamp")
    /\ UNCHANGED World

(* alembic records the revision.                                           *)
Stamp(p) ==
    /\ At(p, "stamp")
    /\ Execute(p, [View(p) EXCEPT !.revision = NextRevision(p)])
    /\ Goto(p, "apply")
    /\ UNCHANGED World

Committed(p) ==
    /\ At(p, "apply") /\ ~Behind(p) /\ Commit(p)
    /\ IF process[p].mode = "start" THEN Goto(p, "check")
       ELSE process' = [process EXCEPT ![p] = AtRest]
    /\ UNCHANGED World

(* Deviation: any revision that a backup may have.                          *)
AcceptsOlder(rows) == rows.revision \in 1..Head

(* check_schema: the recorded revision, then every table and column.       *)
AtHead(rows) == rows.revision = Head /\ Schema(Head) \subseteq rows.schema

(* lifespan, second half: connect with mode=rw, which creates nothing.     *)
Check(p) == /\ At(p, "check") /\ file /\ AtHead(View(p))
            /\ Goto(p, "serving")
            /\ UNCHANGED <<connection, World>>

(* A request that writes; without a file or a table it is answered 503.    *)
Serve(p) == /\ At(p, "serving") /\ file /\ Schema(Head) \subseteq db.schema
            /\ \E row \in Rows : ExecuteOutside([db EXCEPT !.rows = @ \cup {row}])
            /\ UNCHANGED <<file, lost, process, faults>>

-----------------------------------------------------------------------------
(* What the code raises by itself: an unknown schema, a lock that is not   *)
(* free, a schema that is not at head, a file that is not there.           *)
Raises(p) == \/ At(p, "validate") /\ ~Recognised(View(p))
             \/ At(p, "begin") /\ ~LockFree(p)
             \/ At(p, "check") /\ ~(file /\ AtHead(View(p)))

(* Deviation: the transaction is left open.                                 *)
EndsHolding(p) == /\ process' = [process EXCEPT ![p] = AtRest]
                  /\ UNCHANGED <<connection, file, lost>>

Ends(p) == /\ Rollback(p)
           /\ process' = [process EXCEPT ![p] = AtRest]
           /\ UNCHANGED <<file, lost>>

GiveUp(p) == Raises(p) /\ Ends(p) /\ UNCHANGED faults

Stop(p) == At(p, "serving") /\ Ends(p) /\ UNCHANGED faults

(* A kill, or an error of the disk, at any step.                           *)
Fault(p) == /\ ~At(p, "idle") /\ faults < MaxFaults
            /\ faults' = faults + 1
            /\ Ends(p)

(* The file is lost while no transaction is open.                          *)
Lose == /\ file /\ writer = NoOne /\ faults < MaxFaults
        /\ faults' = faults + 1
        /\ file' = FALSE /\ lost' = TRUE
        /\ db' = Empty /\ image' = Empty
        /\ UNCHANGED <<writer, copying, process>>

Step(p) == \/ Look(p) \/ Open(p) \/ Validate(p) \/ Begin(p) \/ Apply(p) \/ Stamp(p)
           \/ Committed(p) \/ Check(p) \/ GiveUp(p)

Next == \/ \E p \in Requests : \/ LaunchStart(p) \/ LaunchMigrate(p)
                               \/ Step(p) \/ Serve(p) \/ Stop(p) \/ Fault(p)
        \/ Lose

Spec == Init /\ [][Next]_vars

(* A service that has ended is started again, as docker does, and every    *)
(* process that can go on does; nobody has to migrate.                     *)
Restarted == /\ Spec
             /\ \A p \in Services : WF_vars(Step(p)) /\ WF_vars(LaunchStart(p))

-----------------------------------------------------------------------------
Schemas == SUBSET ({"strangers"} \cup Schema(Head))
Databases == [schema : Schemas, revision : 0..Head, rows : SUBSET (Rows \cup {"old"})]

TypeOK ==
    /\ db \in Databases /\ image \in Databases
    /\ writer \in Requests \cup {NoOne} /\ copying = FALSE
    /\ file \in BOOLEAN /\ lost \in BOOLEAN /\ faults \in 0..MaxFaults
    /\ process \in [Requests ->
          [step : {"idle", "look", "open", "validate", "begin", "apply", "stamp", "check", "serving"},
           mode : {"none", "start", "migrate"}, goal : 1..Head]]
    /\ ~file => db = Empty
    /\ \A p \in Requests : writer = p => process[p].step \in {"apply", "stamp"}

(* docs/lr3.md:117: whoever dies where, the committed schema is that of the *)
(* revision it records, never one half upgraded.                           *)
SchemaFitsRevision ==
    IF db.revision = 0 THEN db.schema \in {{}, Schema(1), {"strangers"}}
    ELSE db.schema = Schema(db.revision)

(* docs/lr3.md:123: a process that serves does so on the schema it was      *)
(* written for, while others migrate or start, unless its file is lost.    *)
ServesAtHead == (\E p \in Requests : At(p, "serving")) /\ ~lost =>
                   db.revision = Head /\ db.schema = Schema(Head)

(* An upgrade loses no row and goes to no older revision, also when two of *)
(* them and a service run at once.                                         *)
ForwardOnly == [][file /\ file' => /\ db.rows \subseteq db'.rows
                                   /\ db.revision <= db'.revision]_vars

(* docs/lr3.md:117: a schema that is not ours is left as it is, although   *)
(* it is looked at before the lock is taken.                               *)
StrangersUntouched == [][file /\ file' /\ "strangers" \in db.schema => db' = db]_vars

(* docs/lr3.md:126: a service that starts without a file, and is started    *)
(* again as often as it ends, serves at last, although two of them find no *)
(* file at once; but nothing may kill one, and nobody migrate elsewhere.   *)
Undisturbed == faults = 0 /\ \A p \in Requests \ Services : At(p, "idle")
FirstStartServes == ~file /\ []Undisturbed => <>(\E p \in Requests : At(p, "serving"))
=============================================================================
