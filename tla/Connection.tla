------------------------------ MODULE Connection ------------------------------
(***************************************************************************)
(* SQLite as app/db.py opens it and app/main.py:get_connection drives it:  *)
(* one connection per request, Python's default transaction control and a  *)
(* rollback journal.                                                       *)
(*                                                                         *)
(*   - a SELECT outside a transaction reads the committed database;        *)
(*   - BEGIN IMMEDIATE, or the first INSERT, UPDATE or DELETE, takes the   *)
(*     one write lock; what the transaction has written is its image, seen *)
(*     by itself alone;                                                    *)
(*   - a commit makes the image the database, but not while another        *)
(*     connection is still reading (a backup copying the file);            *)
(*   - a lock that is not free within the timeout raises sqlite3.Error.    *)
(*                                                                         *)
(* The file locking is the library's, modelled from how the service uses   *)
(* it.  While nobody writes, image is the committed database.              *)
(***************************************************************************)
CONSTANTS
    Requests,   \* the requests that may be in flight at once
    NoOne       \* the holder of a free write lock

ASSUME NoOneAssumption == NoOne \notin Requests

VARIABLES
    db,         \* the committed database
    image,      \* the database as the open write transaction sees it
    writer,     \* the request whose connection holds the write lock
    copying     \* a backup is reading the file

connection == <<db, image, writer, copying>>

ConnectionInit(rows) ==
    db = rows /\ image = rows /\ writer = NoOne /\ copying = FALSE

View(r) == IF writer = r THEN image ELSE db

LockFree(r) == writer \in {NoOne, r}

(* Deviation: no transaction around the check and the write.                *)
NoBegin(r) == UNCHANGED connection

(* connection.execute("BEGIN IMMEDIATE").                                  *)
BeginImmediate(r) == /\ writer = NoOne
                     /\ writer' = r
                     /\ UNCHANGED <<db, image, copying>>

(* Statements that write: the first of a connection takes the lock.        *)
Execute(r, rows) == /\ LockFree(r)
                    /\ writer' = r
                    /\ image' = rows
                    /\ UNCHANGED <<db, copying>>

(* connection.commit(); without an open transaction it does nothing.       *)
Commit(r) == /\ ~(writer = r /\ copying)
             /\ db' = View(r)
             /\ writer' = IF writer = r THEN NoOne ELSE writer
             /\ UNCHANGED <<image, copying>>

(* connection.rollback() and close(), on any exception.                    *)
Rollback(r) == /\ writer' = IF writer = r THEN NoOne ELSE writer
               /\ image' = IF writer = r THEN db ELSE image
               /\ UNCHANGED <<db, copying>>

(* The five seconds of connect(timeout=5) have passed.                     *)
WaitTimesOut(r) == ~LockFree(r) /\ UNCHANGED connection
(* Deviation: a commit without a timeout.                                   *)
CommitWaits(r) == FALSE

CommitTimesOut(r) == writer = r /\ copying /\ Rollback(r)

(* The service's process dies: its journal is rolled back on the next open. *)
LoseTransactions == writer' = NoOne /\ image' = db /\ UNCHANGED <<db, copying>>

(* reader.backup(writer) of app/backup.py, from another process.           *)
StartCopy == ~copying /\ copying' = TRUE /\ UNCHANGED <<db, image, writer>>
EndCopy == copying /\ copying' = FALSE /\ UNCHANGED <<db, image, writer>>

(* A statement of another program, committed at once.                      *)
ExecuteOutside(rows) == /\ writer = NoOne /\ ~copying
                        /\ db' = rows /\ image' = rows
                        /\ UNCHANGED <<writer, copying>>
=============================================================================
