----------------------------- MODULE BackupFiles -----------------------------
(***************************************************************************)
(* app/backup.py: backup and restore as processes beside the application,  *)
(* on the files of one database.                                           *)
(*                                                                         *)
(*   backup    check copy publish clean                                    *)
(*   restore   check copy look (save replace | link) clean                 *)
(*                                                                         *)
(* Any step may fail and the process may be killed before any; runs of the *)
(* tool interleave.  The operator keeps the one rule restore asks for: the *)
(* application is stopped, and stays so until no restore is under way.     *)
(*                                                                         *)
(* The file of the database is torn while a commit rewrites its pages;     *)
(* the journal beside it then holds what it was, and the next open puts    *)
(* that back.  The temporary of a tool is nobody else's, and lost to all   *)
(* when the tool is killed.  Contents are numbered by commits, Damaged is  *)
(* any file that does not pass validate_database.                          *)
(***************************************************************************)
EXTENDS Integers

CONSTANTS
    Tools,          \* runs of the tool under way at once
    Names,          \* the backup files
    None, Torn, Damaged,
    MaxWritten      \* bound on the commits of the application

ASSUME MaxWrittenAssumption == MaxWritten \in Nat
ASSUME ContentsAssumption ==
    /\ {None, Torn, Damaged} \cap Nat = {}
    /\ None # Torn /\ None # Damaged /\ Torn # Damaged

VARIABLES
    target,     \* the file of the database
    journal,    \* target-journal: what a torn target was; None: there is no such file
    app,        \* the application
    written,    \* commits so far
    copies,     \* the backup files
    tool,       \* the runs of the tool
    saved       \* the contents of the complete before-restore files

files == <<target, journal, copies, saved>>
application == <<app, written>>
vars == <<files, application, tool>>

AtRest == [step |-> "idle", action |-> "none", file |-> None, replace |-> FALSE,
           temp |-> None]

(* What came from elsewhere may be no database, or backups of an earlier   *)
(* one: contents 0 and 1.                                                  *)
Init == /\ target \in {None, Damaged} /\ journal = None /\ app = "stopped" /\ written = 1
        /\ copies \in [Names -> {None, Damaged, 0, 1}]
        /\ tool = [t \in Tools |-> AtRest]
        /\ saved = {}

Valid(content) == content \in Nat

(* What the next open of the database finds: a journal is put back, and    *)
(* over any file but its own it leaves nothing usable.                     *)
Stored == IF journal = None THEN target
          ELSE IF target = Torn THEN journal ELSE Damaged

Restoring == \E t \in Tools : tool[t].action = "restore"

-----------------------------------------------------------------------------
(* The application.  A first start creates the file (init_db).             *)
Start == /\ app = "stopped" /\ ~Restoring
         /\ app' = "running"
         /\ IF Stored = None THEN /\ written < MaxWritten /\ written' = written + 1
                                  /\ target' = written'
            ELSE Valid(Stored) /\ target' = Stored /\ UNCHANGED written
         /\ journal' = None
         /\ UNCHANGED <<copies, saved, tool>>

Flush == /\ app = "running" /\ written < MaxWritten
         /\ app' = "committing" /\ target' = Torn /\ journal' = target
         /\ UNCHANGED <<written, copies, saved, tool>>

Commit == /\ app = "committing"
          /\ app' = "running" /\ written' = written + 1
          /\ target' = written' /\ journal' = None
          /\ UNCHANGED <<copies, saved, tool>>

(* An orderly stop waits for the commit; a crash leaves the journal.       *)
Stop == app = "running" /\ app' = "stopped" /\ UNCHANGED <<files, written, tool>>
Crash == app = "committing" /\ app' = "stopped" /\ UNCHANGED <<files, written, tool>>

-----------------------------------------------------------------------------
(* main(): restore wants the word of the operator that the app is stopped. *)
Begin(t) ==
    /\ tool[t].step = "idle"
    /\ \E action \in {"backup", "restore"}, n \in Names, replace \in BOOLEAN :
          /\ action = "restore" => app = "stopped"
          /\ action = "backup" => ~replace
          /\ tool' = [tool EXCEPT ![t] = [step |-> "check", action |-> action, file |-> n,
                                          replace |-> replace, temp |-> None]]
    /\ UNCHANGED <<files, application>>

At(t, step) == tool[t].step = step
Restores(t) == tool[t].action = "restore"
Goto(t, step) == tool' = [tool EXCEPT ![t].step = step]

(* Deviation: side files are not looked for.                                *)
BlindToJournal(t) == IF Restores(t) THEN target # None => tool[t].replace
                     ELSE copies[tool[t].file] = None

Admitted(t) == IF Restores(t) THEN (target # None => tool[t].replace) /\ journal = None
               ELSE copies[tool[t].file] = None

Check(t) == /\ At(t, "check") /\ Admitted(t)
            /\ Goto(t, "copy")
            /\ UNCHANGED <<files, application>>

(* reader.backup(writer), then validate_database: it waits while a commit  *)
(* rewrites pages, and cannot read a database that has to be recovered.    *)
Readable(t) == IF Restores(t) THEN copies[tool[t].file] ELSE target

(* Deviation: the bytes of the main file are copied, and not looked at.     *)
CopyBytes(t) ==
    /\ At(t, "copy") /\ Readable(t) # None
    /\ tool' = [tool EXCEPT ![t].temp = Readable(t),
                            ![t].step = IF Restores(t) THEN "look" ELSE "publish"]
    /\ UNCHANGED <<files, application>>

Copy(t) ==
    /\ At(t, "copy") /\ Valid(Readable(t))
    /\ tool' = [tool EXCEPT ![t].temp = Readable(t),
                            ![t].step = IF Restores(t) THEN "look" ELSE "publish"]
    /\ UNCHANGED <<files, application>>

(* os.link refuses a name that exists by now.                              *)
Publish(t) ==
    /\ At(t, "publish") /\ copies[tool[t].file] = None
    /\ copies' = [copies EXCEPT ![tool[t].file] = tool[t].temp]
    /\ Goto(t, "clean")
    /\ UNCHANGED <<target, journal, saved, application>>

(* Deviation: the target's old bytes are not saved.                         *)
LookAndReplace(t) == /\ At(t, "look")
                     /\ Goto(t, IF target # None THEN "replace" ELSE "link")
                     /\ UNCHANGED <<files, application>>

Look(t) == /\ At(t, "look")
           /\ Goto(t, IF target # None THEN "save" ELSE "link")
           /\ UNCHANGED <<files, application>>

Save(t) == /\ At(t, "save")
           /\ saved' = saved \cup {target}
           /\ Goto(t, "replace")
           /\ UNCHANGED <<target, journal, copies, application>>

Replace(t) == /\ At(t, "replace")
              /\ target' = tool[t].temp
              /\ Goto(t, "clean")
              /\ UNCHANGED <<journal, copies, saved, application>>

Link(t) == /\ At(t, "link") /\ target = None
           /\ target' = tool[t].temp
           /\ Goto(t, "clean")
           /\ UNCHANGED <<journal, copies, saved, application>>

(* Any step may fail, and some do for a reason above.                      *)
Fail(t) == /\ tool[t].step \notin {"idle", "clean"}
           /\ Goto(t, "clean")
           /\ UNCHANGED <<files, application>>

(* The finally clause; or the process is killed.                           *)
End(t) == /\ ~At(t, "idle")
          /\ tool' = [tool EXCEPT ![t] = AtRest]
          /\ UNCHANGED <<files, application>>

Run(t) == \/ Begin(t) \/ Check(t) \/ Copy(t) \/ Publish(t) \/ Look(t) \/ Save(t)
          \/ Replace(t) \/ Link(t) \/ Fail(t) \/ End(t)

Next == \/ Start \/ Flush \/ Commit \/ Stop \/ Crash
        \/ \E t \in Tools : Run(t)

Spec == Init /\ [][Next]_vars

-----------------------------------------------------------------------------
Contents == Nat \cup {None, Torn, Damaged}

TypeOK ==
    /\ target \in Contents /\ journal \in Nat \cup {None} /\ written \in Nat
    /\ app \in {"stopped", "running", "committing"}
    /\ copies \in [Names -> Nat \cup {None, Damaged}]
    /\ saved \subseteq Nat \cup {Damaged}
    /\ tool \in [Tools ->
          [step : {"idle", "check", "copy", "publish", "look", "save", "replace", "link", "clean"},
           action : {"none", "backup", "restore"}, file : Names \cup {None},
           replace : BOOLEAN, temp : Nat \cup {None}]]

(* Whatever fails or is killed at whatever step, a database that can be    *)
(* opened stays one: no half a file, no damaged backup and no journal of   *)
(* another file ever takes its place.                                      *)
SoundStaysSound == [][Valid(Stored) => Valid(Stored')]_vars

(* The files do what Snapshots promises: a tool's steps look like taking   *)
(* one whole committed content and publishing or putting it at once; a     *)
(* backup that exists is never overwritten (docs/lr3.md:138), and what the *)
(* database held before is in a before-restore file or a backup.           *)
Promise == INSTANCE Snapshots WITH
    stored <- Stored,
    hand <- [t \in Tools |-> tool[t].temp],
    kept <- saved

RefinesSnapshots == Promise!Spec
=============================================================================
