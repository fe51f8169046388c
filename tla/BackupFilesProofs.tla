--------------------------- MODULE BackupFilesProofs ---------------------------
(***************************************************************************)
(* For any number of tools, names and commits: a sound database stays one, *)
(* and the files do what Snapshots promises.                               *)
(*                                                                         *)
(* A restore looks for the journal, and at the target, long before it      *)
(* replaces the target.  While it is under way the application is stopped, *)
(* so no journal appears; other restores may replace the target meanwhile, *)
(* but only by contents of backups, which are kept as well.                *)
(***************************************************************************)
EXTENDS BackupFiles, TLAPS

(* What is in a before-restore file or a backup.                           *)
Held == saved \cup {copies[n] : n \in Names}

InHand == {"publish", "look", "save", "replace", "link"}
Putting == {"look", "save", "replace", "link"}

Fits(t) ==
    /\ tool[t].step \in {"idle", "check", "copy"} => tool[t].temp = None
    /\ tool[t].step \in InHand => tool[t].temp \in Nat
    /\ tool[t].step # "idle" => tool[t].file \in Names
    /\ tool[t].action = "restore" => app = "stopped"
    /\ tool[t].step \in Putting => /\ tool[t].action = "restore" /\ journal = None
                                   /\ tool[t].temp \in Held
    /\ tool[t].step = "copy" /\ tool[t].action = "restore" => journal = None
    /\ tool[t].step \in {"save", "replace"} => target # None
    /\ tool[t].step = "replace" => target \in Held

(* The journal and the application agree with the target.                   *)
Whole == /\ target = Torn <=> journal # None
         /\ app = "running" => target \in Nat
         /\ app = "committing" => journal # None

IInv == TypeOK /\ Whole /\ \A t \in Tools : Fits(t)

-----------------------------------------------------------------------------
Steps == {"idle", "check", "copy", "publish", "look", "save", "replace", "link", "clean"}
Runs == [step : Steps, action : {"none", "backup", "restore"}, file : Names \cup {None},
         replace : BOOLEAN, temp : Nat \cup {None}]

LEMMA Distinct ==
    None \notin Nat /\ Torn \notin Nat /\ Damaged \notin Nat
  BY ContentsAssumption

(* Without a journal the database is what its file holds.                   *)
LEMMA StoredIsTarget ==
    ASSUME journal = None
    PROVE  Stored = target
  BY DEF Stored

LEMMA Going ==
    ASSUME TypeOK, NEW t \in Tools, NEW step \in Steps, Goto(t, step)
    PROVE  /\ tool' \in [Tools -> Runs]
           /\ tool'[t].step = step
           /\ tool'[t].action = tool[t].action /\ tool'[t].file = tool[t].file
           /\ tool'[t].temp = tool[t].temp
           /\ \A q \in Tools \ {t} : tool'[q] = tool[q]
  BY DEF TypeOK, Goto, Runs, Steps

(* What a run of the tool relies on while others, and the application, go   *)
(* on: under a restore the application stands still, nothing held is lost, *)
(* and the target stays there, as it is or as something held.              *)
Steady == /\ app' = app
          /\ journal = None => journal' = None
          /\ \A c \in Held : c # None => c \in Held'
          /\ target # None => target' # None /\ (target' = target \/ target' \in Held')

LEMMA OthersFit ==
    ASSUME NEW q \in Tools, Fits(q), tool'[q] = tool[q],
           tool[q].action = "restore" => Steady
    PROVE  Fits(q)'
  <1>1. CASE tool[q].action # "restore"
    BY <1>1 DEF Fits, Putting, InHand
  <1>2. CASE tool[q].action = "restore"
    <2>1. app' = app /\ (journal = None => journal' = None)
      BY <1>2 DEF Steady
    <2>2. tool[q].step \in Putting => tool[q].temp \in Held'
      BY <1>2, Distinct DEF Fits, Steady, Putting, InHand
    <2>3. tool[q].step \in {"save", "replace"} => target' # None
      BY <1>2 DEF Fits, Steady
    <2>4. tool[q].step = "replace" => target' \in Held'
      BY <1>2 DEF Fits, Steady
    <2>5. QED
      BY <1>2, <2>1, <2>2, <2>3, <2>4 DEF Fits, Putting, InHand
  <1>3. QED
    BY <1>1, <1>2

(* Only run t of the tool has moved, and no file.                          *)
LEMMA Quiet ==
    ASSUME IInv, NEW t \in Tools, UNCHANGED <<files, application>>, tool' \in [Tools -> Runs],
           \A q \in Tools \ {t} : tool'[q] = tool[q],
           Fits(t)'
    PROVE  IInv'
  <1> USE DEF files, application
  <1>1. TypeOK' /\ Whole'
    BY DEF IInv, TypeOK, Whole, Runs, Steps, Contents
  <1>2. Held' = Held
    BY DEF Held
  <1>3. \A q \in Tools \ {t} : Fits(q)'
    BY <1>2, OthersFit DEF IInv, Steady
  <1>4. QED
    BY <1>1, <1>3 DEF IInv

-----------------------------------------------------------------------------
LEMMA Beginning ==
    ASSUME IInv, NEW t \in Tools, Begin(t)
    PROVE  IInv'
  <1>1. PICK action \in {"backup", "restore"}, n \in Names, replace \in BOOLEAN :
           /\ action = "restore" => app = "stopped"
           /\ tool' = [tool EXCEPT ![t] = [step |-> "check", action |-> action, file |-> n,
                                           replace |-> replace, temp |-> None]]
    BY DEF Begin
  <1> DEFINE new == [step |-> "check", action |-> action, file |-> n,
                     replace |-> replace, temp |-> None]
  <1>2. /\ new \in Runs /\ new.step = "check" /\ new.action = action /\ new.file = n
        /\ new.temp = None
    BY DEF Runs, Steps
  <1> HIDE DEF new
  <1>3. tool' \in [Tools -> Runs] /\ tool'[t] = new /\ \A q \in Tools \ {t} : tool'[q] = tool[q]
    BY <1>1, <1>2 DEF IInv, TypeOK, Runs, Steps, new
  <1>4. UNCHANGED <<files, application>>
    BY DEF Begin
  <1>5. Fits(t)'
    BY <1>1, <1>2, <1>3, <1>4 DEF Fits, InHand, Putting, files, application
  <1>6. QED
    BY <1>3, <1>4, <1>5, Quiet

LEMMA Checking ==
    ASSUME IInv, NEW t \in Tools, Check(t)
    PROVE  IInv'
  <1>1. /\ tool[t].step = "check" /\ Goto(t, "copy") /\ UNCHANGED <<files, application>>
        /\ tool[t].action = "restore" => journal = None
    BY DEF Check, At, Admitted, Restores
  <1>2. Fits(t)'
    BY <1>1, Going DEF IInv, Fits, InHand, Putting, files, application, Steps
  <1>3. QED
    BY <1>1, <1>2, Going, Quiet DEF IInv, Steps

(* The copy goes into the tool's hand; the rest of the run stays.           *)
LEMMA Copied ==
    ASSUME IInv, NEW t \in Tools, Copy(t)
    PROVE  /\ tool' \in [Tools -> Runs]
           /\ tool'[t].step = IF Restores(t) THEN "look" ELSE "publish"
           /\ tool'[t].temp = Readable(t)
           /\ tool'[t].action = tool[t].action /\ tool'[t].file = tool[t].file
           /\ \A q \in Tools \ {t} : tool'[q] = tool[q]
  <1> DEFINE next == IF Restores(t) THEN "look" ELSE "publish"
             new == [tool[t] EXCEPT !.temp = Readable(t), !.step = next]
  <1>1. Readable(t) \in Nat /\ tool[t] \in Runs
    BY DEF Copy, Valid, IInv, TypeOK, Runs, Steps
  <1>2. /\ new \in Runs /\ new.step = next /\ new.temp = Readable(t)
        /\ new.action = tool[t].action /\ new.file = tool[t].file
    BY <1>1 DEF Runs, Steps
  <1>3. tool' = [tool EXCEPT ![t] = new]
    BY DEF Copy
  <1> HIDE DEF new
  <1>4. QED
    BY <1>2, <1>3 DEF IInv, TypeOK, Runs, Steps

(* What is copied is whole: a valid file, committed and not being written.  *)
LEMMA Copying ==
    ASSUME IInv, NEW t \in Tools, Copy(t)
    PROVE  IInv'
  <1>1. /\ tool[t].step = "copy" /\ Readable(t) \in Nat /\ UNCHANGED <<files, application>>
        /\ Fits(t)
    BY DEF Copy, At, Valid, IInv
  <1>2. Restores(t) => Readable(t) \in Held
    BY <1>1 DEF Readable, Held, Fits
  <1>3. Held' = Held
    BY <1>1 DEF Held, files
  <1>4. Fits(t)'
    BY <1>1, <1>2, <1>3, Copied DEF Fits, InHand, Putting, Restores, files, application
  <1>5. QED
    BY <1>1, <1>4, Copied, Quiet

LEMMA Looking ==
    ASSUME IInv, NEW t \in Tools, Look(t)
    PROVE  IInv'
  <1>1. /\ tool[t].step = "look" /\ UNCHANGED <<files, application>> /\ Fits(t)
        /\ Goto(t, IF target # None THEN "save" ELSE "link")
    BY DEF Look, At, IInv
  <1>2. Held' = Held
    BY <1>1 DEF Held, files
  <1>3. Fits(t)'
    BY <1>1, <1>2, Going DEF IInv, Fits, InHand, Putting, files, application, Steps
  <1>4. QED
    BY <1>1, <1>3, Going, Quiet DEF IInv, Steps

LEMMA Failing ==
    ASSUME IInv, NEW t \in Tools, Fail(t)
    PROVE  IInv'
  <1>1. tool[t].step # "idle" /\ Goto(t, "clean") /\ UNCHANGED <<files, application>>
    BY DEF Fail
  <1>2. Fits(t)'
    BY <1>1, Going DEF IInv, Fits, InHand, Putting, files, application, Steps
  <1>3. QED
    BY <1>1, <1>2, Going, Quiet DEF IInv, Steps

LEMMA Ending ==
    ASSUME IInv, NEW t \in Tools, End(t)
    PROVE  IInv'
  <1>1. AtRest \in Runs /\ AtRest.step = "idle" /\ AtRest.action = "none" /\ AtRest.temp = None
    BY DEF AtRest, Runs, Steps
  <1>2. /\ tool' \in [Tools -> Runs] /\ tool'[t] = AtRest
        /\ \A q \in Tools \ {t} : tool'[q] = tool[q]
    BY <1>1 DEF End, IInv, TypeOK, Runs, Steps
  <1>3. UNCHANGED <<files, application>>
    BY DEF End
  <1>4. Fits(t)'
    BY <1>1, <1>2 DEF Fits, InHand, Putting
  <1>5. QED
    BY <1>2, <1>3, <1>4, Quiet

(* A backup takes a free name, so nothing that was held is lost.            *)
LEMMA Publishing ==
    ASSUME IInv, NEW t \in Tools, Publish(t)
    PROVE  IInv'
  <1>1. /\ tool[t].step = "publish" /\ copies[tool[t].file] = None
        /\ copies' = [copies EXCEPT ![tool[t].file] = tool[t].temp]
        /\ Goto(t, "clean") /\ UNCHANGED <<target, journal, saved, application>>
    BY DEF Publish, At
  <1>2. tool[t].file \in Names /\ tool[t].temp \in Nat
    BY <1>1 DEF IInv, Fits, InHand
  <1>3. copies' \in [Names -> Nat \cup {None, Damaged}]
    BY <1>1, <1>2 DEF IInv, TypeOK
  <1>4. TypeOK' /\ Whole'
    BY <1>1, <1>3, Going DEF IInv, TypeOK, Whole, Runs, Steps, application, Contents
  <1>5. \A c \in Held : c # None => c \in Held'
    BY <1>1, <1>2 DEF IInv, TypeOK, Held
  <1>6. Fits(t)'
    BY <1>1, <1>2, Going DEF IInv, Fits, InHand, Putting, application, Steps
  <1>7. \A q \in Tools \ {t} : Fits(q)'
    BY <1>1, <1>5, OthersFit, Going DEF IInv, Steady, application, Steps
  <1>8. QED
    BY <1>4, <1>6, <1>7 DEF IInv

LEMMA Saving ==
    ASSUME IInv, NEW t \in Tools, Save(t)
    PROVE  IInv'
  <1>1. /\ tool[t].step = "save" /\ saved' = saved \cup {target} /\ Goto(t, "replace")
        /\ UNCHANGED <<target, journal, copies, application>> /\ Fits(t)
    BY DEF Save, At, IInv
  <1>2. target \in Nat \cup {Damaged}
    BY <1>1 DEF Fits, Putting, IInv, TypeOK, Whole, Contents
  <1>3. TypeOK' /\ Whole'
    BY <1>1, <1>2, Going DEF IInv, TypeOK, Whole, Runs, Steps, application, Contents
  <1>4. Held \subseteq Held' /\ target \in Held'
    BY <1>1 DEF Held
  <1>5. Fits(t)'
    BY <1>1, <1>4, Going DEF IInv, Fits, InHand, Putting, application, Steps
  <1>6. \A q \in Tools \ {t} : Fits(q)'
    BY <1>1, <1>4, OthersFit, Going DEF IInv, Steady, application, Steps
  <1>7. QED
    BY <1>3, <1>5, <1>6 DEF IInv

(* The target becomes a content of a backup; the one it had is held.        *)
LEMMA Replacing ==
    ASSUME IInv, NEW t \in Tools, Replace(t) \/ Link(t)
    PROVE  IInv'
  <1>1. /\ tool[t].step \in {"replace", "link"} /\ target' = tool[t].temp /\ Goto(t, "clean")
        /\ UNCHANGED <<journal, copies, saved, application>> /\ Fits(t)
    BY DEF Replace, Link, At, IInv
  <1>2. tool[t].temp \in Nat /\ tool[t].temp \in Held /\ journal = None /\ app = "stopped"
    BY <1>1 DEF Fits, Putting, InHand
  <1>3. TypeOK' /\ Whole'
    BY <1>1, <1>2, Going, Distinct
       DEF IInv, TypeOK, Whole, Runs, Steps, application, Contents
  <1>4. Held' = Held
    BY <1>1 DEF Held
  <1>5. Fits(t)'
    BY <1>1, <1>4, Going DEF IInv, Fits, InHand, Putting, application, Steps
  <1>6. \A q \in Tools \ {t} : Fits(q)'
    BY <1>1, <1>2, <1>4, Distinct, OthersFit, Going DEF IInv, Steady, application, Steps
  <1>7. QED
    BY <1>3, <1>5, <1>6 DEF IInv

-----------------------------------------------------------------------------
(* While the application runs or starts, nobody restores.                   *)
LEMMA Undisturbed ==
    ASSUME IInv, UNCHANGED <<tool, copies, saved>>, app # "stopped" \/ ~Restoring,
           TypeOK', Whole'
    PROVE  IInv'
  <1>1. \A q \in Tools : tool[q].action # "restore"
    BY DEF IInv, Fits, Restoring
  <1>2. \A q \in Tools : Fits(q)'
    BY <1>1, OthersFit DEF IInv
  <1>3. QED
    BY <1>2 DEF IInv

LEMMA Applying ==
    ASSUME IInv, Start \/ Flush \/ Commit \/ Stop \/ Crash
    PROVE  IInv'
  <1> USE DEF files
  <1>1. UNCHANGED <<tool, copies, saved>> /\ (app # "stopped" \/ ~Restoring)
    BY DEF Start, Flush, Commit, Stop, Crash
  <1>2. CASE Start
    <2>1. /\ target' \in Nat /\ written' \in Nat /\ journal' = None /\ app' = "running"
      <3>1. CASE Stored = None
        BY <1>2, <3>1 DEF Start, IInv, TypeOK
      <3>2. CASE Stored # None
        BY <1>2, <3>2 DEF Start, Valid, IInv, TypeOK
      <3>3. QED
        BY <3>1, <3>2
    <2>2. TypeOK' /\ Whole'
      BY <1>1, <2>1, Distinct DEF IInv, TypeOK, Whole, Contents
    <2>3. QED
      BY <1>1, <2>2, Undisturbed
  <1>3. CASE Flush
    <2>1. TypeOK' /\ Whole'
      BY <1>1, <1>3, Distinct DEF Flush, IInv, TypeOK, Whole, Contents
    <2>2. QED
      BY <1>1, <2>1, Undisturbed
  <1>4. CASE Commit
    <2>1. TypeOK' /\ Whole'
      BY <1>1, <1>4, Distinct DEF Commit, IInv, TypeOK, Whole, Contents
    <2>2. QED
      BY <1>1, <2>1, Undisturbed
  <1>5. CASE Stop \/ Crash
    <2>1. TypeOK' /\ Whole'
      BY <1>1, <1>5 DEF Stop, Crash, IInv, TypeOK, Whole, Contents
    <2>2. QED
      BY <1>1, <2>1, Undisturbed
  <1>6. QED
    BY <1>2, <1>3, <1>4, <1>5

LEMMA Starting ==
    ASSUME Init
    PROVE  IInv
  <1>1. AtRest \in Runs /\ AtRest.step = "idle" /\ AtRest.action = "none" /\ AtRest.temp = None
    BY DEF AtRest, Runs, Steps
  <1>2. TypeOK
    BY <1>1 DEF Init, TypeOK, Runs, Steps, Contents
  <1>3. Whole
    BY ContentsAssumption DEF Init, Whole
  <1>4. \A t \in Tools : Fits(t)
    BY <1>1 DEF Init, Fits, InHand, Putting
  <1>5. QED
    BY <1>2, <1>3, <1>4 DEF IInv

LEMMA Stepping ==
    ASSUME IInv, [Next]_vars
    PROVE  IInv'
  <1>1. CASE UNCHANGED vars
    BY <1>1 DEF vars, files, application, IInv, TypeOK, Contents, Whole, Fits, InHand, Putting, Held
  <1>2. QED
    BY <1>1, Applying, Beginning, Checking, Copying, Publishing, Looking, Saving, Replacing,
       Failing, Ending DEF Next, Run

(* Every reachable state of the files satisfies the strengthened invariant  *)
(* the theorems below are read off.                                        *)
THEOREM Invariance == Spec => []IInv
  <1>1. Init => IInv
    BY Starting
  <1>2. IInv /\ [Next]_vars => IInv'
    BY Stepping
  <1>3. QED
    BY <1>1, <1>2, PTL DEF Spec

(* Files and runs of the tool keep their types: no backup and no            *)
(* before-restore file is ever torn.                                       *)
THEOREM TypeCorrect == Spec => []TypeOK
  <1>1. IInv => TypeOK
    BY DEF IInv
  <1>2. QED
    BY <1>1, Invariance, PTL

-----------------------------------------------------------------------------
Hand == [t \in Tools |-> tool[t].temp]

(* A step that leaves the files alone, and of the tools moves only t.       *)
LEMMA HandMoves ==
    ASSUME NEW t \in Tools, tool' \in [Tools -> Runs],
           \A q \in Tools \ {t} : tool'[q] = tool[q]
    PROVE  Hand' = [Hand EXCEPT ![t] = tool'[t].temp]
  BY DEF Hand

LEMMA StoredStays ==
    ASSUME UNCHANGED <<target, journal>>
    PROVE  Stored' = Stored
  BY DEF Stored

(* Every step is one of Snapshots, or none.                                *)
LEMMA ToolRefines ==
    ASSUME IInv, NEW t \in Tools, Run(t)
    PROVE  [Promise!Next]_(Promise!Snapshot)
  <1> USE DEF files, application
  <1>0. ASSUME NEW step \in Steps, Goto(t, step)
        PROVE  Hand' = Hand
    <2>1. Hand' = [Hand EXCEPT ![t] = tool[t].temp]
      BY <1>0, Going, HandMoves DEF IInv
    <2>2. QED
      BY <2>1 DEF Hand
  <1>1. CASE Check(t) \/ Look(t) \/ Fail(t)
    <2>1. Hand' = Hand
      BY <1>0, <1>1 DEF Check, Look, Fail, Steps
    <2>2. Stored' = Stored /\ UNCHANGED <<written, copies, saved>>
      BY <1>1, StoredStays DEF Check, Look, Fail
    <2>3. QED
      BY <2>1, <2>2 DEF Promise!Snapshot, Hand
  <1>2. CASE Begin(t) \/ End(t)
    <2>1. PICK new \in Runs : tool' = [tool EXCEPT ![t] = new] /\ new.temp = None
      <3>1. CASE Begin(t)
        <4>1. PICK action \in {"backup", "restore"}, n \in Names, replace \in BOOLEAN :
                 tool' = [tool EXCEPT ![t] = [step |-> "check", action |-> action, file |-> n,
                                              replace |-> replace, temp |-> None]]
          BY <3>1 DEF Begin
        <4>2. [step |-> "check", action |-> action, file |-> n,
               replace |-> replace, temp |-> None] \in Runs
          BY DEF Runs, Steps
        <4>3. QED
          BY <4>1, <4>2
      <3>2. CASE End(t)
        <4>1. AtRest \in Runs /\ AtRest.temp = None
          BY DEF AtRest, Runs, Steps
        <4>2. QED
          BY <3>2, <4>1 DEF End
      <3>3. QED
        BY <1>2, <3>1, <3>2
    <2>2. Hand' = [Hand EXCEPT ![t] = None]
      <3>1. /\ tool' \in [Tools -> Runs] /\ tool'[t].temp = None
            /\ \A q \in Tools \ {t} : tool'[q] = tool[q]
        BY <2>1 DEF IInv, TypeOK, Runs, Steps
      <3>2. QED
        BY <3>1, HandMoves
    <2>3. Stored' = Stored /\ UNCHANGED <<written, copies, saved>>
      BY <1>2, StoredStays DEF Begin, End
    <2>4. Promise!Drop(t)
      BY <2>2, <2>3 DEF Promise!Drop, Hand
    <2>5. QED
      BY <2>4 DEF Promise!Next
  <1>3. CASE Copy(t)
    <2>1. /\ tool[t].temp = None /\ Readable(t) \in Nat /\ tool[t].file \in Names
      BY <1>3 DEF Copy, At, Valid, IInv, Fits
    <2>2. Hand' = [Hand EXCEPT ![t] = Readable(t)]
      BY <1>3, Copied, HandMoves
    <2>3. Readable(t) \in (Promise!Copies \cup {Stored}) \ {None, Damaged}
      <3>1. CASE Restores(t)
        BY <2>1, <3>1, Distinct DEF Readable, Promise!Copies
      <3>2. CASE ~Restores(t)
        BY <2>1, <3>2, Distinct DEF Readable, Stored, IInv, Whole
      <3>3. QED
        BY <3>1, <3>2
    <2>4. Stored' = Stored /\ UNCHANGED <<written, copies, saved>>
      BY <1>3, StoredStays DEF Copy
    <2>5. Promise!Take(t)
      BY <2>1, <2>2, <2>3, <2>4 DEF Promise!Take, Hand
    <2>6. QED
      BY <2>5 DEF Promise!Next
  <1>4. CASE Publish(t)
    <2>1. Hand' = Hand /\ Stored' = Stored /\ UNCHANGED <<written, saved>>
      BY <1>0, <1>4, StoredStays DEF Publish, Steps
    <2>2. tool[t].file \in Names /\ tool[t].temp # None
      BY <1>4, Distinct DEF Publish, At, IInv, Fits, InHand
    <2>3. Promise!Publish(t, tool[t].file)
      BY <1>4, <2>1, <2>2 DEF Publish, Promise!Publish, Hand
    <2>4. QED
      BY <2>2, <2>3 DEF Promise!Next
  <1>5. CASE Save(t)
    <2>1. Hand' = Hand /\ Stored' = Stored /\ UNCHANGED <<written, copies>>
      BY <1>0, <1>5, StoredStays DEF Save, Steps
    <2>2. Stored = target /\ target # None
      BY <1>5, StoredIsTarget DEF Save, At, IInv, Fits, Putting
    <2>3. Promise!Keep
      BY <1>5, <2>1, <2>2 DEF Save, Promise!Keep, Hand
    <2>4. QED
      BY <2>3 DEF Promise!Next
  <1>6. CASE Replace(t) \/ Link(t)
    <2>1. Hand' = Hand /\ UNCHANGED <<written, copies, saved>>
      BY <1>0, <1>6 DEF Replace, Link, Steps
    <2>2. journal = None /\ journal' = None /\ tool[t].temp # None /\ target' = tool[t].temp
      BY <1>6, Distinct DEF Replace, Link, At, IInv, Fits, Putting, InHand
    <2>3. Stored = target /\ Stored' = tool[t].temp
      BY <2>2 DEF Stored
    <2>4. target \in saved \cup Promise!Copies \cup {None}
      BY <1>6 DEF Replace, Link, At, IInv, Fits, Held, Promise!Copies
    <2>5. Promise!Put(t)
      BY <2>1, <2>2, <2>3, <2>4 DEF Promise!Put, Hand
    <2>6. QED
      BY <2>5 DEF Promise!Next
  <1>7. QED
    BY <1>1, <1>2, <1>3, <1>4, <1>5, <1>6 DEF Run

LEMMA ApplicationRefines ==
    ASSUME IInv, Start \/ Flush \/ Commit \/ Stop \/ Crash
    PROVE  [Promise!Next]_(Promise!Snapshot)
  <1> USE DEF files, application
  <1>1. Hand' = Hand /\ UNCHANGED <<copies, saved>>
    BY DEF Start, Flush, Commit, Stop, Crash, Hand
  <1>2. ASSUME written' = written + 1, Stored' = written'
        PROVE  Promise!Write
    BY <1>1, <1>2 DEF Promise!Write, Hand
  <1>3. CASE Start
    <2>1. CASE Stored = None
      BY <1>2, <1>3, <2>1 DEF Start, Stored, Promise!Next
    <2>2. CASE Stored # None
      BY <1>1, <1>3, <2>2 DEF Start, Stored, Promise!Snapshot, Hand
    <2>3. QED
      BY <2>1, <2>2
  <1>4. CASE Flush
    <2>1. Stored' = Stored /\ written' = written
      BY <1>4, Distinct DEF Flush, Stored, IInv, Whole
    <2>2. QED
      BY <1>1, <2>1 DEF Promise!Snapshot, Hand
  <1>5. CASE Commit
    BY <1>2, <1>5 DEF Commit, Stored, Promise!Next
  <1>6. CASE Stop \/ Crash
    BY <1>1, <1>6, StoredStays DEF Stop, Crash, Promise!Snapshot, Hand
  <1>7. QED
    BY <1>3, <1>4, <1>5, <1>6

LEMMA StepRefines ==
    ASSUME IInv, [Next]_vars
    PROVE  [Promise!Next]_(Promise!Snapshot)
  <1>1. CASE UNCHANGED vars
    BY <1>1, StoredStays DEF vars, files, application, Promise!Snapshot
  <1>2. QED
    BY <1>1, ToolRefines, ApplicationRefines DEF Next

(* app/backup.py on the files of the database does what Snapshots promises: *)
(* whole contents, free names, nothing thrown away (docs/lr3.md:138).       *)
THEOREM SnapshotsRefined == Spec => RefinesSnapshots
  <1>1. Init => Promise!Init
    <2>1. Init => Stored = target
      BY StoredIsTarget DEF Init
    <2>2. Init => [t \in Tools |-> tool[t].temp] = [t \in Tools |-> None]
      BY DEF Init, AtRest
    <2>3. QED
      BY <2>1, <2>2 DEF Init, Promise!Init
  <1>2. IInv /\ [Next]_vars => [Promise!Next]_(Promise!Snapshot)
    BY StepRefines
  <1>3. QED
    BY <1>1, <1>2, Invariance, PTL DEF Spec, RefinesSnapshots, Promise!Spec

(* Whatever fails or is killed in app/backup.py, a database that can be     *)
(* opened stays one.                                                       *)
THEOREM SoundRemainsSound == Spec => SoundStaysSound
  <1>1. ASSUME IInv, [Next]_vars, Stored \in Nat
        PROVE  Stored' \in Nat
    <2>1. [Promise!Next]_(Promise!Snapshot) /\ written \in Nat
      BY <1>1, StepRefines DEF IInv, TypeOK
    <2>2. CASE Stored' = Stored
      BY <1>1, <2>2
    <2>3. CASE Promise!Write
      BY <2>1, <2>3 DEF Promise!Write
    <2>4. ASSUME NEW t \in Tools, Promise!Put(t)
          PROVE  Stored' \in Nat
      BY <1>1, <2>4 DEF Promise!Put, IInv, TypeOK
    <2>5. QED
      BY <2>1, <2>2, <2>3, <2>4
         DEF Promise!Next, Promise!Snapshot, Promise!Keep, Promise!Take, Promise!Drop, Promise!Publish
  <1>2. IInv /\ [Next]_vars => [Valid(Stored) => Valid(Stored')]_vars
    BY <1>1 DEF Valid
  <1>3. QED
    BY <1>2, Invariance, PTL DEF Spec, SoundStaysSound
=============================================================================
