--------------------------- MODULE DeploymentProofs ---------------------------
(***************************************************************************)
(* For any number of releases, rows and sets of faults: what runs at rest, *)
(* that recovery is not blocked, and that no row is left behind.           *)
(*                                                                         *)
(* One port makes one running release.  With that, each property says at   *)
(* which steps which one it may be; what it rests on is how the script's   *)
(* memory, its candidate and the two files agree at each step.             *)
(***************************************************************************)
EXTENDS Deployment, TLAPS

Forward == {"intent", "stop", "snapshot", "prepare", "run", "start", "probe", "save", "clear"}
Back == {"restop", "restart", "reprobe", "reclear"}

OneRuns == \A r, q \in Running : r = q

LateFits ==
    /\ late \in [release : Known, to : {"absent", "stopped", "running"}]
    /\ late # NoCall => /\ "late" \in faults /\ late.release \in Releases
                        /\ late.to \in {"stopped", "running"}

PendingFits == pending # NoPending => pending.candidate \in Releases

(* Where the script is, and which files tell of it.                        *)
Place ==
    /\ job.action = "none" <=> job.step = "idle"
    /\ job.step \in Forward => job.action \in {"deploy", "rollback"} /\ job.memory = state
    /\ job.step \in {"snapshot", "prepare", "run"} => job.action = "deploy"
    /\ job.step = "start" => job.action = "rollback"
    /\ job.step \in Forward \cup {"restop"} => job.candidate \in issued
    /\ job.step = "intent" => pending = NoPending
    /\ job.step \in (Forward \ {"intent"}) \cup {"restop"} => pending.candidate = job.candidate
    /\ job.step \in Back => pending # NoPending

Candidate ==
    /\ job.step \in Forward \ {"clear"} /\ job.action = "deploy" => job.candidate # state.current
    /\ job.step \in Forward \ {"clear"} /\ job.action = "rollback" =>
          job.candidate = state.previous
    /\ job.step = "save" => container[job.candidate] # "absent"
    /\ job.step = "clear" => state.current = job.candidate

Remembered ==
    job.step \in Back => /\ job.memory.current \in {state.current, state.previous}
                         /\ job.memory.current = NoRelease => state.current = NoRelease
                         /\ "disk" \notin faults => job.memory = state

(* Where no call is late, what was probed still runs.                      *)
Proven == "late" \notin faults /\ job.step \in {"save", "clear"} => Running = {job.candidate}

Named == "late" \notin faults /\ state.current # NoRelease =>
            /\ Running \subseteq {state.current, state.previous, pending.candidate}
            /\ job.step = "reclear" => Running \subseteq {state.current, state.previous}

Placed == Prompt /\ state.current # NoRelease =>
             /\ Running \subseteq {pending.candidate, state.current}
             /\ pending = NoPending \/ job.step = "reclear" => Running = {state.current}

Kept == Prompt /\ job.action # "recover"
           /\ job.step \in (Forward \ {"intent", "clear"}) \cup Back =>
              state.current = pending.previous

(* The old release may be started behind the script's back, by one late     *)
(* call; then it holds the port to the end, and the new one is not accepted. *)
Copied ==
    job.action = "deploy" /\ state.current # NoRelease =>
       /\ job.step \in {"snapshot", "prepare", "run", "probe", "save"}
             /\ state.current \in Running => late = NoCall
       /\ job.step \in {"prepare", "run", "probe", "save"} =>
             \/ volume[state.current] \subseteq volume[job.candidate]
             \/ state.current \in Running
       /\ job.step = "save" => /\ state.current \notin Running
                               /\ job.candidate \in Running \/ late = NoCall

IInv == /\ TypeOK /\ OneRuns /\ LateFits /\ PendingFits /\ Place /\ Candidate /\ Remembered
        /\ Proven /\ Named /\ Placed /\ Kept /\ Copied

-----------------------------------------------------------------------------
Jobs == [action : {"none", "deploy", "rollback", "recover"}, step : Steps,
         candidate : Known, memory : States]
Pendings == [candidate : Known, previous : Known]

LEMMA NoJobFits ==
    /\ NoJob \in Jobs /\ NoJob.step = "idle" /\ NoJob.action = "none"
    /\ NoPending \in Pendings /\ NoPending.candidate = NoRelease
  BY DEF NoJob, NoPending, NothingAccepted, Jobs, Pendings, Steps, Known, States

LEMMA Went ==
    ASSUME TypeOK, NEW step \in Steps, Goto(step)
    PROVE  /\ job' \in Jobs /\ job'.step = step
           /\ job'.action = job.action /\ job'.candidate = job.candidate
           /\ job'.memory = job.memory
  BY DEF TypeOK, Goto, Jobs

LEMMA Began ==
    ASSUME TypeOK, NEW action \in {"deploy", "rollback", "recover"}, NEW step \in Steps,
           NEW candidate \in Known, Begin(action, step, candidate)
    PROVE  /\ job' \in Jobs /\ job'.step = step /\ job'.action = action
           /\ job'.candidate = candidate /\ job'.memory = state
  BY DEF TypeOK, Begin, Jobs

(* A step that touches no container keeps what concerns them alone.         *)
LEMMA HostStays ==
    ASSUME TypeOK, OneRuns, LateFits, UNCHANGED <<state, container, late, faults>>,
           volume' \in [Releases -> SUBSET Rows], job' \in Jobs, pending' \in Pendings,
           issued \subseteq issued', issued' \subseteq Releases,
           pending'.candidate \in issued' \cup {NoRelease}
    PROVE  TypeOK' /\ OneRuns' /\ LateFits'
  <1>1. TypeOK'
    BY DEF TypeOK, Jobs, Pendings, Known, States, Steps
  <1>2. OneRuns' /\ LateFits'
    BY DEF OneRuns, LateFits, Running
  <1>3. QED
    BY <1>1, <1>2

(* A script that has gone claims nothing.                                  *)
LEMMA LeftFits ==
    ASSUME Leave
    PROVE  Place' /\ Candidate' /\ Remembered' /\ Proven' /\ Kept' /\ Copied'
  <1>1. job'.step = "idle" /\ job'.action = "none"
    BY NoJobFits DEF Leave
  <1>2. QED
    BY <1>1 DEF Place, Candidate, Remembered, Proven, Kept, Copied, Forward, Back

-----------------------------------------------------------------------------
(* The script begins.                                                      *)
LEMMA StartingDeploy ==
    ASSUME IInv, StartDeploy
    PROVE  IInv'
  <1>1. PICK r \in Releases \ issued : issued' = issued \cup {r} /\ Begin("deploy", "intent", r)
    BY DEF StartDeploy
  <1>2. /\ UNCHANGED <<state, pending, container, volume, late, faults>>
        /\ job.action = "none" /\ pending = NoPending
    BY DEF StartDeploy, MayStart, Idle, Interrupted
  <1>3. /\ job' \in Jobs /\ job'.step = "intent" /\ job'.action = "deploy"
        /\ job'.candidate = r /\ job'.memory = state
    BY <1>1, Began DEF IInv, Steps, Known
  <1>4. TypeOK' /\ OneRuns' /\ LateFits' /\ PendingFits'
    <2>1. PendingFits'
      BY <1>2 DEF PendingFits
    <2>2. volume' \in [Releases -> SUBSET Rows] /\ pending' \in Pendings
          /\ issued \subseteq issued' /\ issued' \subseteq Releases
          /\ pending'.candidate \in issued' \cup {NoRelease}
      BY <1>1, <1>2, NoJobFits DEF IInv, TypeOK, Pendings
    <2>3. QED
      BY <1>2, <1>3, <2>1, <2>2, HostStays DEF IInv
  <1>5. Place'
    BY <1>1, <1>2, <1>3 DEF Place, Forward, Back
  <1>6. Candidate'
    <2>1. r # state.current
      BY <1>1, NoReleaseAssumption DEF IInv, TypeOK
    <2>2. QED
      BY <1>2, <1>3, <2>1 DEF Candidate, Forward
  <1>7. Remembered' /\ Proven' /\ Kept' /\ Copied'
    BY <1>3 DEF Remembered, Proven, Kept, Copied, Forward, Back
  <1>8. Named' /\ Placed'
    BY <1>2, <1>3 DEF IInv, Named, Placed, Prompt, Running
  <1>9. QED
    BY <1>4, <1>5, <1>6, <1>7, <1>8 DEF IInv

LEMMA StartingRollback ==
    ASSUME IInv, StartRollback
    PROVE  IInv'
  <1>1. /\ UNCHANGED <<state, pending, container, volume, late, faults, issued>>
        /\ job.action = "none" /\ pending = NoPending /\ state.previous # NoRelease
        /\ Begin("rollback", "intent", state.previous)
    BY DEF StartRollback, MayStart, Idle, Interrupted, host
  <1>2. /\ job' \in Jobs /\ job'.step = "intent" /\ job'.action = "rollback"
        /\ job'.candidate = state.previous /\ job'.memory = state
    BY <1>1, Began DEF IInv, TypeOK, Steps, States
  <1>3. TypeOK' /\ OneRuns' /\ LateFits' /\ PendingFits'
    <2>1. PendingFits'
      BY <1>1 DEF PendingFits
    <2>2. volume' \in [Releases -> SUBSET Rows] /\ pending' \in Pendings
          /\ issued \subseteq issued' /\ issued' \subseteq Releases
          /\ pending'.candidate \in issued' \cup {NoRelease}
      BY <1>1, NoJobFits DEF IInv, TypeOK, Pendings
    <2>3. QED
      BY <1>1, <1>2, <2>1, <2>2, HostStays DEF IInv
  <1>4. Place'
    <2>1. state.previous \in issued
      BY <1>1 DEF IInv, TypeOK
    <2>2. QED
      BY <1>1, <1>2, <2>1 DEF Place, Forward, Back
  <1>5. Candidate'
    BY <1>1, <1>2 DEF Candidate, Forward
  <1>6. Remembered' /\ Proven' /\ Kept' /\ Copied'
    BY <1>2 DEF Remembered, Proven, Kept, Copied, Forward, Back
  <1>7. Named' /\ Placed'
    BY <1>1, <1>2 DEF IInv, Named, Placed, Prompt, Running
  <1>8. QED
    BY <1>3, <1>4, <1>5, <1>6, <1>7 DEF IInv

LEMMA StartingRecover ==
    ASSUME IInv, StartRecover
    PROVE  IInv'
  <1>1. /\ UNCHANGED <<state, pending, container, volume, late, faults, issued>>
        /\ pending # NoPending /\ pending.candidate \in Releases /\ pending \in Pendings
    BY DEF StartRecover, Interrupted, host, IInv, PendingFits, TypeOK, Pendings
  <1>2. PICK step \in {"restart", "restop"}, candidate \in {NoRelease, pending.candidate} :
           /\ Begin("recover", step, candidate)
           /\ step = "restop" => candidate = pending.candidate
    BY DEF StartRecover
  <1>3. /\ job' \in Jobs /\ job'.step = step /\ job'.action = "recover"
        /\ job'.candidate = candidate /\ job'.memory = state
    BY <1>1, <1>2, Began DEF IInv, Steps, Known
  <1>4. TypeOK' /\ OneRuns' /\ LateFits' /\ PendingFits'
    <2>1. PendingFits'
      BY <1>1 DEF PendingFits
    <2>2. volume' \in [Releases -> SUBSET Rows] /\ pending' \in Pendings
          /\ issued \subseteq issued' /\ issued' \subseteq Releases
          /\ pending'.candidate \in issued' \cup {NoRelease}
      BY <1>1 DEF IInv, TypeOK, Pendings
    <2>3. QED
      BY <1>1, <1>3, <2>1, <2>2, HostStays DEF IInv
  <1>5. Place'
    <2>1. pending.candidate \in issued
      BY <1>1, NoReleaseAssumption DEF IInv, TypeOK
    <2>2. QED
      BY <1>1, <1>2, <1>3, <2>1 DEF Place, Forward, Back
  <1>6. Candidate' /\ Remembered' /\ Proven' /\ Kept' /\ Copied'
    BY <1>1, <1>2, <1>3 DEF Candidate, Remembered, Proven, Kept, Copied, Forward, Back
  <1>7. Named' /\ Placed'
    BY <1>1, <1>2, <1>3 DEF IInv, Named, Placed, Prompt, Running
  <1>8. QED
    BY <1>4, <1>5, <1>6, <1>7 DEF IInv

(* ... and it goes, or dies, leaving pending.json as it is.                 *)
LEMMA GoneAway ==
    ASSUME IInv, Leave, UNCHANGED <<state, pending, container, late, faults, issued>>,
           volume' \in [Releases -> SUBSET Rows]
    PROVE  IInv'
  <1>1. job' \in Jobs /\ job'.step = "idle"
    BY NoJobFits DEF Leave
  <1>2. TypeOK' /\ OneRuns' /\ LateFits'
    <2>1. pending' \in Pendings /\ issued \subseteq issued' /\ issued' \subseteq Releases
          /\ pending'.candidate \in issued' \cup {NoRelease}
      BY DEF IInv, TypeOK, Pendings
    <2>2. QED
      BY <1>1, <2>1, HostStays DEF IInv
  <1>3. PendingFits' /\ Named' /\ Placed'
    BY <1>1 DEF IInv, PendingFits, Named, Placed, Prompt, Running
  <1>4. QED
    BY <1>2, <1>3, LeftFits DEF IInv

(* The candidate is rejected before its acceptance was recorded, and        *)
(* nothing else happened.                                                  *)
LEMMA TurnedBack ==
    ASSUME IInv, UNCHANGED <<state, pending, container, volume, late, faults, issued>>,
           Goto("restop"), job.step \in Forward \ {"intent", "clear"}
    PROVE  IInv'
  <1>1. /\ job' \in Jobs /\ job'.step = "restop" /\ job'.action = job.action
        /\ job'.candidate = job.candidate /\ job'.memory = job.memory /\ job.memory = state
        /\ pending.candidate = job.candidate /\ job.candidate \in issued
    BY Went DEF IInv, Steps, Place, Forward
  <1>2. TypeOK' /\ OneRuns' /\ LateFits'
    <2>1. volume' \in [Releases -> SUBSET Rows] /\ pending' \in Pendings
          /\ issued \subseteq issued' /\ issued' \subseteq Releases
          /\ pending'.candidate \in issued' \cup {NoRelease}
      BY DEF IInv, TypeOK, Pendings
    <2>2. QED
      BY <1>1, <2>1, HostStays DEF IInv
  <1>3. PendingFits' /\ Named' /\ Placed'
    BY <1>1 DEF IInv, PendingFits, Named, Placed, Prompt, Running
  <1>4. Place'
    <2>1. pending # NoPending
      BY <1>1, NoJobFits, NoReleaseAssumption DEF IInv, TypeOK
    <2>2. QED
      BY <1>1, <2>1 DEF IInv, Place, Forward, Back
  <1>5. Candidate' /\ Remembered' /\ Proven' /\ Copied'
    BY <1>1 DEF Candidate, Remembered, Proven, Copied, Forward, Back
  <1>6. Kept'
    BY <1>1 DEF IInv, Kept, Prompt, Forward, Back
  <1>7. QED
    BY <1>2, <1>3, <1>4, <1>5, <1>6 DEF IInv

-----------------------------------------------------------------------------
(* The steps that call no container into or out of being.                  *)
LEMMA Announcing ==
    ASSUME IInv, Intent
    PROVE  IInv'
  <1>1. job.step = "intent" /\ UNCHANGED <<state, container, volume, late, faults, issued>>
    BY DEF Intent, At, host
  <1>2. CASE GiveUp
    BY <1>1, <1>2, GoneAway DEF GiveUp, IInv, TypeOK
  <1>3. CASE pending' = [candidate |-> new, previous |-> old] /\ Goto(Following("intent"))
    <2>1. /\ job' \in Jobs /\ job'.step = "stop" /\ job'.action = job.action
          /\ job'.candidate = job.candidate /\ job'.memory = job.memory
      BY <1>3, Went DEF IInv, Steps, Following
    <2>2. /\ job.memory = state /\ job.candidate \in issued /\ pending = NoPending
          /\ job.action \in {"deploy", "rollback"}
      BY <1>1 DEF IInv, Place, Forward
    <2>3. /\ pending' \in Pendings /\ pending'.candidate = job.candidate
          /\ pending'.previous = state.current /\ job.candidate \in Releases
      BY <1>3, <2>2 DEF new, old, IInv, TypeOK, Pendings, States, Known
    <2>4. TypeOK' /\ OneRuns' /\ LateFits' /\ PendingFits'
      <3>1. PendingFits'
        BY <2>3 DEF PendingFits
      <3>2. volume' \in [Releases -> SUBSET Rows] /\ issued \subseteq issued'
            /\ issued' \subseteq Releases /\ pending'.candidate \in issued' \cup {NoRelease}
        BY <1>1, <2>2, <2>3 DEF IInv, TypeOK
      <3>3. QED
        BY <1>1, <2>1, <2>3, <3>1, <3>2, HostStays DEF IInv
    <2>5. Place'
      BY <1>1, <2>1, <2>2, <2>3 DEF Place, Forward, Back
    <2>6. Candidate'
      BY <1>1, <2>1 DEF IInv, Candidate, Forward
    <2>7. Remembered' /\ Proven' /\ Copied'
      BY <2>1 DEF Remembered, Proven, Copied, Forward, Back
    <2>8. Named'
      BY <1>1, <2>1, <2>2, NoJobFits, NoReleaseAssumption DEF IInv, Named, Running
    <2>9. Placed'
      BY <1>1, <2>1, <2>2, <2>3, NoJobFits, NoReleaseAssumption DEF IInv, Placed, Prompt, Running
    <2>10. Kept'
      BY <1>1, <2>1, <2>3 DEF Kept
    <2>11. QED
      BY <2>4, <2>5, <2>6, <2>7, <2>8, <2>9, <2>10 DEF IInv
  <1>4. QED
    BY <1>2, <1>3 DEF Intent

(* The candidate's volume becomes the old one's while that one is stopped,  *)
(* or is served again behind the script's back, by the only late call.      *)
LEMMA Snapshotting ==
    ASSUME IInv, Snapshot
    PROVE  IInv'
  <1>1. /\ job.step = "snapshot" /\ job.action = "deploy" /\ job.memory = state
        /\ job.candidate \in issued /\ job.candidate \in Releases
        /\ pending.candidate = job.candidate /\ job.candidate # state.current
        /\ UNCHANGED <<state, container, late, faults, issued, pending>>
    BY DEF Snapshot, At, IInv, Place, Candidate, Forward, TypeOK, Succeeds, Rejected
  <1>2. CASE Rejected /\ UNCHANGED volume
    BY <1>1, <1>2, TurnedBack DEF Rejected, Forward
  <1>3. CASE /\ Succeeds
             /\ volume' = [volume EXCEPT ![new] = IF old = NoRelease THEN {} ELSE volume[old]]
    <2>1. /\ job' \in Jobs /\ job'.step = "prepare" /\ job'.action = job.action
          /\ job'.candidate = job.candidate /\ job'.memory = job.memory
      BY <1>1, <1>3, Went DEF IInv, Steps, Following, Succeeds
    <2>2. /\ volume' \in [Releases -> SUBSET Rows]
          /\ state.current # NoRelease =>
                volume'[job.candidate] = volume[state.current]
                /\ volume'[state.current] = volume[state.current]
      BY <1>1, <1>3 DEF new, old, IInv, TypeOK, States, Known
    <2>3. TypeOK' /\ OneRuns' /\ LateFits' /\ PendingFits'
      <3>1. pending' \in Pendings /\ issued \subseteq issued' /\ issued' \subseteq Releases
            /\ pending'.candidate \in issued' \cup {NoRelease} /\ PendingFits'
        BY <1>1 DEF IInv, TypeOK, Pendings, PendingFits
      <3>2. QED
        BY <1>1, <2>1, <2>2, <3>1, HostStays DEF IInv
    <2>4. Place' /\ Candidate' /\ Remembered' /\ Proven'
      BY <1>1, <2>1 DEF Place, Candidate, Remembered, Proven, Forward, Back
    <2>5. Named' /\ Placed' /\ Kept'
      BY <1>1, <2>1 DEF IInv, Named, Placed, Kept, Prompt, Running, Forward, Back
    <2>6. Copied'
      BY <1>1, <2>1, <2>2 DEF IInv, Copied, Running
    <2>7. QED
      BY <2>3, <2>4, <2>5, <2>6 DEF IInv
  <1>4. QED
    BY <1>2, <1>3 DEF Snapshot

LEMMA Preparing ==
    ASSUME IInv, Prepare
    PROVE  IInv'
  <1>1. /\ job.step = "prepare" /\ job.action = "deploy" /\ job.memory = state
        /\ UNCHANGED <<state, container, volume, late, faults, issued, pending>>
    BY DEF Prepare, At, IInv, Place, Forward, Succeeds, Rejected, host
  <1>2. CASE Rejected
    BY <1>1, <1>2, TurnedBack DEF Rejected, Forward
  <1>3. CASE Succeeds
    <2>1. /\ job' \in Jobs /\ job'.step = "run" /\ job'.action = job.action
          /\ job'.candidate = job.candidate /\ job'.memory = job.memory
      BY <1>1, <1>3, Went DEF IInv, Steps, Following, Succeeds
    <2>2. TypeOK' /\ OneRuns' /\ LateFits' /\ PendingFits'
      <3>1. volume' \in [Releases -> SUBSET Rows] /\ pending' \in Pendings
            /\ issued \subseteq issued' /\ issued' \subseteq Releases
            /\ pending'.candidate \in issued' \cup {NoRelease} /\ PendingFits'
        BY <1>1 DEF IInv, TypeOK, Pendings, PendingFits
      <3>2. QED
        BY <1>1, <2>1, <3>1, HostStays DEF IInv
    <2>3. Place' /\ Candidate' /\ Remembered' /\ Proven'
      BY <1>1, <2>1 DEF IInv, Place, Candidate, Remembered, Proven, Forward, Back
    <2>4. Named' /\ Placed' /\ Kept'
      BY <1>1, <2>1 DEF IInv, Named, Placed, Kept, Prompt, Running, Forward, Back
    <2>5. Copied'
      BY <1>1, <2>1 DEF IInv, Copied, Running
    <2>6. QED
      BY <2>2, <2>3, <2>4, <2>5 DEF IInv
  <1>4. QED
    BY <1>2, <1>3 DEF Prepare

(* What answers the probe holds the port, so the old release does not run.  *)
LEMMA Probing ==
    ASSUME IInv, Probe
    PROVE  IInv'
  <1>1. /\ job.step = "probe" /\ job.action \in {"deploy", "rollback"} /\ job.memory = state
        /\ job.candidate \in issued /\ pending.candidate = job.candidate
        /\ UNCHANGED <<state, container, volume, late, faults, issued, pending>>
    BY DEF Probe, At, IInv, Place, Forward, Succeeds, Rejected, host
  <1>2. CASE Rejected
    BY <1>1, <1>2, TurnedBack DEF Rejected, Forward
  <1>3. CASE new \in Running /\ Succeeds
    <2>1. /\ job' \in Jobs /\ job'.step = "save" /\ job'.action = job.action
          /\ job'.candidate = job.candidate /\ job'.memory = job.memory
      BY <1>1, <1>3, Went DEF IInv, Steps, Following, Succeeds
    <2>2. TypeOK' /\ OneRuns' /\ LateFits' /\ PendingFits'
      <3>1. volume' \in [Releases -> SUBSET Rows] /\ pending' \in Pendings
            /\ issued \subseteq issued' /\ issued' \subseteq Releases
            /\ pending'.candidate \in issued' \cup {NoRelease} /\ PendingFits'
        BY <1>1 DEF IInv, TypeOK, Pendings, PendingFits
      <3>2. QED
        BY <1>1, <2>1, <3>1, HostStays DEF IInv
    <2>3. Running = {job.candidate} /\ container[job.candidate] # "absent"
      BY <1>3 DEF IInv, OneRuns, new, Running
    <2>4. Place' /\ Candidate' /\ Remembered' /\ Proven'
      BY <1>1, <2>1, <2>3 DEF IInv, Place, Candidate, Remembered, Proven, Running, Forward, Back
    <2>5. Named' /\ Placed' /\ Kept'
      BY <1>1, <2>1 DEF IInv, Named, Placed, Kept, Prompt, Running, Forward, Back
    <2>6. Copied'
      <3>1. job.action = "deploy" => job.candidate # state.current
        BY <1>1 DEF IInv, Candidate, Forward
      <3>2. Running' = {job.candidate}
        BY <1>1, <2>3 DEF Running
      <3>3. QED
        BY <1>1, <2>1, <2>3, <3>1, <3>2 DEF IInv, Copied
    <2>7. QED
      BY <2>2, <2>4, <2>5, <2>6 DEF IInv
  <1>4. QED
    BY <1>2, <1>3 DEF Probe

(* The end of what went well: the candidate is the accepted release, and    *)
(* runs.                                                                   *)
LEMMA Clearing ==
    ASSUME IInv, Clear
    PROVE  IInv'
  <1>1. /\ job.step = "clear" /\ job.memory = state /\ state.current = job.candidate
        /\ job.candidate \in issued /\ pending.candidate = job.candidate
        /\ UNCHANGED <<state, container, volume, late, faults, issued>>
    BY DEF Clear, At, IInv, Place, Candidate, Forward, host
  <1>2. volume' \in [Releases -> SUBSET Rows] /\ issued \subseteq issued'
        /\ issued' \subseteq Releases
    BY <1>1 DEF IInv, TypeOK
  <1>3. CASE pending' = NoPending /\ Leave
    <2>1. job' \in Jobs /\ job'.step = "idle"
      BY <1>3, NoJobFits DEF Leave
    <2>2. TypeOK' /\ OneRuns' /\ LateFits'
      BY <1>1, <1>2, <1>3, <2>1, NoJobFits, HostStays DEF IInv
    <2>3. PendingFits'
      BY <1>3 DEF PendingFits
    <2>4. Named' /\ Placed'
      BY <1>1, <2>1 DEF IInv, Proven, Named, Placed, Prompt, Running
    <2>5. QED
      BY <1>3, <2>2, <2>3, <2>4, LeftFits DEF IInv
  <1>4. CASE "disk" \in faults /\ Rejected
    <2>1. /\ job' \in Jobs /\ job'.step = "restop" /\ job'.action = job.action
          /\ job'.candidate = job.candidate /\ job'.memory = job.memory /\ pending' = pending
      BY <1>4, Went DEF IInv, Steps, Rejected
    <2>2. TypeOK' /\ OneRuns' /\ LateFits' /\ PendingFits'
      <3>1. pending' \in Pendings /\ pending'.candidate \in issued' \cup {NoRelease}
            /\ PendingFits'
        BY <1>1, <2>1 DEF IInv, TypeOK, Pendings, PendingFits
      <3>2. QED
        BY <1>1, <1>2, <2>1, <3>1, HostStays DEF IInv
    <2>3. Place'
      <3>1. pending # NoPending
        BY <1>1, NoJobFits, NoReleaseAssumption DEF IInv, TypeOK
      <3>2. QED
        BY <1>1, <2>1, <3>1 DEF IInv, Place, Forward, Back
    <2>4. Candidate' /\ Remembered' /\ Proven' /\ Copied'
      BY <1>1, <2>1 DEF Candidate, Remembered, Proven, Copied, Forward, Back
    <2>5. Named' /\ Placed' /\ Kept'
      BY <1>1, <1>4, <2>1 DEF IInv, Named, Placed, Kept, Prompt, Running
    <2>6. QED
      BY <2>2, <2>3, <2>4, <2>5 DEF IInv
  <1>5. QED
    BY <1>3, <1>4 DEF Clear

(* What is running, and was found to be, is alone.                         *)
LEMMA Reprobing ==
    ASSUME IInv, ReprobeOld
    PROVE  IInv'
  <1>1. /\ job.step = "reprobe" /\ pending # NoPending
        /\ job.memory.current \in {state.current, state.previous}
        /\ "disk" \notin faults => job.memory = state
        /\ UNCHANGED <<state, container, volume, late, faults, issued, pending>>
    BY DEF ReprobeOld, At, IInv, Place, Remembered, Forward, Back, GiveUp, host
  <1>2. CASE GiveUp
    BY <1>1, <1>2, GoneAway DEF GiveUp, IInv, TypeOK
  <1>3. CASE old \in Running /\ Goto("reclear")
    <2>1. /\ job' \in Jobs /\ job'.step = "reclear" /\ job'.action = job.action
          /\ job'.candidate = job.candidate /\ job'.memory = job.memory
      BY <1>3, Went DEF IInv, Steps
    <2>2. TypeOK' /\ OneRuns' /\ LateFits' /\ PendingFits'
      <3>1. volume' \in [Releases -> SUBSET Rows] /\ pending' \in Pendings
            /\ issued \subseteq issued' /\ issued' \subseteq Releases
            /\ pending'.candidate \in issued' \cup {NoRelease} /\ PendingFits'
        BY <1>1 DEF IInv, TypeOK, Pendings, PendingFits
      <3>2. QED
        BY <1>1, <2>1, <3>1, HostStays DEF IInv
    <2>3. Place' /\ Candidate' /\ Proven' /\ Copied'
      BY <1>1, <2>1 DEF IInv, Place, Candidate, Proven, Copied, Forward, Back
    <2>4. Remembered' /\ Kept'
      BY <1>1, <2>1 DEF IInv, Remembered, Kept, Prompt, Forward, Back
    <2>5. Running = {job.memory.current} /\ Running' = Running
      BY <1>1, <1>3 DEF IInv, OneRuns, old, Running
    <2>6. Named'
      BY <1>1, <2>1, <2>5 DEF IInv, Named
    <2>7. Placed'
      BY <1>1, <2>1, <2>5 DEF IInv, Placed, Prompt
    <2>8. QED
      BY <2>2, <2>3, <2>4, <2>6, <2>7 DEF IInv
  <1>4. QED
    BY <1>2, <1>3 DEF ReprobeOld

LEMMA ClearingRestored ==
    ASSUME IInv, ClearRestored
    PROVE  IInv'
  <1>1. /\ job.step = "reclear" /\ Leave /\ pending' \in {pending, NoPending}
        /\ UNCHANGED <<state, container, volume, late, faults, issued>>
    BY DEF ClearRestored, At, host
  <1>2. CASE pending' = pending
    BY <1>1, <1>2, GoneAway DEF IInv, TypeOK
  <1>3. CASE pending' = NoPending
    <2>1. job' \in Jobs /\ job'.step = "idle"
      BY <1>1, NoJobFits DEF Leave
    <2>2. TypeOK' /\ OneRuns' /\ LateFits'
      <3>1. volume' \in [Releases -> SUBSET Rows] /\ issued \subseteq issued'
            /\ issued' \subseteq Releases
        BY <1>1 DEF IInv, TypeOK
      <3>2. QED
        BY <1>1, <1>3, <2>1, <3>1, NoJobFits, HostStays DEF IInv
    <2>3. PendingFits'
      BY <1>3 DEF PendingFits
    <2>4. Named' /\ Placed'
      BY <1>1, <2>1 DEF IInv, Named, Placed, Prompt, Running
    <2>5. QED
      BY <1>1, <2>2, <2>3, <2>4, LeftFits DEF IInv
  <1>4. QED
    BY <1>1, <1>2, <1>3

-----------------------------------------------------------------------------
(* What a call to docker about release x may have done when it returns.     *)
Containers == [Releases -> {"absent", "stopped", "running"}]
Existing == {r \in Releases : container[r] # "absent"}

LEMMA StopEffect ==
    ASSUME TypeOK, OneRuns, NEW x \in Releases, container' \in {container, AfterStop(x)}
    PROVE  /\ container' \in Containers /\ Existing \subseteq Existing' /\ OneRuns'
           /\ Running' \subseteq Running
           /\ container' = AfterStop(x) => x \notin Running'
  BY DEF TypeOK, OneRuns, AfterStop, Running, Containers, Existing

LEMMA StartEffect ==
    ASSUME TypeOK, OneRuns, NEW x \in Releases, PortFreeFor(x),
           container' \in {container, AfterStart(x)}
    PROVE  /\ container' \in Containers /\ Existing \subseteq Existing' /\ OneRuns'
           /\ Running' \subseteq {x}
           /\ container' = AfterStart(x) => Running' = {x}
  BY DEF TypeOK, OneRuns, AfterStart, PortFreeFor, Running, Containers, Existing

LEMMA LateCall ==
    ASSUME LateFits, UNCHANGED faults, NEW x \in Releases, NEW to \in {"stopped", "running"},
           late' = late \/ ("late" \in faults /\ late' = [release |-> x, to |-> to])
    PROVE  LateFits'
  BY DEF LateFits, Known

(* A step that calls docker and writes no file.                            *)
CallOnly == UNCHANGED <<state, pending, volume, issued, faults>>

LEMMA CallStays ==
    ASSUME TypeOK, PendingFits, CallOnly, container' \in Containers,
           Existing \subseteq Existing', LateFits', job' \in Jobs
    PROVE  TypeOK' /\ PendingFits'
  <1>1. TypeOK'
    BY DEF TypeOK, LateFits, CallOnly, Containers, Existing, Jobs, Known, States, Steps
  <1>2. PendingFits'
    BY DEF PendingFits, CallOnly
  <1>3. QED
    BY <1>1, <1>2

(* Rejected by docker: only the candidate may run that did not before.      *)
LEMMA CallRejected ==
    ASSUME IInv, CallOnly, container' \in Containers, Existing \subseteq Existing',
           OneRuns', LateFits', Running' \subseteq Running \cup {job.candidate},
           Goto("restop"), job.step \in Forward \ {"intent", "clear"}
    PROVE  IInv'
  <1>1. /\ job' \in Jobs /\ job'.step = "restop" /\ job'.action = job.action
        /\ job'.candidate = job.candidate /\ job'.memory = job.memory /\ job.memory = state
        /\ pending.candidate = job.candidate /\ job.candidate \in issued
    BY Went DEF IInv, Steps, Place, Forward
  <1>2. TypeOK' /\ PendingFits'
    BY <1>1, CallStays DEF IInv
  <1>3. Named' /\ Placed'
    <2>1. pending # NoPending
      BY <1>1, NoJobFits, NoReleaseAssumption DEF IInv, TypeOK
    <2>2. QED
      BY <1>1, <2>1 DEF IInv, Named, Placed, Prompt, CallOnly
  <1>4. Place'
    <2>1. pending # NoPending
      BY <1>1, NoJobFits, NoReleaseAssumption DEF IInv, TypeOK
    <2>2. QED
      BY <1>1, <2>1 DEF IInv, Place, Forward, Back, CallOnly
  <1>5. Candidate' /\ Remembered' /\ Proven' /\ Copied'
    BY <1>1 DEF Candidate, Remembered, Proven, Copied, Forward, Back, CallOnly
  <1>6. Kept'
    BY <1>1 DEF IInv, Kept, Prompt, Forward, Back, CallOnly
  <1>7. QED
    BY <1>2, <1>3, <1>4, <1>5, <1>6 DEF IInv

(* Given up in the middle of restore_current: pending.json stays.           *)
LEMMA CallGivenUp ==
    ASSUME IInv, CallOnly, container' \in Containers, Existing \subseteq Existing',
           OneRuns', LateFits', Leave, job.step \in Back,
           Running' \subseteq Running \cup {job.memory.current}
    PROVE  IInv'
  <1>1. job' \in Jobs /\ job'.step = "idle"
    BY NoJobFits DEF Leave
  <1>2. TypeOK' /\ PendingFits'
    BY <1>1, CallStays DEF IInv
  <1>3. /\ job.memory.current \in {state.current, state.previous}
        /\ "disk" \notin faults => job.memory = state
        /\ pending # NoPending
    BY DEF IInv, Remembered, Place
  <1>4. Named' /\ Placed'
    BY <1>1, <1>3 DEF IInv, Named, Placed, Prompt, CallOnly
  <1>5. QED
    BY <1>2, <1>4, LeftFits DEF IInv

LEMMA StoppingOld ==
    ASSUME IInv, StopOld
    PROVE  IInv'
  <1>1. /\ job.step = "stop" /\ job.action \in {"deploy", "rollback"} /\ job.memory = state
        /\ job.candidate \in issued /\ pending.candidate = job.candidate
        /\ old = state.current /\ old \in Known /\ UNCHANGED <<state, issued, faults>>
    BY DEF StopOld, At, IInv, Place, Forward, old, TypeOK, States
  <1>2. ASSUME old \in Releases, container' \in {container, AfterStop(old)}, Rejected,
               UNCHANGED volume, late' = late \/ ("late" \in faults
                                                  /\ late' = [release |-> old, to |-> "stopped"])
        PROVE  IInv'
    <2>1. LateFits'
      BY <1>1, <1>2, LateCall DEF IInv
    <2>2. CallOnly /\ Goto("restop")
      BY <1>1, <1>2 DEF CallOnly, Rejected
    <2>3. QED
      BY <1>1, <1>2, <2>1, <2>2, StopEffect, CallRejected DEF IInv, Forward
  <1>3. ASSUME Succeeds, UNCHANGED <<volume, late>>,
               \/ old = NoRelease /\ container' = container
               \/ old \in Releases /\ container' = AfterStop(old)
        PROVE  IInv'
    <2>1. /\ container' \in Containers /\ Existing \subseteq Existing' /\ OneRuns'
          /\ Running' \subseteq Running /\ state.current \notin Running'
      <3>1. CASE old \in Releases /\ container' = AfterStop(old)
        BY <1>1, <3>1, StopEffect DEF IInv
      <3>2. CASE old = NoRelease /\ container' = container
        BY <1>1, <3>2, NoReleaseAssumption
           DEF IInv, TypeOK, Containers, Existing, OneRuns, Running
      <3>3. QED
        BY <1>3, <3>1, <3>2
    <2>2. /\ job' \in Jobs /\ job'.action = job.action
          /\ job'.step = IF job.action = "deploy" THEN "snapshot" ELSE "start"
          /\ job'.candidate = job.candidate /\ job'.memory = job.memory
      BY <1>1, <1>3, Went DEF IInv, Steps, Following, Succeeds
    <2>3. CallOnly /\ LateFits'
      BY <1>1, <1>3 DEF CallOnly, Succeeds, IInv, LateFits
    <2>4. TypeOK' /\ PendingFits'
      BY <2>1, <2>2, <2>3, CallStays DEF IInv
    <2>5. Place' /\ Candidate' /\ Remembered' /\ Proven' /\ Kept'
      BY <1>1, <2>2, <2>3
         DEF IInv, Place, Candidate, Remembered, Proven, Kept, Prompt, Forward, Back, CallOnly
    <2>6. Named' /\ Placed'
      <3>1. pending # NoPending
        BY <1>1, NoJobFits, NoReleaseAssumption DEF IInv, TypeOK
      <3>2. QED
        BY <2>1, <2>2, <2>3, <3>1 DEF IInv, Named, Placed, Prompt, CallOnly
    <2>7. Copied'
      BY <1>1, <2>1, <2>2 DEF Copied
    <2>8. QED
      BY <2>1, <2>3, <2>4, <2>5, <2>6, <2>7 DEF IInv
  <1>4. CASE old = NoRelease /\ Succeeds /\ UNCHANGED <<container, volume, late>>
    BY <1>3, <1>4
  <1>5. ASSUME old # NoRelease
        PROVE  old \in Releases /\ AfterStop(old)[old] = "stopped"
    BY <1>1, <1>5 DEF Known, AfterStop, IInv, TypeOK
  <1>6. CASE old # NoRelease /\ Call(CanStop(old), AfterStop(old), Succeeds)
    BY <1>3, <1>5, <1>6 DEF Call
  <1>7. CASE old # NoRelease /\ FailedCall(CanStop(old), AfterStop(old), Rejected)
    BY <1>2, <1>5, <1>7 DEF FailedCall
  <1>8. CASE old # NoRelease /\ DelayedCall(CanStop(old), old, AfterStop(old), Rejected)
    BY <1>2, <1>5, <1>8 DEF DelayedCall
  <1>9. QED
    BY <1>4, <1>6, <1>7, <1>8 DEF StopOld

(* The candidate comes to run: only with the port free, so nothing else     *)
(* does, and what the old release had is in the volume copied before.      *)
LEMMA Launching ==
    ASSUME IInv, Run \/ StartNew
    PROVE  IInv'
  <1>1. /\ job.step \in {"run", "start"} /\ job.memory = state
        /\ job.action = IF job.step = "run" THEN "deploy" ELSE "rollback"
        /\ job.candidate \in issued /\ new = job.candidate /\ new \in Releases
        /\ pending.candidate = job.candidate /\ UNCHANGED <<state, issued, faults>>
    BY DEF Run, StartNew, At, IInv, Place, Forward, new, TypeOK
  <1>2. ASSUME Rejected, UNCHANGED volume,
               \/ container' \in {container, AfterStop(new)}
               \/ PortFreeFor(new) /\ container' = AfterStart(new),
               late' = late \/ ("late" \in faults
                                /\ late' = [release |-> new, to |-> "running"])
        PROVE  IInv'
    <2>1. LateFits'
      BY <1>1, <1>2, LateCall DEF IInv
    <2>2. CallOnly /\ Goto("restop")
      BY <1>1, <1>2 DEF CallOnly, Rejected
    <2>3. /\ container' \in Containers /\ Existing \subseteq Existing' /\ OneRuns'
          /\ Running' \subseteq Running \cup {job.candidate}
      BY <1>1, <1>2, StopEffect, StartEffect DEF IInv
    <2>4. QED
      BY <1>1, <2>1, <2>2, <2>3, CallRejected DEF Forward
  <1>3. ASSUME Succeeds, UNCHANGED <<volume, late>>, PortFreeFor(new),
               container' = AfterStart(new)
        PROVE  IInv'
    <2>1. /\ container' \in Containers /\ Existing \subseteq Existing' /\ OneRuns'
          /\ Running' = {job.candidate} /\ Running \subseteq {job.candidate}
      BY <1>1, <1>3, StartEffect DEF IInv, PortFreeFor
    <2>2. /\ job' \in Jobs /\ job'.action = job.action /\ job'.step = "probe"
          /\ job'.candidate = job.candidate /\ job'.memory = job.memory
      BY <1>1, <1>3, Went DEF IInv, Steps, Following, Succeeds
    <2>3. CallOnly /\ LateFits'
      BY <1>1, <1>3 DEF CallOnly, Succeeds, IInv, LateFits
    <2>4. TypeOK' /\ PendingFits'
      BY <2>1, <2>2, <2>3, CallStays DEF IInv
    <2>5. Place' /\ Candidate' /\ Remembered' /\ Proven' /\ Kept'
      BY <1>1, <2>2, <2>3
         DEF IInv, Place, Candidate, Remembered, Proven, Kept, Prompt, Forward, Back, CallOnly
    <2>6. Named' /\ Placed'
      <3>1. pending # NoPending
        BY <1>1, NoJobFits, NoReleaseAssumption
      <3>2. QED
        BY <1>1, <2>1, <2>2, <2>3, <3>1 DEF Named, Placed, Prompt, CallOnly
    <2>7. Copied'
      <3>1. job.action = "deploy" => job.candidate # state.current
        BY <1>1 DEF IInv, Candidate, Forward
      <3>2. QED
        BY <1>1, <1>3, <2>1, <2>2, <3>1 DEF IInv, Copied
    <2>8. QED
      BY <2>1, <2>3, <2>4, <2>5, <2>6, <2>7 DEF IInv
  <1>4. AfterStart(new)[new] = "running"
    BY <1>1 DEF AfterStart, IInv, TypeOK
  <1>5. CASE Run
    <2>1. CASE Call(PortFreeFor(new), AfterStart(new), Succeeds)
      BY <1>3, <2>1 DEF Call
    <2>2. CASE Call(~PortFreeFor(new), AfterStop(new), Rejected)
      BY <1>2, <2>2 DEF Call
    <2>3. CASE FailedCall(PortFreeFor(new), AfterStart(new), Rejected)
      BY <1>2, <2>3 DEF FailedCall
    <2>4. CASE DelayedCall(PortFreeFor(new), new, AfterStart(new), Rejected)
      BY <1>2, <1>4, <2>4 DEF DelayedCall
    <2>5. QED
      BY <1>5, <2>1, <2>2, <2>3, <2>4 DEF Run
  <1>6. CASE StartNew
    <2>1. CASE Call(CanStart(new), AfterStart(new), Succeeds)
      BY <1>3, <2>1 DEF Call, CanStart
    <2>2. CASE FailedCall(CanStart(new), AfterStart(new), Rejected)
      BY <1>2, <2>2 DEF FailedCall, CanStart
    <2>3. CASE DelayedCall(CanStart(new), new, AfterStart(new), Rejected)
      BY <1>2, <1>4, <2>3 DEF DelayedCall
    <2>4. QED
      BY <1>6, <2>1, <2>2, <2>3 DEF StartNew
  <1>7. QED
    BY <1>5, <1>6

(* restore_current goes on: nothing runs that did not, or the release it    *)
(* remembers as accepted.                                                  *)
LEMMA CallRestores ==
    ASSUME IInv, CallOnly, container' \in Containers, Existing \subseteq Existing',
           OneRuns', LateFits', NEW step \in {"restart", "reprobe", "reclear"}, Goto(step),
           job.step \in Back,
           Running' \subseteq Running \cup {job.memory.current},
           step = "reclear" => job.memory.current = NoRelease
    PROVE  IInv'
  <1>1. /\ job' \in Jobs /\ job'.step = step /\ job'.action = job.action
        /\ job'.candidate = job.candidate /\ job'.memory = job.memory
    BY Went DEF IInv, Steps
  <1>2. TypeOK' /\ PendingFits'
    BY <1>1, CallStays DEF IInv
  <1>3. /\ job.memory.current \in {state.current, state.previous}
        /\ job.memory.current = NoRelease => state.current = NoRelease
        /\ "disk" \notin faults => job.memory = state
        /\ pending # NoPending /\ job.action # "none"
    BY DEF IInv, Remembered, Place, Back
  <1>4. Place' /\ Candidate' /\ Remembered' /\ Proven' /\ Copied'
    BY <1>1, <1>3
       DEF Place, Candidate, Remembered, Proven, Copied, Forward, Back, CallOnly
  <1>5. Kept'
    BY <1>1 DEF IInv, Kept, Prompt, Forward, Back, CallOnly
  <1>6. Named' /\ Placed'
    BY <1>1, <1>3 DEF IInv, Named, Placed, Prompt, CallOnly
  <1>7. QED
    BY <1>2, <1>4, <1>5, <1>6 DEF IInv

LEMMA StoppingNew ==
    ASSUME IInv, RestopNew
    PROVE  IInv'
  <1>1. /\ job.step = "restop" /\ new \in Releases /\ UNCHANGED <<state, issued, faults>>
    BY DEF RestopNew, At, new, IInv, Place, TypeOK
  <1>2. AfterStop(new)[new] = "stopped"
    BY <1>1 DEF AfterStop, IInv, TypeOK
  <1>3. /\ container' \in {container, AfterStop(new)} /\ UNCHANGED <<volume, pending>>
        /\ late' = late \/ ("late" \in faults /\ late' = [release |-> new, to |-> "stopped"])
        /\ Goto("restart") \/ Leave
    BY <1>2 DEF RestopNew, Call, FailedCall, DelayedCall, GiveUp
  <1>4. LateFits' /\ CallOnly
    BY <1>1, <1>3, LateCall DEF IInv, CallOnly
  <1>5. QED
    BY <1>1, <1>3, <1>4, StopEffect, CallRestores, CallGivenUp DEF IInv, Back

LEMMA RestartingOld ==
    ASSUME IInv, RestartOld
    PROVE  IInv'
  <1>1. /\ job.step = "restart" /\ old = job.memory.current /\ old \in Known
        /\ UNCHANGED <<state, issued, faults>>
    BY DEF RestartOld, At, old, IInv, TypeOK, States
  <1>2. CASE old = NoRelease /\ Goto("reclear") /\ UNCHANGED <<pending, container, volume, late>>
    <2>1. CallOnly /\ LateFits' /\ OneRuns' /\ Running' = Running
          /\ container' \in Containers /\ Existing \subseteq Existing'
      BY <1>1, <1>2
         DEF CallOnly, IInv, LateFits, OneRuns, Running, TypeOK, Containers, Existing
    <2>2. QED
      BY <1>1, <1>2, <2>1, CallRestores DEF Back
  <1>3. CASE old # NoRelease
    <2>1. old \in Releases
      BY <1>1, <1>3 DEF Known
    <2>2. AfterStart(old)[old] = "running"
      BY <2>1 DEF AfterStart, IInv, TypeOK
    <2>3. /\ container' = container \/ (PortFreeFor(old) /\ container' = AfterStart(old))
          /\ UNCHANGED <<volume, pending>>
          /\ Goto("reprobe") \/ Leave
          /\ late' = late \/ ("late" \in faults /\ late' = [release |-> old, to |-> "running"])
      BY <1>3, <2>2 DEF RestartOld, Call, FailedCall, DelayedCall, GiveUp, CanStart
    <2>4. LateFits' /\ CallOnly
      BY <1>1, <2>1, <2>3, LateCall DEF IInv, CallOnly
    <2>5. /\ container' \in Containers /\ Existing \subseteq Existing' /\ OneRuns'
          /\ Running' \subseteq Running \cup {job.memory.current}
      <3>1. CASE container' = container
        BY <3>1 DEF IInv, OneRuns, Running, TypeOK, Containers, Existing
      <3>2. CASE PortFreeFor(old) /\ container' = AfterStart(old)
        BY <1>1, <2>1, <3>2, StartEffect DEF IInv
      <3>3. QED
        BY <2>3, <3>1, <3>2
    <2>6. QED
      BY <1>1, <2>3, <2>4, <2>5, CallRestores, CallGivenUp DEF Back
  <1>4. QED
    BY <1>2, <1>3 DEF RestartOld

-----------------------------------------------------------------------------
(* state.json names the candidate, which runs, or was copied to while the   *)
(* old release did not; a save that fails turns back.                      *)
LEMMA Saving ==
    ASSUME IInv, Save
    PROVE  IInv'
  <1> DEFINE accepted == [current |-> job.candidate, previous |-> state.current]
  <1>1. /\ job.step = "save" /\ job.action \in {"deploy", "rollback"} /\ job.memory = state
        /\ job.candidate \in issued /\ job.candidate \in Releases
        /\ pending.candidate = job.candidate /\ container[job.candidate] # "absent"
        /\ UNCHANGED <<pending, container, volume, late, issued, faults>>
    BY DEF Save, At, IInv, Place, Candidate, Forward, TypeOK, host
  <1>2. /\ accepted \in States /\ accepted.current = job.candidate
        /\ accepted.previous = state.current
    BY <1>1 DEF IInv, TypeOK, States, Known
  <1>3. pending # NoPending /\ job.candidate # NoRelease
    BY <1>1, NoJobFits, NoReleaseAssumption
  <1>4. accepted = [current |-> new, previous |-> old]
    BY <1>1 DEF new, old
  <1>5. \/ /\ state' = accepted
           /\ job' = [[job EXCEPT !.memory = accepted] EXCEPT !.step = "clear"]
        \/ /\ "disk" \in faults /\ UNCHANGED state
           /\ job' = [IF job.action = "rollback" THEN [job EXCEPT !.memory = accepted] ELSE job
                      EXCEPT !.step = "restop"]
    BY <1>4 DEF Save, Following
  <1> HIDE DEF accepted
  <1>6. CASE /\ state' = accepted
             /\ job' = [[job EXCEPT !.memory = accepted] EXCEPT !.step = "clear"]
    <2>1. /\ job' \in Jobs /\ job'.step = "clear" /\ job'.action = job.action
          /\ job'.candidate = job.candidate /\ job'.memory = accepted
      BY <1>2, <1>6 DEF IInv, TypeOK, Jobs, Steps
    <2>2. TypeOK'
      BY <1>1, <1>2, <1>6, <2>1 DEF IInv, TypeOK, Jobs
    <2>3. OneRuns' /\ LateFits' /\ PendingFits'
      BY <1>1 DEF IInv, OneRuns, LateFits, PendingFits, Running
    <2>4. Place' /\ Candidate' /\ Remembered' /\ Kept' /\ Copied'
      BY <1>1, <1>2, <1>6, <2>1 DEF IInv, Place, Candidate, Remembered, Kept, Copied, Forward, Back
    <2>5. Proven' /\ Named' /\ Placed'
      <3>1. "late" \notin faults => Running' = {job.candidate}
        BY <1>1 DEF IInv, Proven, Running
      <3>2. QED
        BY <1>1, <1>2, <1>3, <1>6, <2>1, <3>1 DEF Proven, Named, Placed, Prompt
    <2>6. QED
      BY <2>2, <2>3, <2>4, <2>5 DEF IInv
  <1>7. CASE /\ "disk" \in faults /\ UNCHANGED state
             /\ job' = [IF job.action = "rollback" THEN [job EXCEPT !.memory = accepted] ELSE job
                        EXCEPT !.step = "restop"]
    <2>1. /\ job' \in Jobs /\ job'.step = "restop" /\ job'.action = job.action
          /\ job'.candidate = job.candidate
          /\ job'.memory = IF job.action = "rollback" THEN accepted ELSE state
      <3>1. CASE job.action = "rollback"
        BY <1>2, <1>7, <3>1 DEF IInv, TypeOK, Jobs, Steps
      <3>2. CASE job.action # "rollback"
        BY <1>1, <1>7, <3>2 DEF IInv, TypeOK, Jobs, Steps
      <3>3. QED
        BY <3>1, <3>2
    <2>2. TypeOK' /\ OneRuns' /\ LateFits'
      <3>1. volume' \in [Releases -> SUBSET Rows] /\ pending' \in Pendings
            /\ issued \subseteq issued' /\ issued' \subseteq Releases
            /\ pending'.candidate \in issued' \cup {NoRelease}
        BY <1>1 DEF IInv, TypeOK, Pendings
      <3>2. QED
        BY <1>1, <1>7, <2>1, <3>1, HostStays DEF IInv
    <2>3. PendingFits' /\ Named' /\ Placed'
      BY <1>1, <1>7, <2>1 DEF IInv, PendingFits, Named, Placed, Prompt, Running
    <2>4. Place'
      BY <1>1, <1>3, <1>7, <2>1 DEF IInv, Place, Forward, Back
    <2>5. Remembered'
      <3>1. job.action = "rollback" => job.candidate = state.previous
        BY <1>1 DEF IInv, Candidate, Forward
      <3>2. QED
        BY <1>1, <1>2, <1>3, <1>7, <2>1, <3>1 DEF Remembered
    <2>6. Candidate' /\ Proven' /\ Copied' /\ Kept'
      BY <1>1, <1>7, <2>1 DEF Candidate, Proven, Copied, Kept, Prompt, Forward, Back
    <2>7. QED
      BY <2>2, <2>3, <2>4, <2>5, <2>6 DEF IInv
  <1>8. QED
    BY <1>5, <1>6, <1>7

(* The one call given up on takes effect: what holds the port keeps it.     *)
LEMMA ComingLate ==
    ASSUME IInv, TakesEffect
    PROVE  IInv'
  <1> DEFINE x == late.release
  <1>1. /\ late # NoCall /\ late' = NoCall /\ "late" \in faults /\ x \in Releases
        /\ late.to \in {"stopped", "running"}
        /\ UNCHANGED <<state, pending, volume, issued, job, faults>>
    BY DEF TakesEffect, IInv, LateFits
  <1>2. \/ container' = AfterStop(x)
        \/ PortFreeFor(x) /\ container' = AfterStart(x)
    BY <1>1 DEF TakesEffect, AfterStop, AfterStart
  <1> HIDE DEF x
  <1>3. /\ container' \in Containers /\ Existing \subseteq Existing' /\ OneRuns'
        /\ Running' \subseteq Running \/ Running \subseteq {x}
    BY <1>1, <1>2, StopEffect, StartEffect DEF IInv, PortFreeFor
  <1>4. LateFits'
    BY <1>1 DEF LateFits, NoCall, Known
  <1>5. TypeOK' /\ PendingFits'
    BY <1>1, <1>3, <1>4, CallStays DEF IInv, CallOnly, TypeOK, Jobs
  <1>6. Place' /\ Remembered' /\ Proven' /\ Named' /\ Placed' /\ Kept'
    BY <1>1 DEF IInv, Place, Remembered, Proven, Named, Placed, Kept, Prompt
  <1>7. Candidate'
    <2>1. job.step = "save" => container'[job.candidate] # "absent"
      <3>1. job.step = "save" => job.candidate \in Releases /\ container[job.candidate] # "absent"
        BY DEF IInv, Candidate, Place, Forward, TypeOK
      <3>2. QED
        BY <1>3, <3>1 DEF Existing
    <2>2. QED
      BY <1>1, <2>1 DEF IInv, Candidate
  <1>8. Copied'
    <2> SUFFICES ASSUME job.action = "deploy", state.current # NoRelease
                 PROVE  Copied'
      BY <1>1 DEF Copied
    <2>1. job.step \in {"prepare", "run", "probe", "save"} =>
             volume[state.current] \subseteq volume[job.candidate]
      BY <1>1 DEF IInv, Copied
    <2>2. ASSUME job.step = "save"
          PROVE  state.current \notin Running'
      <3>1. job.candidate \in Running /\ state.current \notin Running
        BY <1>1, <2>2 DEF IInv, Copied
      <3>2. state.current # job.candidate
        BY <2>2 DEF IInv, Candidate, Forward
      <3>3. CASE container' = AfterStop(x)
        BY <1>1, <3>1, <3>3, StopEffect DEF IInv
      <3>4. CASE PortFreeFor(x) /\ container' = AfterStart(x)
        BY <1>1, <3>1, <3>2, <3>4, StartEffect DEF IInv, PortFreeFor
      <3>5. QED
        BY <1>2, <3>3, <3>4
    <2>3. QED
      BY <1>1, <2>1, <2>2 DEF Copied
  <1>9. QED
    BY <1>3, <1>4, <1>5, <1>6, <1>7, <1>8 DEF IInv

(* A row goes to the release that runs.                                    *)
LEMMA Serving ==
    ASSUME IInv, Serve
    PROVE  IInv'
  <1>1. PICK r \in Running, w \in Rows :
           /\ volume' = [volume EXCEPT ![r] = @ \cup {w}]
           /\ UNCHANGED <<state, pending, container, late, issued, job, faults>>
    BY DEF Serve
  <1>2. /\ volume' \in [Releases -> SUBSET Rows]
        /\ \A q \in Releases : volume[q] \subseteq volume'[q]
        /\ \A q \in Releases \ {r} : volume'[q] = volume[q]
    BY <1>1 DEF IInv, TypeOK, Running
  <1>3. TypeOK' /\ OneRuns' /\ LateFits'
    <2>1. /\ job' \in Jobs /\ pending' \in Pendings /\ issued \subseteq issued'
          /\ issued' \subseteq Releases /\ pending'.candidate \in issued' \cup {NoRelease}
      BY <1>1 DEF IInv, TypeOK, Jobs, Pendings
    <2>2. QED
      BY <1>1, <1>2, <2>1, HostStays DEF IInv
  <1>4. PendingFits' /\ Place' /\ Candidate' /\ Remembered'
    BY <1>1 DEF IInv, PendingFits, Place, Candidate, Remembered
  <1>5. Proven' /\ Named' /\ Placed' /\ Kept'
    BY <1>1 DEF IInv, Proven, Named, Placed, Kept, Prompt, Running
  <1>6. Copied'
    <2>1. Running' = Running
      BY <1>1 DEF Running
    <2>2. state.current # NoRelease => state.current \in Releases
      BY DEF IInv, TypeOK, States, Known
    <2>3. job.step \in {"prepare", "run", "probe", "save"} => job.candidate \in Releases
      BY DEF IInv, Place, Forward, TypeOK
    <2>4. QED
      BY <1>1, <1>2, <2>1, <2>2, <2>3 DEF IInv, Copied
  <1>7. QED
    BY <1>3, <1>4, <1>5, <1>6 DEF IInv

-----------------------------------------------------------------------------
LEMMA Starting ==
    ASSUME Init
    PROVE  IInv
  <1>1. /\ state = NothingAccepted /\ pending = NoPending /\ job = NoJob /\ late = NoCall
        /\ container = [r \in Releases |-> "absent"] /\ volume = [r \in Releases |-> {}]
        /\ issued = {}
    BY DEF Init
  <1>2. /\ state.current = NoRelease /\ state.previous = NoRelease /\ state \in States
        /\ Running = {}
    BY <1>1 DEF NothingAccepted, States, Known, Running
  <1>3. TypeOK
    BY <1>1, <1>2, NoJobFits DEF TypeOK, NoCall, Known, Jobs, Pendings
  <1>4. LateFits
    BY <1>1 DEF LateFits, NoCall, Known
  <1>5. OneRuns /\ PendingFits /\ Proven /\ Named /\ Placed /\ Kept /\ Copied
    BY <1>1, <1>2, NoJobFits DEF OneRuns, PendingFits, Proven, Named, Placed, Kept, Copied,
                                 Forward, Back
  <1>6. Place /\ Candidate /\ Remembered
    BY <1>1, NoJobFits DEF Place, Candidate, Remembered, Forward, Back
  <1>7. QED
    BY <1>3, <1>4, <1>5, <1>6 DEF IInv

LEMMA Stepping ==
    ASSUME IInv, [Next]_vars
    PROVE  IInv'
  <1>1. CASE UNCHANGED vars
    BY <1>1 DEF vars, IInv, TypeOK, OneRuns, LateFits, PendingFits, Place, Candidate, Remembered,
                Proven, Named, Placed, Kept, Copied, Prompt, Running
  <1>2. CASE Die
    BY <1>2, GoneAway DEF Die, host, IInv, TypeOK
  <1>3. QED
    BY <1>1, <1>2, StartingDeploy, StartingRollback, StartingRecover, Announcing, StoppingOld,
       Snapshotting, Preparing, Launching, Probing, Saving, Clearing, StoppingNew, RestartingOld,
       Reprobing, ClearingRestored, ComingLate, Serving DEF Next

(* Every reachable state of the host satisfies the strengthened invariant   *)
(* the theorems below are read off.                                        *)
THEOREM Invariance == Spec => []IInv
  <1>1. Init => IInv
    BY Starting
  <1>2. IInv /\ [Next]_vars => IInv'
    BY Stepping
  <1>3. QED
    BY <1>1, <1>2, PTL DEF Spec

(* Files, containers and the script keep their types, and the releases in   *)
(* state.json have their containers, which rollback needs.                 *)
THEOREM TypeCorrect == Spec => []TypeOK
  <1>1. IInv => TypeOK
    BY DEF IInv
  <1>2. QED
    BY <1>1, Invariance, PTL

(* scripts/deploy.py at rest: what runs is the accepted release, although   *)
(* docker calls fail and the script dies.                                  *)
THEOREM SettledAtRest == Spec => []Settled
  <1>1. IInv => Settled
    BY DEF IInv, Placed, Settled, Interrupted
  <1>2. QED
    BY <1>1, Invariance, PTL

(* An interrupted operation can be recovered from: only the candidate,      *)
(* which recover stops, may be in the way of the accepted release.         *)
THEOREM PortFoundByRecover == Spec => []RecoverFindsPort
  <1>1. IInv => RecoverFindsPort
    BY DEF IInv, Placed, RecoverFindsPort
  <1>2. QED
    BY <1>1, Invariance, PTL

(* Docker, disk or the script may fail: the release that runs is named in   *)
(* state.json or pending.json.                                             *)
THEOREM RunningAlwaysNamed == Spec => []RunningIsNamed
  <1>1. IInv => RunningIsNamed
    BY DEF IInv, Named, RunningIsNamed
  <1>2. QED
    BY <1>1, Invariance, PTL

(* restore_current puts back what was accepted before the operation.        *)
THEOREM FailuresChangeNothing == Spec => []FailureChangesNothing
  <1>1. IInv => FailureChangesNothing
    BY DEF IInv, Kept, FailureChangesNothing, At, Back
  <1>2. QED
    BY <1>1, Invariance, PTL

(* state.json changes only in Save, which a deployment reaches with the old *)
(* release's rows in the new one's volume, also when a call comes late.    *)
THEOREM RowsAlwaysMove == Spec => RowsMove
  <1>1. ASSUME IInv, [Next]_vars, job.action = "deploy", state'.current # state.current,
               state.current # NoRelease
        PROVE  volume[state.current] \subseteq volume[state'.current]
    <2>1. Save
      BY <1>1 DEF Next, vars, host, StartDeploy, StartRollback, StartRecover, Intent, StopOld,
                  Snapshot, Prepare, Run, StartNew, Probe, Clear, RestopNew, RestartOld,
                  ReprobeOld, ClearRestored, Die, TakesEffect, Serve
    <2>2. job.step = "save" /\ state' = [current |-> job.candidate, previous |-> old]
      BY <1>1, <2>1 DEF Save, At, new
    <2>3. volume[state.current] \subseteq volume[job.candidate]
      BY <1>1, <2>2 DEF IInv, Copied
    <2>4. QED
      BY <2>2, <2>3
  <1>2. IInv /\ [Next]_vars =>
           [job.action = "deploy" /\ state'.current # state.current /\ state.current # NoRelease =>
               volume[state.current] \subseteq volume[state'.current]]_vars
    BY <1>1
  <1>3. QED
    BY <1>2, Invariance, PTL DEF Spec, RowsMove
=============================================================================
