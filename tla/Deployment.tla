------------------------------ MODULE Deployment ------------------------------
(***************************************************************************)
(* scripts/deploy.py on the staging host: deploy, rollback and recover, as *)
(* the docker calls and file operations they are made of.  A call may      *)
(* fail, with or without its effect; a file operation may fail; the script *)
(* may die between any two.  Two of them never run at once (flock).        *)
(*                                                                         *)
(*   deploy    intent stop snapshot prepare run probe save clear           *)
(*   rollback  intent stop start probe save clear                          *)
(*   restore_current, after a failure of either and in recover:            *)
(*             restop restart reprobe reclear                              *)
(*                                                                         *)
(* snapshot is `volume create' and the copy of the old volume, prepare the *)
(* migration and the operator: throw-away containers that touch only the   *)
(* new volume.  Every release listens on the same port, so at most one of  *)
(* them can run.  What precedes intent in deploy (the configuration, the   *)
(* pull, the labels) fails without effect and is left out.                 *)
(***************************************************************************)
EXTENDS FiniteSets

CONSTANTS
    Releases,   \* release ids, in the order of nothing: uuid4
    NoRelease,
    Rows,       \* what clients write into a release's database
    FaultSets   \* the combinations of what may go wrong

ASSUME FaultsAssumption == FaultSets \subseteq SUBSET {"docker", "disk", "crash", "late"}
ASSUME NoReleaseAssumption == NoRelease \notin Releases

VARIABLES
    state,      \* state.json: the accepted release and the one before it
    pending,    \* pending.json; a candidate of NoRelease: there is no such file
    container,  \* what docker has for each release
    volume,     \* the rows in each release's database
    late,       \* a docker call given up on that may still take effect
    issued,     \* the ids given out so far
    job,        \* the running script; memory is its self.state
    faults      \* what may go wrong on this host, once and for all

vars == <<state, pending, container, volume, late, issued, job, faults>>
host == <<container, volume, late, issued, faults>>

NothingAccepted == [current |-> NoRelease, previous |-> NoRelease]
NoPending == [candidate |-> NoRelease, previous |-> NoRelease]
NoCall == [release |-> NoRelease, to |-> "absent"]
NoJob == [action |-> "none", step |-> "idle", candidate |-> NoRelease,
          memory |-> NothingAccepted]

Init == /\ state = NothingAccepted /\ pending = NoPending
        /\ container = [r \in Releases |-> "absent"]
        /\ volume = [r \in Releases |-> {}]
        /\ late = NoCall /\ issued = {} /\ job = NoJob
        /\ faults \in FaultSets

Interrupted == pending # NoPending
Idle == job.action = "none"

-----------------------------------------------------------------------------
(* main(): the state is read, and an unfinished operation blocks the next. *)
Begin(action, step, candidate) ==
    job' = [action |-> action, step |-> step, candidate |-> candidate, memory |-> state]

(* Deviation: no such block.                                                *)
AlwaysMayStart == Idle

MayStart == Idle /\ ~Interrupted

StartDeploy == /\ MayStart
               /\ \E r \in Releases \ issued : /\ issued' = issued \cup {r}
                                               /\ Begin("deploy", "intent", r)
               /\ UNCHANGED <<state, pending, container, volume, late, faults>>

StartRollback == /\ MayStart /\ state.previous # NoRelease
                 /\ Begin("rollback", "intent", state.previous)
                 /\ UNCHANGED <<state, pending, host>>

(* The candidate may have been accepted just before the interruption: then *)
(* there is nothing to stop.                                               *)
StartRecover ==
    /\ Idle /\ Interrupted
    /\ IF pending.candidate = state.current THEN Begin("recover", "restart", NoRelease)
       ELSE Begin("recover", "restop", pending.candidate)
    /\ UNCHANGED <<state, pending, host>>

-----------------------------------------------------------------------------
(* Going on, being rejected (the except branch), giving up (an exception   *)
(* out of the except branch: pending.json stays), being done.              *)
Goto(step) == job' = [job EXCEPT !.step = step]
Leave == job' = NoJob

(* Deviations: the copy while the old release still runs; the acceptance   *)
(* recorded before it is known.                                            *)
CopiedLive(step) ==
    CASE step = "intent" -> "snapshot" [] step = "snapshot" -> "stop"
      [] step = "stop" -> IF job.action = "deploy" THEN "prepare" ELSE "start"
      [] step = "prepare" -> "run" [] step \in {"run", "start"} -> "probe"
      [] step = "probe" -> "save" [] step = "save" -> "clear"
SavedUnproven(step) ==
    CASE step = "intent" -> "stop"
      [] step = "stop" -> IF job.action = "deploy" THEN "snapshot" ELSE "start"
      [] step = "snapshot" -> "prepare" [] step = "prepare" -> "run"
      [] step \in {"run", "start"} -> "save" [] step = "save" -> "probe"
      [] step = "probe" -> "clear"

Following(step) ==
    CASE step = "intent" -> "stop"
      [] step = "stop" -> IF job.action = "deploy" THEN "snapshot" ELSE "start"
      [] step = "snapshot" -> "prepare" [] step = "prepare" -> "run"
      [] step \in {"run", "start"} -> "probe" [] step = "probe" -> "save"
      [] step = "save" -> "clear"

(* Deviation: pending.json removed whatever happens.                        *)
ForgetAnyway == Leave /\ pending' = NoPending

GiveUp == Leave /\ UNCHANGED pending

Succeeds == Goto(Following(job.step)) /\ UNCHANGED pending
Rejected == Goto("restop") /\ UNCHANGED pending

Running == {r \in Releases : container[r] = "running"}
PortFreeFor(r) == Running \subseteq {r}

(* Deviation: containers run with --rm, gone once they stop.                *)
AfterStopRemoved(r) == [container EXCEPT ![r] = "absent"]

(* docker stop, start and run of release r: what the host looks like after *)
(* a call that took effect, and when a call can report success.            *)
AfterStop(r) == [container EXCEPT ![r] = "stopped"]
AfterStart(r) == [container EXCEPT ![r] = "running"]
CanStop(r) == container[r] # "absent"
CanStart(r) == container[r] # "absent" /\ PortFreeFor(r)

Call(possible, after, next) ==
    possible /\ container' = after /\ next /\ UNCHANGED <<volume, late>>
FailedCall(possible, after, next) ==
    /\ ~possible \/ "docker" \in faults
    /\ container' \in IF possible THEN {container, after} ELSE {container}
    /\ next /\ UNCHANGED <<volume, late>>

(* subprocess.TimeoutExpired: docker goes on with the call by itself.      *)
DelayedCall(possible, r, after, next) ==
    /\ "late" \in faults /\ late = NoCall
    /\ possible /\ late' = [release |-> r, to |-> after[r]]
    /\ next /\ UNCHANGED <<container, volume>>

TakesEffect ==
    /\ late # NoCall /\ late' = NoCall
    /\ container' = [container EXCEPT ![late.release] =
                        IF late.to = "stopped" \/ PortFreeFor(late.release) THEN late.to
                        ELSE "stopped"]
    /\ UNCHANGED <<state, pending, volume, issued, job, faults>>

-----------------------------------------------------------------------------
(* The steps of deploy and rollback; the release in job is theirs.         *)
At(step) == job.step = step
old == job.memory.current
new == job.candidate

(* pending.json is written, before anything is touched.                    *)
Intent ==
    /\ At("intent")
    /\ \/ /\ pending' = [candidate |-> new, previous |-> old]
          /\ Goto(Following("intent"))
       \/ "disk" \in faults /\ GiveUp
    /\ UNCHANGED <<state, host>>

StopOld ==
    /\ At("stop")
    /\ \/ old = NoRelease /\ Succeeds /\ UNCHANGED <<container, volume, late>>
       \/ /\ old # NoRelease
          /\ \/ Call(CanStop(old), AfterStop(old), Succeeds)
             \/ FailedCall(CanStop(old), AfterStop(old), Rejected)
             \/ DelayedCall(CanStop(old), old, AfterStop(old), Rejected)
    /\ UNCHANGED <<state, issued, faults>>

Snapshot ==
    /\ At("snapshot")
    /\ \/ Succeeds /\ volume' = [volume EXCEPT
                                   ![new] = IF old = NoRelease THEN {} ELSE volume[old]]
       \/ "docker" \in faults /\ Rejected /\ UNCHANGED volume
    /\ UNCHANGED <<state, container, late, issued, faults>>

(* A migration that fails is the image's fault, not docker's.              *)
Prepare == /\ At("prepare") /\ (Succeeds \/ Rejected)
           /\ UNCHANGED <<state, host>>

(* docker run -d: a container that finds its port taken is there, stopped. *)
Run ==
    /\ At("run")
    /\ \/ Call(PortFreeFor(new), AfterStart(new), Succeeds)
       \/ Call(~PortFreeFor(new), AfterStop(new), Rejected)
       \/ FailedCall(PortFreeFor(new), AfterStart(new), Rejected)
       \/ DelayedCall(PortFreeFor(new), new, AfterStart(new), Rejected)
    /\ UNCHANGED <<state, issued, faults>>

StartNew ==
    /\ At("start")
    /\ \/ Call(CanStart(new), AfterStart(new), Succeeds)
       \/ FailedCall(CanStart(new), AfterStart(new), Rejected)
       \/ DelayedCall(CanStart(new), new, AfterStart(new), Rejected)
    /\ UNCHANGED <<state, issued, faults>>

(* The healthcheck and the acceptance scenario.                            *)
Probe == /\ At("probe")
         /\ \/ new \in Running /\ Succeeds
            \/ Rejected
         /\ UNCHANGED <<state, host>>

(* state.json: deploy writes the file and then its memory, rollback its    *)
(* memory and then the file.                                               *)
Save ==
    /\ At("save")
    /\ LET accepted == [current |-> new, previous |-> old]
           remembered == [job EXCEPT !.memory = accepted] IN
       \/ /\ state' = accepted
          /\ job' = [remembered EXCEPT !.step = Following("save")]
       \/ /\ "disk" \in faults /\ UNCHANGED state
          /\ job' = [IF job.action = "rollback" THEN remembered ELSE job
                     EXCEPT !.step = "restop"]
    /\ UNCHANGED <<pending, host>>

Clear ==
    /\ At("clear")
    /\ \/ pending' = NoPending /\ Leave
       \/ "disk" \in faults /\ Rejected
    /\ UNCHANGED <<state, host>>

-----------------------------------------------------------------------------
(* restore_current: the candidate is stopped, unless docker reports an     *)
(* error (suppressed) or does not come back (a timeout, not suppressed).   *)
RestopNew ==
    /\ At("restop")
    /\ \/ Call(CanStop(new), AfterStop(new), Goto("restart") /\ UNCHANGED pending)
       \/ FailedCall(CanStop(new), AfterStop(new), Goto("restart") /\ UNCHANGED pending)
       \/ "docker" \in faults /\ FailedCall(CanStop(new), AfterStop(new), GiveUp)
       \/ DelayedCall(CanStop(new), new, AfterStop(new), GiveUp)
    /\ UNCHANGED <<state, issued, faults>>

(* The accepted release is started again; without one nothing is left to do. *)
RestartOld ==
    /\ At("restart")
    /\ \/ /\ old = NoRelease /\ Goto("reclear") /\ UNCHANGED <<pending, container, volume, late>>
       \/ /\ old # NoRelease
          /\ \/ Call(CanStart(old), AfterStart(old), Goto("reprobe") /\ UNCHANGED pending)
             \/ FailedCall(CanStart(old), AfterStart(old), GiveUp)
             \/ DelayedCall(CanStart(old), old, AfterStart(old), GiveUp)
    /\ UNCHANGED <<state, issued, faults>>

ReprobeOld == /\ At("reprobe")
              /\ \/ old \in Running /\ Goto("reclear") /\ UNCHANGED pending
                 \/ GiveUp
              /\ UNCHANGED <<state, host>>

ClearRestored == /\ At("reclear") /\ Leave
                 /\ \/ pending' = NoPending
                    \/ "disk" \in faults /\ UNCHANGED pending
                 /\ UNCHANGED <<state, host>>

-----------------------------------------------------------------------------
(* The script, or the host, dies; docker starts what was running again.    *)
Die == ~Idle /\ "crash" \in faults /\ Leave /\ UNCHANGED <<state, pending, host>>

(* Whatever runs serves clients on the port.                               *)
Serve == \E r \in Running, w \in Rows :
            /\ \A q \in Releases : w \notin volume[q]
            /\ volume' = [volume EXCEPT ![r] = @ \cup {w}]
            /\ UNCHANGED <<state, pending, container, late, issued, job, faults>>

Next == \/ StartDeploy \/ StartRollback \/ StartRecover
        \/ Intent \/ StopOld \/ Snapshot \/ Prepare \/ Run \/ StartNew \/ Probe
        \/ Save \/ Clear
        \/ RestopNew \/ RestartOld \/ ReprobeOld \/ ClearRestored
        \/ Die \/ TakesEffect \/ Serve

Spec == Init /\ [][Next]_vars

(* The steps of restore_current that turn out well.                        *)
Restopped == /\ RestopNew /\ job'.step = "restart"
             /\ \A r \in Releases : container'[r] = "running" => r # new
Restarted == RestartOld /\ job'.step \in {"reprobe", "reclear"}
Reprobed == ReprobeOld /\ job'.step = "reclear"
Cleared == ClearRestored /\ pending' = NoPending

JobStep == \/ Intent \/ StopOld \/ Snapshot \/ Prepare \/ Run \/ StartNew \/ Probe
           \/ Save \/ Clear \/ RestopNew \/ RestartOld \/ ReprobeOld \/ ClearRestored

(* The script does not stand still; an interrupted operation is recovered  *)
(* from again and again, and what it asks of docker and of the accepted    *)
(* release does not fail every time.                                       *)
Persistent == /\ Spec /\ WF_vars(JobStep)
              /\ SF_vars(StartRecover) /\ SF_vars(Restopped) /\ SF_vars(Restarted)
              /\ SF_vars(Reprobed) /\ SF_vars(Cleared)

-----------------------------------------------------------------------------
Known == Releases \cup {NoRelease}
States == [current : Known, previous : Known]
Steps == {"idle", "intent", "stop", "snapshot", "prepare", "run", "start", "probe", "save",
          "clear", "restop", "restart", "reprobe", "reclear"}

(* Files, containers and the script's place have their shapes, every name  *)
(* has been issued, and the accepted release and the one before it keep    *)
(* their containers, which rollback needs (and the registry no more).      *)
TypeOK ==
    /\ state \in States
    /\ pending \in [candidate : Known, previous : Known]
    /\ container \in [Releases -> {"absent", "stopped", "running"}]
    /\ volume \in [Releases -> SUBSET Rows]
    /\ late \in [release : Known, to : {"absent", "stopped", "running"}]
    /\ issued \subseteq Releases
    /\ job \in [action : {"none", "deploy", "rollback", "recover"}, step : Steps,
                candidate : Known, memory : States]
    /\ {state.current, state.previous, pending.candidate} \ {NoRelease} \subseteq issued
    /\ \A r \in {state.current, state.previous} \ {NoRelease} : container[r] # "absent"

(* File operations succeed and a docker call is over once it has returned. *)
Prompt == faults \cap {"disk", "late"} = {}

(* delivery_demo.py: whenever no operation is under way or interrupted, the *)
(* release that runs is the one state.json names, and it runs, although    *)
(* docker calls fail and the script dies.                                  *)
Settled == Prompt /\ Idle /\ ~Interrupted /\ state.current # NoRelease =>
              Running = {state.current}

(* An interrupted operation can always be recovered from: nothing runs but *)
(* the candidate, which recover stops, and the accepted release itself, so *)
(* the accepted release finds its port free.                               *)
RecoverFindsPort == Prompt /\ Interrupted /\ state.current # NoRelease =>
                       Running \subseteq {pending.candidate, state.current}

(* Whatever fails at once, docker, disk or the script, the release that    *)
(* runs is named in state.json or pending.json, where an operator can find *)
(* it.                                                                     *)
RunningIsNamed == "late" \notin faults /\ state.current # NoRelease =>
                     Running \subseteq {state.current, state.previous, pending.candidate}

(* An operation that reports failure and closes its pending.json leaves    *)
(* the accepted release what it was.                                       *)
FailureChangesNothing ==
    Prompt /\ At("reclear") /\ job.action # "recover" => state.current = pending.previous

(* Deploying loses nothing that clients wrote to the release it replaces,  *)
(* whatever fails and however late: its rows are in the volume of the new. *)
RowsMove ==
    [][job.action = "deploy" /\ state'.current # state.current
          /\ state.current # NoRelease =>
             volume[state.current] \subseteq volume[state'.current]]_vars

(* deploy.py:180: whatever interrupted an operation, recover finishes it at *)
(* last, however often it is itself killed or refused on the way: nothing  *)
(* is ever left running that keeps the accepted release from its port.     *)
RecoveredAtLast == Prompt /\ Interrupted ~> ~Interrupted
=============================================================================
