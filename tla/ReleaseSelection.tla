--------------------------- MODULE ReleaseSelection ---------------------------
(***************************************************************************)
(* What reaches staging: scripts/select_release.py under the workflows     *)
(* ci.yml and cd.yml, while main moves on.                                 *)
(*                                                                         *)
(*   push -> CI run -> event -> pending delivery -> select -> deliver      *)
(*                                                                         *)
(* A CI run is cancelled by the next one on main, and may be repeated at   *)
(* any time.  Its end sends an event, delivered late and in any order.     *)
(* Deliveries form one concurrency group: one is active, one pending, and  *)
(* a newer one takes the place of the pending one.  People ask for         *)
(* deliveries of their own.  Commits are numbered along main.              *)
(***************************************************************************)
EXTENDS Integers, FiniteSets

CONSTANTS MaxHead,      \* bound on the commits pushed to main
          MaxLate       \* bound on the ends of runs under way to the workflow

ASSUME BoundsAssumption == MaxHead \in Nat \ {0} /\ MaxLate \in Nat \ {0}

Commits == 1..MaxHead
Runs == [commit : Commits, event : {"push", "workflow_dispatch"}]

VARIABLES
    head,       \* the tip of main
    ci,         \* the last attempt of each CI run
    passed,     \* history: the commits whose run for a push has succeeded
    events,     \* ends of CI runs not yet delivered to the CD workflow
    pending,    \* at most one delivery that waits for its turn
    active,     \* at most one that runs
    deployed    \* staging: the accepted commit, and the one before it; 0: none

hub == <<head, ci, passed>>
vars == <<hub, events, pending, active, deployed>>

Init == /\ head = 1 /\ passed = {}
        /\ ci = [r \in Runs |-> IF r = [commit |-> 1, event |-> "push"] THEN "running" ELSE "none"]
        /\ events = {} /\ pending = {} /\ active = {}
        /\ deployed = [current |-> 0, previous |-> 0]

-----------------------------------------------------------------------------
(* GitHub and the people who use it.                                       *)

Ended(r, conclusion) == [run |-> r, conclusion |-> conclusion]

(* ci.yml: a run on main cancels the one in progress.                      *)
StartRun(r) ==
    /\ ci' = [q \in Runs |-> IF q = r THEN "running"
                             ELSE IF ci[q] = "running" THEN "failure" ELSE ci[q]]
    /\ events' = events \cup {Ended(q, "failure") : q \in {q \in Runs : q # r /\ ci[q] = "running"}}
    /\ Cardinality(events') <= MaxLate

Push == /\ head < MaxHead /\ head' = head + 1
        /\ StartRun([commit |-> head', event |-> "push"])
        /\ UNCHANGED <<passed, pending, active, deployed>>

Repeat == /\ \E r \in Runs :
                /\ IF r.event = "push" THEN ci[r] \in {"success", "failure"}
                   ELSE r.commit = head /\ ci[r] # "running"
                /\ StartRun(r)
          /\ UNCHANGED <<head, passed, pending, active, deployed>>

(* Only the run for a push has the job publish, and it is the last one: a   *)
(* run for a push that succeeds has published its image.                   *)
EndRun ==
    /\ \E r \in Runs, conclusion \in {"success", "failure"} :
          /\ ci[r] = "running"
          /\ ci' = [ci EXCEPT ![r] = conclusion]
          /\ events' = events \cup {Ended(r, conclusion)}
          /\ Cardinality(events') <= MaxLate
          /\ passed' = IF r.event = "push" /\ conclusion = "success"
                       THEN passed \cup {r.commit} ELSE passed
    /\ UNCHANGED <<head, pending, active, deployed>>

(* workflow_run and workflow_dispatch: the delivery joins its group.       *)
Triggered == /\ \E e \in events : /\ events' = events \ {e}
                                  /\ pending' = {[action |-> "deploy", by |-> "event",
                                                  commit |-> e.run.commit, cause |-> e]}
             /\ UNCHANGED <<hub, active, deployed>>

Person == [run |-> "none", conclusion |-> "none"]

Asked == /\ \/ \E c \in 1..head :
                  pending' = {[action |-> "deploy", by |-> "person", commit |-> c, cause |-> Person]}
            \/ pending' = {[action |-> "rollback", by |-> "person", commit |-> 0, cause |-> Person]}
         /\ UNCHANGED <<hub, events, active, deployed>>

(* The `if' of the job deploy: what is not a success of a push is skipped. *)
Starts(d) == d.by = "event" => /\ d.cause.conclusion = "success"
                               /\ d.cause.run.event = "push"

Turn == /\ active = {}
        /\ \E d \in pending :
              active' = IF Starts(d) THEN {[step |-> "select", delivery |-> d]} ELSE {}
        /\ pending' = {}
        /\ UNCHANGED <<hub, events, deployed>>

-----------------------------------------------------------------------------
(* select_release.py.                                                      *)

(* Deviation: any successful run of the commit, whatever started it.        *)
published_by_any_run(c) == \E r \in Runs : r.commit = c /\ ci[r] = "success"

published(c) == ci[[commit |-> c, event |-> "push"]] = "success"

(* Deviation: main is not looked at again.                                  *)
SelectedOnce(d) == d.action = "deploy" => published(d.commit)

(* An automatic delivery must be of the tip of main.                       *)
Selected(d) == d.action = "deploy" => /\ published(d.commit)
                                      /\ d.by = "event" => head = d.commit

Select == /\ \E a \in active :
                /\ a.step = "select"
                /\ active' = IF Selected(a.delivery) THEN {[a EXCEPT !.step = "deliver"]} ELSE {}
          /\ UNCHANGED <<hub, events, pending, deployed>>

(* scripts/deploy.py on the host: the new commit or release is accepted,   *)
(* or all stays as it was (see Deployment).                                *)
Deliver ==
    /\ \E a \in active :
          /\ a.step = "deliver"
          /\ \/ /\ a.delivery.action = "deploy"
                /\ deployed' = [current |-> a.delivery.commit, previous |-> deployed.current]
             \/ /\ a.delivery.action = "rollback" /\ deployed.previous # 0
                /\ deployed' = [current |-> deployed.previous, previous |-> deployed.current]
             \/ UNCHANGED deployed
    /\ active' = {}
    /\ UNCHANGED <<hub, events, pending>>

Next == \/ Push \/ Repeat \/ EndRun \/ Triggered \/ Asked \/ Turn \/ Select \/ Deliver

Spec == Init /\ [][Next]_vars

-----------------------------------------------------------------------------
(* Staging goes back only where a person asks for it: an automatic          *)
(* delivery is never of an older commit than the releases on the host,     *)
(* though main moves on after it was looked at, events are late and in any *)
(* order, and runs are repeated.                                           *)
AutomaticGoesForward ==
    [][\A a \in active :
          a.delivery.by = "event" /\ deployed' # deployed =>
              \A c \in {deployed.current, deployed.previous} : deployed'.current >= c]_vars

(* select_release.py:1: whatever staging runs, now or after a rollback,    *)
(* was published by a run for a push to main that succeeded, though the    *)
(* state read is that of the last attempt and a person names the commit.   *)
OnlyPassedRuns == {deployed.current, deployed.previous} \ {0} \subseteq passed
=============================================================================
