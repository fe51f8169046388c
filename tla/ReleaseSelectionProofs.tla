------------------------ MODULE ReleaseSelectionProofs ------------------------
(***************************************************************************)
(* For any number of commits: whatever staging runs was published by a run *)
(* for a push that succeeded, and automatic deliveries only go forward.    *)
(*                                                                         *)
(* Neither follows from the check alone, since main, the runs and the      *)
(* registry of their states move on between Select and Deliver.  What      *)
(* survives that interval is Chosen: a delivery past its check names a     *)
(* commit that has passed once, and an automatic one names a commit no     *)
(* older than both releases on the host, which only its own group changes. *)
(***************************************************************************)
EXTENDS ReleaseSelection, TLAPS

Conclusions == {"success", "failure"}
Causes == [run : Runs \cup {"none"}, conclusion : Conclusions \cup {"none"}]
Deliveries == [action : {"deploy", "rollback"}, by : {"event", "person"},
               commit : Nat, cause : Causes]
Jobs == [step : {"select", "deliver"}, delivery : Deliveries]

(* Who names the commit of a delivery: an event always does.               *)
Named(d) == /\ d \in Deliveries
            /\ d.by = "event" => d.action = "deploy"
            /\ d.action = "deploy" => d.commit \in 1..head

RunsFit == /\ head \in Commits
           /\ ci \in [Runs -> Conclusions \cup {"none", "running"}]
           /\ \A r \in Runs : ci[r] # "none" => r.commit <= head
           /\ \A c \in Commits : ci[[commit |-> c, event |-> "push"]] = "success" => c \in passed

EventsFit == \A e \in events : e \in [run : Runs, conclusion : Conclusions] /\ e.run.commit <= head

DeliveriesFit == /\ \A d \in pending : Named(d)
                 /\ \A a \in active : a \in Jobs /\ Named(a.delivery)
                 /\ \A a, b \in active : a = b

StagingFits == /\ deployed \in [current : 0..head, previous : 0..head]
               /\ OnlyPassedRuns

Chosen == \A a \in active :
             a.step = "deliver" /\ a.delivery.action = "deploy" =>
                /\ a.delivery.commit \in passed
                /\ a.delivery.by = "event" => /\ deployed.current <= a.delivery.commit
                                              /\ deployed.previous <= a.delivery.commit

IInv == RunsFit /\ EventsFit /\ DeliveriesFit /\ StagingFits /\ Chosen

-----------------------------------------------------------------------------
LEMMA InitSatisfies == Init => IInv
  <1> SUFFICES ASSUME Init PROVE IInv
    OBVIOUS
  <1> USE BoundsAssumption DEF Init, Runs, Commits
  <1>1. RunsFit
    BY DEF RunsFit, Conclusions
  <1>2. EventsFit /\ DeliveriesFit /\ StagingFits /\ Chosen
    BY DEF EventsFit, DeliveriesFit, StagingFits, OnlyPassedRuns, Chosen
  <1>3. QED BY <1>1, <1>2 DEF IInv

(* What a new run does to the runs and their events, at the same or the    *)
(* next tip of main.                                                       *)
LEMMA StartRunKeeps ==
    ASSUME IInv, NEW r \in Runs, StartRun(r), head' \in Commits, head <= head',
           r.commit <= head', UNCHANGED passed
    PROVE  RunsFit' /\ EventsFit'
  <1> USE BoundsAssumption
  <1>1. RunsFit'
    <2>1. ci' \in [Runs -> Conclusions \cup {"none", "running"}]
      BY DEF IInv, RunsFit, StartRun, Conclusions
    <2>2. \A q \in Runs : ci'[q] # "none" => q.commit <= head'
      BY DEF IInv, RunsFit, StartRun, Runs, Commits
    <2>3. \A c \in Commits : ci'[[commit |-> c, event |-> "push"]] = "success" => c \in passed'
      BY DEF IInv, RunsFit, StartRun, Runs
    <2>4. QED BY <2>1, <2>2, <2>3 DEF RunsFit
  <1>2. EventsFit'
    <2> SUFFICES ASSUME NEW e \in events'
                 PROVE  e \in [run : Runs, conclusion : Conclusions] /\ e.run.commit <= head'
      BY DEF EventsFit
    <2>1. CASE e \in events
      BY <2>1 DEF IInv, EventsFit, RunsFit, Runs, Commits
    <2>2. CASE e \notin events
      <3>1. PICK q \in Runs : ci[q] = "running" /\ e = Ended(q, "failure")
        BY <2>2 DEF StartRun
      <3>2. q.commit <= head
        BY <3>1 DEF IInv, RunsFit
      <3>3. QED BY <3>1, <3>2 DEF Ended, Conclusions, IInv, RunsFit, Runs, Commits
    <2>3. QED BY <2>1, <2>2
  <1>3. QED BY <1>1, <1>2

(* A tip that moves forward leaves deliveries and staging as they fit.      *)
LEMMA ForwardKeeps ==
    ASSUME IInv, head' \in Commits, head <= head', passed \subseteq passed',
           UNCHANGED <<pending, active, deployed>>
    PROVE  DeliveriesFit' /\ StagingFits' /\ Chosen'
  <1>1. \A d : Named(d) => Named(d)'
    BY DEF Named, IInv, RunsFit, Commits
  <1>2. DeliveriesFit'
    BY <1>1 DEF IInv, DeliveriesFit
  <1>3. deployed' \in [current : 0..head', previous : 0..head']
    BY BoundsAssumption DEF IInv, StagingFits, RunsFit, Commits
  <1>4. StagingFits'
    BY <1>3 DEF IInv, StagingFits, OnlyPassedRuns
  <1>5. Chosen'
    BY DEF IInv, Chosen
  <1>6. QED BY <1>2, <1>4, <1>5

LEMMA PushKeeps == IInv /\ Push => IInv'
  <1> SUFFICES ASSUME IInv, Push PROVE IInv'
    OBVIOUS
  <1>1. head' \in Commits /\ head <= head'
    BY BoundsAssumption DEF Push, IInv, RunsFit, Commits
  <1>2. [commit |-> head', event |-> "push"] \in Runs
    BY <1>1 DEF Runs
  <1>3. RunsFit' /\ EventsFit'
    BY <1>1, <1>2, StartRunKeeps DEF Push, Commits
  <1>4. QED BY <1>1, <1>3, ForwardKeeps DEF IInv, Push

LEMMA RepeatKeeps == IInv /\ Repeat => IInv'
  <1> SUFFICES ASSUME IInv, Repeat PROVE IInv'
    OBVIOUS
  <1>1. head' \in Commits /\ head <= head'
    BY BoundsAssumption DEF Repeat, IInv, RunsFit, Commits
  <1>2. PICK r \in Runs : /\ r.event = "push" => ci[r] \in {"success", "failure"}
                          /\ r.event # "push" => r.commit = head
                          /\ StartRun(r)
    BY DEF Repeat
  <1>3. r.commit <= head'
    BY <1>1, <1>2 DEF Repeat, IInv, RunsFit, Runs, Commits
  <1>4. RunsFit' /\ EventsFit'
    BY <1>1, <1>2, <1>3, StartRunKeeps DEF Repeat
  <1>5. QED BY <1>1, <1>4, ForwardKeeps DEF IInv, Repeat

LEMMA EndRunKeeps == IInv /\ EndRun => IInv'
  <1> SUFFICES ASSUME IInv, EndRun PROVE IInv'
    OBVIOUS
  <1>1. PICK r \in Runs, conclusion \in Conclusions :
           /\ ci[r] = "running" /\ ci' = [ci EXCEPT ![r] = conclusion]
           /\ events' = events \cup {Ended(r, conclusion)}
           /\ passed' = IF r.event = "push" /\ conclusion = "success"
                        THEN passed \cup {r.commit} ELSE passed
    BY DEF EndRun, Conclusions
  <1>2. head' = head /\ head \in Commits /\ r.commit <= head
    BY <1>1 DEF EndRun, IInv, RunsFit
  <1>3. RunsFit'
    <2>1. ci' \in [Runs -> Conclusions \cup {"none", "running"}]
      BY <1>1 DEF IInv, RunsFit
    <2>2. \A q \in Runs : ci'[q] # "none" => q.commit <= head'
      BY <1>1, <1>2 DEF IInv, RunsFit
    <2>3. ASSUME NEW c \in Commits, ci'[[commit |-> c, event |-> "push"]] = "success"
          PROVE  c \in passed'
      BY <1>1, <2>3 DEF IInv, RunsFit, Runs
    <2>4. QED BY <1>2, <2>1, <2>2, <2>3 DEF RunsFit
  <1>4. EventsFit'
    <2>1. Ended(r, conclusion) \in [run : Runs, conclusion : Conclusions]
             /\ Ended(r, conclusion).run = r
      BY <1>1 DEF Ended
    <2>2. QED BY <1>1, <1>2, <2>1 DEF IInv, EventsFit
  <1>5. head <= head' /\ passed \subseteq passed'
    BY <1>1, <1>2 DEF Commits
  <1>6. QED BY <1>2, <1>3, <1>4, <1>5, ForwardKeeps DEF IInv, EndRun

LEMMA TriggeredKeeps == IInv /\ Triggered => IInv'
  <1> SUFFICES ASSUME IInv, Triggered PROVE IInv'
    OBVIOUS
  <1> USE DEF Triggered, hub
  <1>1. RunsFit' /\ StagingFits' /\ Chosen'
    BY DEF IInv, RunsFit, StagingFits, OnlyPassedRuns, Chosen
  <1>2. EventsFit'
    BY DEF IInv, EventsFit
  <1>3. PICK e \in events : pending' = {[action |-> "deploy", by |-> "event",
                                         commit |-> e.run.commit, cause |-> e]}
    OBVIOUS
  <1>4. e \in [run : Runs, conclusion : Conclusions] /\ e.run.commit \in 1..head
    BY DEF IInv, EventsFit, Runs, Commits, RunsFit
  <1>5. Named([action |-> "deploy", by |-> "event", commit |-> e.run.commit, cause |-> e])
    BY <1>4 DEF Named, Deliveries, Causes
  <1>6. DeliveriesFit'
    BY <1>3, <1>5 DEF IInv, DeliveriesFit, Named
  <1>7. QED BY <1>1, <1>2, <1>6 DEF IInv

LEMMA AskedKeeps == IInv /\ Asked => IInv'
  <1> SUFFICES ASSUME IInv, Asked PROVE IInv'
    OBVIOUS
  <1> USE DEF Asked, hub
  <1>1. RunsFit' /\ EventsFit' /\ StagingFits' /\ Chosen'
    BY DEF IInv, RunsFit, EventsFit, StagingFits, OnlyPassedRuns, Chosen
  <1>2. \A d \in pending' : Named(d)
    BY DEF Named, Deliveries, Causes, Person, IInv, RunsFit, Commits
  <1>3. DeliveriesFit'
    BY <1>2 DEF IInv, DeliveriesFit, Named
  <1>4. QED BY <1>1, <1>3 DEF IInv

LEMMA TurnKeeps == IInv /\ Turn => IInv'
  <1> SUFFICES ASSUME IInv, Turn PROVE IInv'
    OBVIOUS
  <1> USE DEF Turn, hub
  <1>1. RunsFit' /\ EventsFit' /\ StagingFits'
    BY DEF IInv, RunsFit, EventsFit, StagingFits, OnlyPassedRuns
  <1>2. PICK d \in pending : active' \subseteq {[step |-> "select", delivery |-> d]}
    OBVIOUS
  <1>3. Named(d)
    BY DEF IInv, DeliveriesFit
  <1>4. DeliveriesFit'
    BY <1>2, <1>3 DEF DeliveriesFit, Named, Jobs
  <1>5. Chosen'
    BY <1>2 DEF Chosen
  <1>6. QED BY <1>1, <1>4, <1>5 DEF IInv

(* The check: an automatic delivery is of the tip, and no release on the    *)
(* host is newer than the tip.                                             *)
LEMMA SelectKeeps == IInv /\ Select => IInv'
  <1> SUFFICES ASSUME IInv, Select PROVE IInv'
    OBVIOUS
  <1> USE DEF Select, hub
  <1>1. RunsFit' /\ EventsFit' /\ StagingFits'
    BY DEF IInv, RunsFit, EventsFit, StagingFits, OnlyPassedRuns
  <1>2. PICK a \in active :
           active' = IF Selected(a.delivery) THEN {[a EXCEPT !.step = "deliver"]} ELSE {}
    OBVIOUS
  <1>3. a \in Jobs /\ Named(a.delivery)
    BY DEF IInv, DeliveriesFit
  <1> DEFINE b == [a EXCEPT !.step = "deliver"]
  <1>4. b \in Jobs /\ b.delivery = a.delivery
    BY <1>3 DEF Jobs
  <1>5. DeliveriesFit'
    BY <1>2, <1>3, <1>4 DEF IInv, DeliveriesFit, Named
  <1>6. ASSUME Selected(a.delivery), a.delivery.action = "deploy"
        PROVE  /\ a.delivery.commit \in passed
               /\ a.delivery.by = "event" => /\ deployed.current <= a.delivery.commit
                                             /\ deployed.previous <= a.delivery.commit
    <2>1. published(a.delivery.commit) /\ (a.delivery.by = "event" => head = a.delivery.commit)
      BY <1>6 DEF Selected
    <2>2. a.delivery.commit \in Commits
      <3>1. a.delivery.commit \in 1..head
        BY <1>3, <1>6 DEF Named
      <3>2. head \in 1..MaxHead
        BY DEF IInv, RunsFit, Commits
      <3>3. QED BY <3>1, <3>2, BoundsAssumption DEF Commits
    <2>3. a.delivery.commit \in passed
      BY <2>1, <2>2 DEF published, IInv, RunsFit
    <2>4. deployed.current <= head /\ deployed.previous <= head
      BY DEF IInv, StagingFits, RunsFit, Commits
    <2>5. QED BY <2>1, <2>3, <2>4
  <1>7. Chosen'
    <2> HIDE DEF b
    <2>1. \A z \in active' : Selected(a.delivery) /\ z = b
      BY <1>2 DEF b
    <2>2. QED BY <1>4, <1>6, <2>1 DEF Chosen
  <1>8. QED BY <1>1, <1>5, <1>7 DEF IInv

(* What a delivery makes of the releases on the host.                      *)
LEMMA DeliverKeeps == IInv /\ Deliver => IInv'
  <1> SUFFICES ASSUME IInv, Deliver PROVE IInv'
    OBVIOUS
  <1> USE DEF Deliver, hub
  <1>1. RunsFit' /\ EventsFit'
    BY DEF IInv, RunsFit, EventsFit
  <1>2. DeliveriesFit' /\ Chosen'
    BY DEF IInv, DeliveriesFit, Chosen, Named
  <1>3. StagingFits'
    <2>1. PICK a \in active :
             /\ a.step = "deliver"
             /\ \/ /\ a.delivery.action = "deploy"
                   /\ deployed' = [current |-> a.delivery.commit, previous |-> deployed.current]
                \/ /\ a.delivery.action = "rollback" /\ deployed.previous # 0
                   /\ deployed' = [current |-> deployed.previous, previous |-> deployed.current]
                \/ UNCHANGED deployed
      OBVIOUS
    <2> USE DEF StagingFits, OnlyPassedRuns
    <2>2. CASE a.delivery.action = "deploy" /\
               deployed' = [current |-> a.delivery.commit, previous |-> deployed.current]
      <3>1. a.delivery.commit \in passed /\ a.delivery.commit \in 1..head
        BY <2>1, <2>2 DEF IInv, Chosen, DeliveriesFit, Named
      <3>2. QED BY <2>2, <3>1 DEF IInv, RunsFit, Commits
    <2>3. CASE deployed' = [current |-> deployed.previous, previous |-> deployed.current]
      BY <2>3 DEF IInv
    <2>4. CASE UNCHANGED deployed
      BY <2>4 DEF IInv
    <2>5. QED BY <2>1, <2>2, <2>3, <2>4
  <1>4. QED BY <1>1, <1>2, <1>3 DEF IInv

LEMMA StepKeeps == IInv /\ [Next]_vars => IInv'
  <1> SUFFICES ASSUME IInv, [Next]_vars PROVE IInv'
    OBVIOUS
  <1>1. CASE Next
    BY <1>1, PushKeeps, RepeatKeeps, EndRunKeeps, TriggeredKeeps, AskedKeeps, TurnKeeps,
       SelectKeeps, DeliverKeeps DEF Next
  <1>2. CASE UNCHANGED vars
    BY <1>2 DEF vars, hub, IInv, RunsFit, EventsFit, DeliveriesFit, Named, StagingFits,
                OnlyPassedRuns, Chosen
  <1>3. QED BY <1>1, <1>2

LEMMA InvariantHolds == Spec => []IInv
  BY InitSatisfies, StepKeeps, PTL DEF Spec

-----------------------------------------------------------------------------
(* Whatever staging runs, or would run after a rollback, was published by a *)
(* run of CI for a push to main that succeeded.                             *)
THEOREM StagingRunsPublished == Spec => []OnlyPassedRuns
  <1>1. IInv => OnlyPassedRuns
    BY DEF IInv, StagingFits
  <1>2. QED BY <1>1, InvariantHolds, PTL

(* An automatic delivery never replaces a release by an older commit.       *)
THEOREM AutomaticDeliveriesGoForward == Spec => AutomaticGoesForward
  <1> DEFINE Forward == \A a \in active :
                           a.delivery.by = "event" /\ deployed' # deployed =>
                              \A c \in {deployed.current, deployed.previous} :
                                 deployed'.current >= c
  <1>1. IInv /\ [Next]_vars => [Forward]_vars
    <2> SUFFICES ASSUME IInv, Next, NEW a \in active, a.delivery.by = "event",
                        deployed' # deployed,
                        NEW c \in {deployed.current, deployed.previous}
                 PROVE  deployed'.current >= c
      OBVIOUS
    <2>1. Deliver
      BY DEF Next, Push, Repeat, EndRun, Triggered, Asked, Turn, Select
    <2>2. \A b \in active : b = a
      BY DEF IInv, DeliveriesFit
    <2>3. Named(a.delivery)
      BY DEF IInv, DeliveriesFit
    <2>4. /\ a.step = "deliver" /\ a.delivery.action = "deploy"
          /\ deployed' = [current |-> a.delivery.commit, previous |-> deployed.current]
      BY <2>1, <2>2, <2>3 DEF Deliver, Named
    <2>5. c <= a.delivery.commit
      BY <2>4 DEF IInv, Chosen
    <2>6. c \in Nat /\ a.delivery.commit \in Nat
      BY <2>3 DEF IInv, StagingFits, RunsFit, Commits, Named, Deliveries
    <2>7. QED BY <2>4, <2>5, <2>6
  <1>2. QED BY <1>1, InvariantHolds, PTL DEF Spec, AutomaticGoesForward
=============================================================================
