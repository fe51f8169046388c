------------------------- MODULE CriticalReviewProofs -------------------------
(***************************************************************************)
(* For any number of people, commits and reviews: a pass belongs to the    *)
(* commit that was approved, and no pass goes over an objection.           *)
(*                                                                         *)
(* What the reviews say when they are read is the matter of the last word  *)
(* of each owner (LastWord); what is left of it afterwards, whoever pushes *)
(* or dismisses, is that the review itself stays in its place.             *)
(***************************************************************************)
EXTENDS CriticalReview, WellFoundedInduction, TLAPS

Review == [by : Users, commit : Commits,
           state : {"APPROVED", "CHANGES_REQUESTED", "COMMENTED", "DISMISSED"}]

Runs == {NoRun} \cup [step : {"head"}, event : Commits]
               \cup [step : {"reviews"}, event : Commits, sha : Commits]

(* A run that has looked at the head goes on for the commit of its event.  *)
IInv == /\ head \in Commits /\ pushed \subseteq Commits
        /\ reviews \in Seq(Review)
        /\ run \in Runs /\ (run.step = "reviews" => run.sha = run.event)
        /\ verdict \in [Commits -> {"none", "pass", "fail"}]
        /\ PassNamesItsCommit

-----------------------------------------------------------------------------
(* A set of natural numbers has a least one.                               *)
LEMMA LeastNumber ==
    ASSUME NEW T \in SUBSET Nat, T # {}
    PROVE  \E t \in T : \A y \in T : t <= y
  <1> DEFINE Less == {pair \in Nat \X Nat : pair[1] < pair[2]}
  <1>1. IsWellFoundedOn(Less, Nat)
    BY NatLessThanWellFounded DEF OpToRel
  <1>2. PICK t \in T : \A y \in T : <<y, t>> \notin Less
    <2> HIDE DEF Less
    <2>1. QED
      BY <1>1, WFMin
  <1>3. ASSUME NEW y \in T
        PROVE  t <= y
    <2>1. <<y, t>> \in Less <=> y < t
      OBVIOUS
    <2>2. y \in Nat /\ t \in Nat
      OBVIOUS
    <2>3. <<y, t>> \notin Less
      BY <1>2
    <2> HIDE DEF Less
    <2>4. QED
      BY <2>1, <2>2, <2>3
  <1>4. QED
    BY <1>3

(* A set of places in a list has a last one.                               *)
LEMMA LastPlace ==
    ASSUME NEW n \in Nat, NEW S \in SUBSET (1..n), S # {}
    PROVE  Max(S) \in S /\ \A i \in S : i <= Max(S)
  <1> DEFINE T == {k \in Nat : n - k \in S}
  <1>1. T # {}
    <2>1. PICK i \in S : i \in 1..n
      OBVIOUS
    <2>2. n - i \in Nat /\ n - (n - i) = i
      BY <2>1
    <2>3. QED
      BY <2>1, <2>2
  <1>2. T \in SUBSET Nat
    OBVIOUS
  <1> HIDE DEF T
  <1>3. PICK t \in T : \A y \in T : t <= y
    BY <1>1, <1>2, LeastNumber
  <1> USE DEF T
  <1>4. ASSUME NEW i \in S
        PROVE  i <= n - t
    <2>1. i \in 1..n /\ n - i \in Nat /\ n - (n - i) = i
      OBVIOUS
    <2>2. t <= n - i
      BY <1>3, <2>1
    <2>3. QED
      BY <2>1, <2>2
  <1>5. n - t \in S /\ \A i \in S : n - t >= i
    BY <1>4
  <1>6. QED
    BY <1>5 DEF Max

(* The last word of an owner is one of the reviews, and no earlier than any *)
(* other word of that owner.                                               *)
LEMMA LastWord ==
    ASSUME reviews \in Seq(Review), NEW u \in Owners, Words(u) # {}
    PROVE  /\ Max(Words(u)) \in Words(u) /\ latest[u] = reviews[Max(Words(u))]
           /\ \A i \in Words(u) : i <= Max(Words(u))
  <1>1. Words(u) \subseteq 1..Len(reviews) /\ Len(reviews) \in Nat
    BY DEF Words
  <1>2. latest[u] = reviews[Max(Words(u))]
    BY DEF latest
  <1>3. QED
    BY <1>1, <1>2, LastPlace

(* Lines 42-46: an approval is a review of that commit by another owner.    *)
LEMMA ApprovedBySomebody ==
    ASSUME reviews \in Seq(Review), NEW sha \in Commits, approved(sha)
    PROVE  \E i \in DOMAIN reviews : /\ reviews[i].by \in Owners \ {Author}
                                     /\ reviews[i].commit = sha
                                     /\ reviews[i].state = "APPROVED"
  <1>1. PICK u \in Owners \ {Author} : latest[u].state = "APPROVED" /\ latest[u].commit = sha
    BY DEF approved
  <1>2. Words(u) # {}
    BY <1>1 DEF latest, Silence
  <1>3. Max(Words(u)) \in Words(u) /\ latest[u] = reviews[Max(Words(u))]
    BY <1>2, LastWord
  <1>4. QED
    BY <1>1, <1>3 DEF Words

(* Lines 40-41: what no later word of its author follows is heard.          *)
LEMMA ObjectionHeard ==
    ASSUME reviews \in Seq(Review), NEW sha, approved(sha), NEW i \in DOMAIN reviews,
           reviews[i].by \in Owners, reviews[i].state = "CHANGES_REQUESTED"
    PROVE  \E j \in DOMAIN reviews : j > i /\ reviews[j].by = reviews[i].by
                                           /\ reviews[j].state # "COMMENTED"
  <1> DEFINE u == reviews[i].by
             j == Max(Words(u))
  <1>1. i \in Words(u)
    BY DEF Words
  <1>2. j \in Words(u) /\ latest[u] = reviews[j] /\ i <= j
    BY <1>1, LastWord
  <1>3. reviews[j].state # "CHANGES_REQUESTED"
    BY <1>2 DEF approved
  <1>4. i # j
    BY <1>3
  <1>5. j \in DOMAIN reviews /\ reviews[j].by = u /\ reviews[j].state # "COMMENTED"
    BY <1>2 DEF Words
  <1>6. i \in Nat /\ j \in Nat
    BY <1>5
  <1>7. QED
    BY <1>2, <1>4, <1>5, <1>6

-----------------------------------------------------------------------------
LEMMA Starting ==
    ASSUME Init
    PROVE  IInv
  BY DEF Init, IInv, PassNamesItsCommit, Runs, NoRun

(* More reviews, or one dismissed, leave a pass the review it rests on.     *)
LEMMA PassKept ==
    ASSUME IInv, verdict' = verdict,
           \A i \in DOMAIN reviews :
              /\ i \in DOMAIN reviews'
              /\ reviews'[i].by = reviews[i].by /\ reviews'[i].commit = reviews[i].commit
              /\ reviews'[i].state \in {reviews[i].state, "DISMISSED"}
    PROVE  PassNamesItsCommit'
  <1> SUFFICES ASSUME NEW c \in Commits, verdict[c] = "pass"
               PROVE  \E i \in DOMAIN reviews' :
                         /\ reviews'[i].by \in Owners \ {Author} /\ reviews'[i].commit = c
                         /\ reviews'[i].state \in {"APPROVED", "DISMISSED"}
    BY DEF PassNamesItsCommit
  <1>1. PICK i \in DOMAIN reviews :
           /\ reviews[i].by \in Owners \ {Author} /\ reviews[i].commit = c
           /\ reviews[i].state \in {"APPROVED", "DISMISSED"}
    BY DEF IInv, PassNamesItsCommit
  <1>2. QED
    BY <1>1

LEMMA Submitting ==
    ASSUME IInv, Submit
    PROVE  IInv'
  <1>1. PICK u \in Users, c \in pushed, s \in {"APPROVED", "CHANGES_REQUESTED", "COMMENTED"} :
           reviews' = Append(reviews, [by |-> u, state |-> s, commit |-> c])
    BY DEF Submit
  <1>2. [by |-> u, state |-> s, commit |-> c] \in Review
    BY DEF IInv, Review
  <1>3. reviews' \in Seq(Review) /\ \A i \in DOMAIN reviews : i \in DOMAIN reviews'
                                                          /\ reviews'[i] = reviews[i]
    BY <1>1, <1>2 DEF IInv
  <1>4. PassNamesItsCommit'
    BY <1>3, PassKept DEF Submit
  <1>5. QED
    BY <1>3, <1>4 DEF IInv, Submit

LEMMA Dismissing ==
    ASSUME IInv, Dismiss
    PROVE  IInv'
  <1>1. PICK i \in DOMAIN reviews : reviews' = [reviews EXCEPT ![i].state = "DISMISSED"]
    BY DEF Dismiss
  <1>2. reviews[i] \in Review /\ DOMAIN reviews' = DOMAIN reviews
    BY <1>1 DEF IInv
  <1>3. /\ reviews'[i] \in Review /\ reviews'[i].state = "DISMISSED"
        /\ reviews'[i].by = reviews[i].by /\ reviews'[i].commit = reviews[i].commit
    BY <1>1, <1>2 DEF Review
  <1>4. \A j \in DOMAIN reviews \ {i} : reviews'[j] = reviews[j]
    BY <1>1
  <1>5. reviews' \in Seq(Review)
    BY <1>1, <1>3 DEF IInv
  <1>6. PassNamesItsCommit'
    BY <1>2, <1>3, <1>4, PassKept DEF Dismiss
  <1>7. QED
    BY <1>5, <1>6 DEF IInv, Dismiss

(* A verdict is of the commit of the run's event; a pass needs its approval.*)
LEMMA Ending ==
    ASSUME IInv, NEW word \in {"pass", "fail"}, Ends(word), run # NoRun,
           UNCHANGED <<head, pushed, reviews>>,
           word = "pass" => approved(run.event)
    PROVE  IInv'
  <1>1. run.event \in Commits
    BY DEF IInv, Runs
  <1>2. verdict' \in [Commits -> {"none", "pass", "fail"}] /\ verdict'[run.event] = word
        /\ \A c \in Commits \ {run.event} : verdict'[c] = verdict[c]
    BY <1>1 DEF IInv, Ends
  <1>3. PassNamesItsCommit'
    BY <1>1, <1>2, ApprovedBySomebody DEF IInv, PassNamesItsCommit
  <1>4. QED
    BY <1>2, <1>3 DEF IInv, Ends, Runs, NoRun

LEMMA Stepping ==
    ASSUME IInv, [Next]_vars
    PROVE  IInv'
  <1>1. CASE Push
    BY <1>1 DEF Push, IInv, PassNamesItsCommit
  <1>2. CASE Start
    BY <1>2 DEF Start, IInv, PassNamesItsCommit, Runs
  <1>3. CASE LookAtHead
    <2>1. CASE head = run.event
      <3>1. run' \in Runs /\ run'.step = "reviews" /\ run'.sha = run'.event
        BY <1>3, <2>1 DEF LookAtHead, IInv, Runs
      <3>2. QED
        BY <1>3, <2>1, <3>1 DEF LookAtHead, IInv, PassNamesItsCommit
    <2>2. CASE head # run.event
      BY <1>3, <2>2, Ending DEF LookAtHead, NoRun
    <2>3. QED
      BY <2>1, <2>2
  <1>4. CASE LookAtReviews
    <2>1. Subject(run) = run.event /\ run # NoRun
      BY <1>4 DEF LookAtReviews, IInv, Subject, NoRun
    <2>2. QED
      BY <1>4, <2>1, Ending DEF LookAtReviews
  <1>5. CASE Failed
    BY <1>5, Ending DEF Failed
  <1>6. CASE UNCHANGED vars
    BY <1>6 DEF vars, IInv, PassNamesItsCommit
  <1>7. QED
    BY <1>1, <1>2, <1>3, <1>4, <1>5, <1>6, Submitting, Dismissing DEF Next

THEOREM Invariance == Spec => []IInv
  BY Starting, Stepping, PTL DEF Spec

(* critical_review.py: a pass needs an approval of that very commit by an   *)
(* owner other than the author, whatever is pushed between the questions.  *)
THEOREM PassesNameTheirCommit == Spec => []PassNamesItsCommit
  <1>1. IInv => PassNamesItsCommit
    BY DEF IInv
  <1>2. QED
    BY <1>1, Invariance, PTL

(* A step turns a commit's verdict to a pass only by reading the reviews.   *)
LEMMA PassComesFromReviews ==
    ASSUME IInv, [Next]_vars, NEW c \in Commits, verdict[c] # "pass", verdict'[c] = "pass"
    PROVE  approved(run.event)
  <1>1. CASE UNCHANGED verdict
    BY <1>1
  <1>2. ASSUME NEW word, Ends(word), run # NoRun
        PROVE  verdict'[c] \in {word, verdict[c]}
    BY <1>2 DEF Ends, IInv, Runs
  <1>3. CASE LookAtHead
    BY <1>2, <1>3 DEF LookAtHead, NoRun
  <1>4. CASE Failed
    BY <1>2, <1>4 DEF Failed
  <1>5. CASE LookAtReviews
    <2>1. Subject(run) = run.event /\ run # NoRun
      BY <1>5 DEF LookAtReviews, IInv, Subject, NoRun
    <2>2. QED
      BY <1>2, <1>5, <2>1 DEF LookAtReviews
  <1>6. QED
    BY <1>1, <1>3, <1>4, <1>5 DEF Next, vars, Push, Submit, Dismiss, Start

(* critical_review.py: no run passes over an objection that neither its     *)
(* author has taken back nor anybody has dismissed.                        *)
THEOREM NoPassOverObjection == Spec => ObjectionsStand
  <1> DEFINE Stands == \A c \in Commits : verdict[c] # "pass" /\ verdict'[c] = "pass" =>
                 \A i \in DOMAIN reviews :
                    reviews[i].by \in Owners /\ reviews[i].state = "CHANGES_REQUESTED" =>
                       \E j \in DOMAIN reviews :
                          j > i /\ reviews[j].by = reviews[i].by /\ reviews[j].state # "COMMENTED"
  <1>1. IInv /\ [Next]_vars => [Stands]_vars
    <2>1. IInv => reviews \in Seq(Review)
      BY DEF IInv
    <2>2. QED
      BY <2>1, PassComesFromReviews, ObjectionHeard
  <1>2. QED
    BY <1>1, Invariance, PTL DEF Spec, ObjectionsStand
=============================================================================
