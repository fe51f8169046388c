---------------------------- MODULE CriticalReview ----------------------------
(***************************************************************************)
(* scripts/critical_review.py: the check that a pull request which changes *)
(* critical files has the approval of an owner other than its author, for  *)
(* the commit it is at.                                                    *)
(*                                                                         *)
(* The script asks GitHub twice: for the head of the pull request, and     *)
(* later for its reviews; pushes and reviews go on between the two.  A run *)
(* belongs to the commit of its event and may be repeated at any time,     *)
(* since a review starts none (docs/lr5.md:115-117).  Every commit here    *)
(* changes critical files: the list of files (lines 78-91) is left out.    *)
(***************************************************************************)
EXTENDS Integers, Sequences, FiniteSetsExt

CONSTANTS Users, Owners, Author,
          Commits,
          MaxReviews    \* bound on the reviews submitted

ASSUME PeopleAssumption == Owners \subseteq Users /\ Author \in Users
ASSUME ReviewsAssumption == MaxReviews \in Nat \ {0}

VARIABLES
    head,       \* the commit the pull request is at
    pushed,     \* the commits it has been at: each has an event of its own
    reviews,    \* GitHub's reviews by id: who, what, of which commit
    run,        \* the run under way
    verdict     \* what the last run of each commit said

vars == <<head, pushed, reviews, run, verdict>>

NoRun == [step |-> "none"]

Init == /\ head \in Commits /\ pushed = {head}
        /\ reviews = <<>> /\ run = NoRun
        /\ verdict = [c \in Commits |-> "none"]

-----------------------------------------------------------------------------
(* The pull request: a forced push may go back to an earlier commit.       *)

Push == /\ head' \in Commits \ {head} /\ pushed' = pushed \cup {head'}
        /\ UNCHANGED <<reviews, run, verdict>>

(* A review is of the head its author sees, or of an earlier one.          *)
Submit == /\ Len(reviews) < MaxReviews
          /\ \E u \in Users, c \in pushed,
                s \in {"APPROVED", "CHANGES_REQUESTED", "COMMENTED"} :
                reviews' = Append(reviews, [by |-> u, state |-> s, commit |-> c])
          /\ UNCHANGED <<head, pushed, run, verdict>>

(* A dismissed review keeps its place in the list.                         *)
Dismiss == /\ \E i \in DOMAIN reviews :
                 /\ reviews[i].state \in {"APPROVED", "CHANGES_REQUESTED"}
                 /\ reviews' = [reviews EXCEPT ![i].state = "DISMISSED"]
           /\ UNCHANGED <<head, pushed, run, verdict>>

-----------------------------------------------------------------------------
(* approved: the last word of each owner, comments aside, in the order of  *)
(* the ids.                                                                *)

Silence == [state |-> "NONE"]

(* Deviation: a later comment takes the place of an approval or a refusal.  *)
WordsAndComments(u) == {i \in DOMAIN reviews : reviews[i].by = u}

Words(u) == {i \in DOMAIN reviews : reviews[i].by = u /\ reviews[i].state # "COMMENTED"}

latest == [u \in Owners |-> IF Words(u) = {} THEN Silence ELSE reviews[Max(Words(u))]]

approved(sha) == /\ \A u \in Owners : latest[u].state # "CHANGES_REQUESTED"
                 /\ \E u \in Owners \ {Author} :
                       latest[u].state = "APPROVED" /\ latest[u].commit = sha

-----------------------------------------------------------------------------
(* main.                                                                   *)

Start == /\ run = NoRun
         /\ \E c \in pushed : run' = [step |-> "head", event |-> c]
         /\ UNCHANGED <<head, pushed, reviews, verdict>>

Ends(word) == verdict' = [verdict EXCEPT ![run.event] = word] /\ run' = NoRun

(* Lines 75-77: a run whose commit is no longer the head fails.            *)
LookAtHead == /\ run.step = "head"
              /\ IF head = run.event
                 THEN run' = [step |-> "reviews", event |-> run.event, sha |-> head] /\ UNCHANGED verdict
                 ELSE Ends("fail")
              /\ UNCHANGED <<head, pushed, reviews>>

(* Deviation: the head is asked for again, for the approval.                *)
HeadAgain(r) == head

(* Lines 75 and 102: the approval is looked for at the head read before.   *)
Subject(r) == r.sha

LookAtReviews == /\ run.step = "reviews"
                 /\ Ends(IF approved(Subject(run)) THEN "pass" ELSE "fail")
                 /\ UNCHANGED <<head, pushed, reviews>>

(* A request to GitHub fails, or there are too many pages.                 *)
Failed == /\ run # NoRun /\ Ends("fail")
          /\ UNCHANGED <<head, pushed, reviews>>

Next == \/ Push \/ Submit \/ Dismiss
        \/ Start \/ LookAtHead \/ LookAtReviews \/ Failed

Spec == Init /\ [][Next]_vars

-----------------------------------------------------------------------------
(* A commit passes only with an approval of that very commit by an owner   *)
(* who is not the author (which may have been dismissed since): whatever   *)
(* is pushed between the two questions, a pass never moves to another head.*)
PassNamesItsCommit ==
    \A c \in Commits : verdict[c] = "pass" =>
        \E i \in DOMAIN reviews :
           /\ reviews[i].by \in Owners \ {Author} /\ reviews[i].commit = c
           /\ reviews[i].state \in {"APPROVED", "DISMISSED"}

(* An objection of an owner stands, whatever is pushed, and whatever the    *)
(* owner comments, until that owner takes another decision or it is         *)
(* dismissed: no run passes over it.                                       *)
ObjectionsStand ==
    [][\A c \in Commits : verdict[c] # "pass" /\ verdict'[c] = "pass" =>
          \A i \in DOMAIN reviews :
             reviews[i].by \in Owners /\ reviews[i].state = "CHANGES_REQUESTED" =>
                \E j \in DOMAIN reviews :
                   j > i /\ reviews[j].by = reviews[i].by /\ reviews[j].state # "COMMENTED"]_vars
=============================================================================
