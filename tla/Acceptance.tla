----------------------------- MODULE Acceptance -----------------------------
(***************************************************************************)
(* verify of scripts/release_check.py, the client that decides whether a   *)
(* release is accepted, against the service of AuctionService: it asks     *)
(* for one operation, waits for the answer, and asks for the next.         *)
(*                                                                         *)
(*   seller buyer auction lot open sale report close                       *)
(*                                                                         *)
(* It goes on at the answer; the commit may still be to come.  Any answer  *)
(* but the expected one, and a connection that breaks, ends it in failure. *)
(* The probes before it and its session are left out: they write nothing.  *)
(***************************************************************************)
EXTENDS AuctionService

CONSTANTS
    MySeller, MyBuyer,          \* its participants
    MyPrice, MyRate,            \* its starting price, which it sells at, and its rate
    NoLot                       \* no id of a lot yet

ASSUME ScriptAssumption ==
    MySeller \in Sellers /\ MyBuyer \in Buyers /\ MyPrice \in Prices /\ MyRate \in Rates

VARIABLE script     \* where it is, the request it waits for, the ids it was given

allVars == <<vars, script>>

Stages == <<"seller", "buyer", "auction", "lot", "open", "sale", "report", "close",
            "accepted">>

ScriptInit == script = [stage |-> 1, waits |-> NoOne, auction |-> NoAuction, lot |-> NoLot]

Stage == Stages[script.stage]
Failed == script.stage = 0
Accepted == ~Failed /\ Stage = "accepted"
Waiting(r) == script.waits = r

Asked ==
    CASE Stage = "seller" -> [kind |-> "seller", email |-> MySeller]
      [] Stage = "buyer" -> [kind |-> "buyer", email |-> MyBuyer]
      [] Stage = "auction" -> [kind |-> "auction", rate |-> MyRate]
      [] Stage = "lot" -> [kind |-> "lot", auction |-> script.auction,
                           seller |-> MySeller, price |-> MyPrice]
      [] Stage = "sale" -> [kind |-> "sale", lot |-> script.lot, buyer |-> MyBuyer,
                            price |-> MyPrice]
      [] Stage = "report" -> [kind |-> "report", scope |-> script.auction]
      [] OTHER -> [kind |-> Stage, auction |-> script.auction]

(* The next request of the script arrives.                                 *)
Ask(r) == /\ ~Failed /\ ~Accepted /\ Waiting(NoOne)
          /\ at[r] = "idle" /\ RoomFor(Asked)
          /\ op' = [op EXCEPT ![r] = Asked]
          /\ at' = [at EXCEPT ![r] = FirstLabel(Asked)]
          /\ script' = [script EXCEPT !.waits = r]
          /\ UNCHANGED <<connection, history>>

(* The ids a 201 carries.                                                  *)
NewAuction(r) == CHOOSE a \in Auctions : /\ db.auctions[a].status = "ABSENT"
                                         /\ image.auctions[a].status # "ABSENT"
NewLot(r) == CHOOSE l \in Lots : /\ db.lots[l].status = "ABSENT"
                                 /\ image.lots[l].status # "ABSENT"

GoOn(r) ==
    script' = [script EXCEPT !.stage = @ + 1, !.waits = NoOne,
                             !.auction = IF Stage = "auction" THEN NewAuction(r) ELSE @,
                             !.lot = IF Stage = "lot" THEN NewLot(r) ELSE @]

Fails == script' = [script EXCEPT !.stage = 0, !.waits = NoOne]

(* One sale, its price and its commission.                                 *)
Expected(report) ==
    report = [sales_count |-> 1, gross_revenue |-> MyPrice,
              commission_revenue |-> commission_kopecks(MyPrice, MyRate)]

(* What a step of the request it waits for tells the script.               *)
Heard(r) ==
    /\ Waiting(r)
    /\ \/ Answer(r) /\ GoOn(r)
       \/ Report(r) /\ IF Expected(reported'[script.auction]) THEN GoOn(r) ELSE Fails
       \/ Refuse(r) /\ Fails
       \/ (Begin(r) \/ Pass(r) \/ WriteFirst(r) \/ WriteRows(r)) /\ UNCHANGED script

(* An answered request goes on to its commit.                              *)
Lingers(r) == ~Waiting(r) /\ Finish(r) /\ UNCHANGED script

(* 503 for the request it waits for, a lost commit of one answered before. *)
Disturbs(r) == IF Waiting(r) THEN Fails ELSE UNCHANGED script
TimesOut(r) == (Unavailable(r) \/ CommitFails(r)) /\ Disturbs(r)
Breaks(r) == StorageError(r) /\ Disturbs(r)

(* A restart loses the connection it waits on.                             *)
Killed == Crash /\ IF Waiting(NoOne) THEN UNCHANGED script ELSE Fails

(* docs/lr6.md:42: no user works during the acceptance.                    *)
Proceeds(r) == Heard(r) \/ Lingers(r) \/ TimesOut(r)

NextAccepting == \/ \E r \in Requests : Ask(r) \/ Proceeds(r) \/ Breaks(r)
                 \/ Killed
                 \/ Backup /\ UNCHANGED script

(* A thread that can go on does; a wait for a lock ends by itself.         *)
SpecAccepting == /\ Init /\ ScriptInit /\ [][NextAccepting]_allVars
                 /\ \A r \in Requests : WF_allVars(Proceeds(r))

-----------------------------------------------------------------------------
(* A release that is accepted did the sale: from the moment the script has *)
(* seen it in the report, whatever crashes and whichever commit fails, its *)
(* own lot is sold in the committed database, at the price and the fee it  *)
(* was to see, and the auction's books hold just that.                     *)
SeenIsCommitted ==
    script.stage > 7 =>
       /\ NewSale(db, script.lot, MyBuyer, MyPrice) \in db.sales
       /\ db.lots[script.lot].auction = script.auction
       /\ Expected(revenue_report(db, script.auction))
=============================================================================
