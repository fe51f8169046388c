---------------------------- MODULE AuctionService ----------------------------
(***************************************************************************)
(* The business half of the service, as its threads run it: each request   *)
(* in flight walks through its handler in app/services.py one database     *)
(* statement (the reads under the write lock count as one) at a time,      *)
(* against a connection of its own.                                        *)
(*                                                                         *)
(*   open_auction, close_auction, create_sale                              *)
(*                                   begin -> check -> first -> write      *)
(*   create_lot                               auction -> seller -> write   *)
(*   create_auction, create_participant                      write         *)
(*   revenue_report                                          report        *)
(*                                                                         *)
(* After write the handler returns, the client gets its answer, and only    *)
(* then does the dependency of main.py that lent the connection go on      *)
(* past its yield and commit: write -> answer -> commit -> idle.  The      *)
(* order of answer and commit is FastAPI's (0.118 and later).              *)
(***************************************************************************)
EXTENDS AuctionData, Connection

CONSTANT
    Activities      \* what SQL from outside may set is_active to; {}: no such SQL

ASSUME ActivitiesAssumption == Activities \subseteq {"active", "inactive"}

Operations ==
    [kind : {"open", "close"}, auction : Auctions]
        \cup [kind : {"sale"}, lot : Lots, buyer : Buyers, price : Prices]
        \cup [kind : {"lot"}, auction : Auctions, seller : Sellers, price : Prices]
        \cup [kind : {"auction"}, rate : Rates]
        \cup [kind : {"seller"}, email : Sellers]
        \cup [kind : {"buyer"}, email : Buyers]
        \cup [kind : {"report"}, scope : Auctions \cup {NoAuction}]

NoOperation == [kind |-> "none"]     \* an idle request's

Labels == {"idle", "begin", "check", "auction", "seller", "first", "write", "report",
           "answer", "commit"}

VARIABLES
    at,         \* where each request is
    op,         \* what it was asked to do
    told,       \* history: the lots whose sale a client was told of (201)
    reported    \* history: the last revenue report answered, for each scope

history == <<told, reported>>
vars == <<connection, at, op, history>>

Scopes == Auctions \cup {NoAuction}

Init ==
    /\ ConnectionInit(EmptyDatabase)
    /\ at = [r \in Requests |-> "idle"]
    /\ op = [r \in Requests |-> NoOperation]
    /\ told = {}
    /\ reported = [a \in Scopes |-> revenue_report(EmptyDatabase, a)]

-----------------------------------------------------------------------------
(* Moving a request through its handler.                                   *)
Goto(r, label) == at' = [at EXCEPT ![r] = label] /\ UNCHANGED op

(* The request is over: its connection is closed, its thread is free.      *)
Leave(r) == /\ at' = [at EXCEPT ![r] = "idle"]
            /\ op' = [op EXCEPT ![r] = NoOperation]

FirstLabel(o) ==
    IF o.kind \in {"open", "close", "sale"} THEN "begin"
    ELSE IF o.kind = "lot" THEN "auction"
    ELSE IF o.kind = "report" THEN "report" ELSE "write"

(* Bound: rows are created only while there are ids for them.              *)
IdsFree(free, kind) == Cardinality(free) > Cardinality({q \in Requests : op[q].kind = kind})
RoomFor(o) ==
    /\ o.kind = "lot" => IdsFree({l \in Lots : db.lots[l].status = "ABSENT"}, "lot")
    /\ o.kind = "auction" =>
          IdsFree({a \in Auctions : db.auctions[a].status = "ABSENT"}, "auction")

(* A request arrives, validated by its schema and already authorised.      *)
Receive(r) ==
    /\ at[r] = "idle"
    /\ \E o \in Operations : /\ RoomFor(o)
                             /\ op' = [op EXCEPT ![r] = o]
                             /\ at' = [at EXCEPT ![r] = FirstLabel(o)]
    /\ UNCHANGED <<connection, history>>

(* BEGIN IMMEDIATE of open_auction, close_auction and create_sale.         *)
Begin(r) == /\ at[r] = "begin"
            /\ BeginImmediate(r) /\ Goto(r, "check") /\ UNCHANGED history

-----------------------------------------------------------------------------
(* Deviation: open_auction without its search for lots.                    *)
RuleHoldsWithoutLots(d, o, label) ==
    \/ label = "check" /\ o.kind = "open" /\ AuctionEditable(d, o.auction)
    \/ label = "check" /\ o.kind = "close" /\ CanClose(d, o.auction)
    \/ label = "check" /\ o.kind = "sale" /\ CanSell(d, o.lot, o.buyer, o.price)
    \/ label = "auction" /\ AuctionEditable(d, o.auction)
    \/ label = "seller" /\ SellerActive(d, o.seller)

(* The checks: the rule a handler applies at the label the request is at.  *)
RuleHolds(d, o, label) ==
    \/ label = "check" /\ o.kind = "open" /\ CanOpen(d, o.auction)
    \/ label = "check" /\ o.kind = "close" /\ CanClose(d, o.auction)
    \/ label = "check" /\ o.kind = "sale" /\ CanSell(d, o.lot, o.buyer, o.price)
    \/ label = "auction" /\ AuctionEditable(d, o.auction)
    \/ label = "seller" /\ SellerActive(d, o.seller)

(* Deviation: create_lot without its check of the seller.                   *)
NextLabelUnchecked(label) == IF label = "check" THEN "first" ELSE "write"

NextLabel(label) == CASE label = "check" -> "first" [] label = "auction" -> "seller"
                      [] label = "seller" -> "write"

Pass(r) == /\ at[r] \in {"check", "auction", "seller"}
           /\ RuleHolds(View(r), op[r], at[r])
           /\ Goto(r, NextLabel(at[r])) /\ UNCHANGED <<connection, history>>

(* The INSERTs can break a UNIQUE constraint (IntegrityError, 409).         *)
ConstraintHolds(d, o, label) ==
    /\ label = "first" /\ o.kind = "sale" => NeverSold(d, o.lot)
    /\ o.kind = "seller" => SellerUnknown(d, o.email)
    /\ o.kind = "buyer" => BuyerUnknown(d, o.email)

ReportKnown(d, o) ==
    o.scope \in {NoAuction} \cup {a \in Auctions : d.auctions[a].status # "ABSENT"}

(* A DomainError: roll back, then answer 404 or 409.                       *)
Refuse(r) ==
    /\ \/ at[r] \in {"check", "auction", "seller"} /\ ~RuleHolds(View(r), op[r], at[r])
       \/ /\ at[r] \in {"first", "write"} /\ LockFree(r)
          /\ ~ConstraintHolds(View(r), op[r], at[r])
       \/ at[r] = "report" /\ ~ReportKnown(View(r), op[r])
    /\ Rollback(r) /\ Leave(r) /\ UNCHANGED history

-----------------------------------------------------------------------------
(* The first of the two statements of open_auction and close_auction, the   *)
(* UPDATE of the auction, and of create_sale, the INSERT of the sale.      *)
Begun(d, o) == CASE o.kind = "open" -> AuctionTurned(d, o.auction, "OPEN")
                 [] o.kind = "close" -> AuctionTurned(d, o.auction, "CLOSED")
                 [] o.kind = "sale" -> SaleAdded(d, o.lot, o.buyer, o.price)

WriteFirst(r) ==
    /\ at[r] = "first"
    /\ ConstraintHolds(View(r), op[r], "first")
    /\ Execute(r, Begun(View(r), op[r]))
    /\ Goto(r, "write") /\ UNCHANGED history

(* The second statement, or the only one: one action per handler.          *)
Write(r, kind, rows) ==
    /\ at[r] = "write" /\ op[r].kind = kind
    /\ ConstraintHolds(View(r), op[r], "write")
    /\ Execute(r, rows) /\ Goto(r, "answer") /\ UNCHANGED history

OpenAuction(r) ==
    Write(r, "open", LotsTurned(View(r), op[r].auction, "DRAFT", "AVAILABLE"))

(* Deviation: the lots of a closed auction get its own status.              *)
CloseWithLots(r) ==
    Write(r, "close", LotsTurned(View(r), op[r].auction, "AVAILABLE", "CLOSED"))

CloseAuction(r) ==
    Write(r, "close", LotsTurned(View(r), op[r].auction, "AVAILABLE", "UNSOLD"))
CreateSale(r) == Write(r, "sale", LotMarked(View(r), op[r].lot))
CreateSeller(r) == Write(r, "seller", SellerAdded(View(r), op[r].email))
CreateBuyer(r) == Write(r, "buyer", BuyerAdded(View(r), op[r].email))

(* The id of a new row is any unused one.                                  *)
CreateLot(r) ==
    \E l \in Lots :
        /\ View(r).lots[l].status = "ABSENT"
        /\ Write(r, "lot",
                 LotAdded(View(r), l, op[r].auction, op[r].seller, op[r].price))
CreateAuction(r) ==
    \E a \in Auctions :
        /\ View(r).auctions[a].status = "ABSENT"
        /\ Write(r, "auction", AuctionAdded(View(r), a, op[r].rate))

WriteRows(r) ==
    \/ OpenAuction(r) \/ CloseAuction(r) \/ CreateSale(r)
    \/ CreateSeller(r) \/ CreateBuyer(r) \/ CreateLot(r) \/ CreateAuction(r)

(* Deviation: a report that reads what another request has not committed.  *)
ReportUncommitted(r) ==
    /\ at[r] = "report" /\ ReportKnown(image, op[r])
    /\ reported' = [reported EXCEPT ![op[r].scope] = revenue_report(image, op[r].scope)]
    /\ Leave(r) /\ UNCHANGED <<connection, told>>

(* revenue_report: one SELECT, outside any transaction, and the answer.    *)
Report(r) ==
    /\ at[r] = "report" /\ ReportKnown(View(r), op[r])
    /\ reported' = [reported EXCEPT
                       ![op[r].scope] = revenue_report(View(r), op[r].scope)]
    /\ Leave(r) /\ UNCHANGED <<connection, told>>

-----------------------------------------------------------------------------
(* The end of a request that wrote: the answer, then the commit.           *)
Answer(r) ==
    /\ at[r] = "answer"
    /\ told' = IF op[r].kind = "sale" THEN told \cup {op[r].lot} ELSE told
    /\ Goto(r, "commit") /\ UNCHANGED <<connection, reported>>

Finish(r) == at[r] = "commit" /\ Commit(r) /\ Leave(r) /\ UNCHANGED history

(* The write lock was not free in time: DATABASE_UNAVAILABLE, 503.         *)
Unavailable(r) == /\ at[r] \in {"begin", "write"}
                  /\ WaitTimesOut(r) /\ Leave(r) /\ UNCHANGED history

(* The commit waited too long for a backup; the client has its 201 already. *)
CommitFails(r) == /\ at[r] = "commit"
                  /\ CommitTimesOut(r) /\ Leave(r) /\ UNCHANGED history

(* Deviation: a connection that commits whatever has happened to it.        *)
StorageErrorCommitted(r) == /\ at[r] # "idle"
                            /\ Commit(r) /\ Leave(r) /\ UNCHANGED history

(* Any other sqlite3.Error (a full disk, say), at any statement.           *)
StorageError(r) == /\ at[r] # "idle"
                   /\ Rollback(r) /\ Leave(r) /\ UNCHANGED history

(* The process is killed and started again.                                *)
Crash == /\ LoseTransactions
         /\ at' = [r \in Requests |-> "idle"]
         /\ op' = [r \in Requests |-> NoOperation]
         /\ UNCHANGED history

Backup == (StartCopy \/ EndCopy) /\ UNCHANGED <<at, op, history>>

(* UPDATE sellers/buyers SET is_active = ..., by another program.          *)
Switch ==
    /\ \E activity \in Activities :
          \/ \E s \in Sellers : /\ db.sellers[s] # "none"
                                /\ ExecuteOutside(SellerSwitched(db, s, activity))
          \/ \E b \in Buyers : /\ db.buyers[b] # "none"
                               /\ ExecuteOutside(BuyerSwitched(db, b, activity))
    /\ UNCHANGED <<at, op, history>>

Step(r) == \/ Begin(r) \/ Pass(r) \/ Refuse(r) \/ WriteFirst(r) \/ WriteRows(r)
           \/ Report(r) \/ Answer(r) \/ Finish(r) \/ Unavailable(r) \/ CommitFails(r)

Next == \/ \E r \in Requests : Receive(r) \/ Step(r) \/ StorageError(r)
        \/ Crash \/ Backup \/ Switch

Spec == Init /\ [][Next]_vars

-----------------------------------------------------------------------------
(* The tables hold rows of their columns' domains, and every request is at *)
(* a label of its handler with an operation to work on.                    *)
TypeOK ==
    /\ db \in Database /\ image \in Database
    /\ writer \in Requests \cup {NoOne} /\ copying \in BOOLEAN
    /\ at \in [Requests -> Labels]
    /\ op \in [Requests -> Operations \cup {NoOperation}]
    /\ told \subseteq Lots

(* The sales table and the lots agree in every committed database, however *)
(* the requests of create_sale interleave, fail or die.                    *)
CommittedLedger == LedgerAgrees(db)

(* Lots and auctions agree on the phase they are in: open_auction and      *)
(* close_auction move all of their lots or none.                           *)
CommittedPhases == PhaseAgrees(db)

(* What request r has written is its own operation applied to the database *)
(* as it is committed now, and its rule still holds there.                 *)
OneOperation(r) ==
    LET o == op[r] IN
    \/ o.kind = "open" /\ CanOpen(db, o.auction) /\ image = Opened(db, o.auction)
    \/ o.kind = "close" /\ CanClose(db, o.auction) /\ image = Closed(db, o.auction)
    \/ /\ o.kind = "sale" /\ CanSell(db, o.lot, o.buyer, o.price)
       /\ NeverSold(db, o.lot) /\ image = Sold(db, o.lot, o.buyer, o.price)
    \/ /\ o.kind = "lot" /\ db.auctions[o.auction].status # "ABSENT"
       /\ db.sellers[o.seller] # "none"
       /\ \E l \in Lots : /\ db.lots[l].status = "ABSENT"
                          /\ image = LotAdded(db, l, o.auction, o.seller, o.price)
    \/ /\ o.kind = "auction"
       /\ \E a \in Auctions : /\ db.auctions[a].status = "ABSENT"
                              /\ image = AuctionAdded(db, a, o.rate)
    \/ o.kind = "seller" /\ SellerUnknown(db, o.email) /\ image = SellerAdded(db, o.email)
    \/ o.kind = "buyer" /\ BuyerUnknown(db, o.email) /\ image = BuyerAdded(db, o.email)

(* What the write lock guarantees request r at each label of its handler.  *)
Isolated(r) ==
    /\ at[r] = "check" => writer = r /\ image = db
    /\ at[r] = "first" => writer = r /\ image = db /\ RuleHolds(db, op[r], "check")
    /\ at[r] = "write" =>
          IF op[r].kind \in {"open", "close", "sale"}
          THEN /\ writer = r /\ image = Begun(db, op[r])
               /\ RuleHolds(db, op[r], "check") /\ ConstraintHolds(db, op[r], "first")
          ELSE writer # r
    /\ at[r] \in {"answer", "commit"} => writer = r /\ OneOperation(r)
    /\ writer = r => at[r] \in {"check", "first", "write", "answer", "commit"}

(* Nobody works on stale rows: from the check of a rule under the write    *)
(* lock to the commit, the rule stays true of the committed database, and  *)
(* the image is that database with this one operation done, or begun.      *)
WriterIsolated ==
    /\ writer = NoOne => image = db
    /\ \A r \in Requests : Isolated(r)

(* A sale enters the committed database only while its auction is OPEN,    *)
(* its buyer active and its lot AVAILABLE, at the lot's price or more:     *)
(* neither a concurrent close nor a second sale nor a buyer switched off   *)
(* after the check can slip in between.                                    *)
SalesFollowRules ==
    [][\A s \in db'.sales \ db.sales :
          CanSell(db, s.lot, s.buyer, s.price) /\ NeverSold(db, s.lot)]_vars

(* The books of a CLOSED auction never change again, and it stays CLOSED;  *)
(* its lots but for DRAFT ones keep the status they had.                   *)
ClosedBooks ==
    [][\A a \in Auctions : db.auctions[a].status = "CLOSED" =>
          /\ db'.auctions[a] = db.auctions[a]
          /\ revenue_report(db', a) = revenue_report(db, a)
          /\ \A l \in LotsOf(db, a) : db'.lots[l] = db.lots[l]]_vars

(* Two reports on the same auction, or on all, never contradict each       *)
(* other: no sale a report has counted is ever taken back, not by a crash, *)
(* a failed commit or a rollback.                                          *)
ReportsOnlyGrow ==
    [][\A a \in Scopes :
          /\ reported'[a].sales_count >= reported[a].sales_count
          /\ reported'[a].gross_revenue >= reported[a].gross_revenue
          /\ reported'[a].commission_revenue >= reported[a].commission_revenue]_vars

(* Every request ends, in success, refusal or 503: none waits for ever for *)
(* a lock, not even behind a backup that never ends.                       *)
RequestsFinish == \A r \in Requests : at[r] # "idle" ~> at[r] = "idle"

Serial == INSTANCE SerialAuctions

(* Every change of the committed database is one operation of              *)
(* SerialAuctions, done when its rule holds.                               *)
RefinesSerial == Serial!Spec

(* For a client that waits for each answer create_lot, too, keeps the       *)
(* documented rule: only DRAFT auctions and active sellers get lots,       *)
(* although its requests overlap with the commits of those before.         *)
RefinesDocumented == Serial!Documented

(* technical-spec.md: a lot is added only to a DRAFT auction.              *)
LotsJoinOnlyDrafts ==
    [][\A l \in Lots :
          db.lots[l].status = "ABSENT" /\ db'.lots[l].status # "ABSENT" =>
             db.auctions[db'.lots[l].auction].status = "DRAFT"]_vars

(* release_check.py: a sale answered with 201 is not missing from a report *)
(* asked for afterwards, but for the moment its commit may still take.     *)
ToldIsKept ==
    \A l \in told : \/ l \in SoldLots(db)
                   \/ \E r \in Requests : at[r] = "commit" /\ l \in SoldLots(View(r))
=============================================================================
