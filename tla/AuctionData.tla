----------------------------- MODULE AuctionData -----------------------------
(***************************************************************************)
(* The business tables of the service and what each handler of             *)
(* app/services.py demands of them and does to them.  Nothing here moves:  *)
(* a database d is a record of tables, a rule is a predicate on d, an      *)
(* effect is the d a handler leaves behind.  Connection says when a        *)
(* handler sees which d; SerialAuctions and AuctionService put the two     *)
(* together.                                                               *)
(*                                                                         *)
(* A row that does not exist yet has the status "ABSENT" (a participant:   *)
(* "none").  Participants are known by their normalised e-mail, the only   *)
(* column two of them may not share.  Titles, descriptions, periods and    *)
(* creation times take part in no rule and are left out.                   *)
(***************************************************************************)
EXTENDS Commission, FiniteSets, FiniteSetsExt

CONSTANTS
    Auctions, Lots,     \* row ids
    Sellers, Buyers,    \* e-mails
    Prices, Rates,      \* amounts in kopecks and basis points a request may carry
    NoAuction,          \* the auction of a lot that does not exist; a report on all
    NoSeller            \* the seller of a lot that does not exist

ASSUME PricesAssumption == Prices \subseteq Nat /\ \A p \in Prices : p > 0
ASSUME RatesAssumption == Rates \subseteq BasisPoints
ASSUME NoRowAssumption == NoAuction \notin Auctions /\ NoSeller \notin Sellers

AuctionStatus == {"ABSENT", "DRAFT", "OPEN", "CLOSED"}
LotStatus == {"ABSENT", "DRAFT", "AVAILABLE", "SOLD", "UNSOLD"}
Activity == {"none", "active", "inactive"}

AuctionRow == [status : AuctionStatus, commission_bps : BasisPoints]
LotRow == [status : LotStatus, auction : Auctions \cup {NoAuction},
           seller : Sellers \cup {NoSeller}, starting_price : Nat]
SaleRow == [lot : Lots, buyer : Buyers, price : Nat, commission : Nat]

Database == [auctions : [Auctions -> AuctionRow], lots : [Lots -> LotRow],
             sellers : [Sellers -> Activity], buyers : [Buyers -> Activity],
             sales : SUBSET SaleRow]

EmptyDatabase ==
    [auctions |-> [a \in Auctions |-> [status |-> "ABSENT", commission_bps |-> 0]],
     lots |-> [l \in Lots |-> [status |-> "ABSENT", auction |-> NoAuction,
                               seller |-> NoSeller, starting_price |-> 0]],
     sellers |-> [s \in Sellers |-> "none"],
     buyers |-> [b \in Buyers |-> "none"],
     sales |-> {}]

LotsOf(d, a) == {l \in Lots : d.lots[l].auction = a}
SoldLots(d) == {s.lot : s \in d.sales}

-----------------------------------------------------------------------------
(* The rules: what a handler checks before it writes.                      *)

(* create_lot, first check.                                                *)
AuctionEditable(d, a) == d.auctions[a].status = "DRAFT"

(* create_lot, second check.                                               *)
SellerActive(d, s) == d.sellers[s] = "active"

(* create_participant: the UNIQUE constraint on the e-mail.                *)
SellerUnknown(d, s) == d.sellers[s] = "none"
BuyerUnknown(d, b) == d.buyers[b] = "none"

CanOpen(d, a) == AuctionEditable(d, a) /\ LotsOf(d, a) # {}

CanClose(d, a) == d.auctions[a].status = "OPEN"

CanSell(d, l, b, price) ==
    /\ d.lots[l].status = "AVAILABLE"
    /\ d.auctions[d.lots[l].auction].status = "OPEN"
    /\ d.buyers[b] = "active"
    /\ price >= d.lots[l].starting_price

(* The UNIQUE constraint on sales.lot_id.                                  *)
NeverSold(d, l) == l \notin SoldLots(d)

-----------------------------------------------------------------------------
(* The effects: the database after a statement, or after all of a handler's. *)

SellerAdded(d, s) == [d EXCEPT !.sellers[s] = "active"]
BuyerAdded(d, b) == [d EXCEPT !.buyers[b] = "active"]

AuctionAdded(d, a, rate) ==
    [d EXCEPT !.auctions[a] = [status |-> "DRAFT", commission_bps |-> rate]]

LotAdded(d, l, a, s, price) ==
    [d EXCEPT !.lots[l] = [status |-> "DRAFT", auction |-> a, seller |-> s,
                           starting_price |-> price]]

(* Deviation: the UPDATE without its auction_id = a.                        *)
LotsMovedEverywhere(d, a, from, to) ==
    [l \in Lots |-> IF d.lots[l].status = from
                    THEN [d.lots[l] EXCEPT !.status = to] ELSE d.lots[l]]

(* UPDATE lots SET status = to WHERE auction_id = a AND status = from.      *)
LotsMoved(d, a, from, to) ==
    [l \in Lots |-> IF d.lots[l].auction = a /\ d.lots[l].status = from
                    THEN [d.lots[l] EXCEPT !.status = to] ELSE d.lots[l]]

LotsTurned(d, a, from, to) == [d EXCEPT !.lots = LotsMoved(d, a, from, to)]
AuctionTurned(d, a, status) == [d EXCEPT !.auctions[a].status = status]

Opened(d, a) == LotsTurned(AuctionTurned(d, a, "OPEN"), a, "DRAFT", "AVAILABLE")
Closed(d, a) == LotsTurned(AuctionTurned(d, a, "CLOSED"), a, "AVAILABLE", "UNSOLD")

(* The commission is fixed at the sale, at the rate of the lot's auction.  *)
NewSale(d, l, b, price) ==
    [lot |-> l, buyer |-> b, price |-> price,
     commission |-> commission_kopecks(
                       price, d.auctions[d.lots[l].auction].commission_bps)]

SaleAdded(d, l, b, price) == [d EXCEPT !.sales = @ \cup {NewSale(d, l, b, price)}]
LotMarked(d, l) == [d EXCEPT !.lots[l].status = "SOLD"]

Sold(d, l, b, price) == LotMarked(SaleAdded(d, l, b, price), l)

(* Participants are switched on and off by SQL from outside the service.   *)
SellerSwitched(d, s, activity) == [d EXCEPT !.sellers[s] = activity]
BuyerSwitched(d, b, activity) == [d EXCEPT !.buyers[b] = activity]

-----------------------------------------------------------------------------
(* Deviation: the SELECT without its WHERE.                                 *)
ReportedSalesOfAll(d, scope) == d.sales

(* revenue_report for one auction, or for all of them (NoAuction).         *)
ReportedSales(d, scope) ==
    {s \in d.sales : scope \in {NoAuction, d.lots[s.lot].auction}}

SumOfPrices(rows) == MapThenSumSet(LAMBDA s : s.price, rows)
SumOfCommissions(rows) == MapThenSumSet(LAMBDA s : s.commission, rows)

revenue_report(d, scope) ==
    LET rows == ReportedSales(d, scope)
    IN  [sales_count |-> Cardinality(rows),
         gross_revenue |-> SumOfPrices(rows),
         commission_revenue |-> SumOfCommissions(rows)]

-----------------------------------------------------------------------------
(* What a database must say of itself.                                     *)

(* A lot is SOLD exactly when the sales table holds its one sale, at no     *)
(* less than the starting price, with the commission of its auction's rate. *)
LedgerAgrees(d) ==
    /\ \A l \in Lots : d.lots[l].status = "SOLD" <=> l \in SoldLots(d)
    /\ \A s, t \in d.sales : s.lot = t.lot => s = t
    /\ \A s \in d.sales :
          LET lot == d.lots[s.lot] IN
          /\ s.price > 0 /\ s.price >= lot.starting_price
          /\ lot.auction \in Auctions
          /\ s.commission =
                commission_kopecks(s.price, d.auctions[lot.auction].commission_bps)

(* The status of a lot agrees with the status of its auction.  A DRAFT lot  *)
(* may sit in an auction of any phase: create_lot does not exclude it.     *)
PhaseAgrees(d) ==
    /\ \A l \in Lots :
          LET lot == d.lots[l]
              phase == d.auctions[lot.auction].status IN
          /\ lot.status = "ABSENT" <=> lot.auction = NoAuction
          /\ lot.status # "ABSENT" => /\ phase # "ABSENT"
                                      /\ lot.seller \in Sellers
                                      /\ d.sellers[lot.seller] # "none"
          /\ lot.status = "AVAILABLE" => phase = "OPEN"
          /\ lot.status = "UNSOLD" => phase = "CLOSED"
          /\ lot.status = "SOLD" => phase \in {"OPEN", "CLOSED"}
    /\ \A a \in Auctions :
          d.auctions[a].status \in {"OPEN", "CLOSED"} =>
             \E l \in LotsOf(d, a) : d.lots[l].status # "DRAFT"
=============================================================================
