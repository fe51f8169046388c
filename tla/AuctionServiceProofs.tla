------------------------- MODULE AuctionServiceProofs -------------------------
(***************************************************************************)
(* What is proved of the business half of the service, for every set of    *)
(* requests, rows, prices and rates.                                       *)
(*                                                                         *)
(*  1. Commission: the arithmetic.  The product price * rate is non-linear; *)
(*     each proof first bounds it, and then reasons about one integer m.   *)
(*  2. AuctionData: every effect, done when its rule holds, keeps a        *)
(*     database well typed, its ledger right and its phases in agreement.  *)
(*     No state here: the lemmas are about a database d and the database   *)
(*     after one handler.                                                  *)
(*  3. AuctionService: its types, the isolation of its writer, and with    *)
(*     them that every committed database has a right ledger and phases in *)
(*     agreement, and that the service does what SerialAuctions says.  The *)
(*     rule of a handler was checked at another moment than the one at     *)
(*     which its effect is committed; so the inductive invariant says that *)
(*     between the two the database does not change under the handler      *)
(*     (WriterIsolated), and what a create_lot, which checks without the   *)
(*     lock, may still rely on (Fits).                                     *)
(*  4. Acceptance: what the script has seen in its report stays committed, *)
(*     and while it is the only client, create_lot keeps the documented    *)
(*     rule.  The script runs ahead of the commits, but at most one request *)
(*     is behind it, the one that holds the write lock (Awaited and        *)
(*     WriterIsolated): each operation finds those before it either        *)
(*     committed or in its way.                                            *)
(*  5. Reports: no report ever answered is ahead of the committed database  *)
(*     (NotAhead), and that database only gains sales; so one report never *)
(*     falls behind an earlier one.                                        *)
(*  6. What no run asks: an exception that never comes, the conditions     *)
(*     under which the two promises the runs refute do hold, the life of   *)
(*     the rows, and that SerialAuctions is sound by itself.               *)
(***************************************************************************)
EXTENDS Acceptance, MCCommission, FiniteSetTheorems, TLAPS

-----------------------------------------------------------------------------
(* 1. Commission.                                                          *)

(* A share of at most 10000/10000 is between nothing and the whole.         *)
LEMMA ShareBound ==
    ASSUME NEW price \in Nat, NEW rate \in BasisPoints
    PROVE  /\ price * rate \in Nat
           /\ price * rate <= price * 10000
  <1>1. price * rate \in Nat
    BY DEF BasisPoints
  <1> USE DEF BasisPoints
  <1>2. PICK rest \in Nat : rate + rest = 10000
    <2>1. 10000 - rate \in Nat /\ rate + (10000 - rate) = 10000
      OBVIOUS
    <2>2. QED BY <2>1
  <1>3. price * rest \in Nat /\ price * rate + price * rest = price * 10000
    BY <1>2
  <1>4. QED BY <1>1, <1>3

(* Integer division by 10000 as the bounds it means.                        *)
LEMMA HalfUpDivision ==
    ASSUME NEW m \in Nat
    PROVE  /\ (m + 5000) \div 10000 \in Nat
           /\ 10000 * ((m + 5000) \div 10000) <= m + 5000
           /\ m + 5000 < 10000 * ((m + 5000) \div 10000) + 10000
  OBVIOUS

(* commission_kopecks is the exact share of the price rounded half up.      *)
THEOREM FeeIsRoundedHalfUp ==
    ASSUME NEW price, NEW rate, ValidPrice(price), ValidRate(rate)
    PROVE  RoundedHalfUp(commission_kopecks(price, rate), price * rate, 10000)
  <1> DEFINE m == price * rate
  <1>1. m \in Nat
    BY ShareBound DEF ValidPrice, ValidRate, BasisPoints
  <1> HIDE DEF m
  <1>2. RoundedHalfUp((m + 5000) \div 10000, m, 10000)
    BY <1>1, HalfUpDivision DEF RoundedHalfUp
  <1>3. QED BY <1>2 DEF m, commission_kopecks

(* The fee is never negative and never more than the price: the CHECK of   *)
(* the sales table (migration 003) cannot fail on a row create_sale writes. *)
THEOREM FeeWithinPrice ==
    ASSUME NEW price, NEW rate, ValidPrice(price), ValidRate(rate)
    PROVE  commission_kopecks(price, rate) \in 0..price
  <1> DEFINE m == price * rate
  <1>1. price \in Nat /\ m \in Nat /\ m <= price * 10000
    BY ShareBound DEF ValidPrice, ValidRate, BasisPoints
  <1> HIDE DEF m
  <1>2. (m + 5000) \div 10000 \in 0..price
    BY <1>1, HalfUpDivision
  <1>3. QED BY <1>2 DEF m, commission_kopecks

(* A dearer sale at the same rate never costs the seller: fee and proceeds *)
(* both grow with the price.                                               *)
THEOREM DearerSaleSharesGain ==
    ASSUME NEW price, NEW rate, ValidPrice(price), ValidRate(rate)
    PROVE  /\ commission_kopecks(price + 1, rate) >= commission_kopecks(price, rate)
           /\ seller_proceeds(price + 1, rate) >= seller_proceeds(price, rate)
  <1> DEFINE m == price * rate
  <1>1. price \in Nat /\ rate \in 0..10000 /\ m \in Nat
    BY ShareBound DEF ValidPrice, ValidRate, BasisPoints
  <1>2. (price + 1) * rate = m + rate
    BY <1>1
  <1> HIDE DEF m
  <1>3. LET a == (m + 5000) \div 10000
            b == (m + rate + 5000) \div 10000
        IN  a <= b /\ b <= a + 1 /\ a \in Nat /\ b \in Nat
    <2>1. m + rate \in Nat /\ rate <= 10000 /\ rate >= 0
      BY <1>1
    <2>2. QED BY <1>1, <2>1, HalfUpDivision
  <1>4. commission_kopecks(price, rate) = (m + 5000) \div 10000
    BY DEF m, commission_kopecks
  <1>5. commission_kopecks(price + 1, rate) = (m + rate + 5000) \div 10000
    BY <1>2 DEF commission_kopecks
  <1>6. QED BY <1>1, <1>3, <1>4, <1>5 DEF seller_proceeds

(* A higher rate at the same price never lowers the fee.                    *)
LEMMA HigherRateRaisesFee ==
    ASSUME NEW price \in Nat, NEW rate \in Nat, NEW more \in Nat
    PROVE  commission_kopecks(price, rate + more) >= commission_kopecks(price, rate)
  <1> DEFINE m == price * rate
             extra == price * more
  <1>1. m \in Nat /\ extra \in Nat /\ price * (rate + more) = m + extra
    OBVIOUS
  <1> HIDE DEF m, extra
  <1>2. (m + extra + 5000) \div 10000 >= (m + 5000) \div 10000
    BY <1>1, HalfUpDivision
  <1>3. QED
    BY <1>1, <1>2 DEF commission_kopecks, m

(* The fees of the two parts of a price, together, are the fee of the price *)
(* or a kopeck beside it: three roundings of at most half a kopeck each.    *)
THEOREM SplitCostsOneKopeck ==
    ASSUME NEW price \in Nat, NEW rate \in Nat, NEW part \in 0..price
    PROVE  commission_kopecks(part, rate) + commission_kopecks(price - part, rate)
              - commission_kopecks(price, rate) \in {-1, 0, 1}
  <1> DEFINE m == part * rate
             n == (price - part) * rate
  <1>1. m \in Nat /\ n \in Nat /\ price * rate = m + n
    OBVIOUS
  <1> HIDE DEF m, n
  <1>2. ((m + 5000) \div 10000) + ((n + 5000) \div 10000) - ((m + n + 5000) \div 10000)
           \in {-1, 0, 1}
    BY <1>1, HalfUpDivision
  <1>3. QED
    BY <1>1, <1>2 DEF commission_kopecks, m, n

(* The walk of MCCommission over prices and rates.                         *)
OnTheWay == amount \in Nat \ {0} /\ share \in BasisPoints

LEMMA WalkStays == Walk => []OnTheWay
  <1>1. Start => OnTheWay
    BY DEF Start, OnTheWay, BasisPoints
  <1>2. ASSUME OnTheWay, [Further]_place
        PROVE  OnTheWay'
    <2>1. amount \in Nat /\ amount > 0 /\ share \in 0..10000
      BY <1>2 DEF OnTheWay, BasisPoints
    <2>2. CASE DearerLot
      BY <2>1, <2>2 DEF DearerLot, OnTheWay, BasisPoints
    <2>3. CASE HigherRate
      BY <2>1, <2>3, GridAssumption DEF HigherRate, OnTheWay, BasisPoints
    <2>4. CASE UNCHANGED place
      BY <2>1, <2>4 DEF place, OnTheWay, BasisPoints
    <2>5. QED
      BY <1>2, <2>2, <2>3, <2>4 DEF Further
  <1>3. QED
    BY <1>1, <1>2, PTL DEF Walk

(* Splitting a sale gains or loses a kopeck at most, whatever its price.   *)
THEOREM SplitCorrect == Walk => []SplitMovesOneKopeck
  <1>1. ASSUME OnTheWay
        PROVE  SplitMovesOneKopeck
    <2>1. amount \in Nat /\ share \in Nat
      BY <1>1 DEF OnTheWay, BasisPoints
    <2>2. \A part \in 1..(amount - 1) : part \in 0..amount
      BY <2>1
    <2>3. QED
      BY <2>1, <2>2, SplitCostsOneKopeck DEF SplitMovesOneKopeck, fee
  <1>2. QED
    BY <1>1, WalkStays, PTL

(* More money or a higher rate never takes from a side what it had.        *)
THEOREM GainCorrect == Walk => BothGainFromMore
  <1>1. ASSUME OnTheWay, [Further]_place
        PROVE  /\ fee' >= fee
               /\ share' = share =>
                     seller_proceeds(amount, share)' >= seller_proceeds(amount, share)
    <2>1. ValidPrice(amount) /\ ValidRate(share)
      BY <1>1 DEF OnTheWay, ValidPrice, ValidRate
    <2>2. fee \in Nat
      BY <2>1, FeeWithinPrice DEF fee, ValidPrice
    <2>3. CASE DearerLot
      BY <2>1, <2>3, DearerSaleSharesGain DEF DearerLot, fee, seller_proceeds
    <2>4. CASE HigherRate
      <3>1. share' = share + RateStep /\ amount' = amount /\ RateStep \in Nat \ {0}
        BY <2>4, GridAssumption DEF HigherRate
      <3>2. fee' >= fee
        BY <1>1, <3>1, HigherRateRaisesFee DEF fee, OnTheWay, BasisPoints
      <3>3. share' # share
        BY <1>1, <3>1 DEF OnTheWay, BasisPoints
      <3>4. QED
        BY <3>2, <3>3
    <2>5. CASE UNCHANGED place
      <3>1. fee' = fee /\ seller_proceeds(amount, share)' = seller_proceeds(amount, share)
        BY <2>5 DEF place, fee, seller_proceeds
      <3>2. fee \in Int /\ seller_proceeds(amount, share) \in Int
        BY <1>1, <2>2 DEF fee, seller_proceeds, OnTheWay
      <3>3. QED
        BY <3>1, <3>2
    <2>6. QED
      BY <1>1, <2>3, <2>4, <2>5 DEF Further
  <1>2. OnTheWay /\ [Further]_place =>
           [/\ fee' >= fee
            /\ share' = share =>
                  seller_proceeds(amount, share)' >= seller_proceeds(amount, share)]_place
    BY <1>1
  <1>3. QED
    BY <1>2, WalkStays, PTL DEF Walk, BothGainFromMore

(* An amount read back from the database and sent again is the amount that *)
(* was stored.                                                             *)
THEOREM KopecksRoundTrip ==
    ASSUME NEW value \in Nat
    PROVE  /\ from_kopecks(value) \in Decimals
           /\ to_kopecks(from_kopecks(value)) = value
  <1>1. CASE value % 100 = 0
    <2>1. from_kopecks(value) = [coef |-> value \div 100, places |-> 0]
      BY <1>1 DEF from_kopecks
    <2>2. value \div 100 \in Nat /\ (value \div 100) * 100 = value
      BY <1>1
    <2>3. QED BY <2>1, <2>2 DEF to_kopecks, Scale, Decimals
  <1>2. CASE value % 100 # 0 /\ value % 10 = 0
    <2>1. from_kopecks(value) = [coef |-> value \div 10, places |-> 1]
      BY <1>2 DEF from_kopecks
    <2>2. value \div 10 \in Nat /\ (value \div 10) * 10 = value
      BY <1>2
    <2>3. QED BY <2>1, <2>2 DEF to_kopecks, Scale, Decimals
  <1>3. CASE value % 100 # 0 /\ value % 10 # 0
    <2>1. from_kopecks(value) = [coef |-> value, places |-> 2]
      BY <1>3 DEF from_kopecks
    <2>2. QED BY <2>1 DEF to_kopecks, Scale, Decimals
  <1>4. QED BY <1>1, <1>2, <1>3

-----------------------------------------------------------------------------
(* 2. AuctionData.                                                         *)

Consistent(d) == d \in Database /\ LedgerAgrees(d) /\ PhaseAgrees(d)

(* The parts of a typed database.                                          *)
LEMMA DatabaseParts ==
    ASSUME NEW d \in Database
    PROVE  /\ d = [auctions |-> d.auctions, lots |-> d.lots, sellers |-> d.sellers,
                   buyers |-> d.buyers, sales |-> d.sales]
           /\ d.auctions \in [Auctions -> AuctionRow]
           /\ d.lots \in [Lots -> LotRow]
           /\ d.sellers \in [Sellers -> Activity]
           /\ d.buyers \in [Buyers -> Activity]
           /\ d.sales \subseteq SaleRow
  BY DEF Database

(* The empty database of a fresh installation.                             *)
LEMMA EmptyIsConsistent == Consistent(EmptyDatabase)
  <1>1. EmptyDatabase \in Database
    BY DEF EmptyDatabase, Database, AuctionRow, LotRow, AuctionStatus, LotStatus, Activity,
           BasisPoints
  <1>2. LedgerAgrees(EmptyDatabase)
    BY DEF EmptyDatabase, LedgerAgrees, SoldLots
  <1>3. PhaseAgrees(EmptyDatabase)
    BY DEF EmptyDatabase, PhaseAgrees, LotsOf
  <1>4. QED BY <1>1, <1>2, <1>3 DEF Consistent

(* create_participant and is_active touch no table the two agreements      *)
(* read, except that a seller once there stays there.                      *)
LEMMA SellerEffect ==
    ASSUME NEW d, Consistent(d), NEW s \in Sellers, NEW activity \in {"active", "inactive"}
    PROVE  Consistent(SellerSwitched(d, s, activity))
  <1> DEFINE e == SellerSwitched(d, s, activity)
  <1>1. d \in Database /\ LedgerAgrees(d) /\ PhaseAgrees(d)
    BY DEF Consistent
  <1>2. /\ e.auctions = d.auctions /\ e.lots = d.lots
        /\ e.buyers = d.buyers /\ e.sales = d.sales
        /\ e.sellers = [d.sellers EXCEPT ![s] = activity]
        /\ e \in Database
    BY <1>1, DatabaseParts DEF SellerSwitched, Database, Activity
  <1> HIDE DEF e
  <1>3. LedgerAgrees(e)
    BY <1>1, <1>2 DEF LedgerAgrees, SoldLots
  <1>4. \A t \in Sellers : d.sellers[t] # "none" => e.sellers[t] # "none"
    BY <1>1, <1>2, DatabaseParts
  <1>5. PhaseAgrees(e)
    BY <1>1, <1>2, <1>4 DEF PhaseAgrees, LotsOf
  <1>6. QED BY <1>2, <1>3, <1>5 DEF Consistent, e

(* Switching a buyer on or off keeps a database consistent.                *)
LEMMA BuyerEffect ==
    ASSUME NEW d, Consistent(d), NEW b \in Buyers, NEW activity \in {"active", "inactive"}
    PROVE  Consistent(BuyerSwitched(d, b, activity))
  <1> DEFINE e == BuyerSwitched(d, b, activity)
  <1>1. d \in Database /\ LedgerAgrees(d) /\ PhaseAgrees(d)
    BY DEF Consistent
  <1>2. /\ e.auctions = d.auctions /\ e.lots = d.lots
        /\ e.sellers = d.sellers /\ e.sales = d.sales
        /\ e \in Database
    BY <1>1, DatabaseParts DEF BuyerSwitched, Database, Activity
  <1> HIDE DEF e
  <1>3. LedgerAgrees(e)
    BY <1>1, <1>2 DEF LedgerAgrees, SoldLots
  <1>4. PhaseAgrees(e)
    BY <1>1, <1>2 DEF PhaseAgrees, LotsOf
  <1>5. QED BY <1>2, <1>3, <1>4 DEF Consistent, e

(* create_auction.                                                         *)
LEMMA AuctionEffect ==
    ASSUME NEW d, Consistent(d), NEW a \in Auctions, NEW rate \in Rates,
           d.auctions[a].status = "ABSENT"
    PROVE  Consistent(AuctionAdded(d, a, rate))
  <1> DEFINE e == AuctionAdded(d, a, rate)
  <1>1. d \in Database /\ LedgerAgrees(d) /\ PhaseAgrees(d)
    BY DEF Consistent
  <1>2. /\ e.lots = d.lots /\ e.sales = d.sales /\ e.sellers = d.sellers
        /\ e.auctions = [d.auctions EXCEPT ![a] = [status |-> "DRAFT", commission_bps |-> rate]]
        /\ e \in Database
    <2>1. [status |-> "DRAFT", commission_bps |-> rate] \in AuctionRow
      BY RatesAssumption DEF AuctionRow, AuctionStatus
    <2>2. QED BY <1>1, <2>1, DatabaseParts DEF AuctionAdded, Database
  <1> HIDE DEF e
  <1>3. \A l \in Lots : d.lots[l].auction # a
    BY <1>1, NoRowAssumption DEF PhaseAgrees
  <1>4. \A other \in Auctions : other # a => e.auctions[other] = d.auctions[other]
    BY <1>1, <1>2, DatabaseParts
  <1>5. e.auctions[a].status = "DRAFT"
    BY <1>1, <1>2, DatabaseParts
  <1>6. LedgerAgrees(e)
    <2>1. \A s \in d.sales : s.lot \in Lots
      BY <1>1, DatabaseParts DEF SaleRow
    <2>2. QED BY <1>1, <1>2, <1>3, <1>4, <2>1 DEF LedgerAgrees, SoldLots
  <1>7. PhaseAgrees(e)
    <2>1. ASSUME NEW l \in Lots, d.lots[l].status # "ABSENT"
          PROVE  e.auctions[e.lots[l].auction] = d.auctions[d.lots[l].auction]
      <3>1. d.lots[l].auction \in Auctions
        BY <1>1, <2>1, DatabaseParts DEF PhaseAgrees, LotRow
      <3>2. QED BY <1>2, <1>3, <1>4, <3>1
    <2>2. QED BY <1>1, <1>2, <1>4, <1>5, <2>1 DEF PhaseAgrees, LotsOf
  <1>8. QED BY <1>2, <1>6, <1>7 DEF Consistent, e

(* create_lot, into an auction of any phase.                               *)
LEMMA LotEffect ==
    ASSUME NEW d, Consistent(d), NEW l \in Lots, NEW a \in Auctions,
           NEW s \in Sellers, NEW price \in Prices,
           d.lots[l].status = "ABSENT",
           d.auctions[a].status # "ABSENT", d.sellers[s] # "none"
    PROVE  Consistent(LotAdded(d, l, a, s, price))
  <1> DEFINE row == [status |-> "DRAFT", auction |-> a, seller |-> s,
                     starting_price |-> price]
             e == LotAdded(d, l, a, s, price)
  <1>1. d \in Database /\ LedgerAgrees(d) /\ PhaseAgrees(d)
    BY DEF Consistent
  <1>2. /\ e.auctions = d.auctions /\ e.sales = d.sales /\ e.sellers = d.sellers
        /\ e.lots = [d.lots EXCEPT ![l] = row]
        /\ e \in Database
    <2>1. row \in LotRow
      BY PricesAssumption DEF LotRow, LotStatus
    <2>2. QED BY <1>1, <2>1, DatabaseParts DEF LotAdded, Database
  <1> HIDE DEF e
  <1>3. \A k \in Lots : k # l => e.lots[k] = d.lots[k]
    BY <1>1, <1>2, DatabaseParts
  <1>4. /\ e.lots[l] = row /\ e.lots[l].status = "DRAFT"
        /\ e.lots[l].auction = a /\ e.lots[l].seller = s
    BY <1>1, <1>2, DatabaseParts
  <1>5. l \notin SoldLots(d)
    BY <1>1 DEF LedgerAgrees
  <1>6. LedgerAgrees(e)
    <2>1. \A t \in d.sales : t.lot \in Lots /\ t.lot # l
      BY <1>1, <1>5, DatabaseParts DEF SaleRow, SoldLots
    <2>2. QED BY <1>1, <1>2, <1>3, <1>4, <1>5, <2>1 DEF LedgerAgrees, SoldLots
  <1>7. PhaseAgrees(e)
    <2>1. \A k \in Lots : k # l => d.lots[k] = e.lots[k]
      BY <1>3
    <2>2. a # NoAuction
      BY NoRowAssumption
    <2>3. ASSUME NEW b \in Auctions, NEW k \in LotsOf(d, b), d.lots[k].status # "DRAFT"
          PROVE  k \in LotsOf(e, b) /\ e.lots[k].status # "DRAFT"
      <3>1. k # l
        BY <1>1, <2>3, NoRowAssumption DEF PhaseAgrees, LotsOf
      <3>2. QED BY <1>3, <2>3, <3>1 DEF LotsOf
    <2>4. \A b \in Auctions : e.auctions[b].status \in {"OPEN", "CLOSED"} =>
             \E k \in LotsOf(e, b) : e.lots[k].status # "DRAFT"
      BY <1>1, <1>2, <2>3 DEF PhaseAgrees
    <2>5. QED BY <1>1, <1>2, <1>3, <1>4, <2>2, <2>4 DEF PhaseAgrees
  <1>8. QED BY <1>2, <1>6, <1>7 DEF Consistent, e

(* UPDATE lots ... WHERE auction_id = a AND status = from changes the       *)
(* status of those lots and nothing else of any lot.                       *)
LEMMA LotsMovedRows ==
    ASSUME NEW d \in Database, NEW a \in Auctions,
           NEW from \in LotStatus, NEW to \in LotStatus
    PROVE  /\ LotsMoved(d, a, from, to) \in [Lots -> LotRow]
           /\ \A l \in Lots :
                 LET new == LotsMoved(d, a, from, to)[l]
                     old == d.lots[l] IN
                 /\ new.auction = old.auction /\ new.seller = old.seller
                 /\ new.starting_price = old.starting_price
                 /\ new.status = IF old.auction = a /\ old.status = from
                                 THEN to ELSE old.status
  <1>1. \A l \in Lots : d.lots[l] \in LotRow
    BY DatabaseParts
  <1>2. \A row \in LotRow : [row EXCEPT !.status = to] \in LotRow
    BY DEF LotRow
  <1>3. LotsMoved(d, a, from, to) \in [Lots -> LotRow]
    BY <1>1, <1>2 DEF LotsMoved
  <1>4. ASSUME NEW l \in Lots
        PROVE  LET new == LotsMoved(d, a, from, to)[l]
                   old == d.lots[l] IN
               /\ new.auction = old.auction /\ new.seller = old.seller
               /\ new.starting_price = old.starting_price
               /\ new.status = IF old.auction = a /\ old.status = from
                               THEN to ELSE old.status
    <2>1. LotsMoved(d, a, from, to)[l] =
             IF d.lots[l].auction = a /\ d.lots[l].status = from
             THEN [d.lots[l] EXCEPT !.status = to] ELSE d.lots[l]
      BY DEF LotsMoved
    <2>2. d.lots[l] \in LotRow
      BY <1>1
    <2>3. QED BY <2>1, <2>2 DEF LotRow
  <1>5. QED BY <1>3, <1>4

(* What the two statements of open_auction leave behind: the second does   *)
(* not read what the first has written.                                    *)
LEMMA OpenedRows ==
    ASSUME NEW d \in Database, NEW a \in Auctions
    PROVE  /\ Opened(d, a).auctions = [d.auctions EXCEPT ![a] = [@ EXCEPT !.status = "OPEN"]]
           /\ Opened(d, a).lots = LotsMoved(d, a, "DRAFT", "AVAILABLE")
           /\ Opened(d, a).sellers = d.sellers
           /\ Opened(d, a).buyers = d.buyers
           /\ Opened(d, a).sales = d.sales
           /\ Opened(d, a) = [auctions |-> Opened(d, a).auctions,
                               lots |-> Opened(d, a).lots, sellers |-> d.sellers,
                               buyers |-> d.buyers, sales |-> Opened(d, a).sales]
  <1> DEFINE half == AuctionTurned(d, a, "OPEN")
  <1>1. half = [auctions |-> [d.auctions EXCEPT ![a] = [@ EXCEPT !.status = "OPEN"]],
                lots |-> d.lots, sellers |-> d.sellers, buyers |-> d.buyers,
                sales |-> d.sales]
    BY DatabaseParts DEF AuctionTurned
  <1>2. Opened(d, a) = [half EXCEPT !.lots = LotsMoved(half, a, "DRAFT", "AVAILABLE")]
    BY DEF Opened, LotsTurned
  <1> HIDE DEF half
  <1>3. LotsMoved(half, a, "DRAFT", "AVAILABLE") = LotsMoved(d, a, "DRAFT", "AVAILABLE")
    BY <1>1 DEF LotsMoved
  <1>4. QED BY <1>1, <1>2, <1>3

(* close_auction.                                                          *)
LEMMA ClosedRows ==
    ASSUME NEW d \in Database, NEW a \in Auctions
    PROVE  /\ Closed(d, a).auctions = [d.auctions EXCEPT ![a] = [@ EXCEPT !.status = "CLOSED"]]
           /\ Closed(d, a).lots = LotsMoved(d, a, "AVAILABLE", "UNSOLD")
           /\ Closed(d, a).sellers = d.sellers
           /\ Closed(d, a).buyers = d.buyers
           /\ Closed(d, a).sales = d.sales
           /\ Closed(d, a) = [auctions |-> Closed(d, a).auctions,
                               lots |-> Closed(d, a).lots, sellers |-> d.sellers,
                               buyers |-> d.buyers, sales |-> Closed(d, a).sales]
  <1> DEFINE half == AuctionTurned(d, a, "CLOSED")
  <1>1. half = [auctions |-> [d.auctions EXCEPT ![a] = [@ EXCEPT !.status = "CLOSED"]],
                lots |-> d.lots, sellers |-> d.sellers, buyers |-> d.buyers,
                sales |-> d.sales]
    BY DatabaseParts DEF AuctionTurned
  <1>2. Closed(d, a) = [half EXCEPT !.lots = LotsMoved(half, a, "AVAILABLE", "UNSOLD")]
    BY DEF Closed, LotsTurned
  <1> HIDE DEF half
  <1>3. LotsMoved(half, a, "AVAILABLE", "UNSOLD") = LotsMoved(d, a, "AVAILABLE", "UNSOLD")
    BY <1>1 DEF LotsMoved
  <1>4. QED BY <1>1, <1>2, <1>3

(* create_sale, its first statement and both.                              *)
LEMMA SaleAddedRows ==
    ASSUME NEW d \in Database, NEW l, NEW b, NEW price
    PROVE  SaleAdded(d, l, b, price) =
              [auctions |-> d.auctions, lots |-> d.lots, sellers |-> d.sellers,
               buyers |-> d.buyers, sales |-> d.sales \cup {NewSale(d, l, b, price)}]
  <1> DEFINE more == d.sales \cup {NewSale(d, l, b, price)}
  <1>1. SaleAdded(d, l, b, price) = [d EXCEPT !.sales = more]
    BY DEF SaleAdded
  <1> HIDE DEF more
  <1>2. [d EXCEPT !.sales = more] =
           [auctions |-> d.auctions, lots |-> d.lots, sellers |-> d.sellers,
            buyers |-> d.buyers, sales |-> more]
    BY DEF Database
  <1>3. QED BY <1>1, <1>2 DEF more

(* Only the status of the lot comes with the second.                       *)
LEMMA SoldRows ==
    ASSUME NEW d \in Database, NEW l, NEW b, NEW price
    PROVE  Sold(d, l, b, price) =
              [auctions |-> d.auctions,
               lots |-> [d.lots EXCEPT ![l] = [@ EXCEPT !.status = "SOLD"]],
               sellers |-> d.sellers, buyers |-> d.buyers,
               sales |-> d.sales \cup {NewSale(d, l, b, price)}]
  <1> DEFINE more == d.sales \cup {NewSale(d, l, b, price)}
             half == [auctions |-> d.auctions, lots |-> d.lots, sellers |-> d.sellers,
                      buyers |-> d.buyers, sales |-> more]
  <1>1. SaleAdded(d, l, b, price) = half
    BY SaleAddedRows
  <1> HIDE DEF more
  <1>2. [half EXCEPT !.lots[l].status = "SOLD"] =
           [auctions |-> d.auctions,
            lots |-> [d.lots EXCEPT ![l] = [@ EXCEPT !.status = "SOLD"]],
            sellers |-> d.sellers, buyers |-> d.buyers, sales |-> more]
    OBVIOUS
  <1> HIDE DEF half
  <1>3. Sold(d, l, b, price) = [half EXCEPT !.lots[l].status = "SOLD"]
    BY <1>1 DEF Sold, LotMarked
  <1>4. QED BY <1>2, <1>3 DEF more

(* open_auction.                                                           *)
LEMMA OpenEffect ==
    ASSUME NEW d, Consistent(d), NEW a \in Auctions, CanOpen(d, a)
    PROVE  Consistent(Opened(d, a))
  <1> DEFINE e == Opened(d, a)
             moved == LotsMoved(d, a, "DRAFT", "AVAILABLE")
  <1>1. d \in Database /\ LedgerAgrees(d) /\ PhaseAgrees(d)
    BY DEF Consistent
  <1>2. d.auctions[a].status = "DRAFT" /\ LotsOf(d, a) # {}
    BY DEF CanOpen, AuctionEditable
  <1>3. /\ moved \in [Lots -> LotRow]
        /\ \A l \in Lots :
              /\ moved[l].auction = d.lots[l].auction /\ moved[l].seller = d.lots[l].seller
              /\ moved[l].starting_price = d.lots[l].starting_price
              /\ moved[l].status = IF d.lots[l].auction = a /\ d.lots[l].status = "DRAFT"
                                   THEN "AVAILABLE" ELSE d.lots[l].status
    BY <1>1, LotsMovedRows DEF LotStatus
  <1>4. /\ e.lots = moved /\ e.sales = d.sales /\ e.sellers = d.sellers
        /\ e.auctions = [d.auctions EXCEPT ![a] = [d.auctions[a] EXCEPT !.status = "OPEN"]]
        /\ e \in Database
    <2>1. [d.auctions[a] EXCEPT !.status = "OPEN"] \in AuctionRow
      <3>1. d.auctions[a] \in AuctionRow
        BY <1>1, DatabaseParts
      <3>2. QED BY <3>1 DEF AuctionRow, AuctionStatus
    <2>2. QED BY <1>1, <1>3, <2>1, DatabaseParts, OpenedRows DEF Database
  <1> HIDE DEF e, moved
  <1>5. /\ \A b \in Auctions : b # a => e.auctions[b] = d.auctions[b]
        /\ e.auctions[a].status = "OPEN"
        /\ e.auctions[a].commission_bps = d.auctions[a].commission_bps
    BY <1>1, <1>4, DatabaseParts DEF AuctionRow
  <1>6. ASSUME NEW l \in Lots, d.lots[l].auction = a
        PROVE  d.lots[l].status = "DRAFT" /\ e.lots[l].status = "AVAILABLE"
    <2>1. d.lots[l].status \in LotStatus
      BY <1>1, DatabaseParts DEF LotRow
    <2>2. a # NoAuction
      BY NoRowAssumption
    <2>3. d.lots[l].status = "DRAFT"
      BY <1>1, <1>2, <1>6, <2>1, <2>2 DEF PhaseAgrees, LotStatus
    <2>4. QED BY <1>3, <1>4, <1>6, <2>3
  <1>7. \A l \in Lots : d.lots[l].auction # a => e.lots[l].status = d.lots[l].status
    BY <1>3, <1>4
  <1>8. LedgerAgrees(e)
    <2>1. \A l \in Lots : e.lots[l].status = "SOLD" <=> d.lots[l].status = "SOLD"
      BY <1>6, <1>7
    <2>2. \A s \in d.sales : s.lot \in Lots
      BY <1>1, DatabaseParts DEF SaleRow
    <2>3. \A b \in Auctions : e.auctions[b].commission_bps = d.auctions[b].commission_bps
      BY <1>5
    <2>4. QED BY <1>1, <1>3, <1>4, <2>1, <2>2, <2>3 DEF LedgerAgrees, SoldLots
  <1>9. PhaseAgrees(e)
    <2>1. ASSUME NEW l \in Lots, d.lots[l].auction # a
          PROVE  /\ e.lots[l].auction = d.lots[l].auction
                 /\ e.lots[l].status = d.lots[l].status
                 /\ e.lots[l].status # "ABSENT" =>
                       e.auctions[e.lots[l].auction] = d.auctions[d.lots[l].auction]
      <3>1. d.lots[l].status # "ABSENT" => d.lots[l].auction \in Auctions
        BY <1>1, DatabaseParts DEF PhaseAgrees, LotRow
      <3>2. QED BY <1>3, <1>4, <1>5, <1>7, <2>1, <3>1
    <2>2. ASSUME NEW b \in Auctions, e.auctions[b].status \in {"OPEN", "CLOSED"}
          PROVE  \E l \in LotsOf(e, b) : e.lots[l].status # "DRAFT"
      <3>1. CASE b = a
        <4>1. PICK l \in Lots : d.lots[l].auction = a
          BY <1>2 DEF LotsOf
        <4>2. e.lots[l].auction = a /\ e.lots[l].status = "AVAILABLE"
          BY <1>3, <1>4, <1>6, <4>1
        <4>3. QED BY <3>1, <4>2 DEF LotsOf
      <3>2. CASE b # a
        <4>1. PICK l \in Lots : d.lots[l].auction = b /\ d.lots[l].status # "DRAFT"
          BY <1>1, <1>5, <2>2, <3>2 DEF PhaseAgrees, LotsOf
        <4>2. QED BY <2>1, <3>2, <4>1 DEF LotsOf
      <3>3. QED BY <3>1, <3>2
    <2>3. ASSUME NEW l \in Lots
          PROVE  LET lot == e.lots[l]
                     phase == e.auctions[lot.auction].status IN
                 /\ lot.status = "ABSENT" <=> lot.auction = NoAuction
                 /\ lot.status # "ABSENT" => /\ phase # "ABSENT"
                                             /\ lot.seller \in Sellers
                                             /\ e.sellers[lot.seller] # "none"
                 /\ lot.status = "AVAILABLE" => phase = "OPEN"
                 /\ lot.status = "UNSOLD" => phase = "CLOSED"
                 /\ lot.status = "SOLD" => phase \in {"OPEN", "CLOSED"}
      <3>1. e.lots[l].seller = d.lots[l].seller /\ e.lots[l].auction = d.lots[l].auction
        BY <1>3, <1>4
      <3>2. CASE d.lots[l].auction = a
        BY <1>1, <1>4, <1>5, <1>6, <3>1, <3>2, NoRowAssumption DEF PhaseAgrees
      <3>3. CASE d.lots[l].auction # a
        BY <1>1, <1>4, <2>1, <3>1, <3>3 DEF PhaseAgrees
      <3>4. QED BY <3>2, <3>3
    <2>4. QED BY <2>2, <2>3 DEF PhaseAgrees
  <1>10. QED BY <1>4, <1>8, <1>9 DEF Consistent, e

(* close_auction.                                                          *)
LEMMA CloseEffect ==
    ASSUME NEW d, Consistent(d), NEW a \in Auctions, CanClose(d, a)
    PROVE  Consistent(Closed(d, a))
  <1> DEFINE e == Closed(d, a)
             moved == LotsMoved(d, a, "AVAILABLE", "UNSOLD")
  <1>1. d \in Database /\ LedgerAgrees(d) /\ PhaseAgrees(d)
    BY DEF Consistent
  <1>2. d.auctions[a].status = "OPEN"
    BY DEF CanClose
  <1>3. /\ moved \in [Lots -> LotRow]
        /\ \A l \in Lots :
              /\ moved[l].auction = d.lots[l].auction /\ moved[l].seller = d.lots[l].seller
              /\ moved[l].starting_price = d.lots[l].starting_price
              /\ moved[l].status = IF d.lots[l].auction = a /\ d.lots[l].status = "AVAILABLE"
                                   THEN "UNSOLD" ELSE d.lots[l].status
    BY <1>1, LotsMovedRows DEF LotStatus
  <1>4. /\ e.lots = moved /\ e.sales = d.sales /\ e.sellers = d.sellers
        /\ e.auctions = [d.auctions EXCEPT ![a] = [d.auctions[a] EXCEPT !.status = "CLOSED"]]
        /\ e \in Database
    <2>1. [d.auctions[a] EXCEPT !.status = "CLOSED"] \in AuctionRow
      <3>1. d.auctions[a] \in AuctionRow
        BY <1>1, DatabaseParts
      <3>2. QED BY <3>1 DEF AuctionRow, AuctionStatus
    <2>2. QED BY <1>1, <1>3, <2>1, DatabaseParts, ClosedRows DEF Database
  <1> HIDE DEF e, moved
  <1>5. /\ \A b \in Auctions : b # a => e.auctions[b] = d.auctions[b]
        /\ e.auctions[a].status = "CLOSED"
        /\ e.auctions[a].commission_bps = d.auctions[a].commission_bps
    BY <1>1, <1>4, DatabaseParts DEF AuctionRow
  <1>6. ASSUME NEW l \in Lots, d.lots[l].auction = a
        PROVE  /\ d.lots[l].status \in {"DRAFT", "AVAILABLE", "SOLD"}
               /\ e.lots[l].status \in {"DRAFT", "UNSOLD", "SOLD"}
               /\ e.lots[l].status = "DRAFT" <=> d.lots[l].status = "DRAFT"
               /\ e.lots[l].status = "SOLD" <=> d.lots[l].status = "SOLD"
    <2>1. d.lots[l].status \in LotStatus
      BY <1>1, DatabaseParts DEF LotRow
    <2>2. a # NoAuction
      BY NoRowAssumption
    <2>3. d.lots[l].status \in {"DRAFT", "AVAILABLE", "SOLD"}
      BY <1>1, <1>2, <1>6, <2>1, <2>2 DEF PhaseAgrees, LotStatus
    <2>4. QED BY <1>3, <1>4, <1>6, <2>3
  <1>7. \A l \in Lots : d.lots[l].auction # a => e.lots[l].status = d.lots[l].status
    BY <1>3, <1>4
  <1>8. LedgerAgrees(e)
    <2>1. \A l \in Lots : e.lots[l].status = "SOLD" <=> d.lots[l].status = "SOLD"
      BY <1>6, <1>7
    <2>2. \A s \in d.sales : s.lot \in Lots
      BY <1>1, DatabaseParts DEF SaleRow
    <2>3. \A b \in Auctions : e.auctions[b].commission_bps = d.auctions[b].commission_bps
      BY <1>5
    <2>4. QED BY <1>1, <1>3, <1>4, <2>1, <2>2, <2>3 DEF LedgerAgrees, SoldLots
  <1>9. PhaseAgrees(e)
    <2>1. ASSUME NEW l \in Lots, d.lots[l].auction # a
          PROVE  /\ e.lots[l].auction = d.lots[l].auction
                 /\ e.lots[l].status = d.lots[l].status
                 /\ e.lots[l].status # "ABSENT" =>
                       e.auctions[e.lots[l].auction] = d.auctions[d.lots[l].auction]
      <3>1. d.lots[l].status # "ABSENT" => d.lots[l].auction \in Auctions
        BY <1>1, DatabaseParts DEF PhaseAgrees, LotRow
      <3>2. QED BY <1>3, <1>4, <1>5, <1>7, <2>1, <3>1
    <2>2. ASSUME NEW b \in Auctions, e.auctions[b].status \in {"OPEN", "CLOSED"}
          PROVE  \E l \in LotsOf(e, b) : e.lots[l].status # "DRAFT"
      <3>1. CASE b = a
        <4>1. PICK l \in Lots : d.lots[l].auction = a /\ d.lots[l].status # "DRAFT"
          BY <1>1, <1>2 DEF PhaseAgrees, LotsOf
        <4>2. e.lots[l].auction = a /\ e.lots[l].status # "DRAFT"
          BY <1>3, <1>4, <1>6, <4>1
        <4>3. QED BY <3>1, <4>2 DEF LotsOf
      <3>2. CASE b # a
        <4>1. PICK l \in Lots : d.lots[l].auction = b /\ d.lots[l].status # "DRAFT"
          BY <1>1, <1>5, <2>2, <3>2 DEF PhaseAgrees, LotsOf
        <4>2. QED BY <2>1, <3>2, <4>1 DEF LotsOf
      <3>3. QED BY <3>1, <3>2
    <2>3. ASSUME NEW l \in Lots
          PROVE  LET lot == e.lots[l]
                     phase == e.auctions[lot.auction].status IN
                 /\ lot.status = "ABSENT" <=> lot.auction = NoAuction
                 /\ lot.status # "ABSENT" => /\ phase # "ABSENT"
                                             /\ lot.seller \in Sellers
                                             /\ e.sellers[lot.seller] # "none"
                 /\ lot.status = "AVAILABLE" => phase = "OPEN"
                 /\ lot.status = "UNSOLD" => phase = "CLOSED"
                 /\ lot.status = "SOLD" => phase \in {"OPEN", "CLOSED"}
      <3>1. e.lots[l].seller = d.lots[l].seller /\ e.lots[l].auction = d.lots[l].auction
        BY <1>3, <1>4
      <3>2. CASE d.lots[l].auction = a
        BY <1>1, <1>4, <1>5, <1>6, <3>1, <3>2, NoRowAssumption DEF PhaseAgrees
      <3>3. CASE d.lots[l].auction # a
        BY <1>1, <1>4, <2>1, <3>1, <3>3 DEF PhaseAgrees
      <3>4. QED BY <3>2, <3>3
    <2>4. QED BY <2>2, <2>3 DEF PhaseAgrees
  <1>10. QED BY <1>4, <1>8, <1>9 DEF Consistent, e

(* create_sale.                                                            *)
LEMMA SaleEffect ==
    ASSUME NEW d, Consistent(d), NEW l \in Lots, NEW b \in Buyers,
           NEW price \in Prices, CanSell(d, l, b, price)
    PROVE  Consistent(Sold(d, l, b, price))
  <1> DEFINE e == Sold(d, l, b, price)
             a == d.lots[l].auction
             new == NewSale(d, l, b, price)
  <1>1. d \in Database /\ LedgerAgrees(d) /\ PhaseAgrees(d)
    BY DEF Consistent
  <1>2. /\ d.lots[l].status = "AVAILABLE" /\ d.auctions[a].status = "OPEN"
        /\ price >= d.lots[l].starting_price
    BY DEF CanSell
  <1>3. l \notin SoldLots(d) /\ a \in Auctions /\ a # NoAuction
    BY <1>1, <1>2, DatabaseParts, NoRowAssumption DEF LedgerAgrees, PhaseAgrees, LotRow
  <1>4. /\ new \in SaleRow
        /\ new.lot = l /\ new.price = price /\ price > 0
        /\ new.commission = commission_kopecks(price, d.auctions[a].commission_bps)
    <2>1. ValidPrice(price)
      BY PricesAssumption DEF ValidPrice
    <2>2. d.auctions[a] \in AuctionRow
      BY <1>1, <1>3, DatabaseParts
    <2>3. ValidRate(d.auctions[a].commission_bps)
      BY <2>2 DEF ValidRate, AuctionRow
    <2>4. commission_kopecks(price, d.auctions[a].commission_bps) \in Nat
      BY <2>1, <2>3, FeeWithinPrice DEF ValidPrice
    <2>5. QED BY <2>1, <2>4 DEF NewSale, SaleRow, ValidPrice
  <1>5. /\ e.auctions = d.auctions /\ e.sellers = d.sellers
        /\ e.lots = [d.lots EXCEPT ![l] = [d.lots[l] EXCEPT !.status = "SOLD"]]
        /\ e.sales = d.sales \cup {new}
        /\ e \in Database
    <2>1. [d.lots[l] EXCEPT !.status = "SOLD"] \in LotRow
      <3>1. d.lots[l] \in LotRow
        BY <1>1, DatabaseParts
      <3>2. QED BY <3>1 DEF LotRow, LotStatus
    <2>2. QED BY <1>1, <1>4, <2>1, DatabaseParts, SoldRows DEF Database
  <1> HIDE DEF e, new
  <1>6. /\ \A k \in Lots : k # l => e.lots[k] = d.lots[k]
        /\ e.lots[l].status = "SOLD" /\ e.lots[l].auction = a
        /\ e.lots[l].seller = d.lots[l].seller
        /\ e.lots[l].starting_price = d.lots[l].starting_price
    BY <1>1, <1>5, DatabaseParts DEF LotRow
  <1>7. SoldLots(e) = SoldLots(d) \cup {l}
    BY <1>4, <1>5 DEF SoldLots
  <1>8. LedgerAgrees(e)
    <2>1. \A k \in Lots : e.lots[k].status = "SOLD" <=> k \in SoldLots(e)
      BY <1>1, <1>6, <1>7 DEF LedgerAgrees
    <2>2. \A s \in d.sales : s.lot # l /\ s.lot \in Lots
      BY <1>1, <1>3, DatabaseParts DEF SoldLots, SaleRow
    <2>3. \A s, t \in e.sales : s.lot = t.lot => s = t
      BY <1>1, <1>4, <1>5, <2>2 DEF LedgerAgrees
    <2>4. ASSUME NEW s \in e.sales
          PROVE  LET lot == e.lots[s.lot] IN
                 /\ s.price > 0 /\ s.price >= lot.starting_price
                 /\ lot.auction \in Auctions
                 /\ s.commission =
                      commission_kopecks(s.price, e.auctions[lot.auction].commission_bps)
      <3>1. CASE s = new
        BY <1>2, <1>3, <1>4, <1>5, <1>6, <3>1
      <3>2. CASE s \in d.sales
        BY <1>1, <1>5, <1>6, <2>2, <3>2 DEF LedgerAgrees
      <3>3. QED BY <1>5, <3>1, <3>2
    <2>5. QED BY <2>1, <2>3, <2>4 DEF LedgerAgrees
  <1>9. PhaseAgrees(e)
    <2>1. ASSUME NEW c \in Auctions, e.auctions[c].status \in {"OPEN", "CLOSED"}
          PROVE  \E k \in LotsOf(e, c) : e.lots[k].status # "DRAFT"
      <3>1. PICK k \in Lots : d.lots[k].auction = c /\ d.lots[k].status # "DRAFT"
        BY <1>1, <1>5, <2>1 DEF PhaseAgrees, LotsOf
      <3>2. e.lots[k].auction = c /\ e.lots[k].status # "DRAFT"
        BY <1>6, <3>1
      <3>3. QED BY <3>2 DEF LotsOf
    <2>2. QED BY <1>1, <1>2, <1>3, <1>5, <1>6, <2>1 DEF PhaseAgrees
  <1>10. QED BY <1>5, <1>8, <1>9 DEF Consistent, e
-----------------------------------------------------------------------------
(* The books of auction a, and that e has the books d has.                 *)
SameBooks(d, e, a) ==
    /\ e.auctions[a] = d.auctions[a]
    /\ revenue_report(e, a) = revenue_report(d, a)
    /\ \A l \in LotsOf(d, a) : e.lots[l] = d.lots[l]

(* A report is a function of the sales it counts, and those stay when no   *)
(* lot with a sale moves and the new sales are other auctions'.            *)
LEMMA SameSalesSameBooks ==
    ASSUME NEW d, NEW e, Consistent(d), NEW a \in Auctions,
           e.auctions[a] = d.auctions[a],
           \A l \in LotsOf(d, a) : e.lots[l] = d.lots[l],
           \A l \in Lots : d.lots[l].status # "ABSENT" =>
              e.lots[l].auction = d.lots[l].auction,
           d.sales \subseteq e.sales,
           \A s \in e.sales \ d.sales : s.lot \in Lots /\ e.lots[s.lot].auction # a
    PROVE  SameBooks(d, e, a)
  <1>1. d \in Database /\ LedgerAgrees(d) /\ PhaseAgrees(d)
    BY DEF Consistent
  <1>2. \A s \in d.sales : s.lot \in Lots /\ d.lots[s.lot].status # "ABSENT"
    <2>1. \A s \in d.sales : s.lot \in Lots /\ d.lots[s.lot].auction \in Auctions
      BY <1>1, DatabaseParts DEF SaleRow, LedgerAgrees
    <2>2. QED BY <1>1, <2>1, NoRowAssumption DEF PhaseAgrees
  <1>3. \A s \in d.sales : e.lots[s.lot].auction = d.lots[s.lot].auction
    BY <1>2
  <1>4. a # NoAuction
    BY NoRowAssumption
  <1>5. ReportedSales(e, a) = ReportedSales(d, a)
    BY <1>3, <1>4 DEF ReportedSales
  <1>6. QED BY <1>5 DEF SameBooks, revenue_report

(* Each effect leaves the books of a CLOSED auction as they are.           *)
LEMMA OpenKeepsClosed ==
    ASSUME NEW d, Consistent(d), NEW b \in Auctions, CanOpen(d, b),
           NEW a \in Auctions, d.auctions[a].status = "CLOSED"
    PROVE  SameBooks(d, Opened(d, b), a)
  <1> DEFINE e == Opened(d, b)
  <1>1. d \in Database /\ a # b
    BY DEF Consistent, CanOpen, AuctionEditable
  <1>2. e.auctions[a] = d.auctions[a] /\ e.sales = d.sales
    BY <1>1, DatabaseParts, OpenedRows
  <1>3. e.lots = LotsMoved(d, b, "DRAFT", "AVAILABLE")
    BY <1>1, DatabaseParts, OpenedRows
  <1>4. \A l \in LotsOf(d, a) : e.lots[l] = d.lots[l]
    BY <1>1, <1>3 DEF LotsOf, LotsMoved
  <1>5. \A l \in Lots : e.lots[l].auction = d.lots[l].auction
    BY <1>1, <1>3, LotsMovedRows DEF LotStatus
  <1>6. QED BY <1>2, <1>4, <1>5, SameSalesSameBooks

(* Closing one auction leaves the books of the closed ones alone.          *)
LEMMA CloseKeepsClosed ==
    ASSUME NEW d, Consistent(d), NEW b \in Auctions, CanClose(d, b),
           NEW a \in Auctions, d.auctions[a].status = "CLOSED"
    PROVE  SameBooks(d, Closed(d, b), a)
  <1> DEFINE e == Closed(d, b)
  <1>1. d \in Database /\ a # b
    BY DEF Consistent, CanClose
  <1>2. e.auctions[a] = d.auctions[a] /\ e.sales = d.sales
    BY <1>1, DatabaseParts, ClosedRows
  <1>3. e.lots = LotsMoved(d, b, "AVAILABLE", "UNSOLD")
    BY <1>1, DatabaseParts, ClosedRows
  <1>4. \A l \in LotsOf(d, a) : e.lots[l] = d.lots[l]
    BY <1>1, <1>3 DEF LotsOf, LotsMoved
  <1>5. \A l \in Lots : e.lots[l].auction = d.lots[l].auction
    BY <1>1, <1>3, LotsMovedRows DEF LotStatus
  <1>6. QED BY <1>2, <1>4, <1>5, SameSalesSameBooks

(* A sale belongs to an open auction: no closed one is touched.            *)
LEMMA SaleKeepsClosed ==
    ASSUME NEW d, Consistent(d), NEW k \in Lots, NEW b \in Buyers,
           NEW price \in Prices, CanSell(d, k, b, price),
           NEW a \in Auctions, d.auctions[a].status = "CLOSED"
    PROVE  SameBooks(d, Sold(d, k, b, price), a)
  <1> DEFINE e == Sold(d, k, b, price)
  <1>1. d \in Database /\ d.lots[k] \in LotRow /\ d.lots[k].auction # a
    BY DatabaseParts DEF Consistent, CanSell
  <1>2. /\ e.auctions = d.auctions
        /\ e.sales = d.sales \cup {NewSale(d, k, b, price)}
        /\ e.lots = [d.lots EXCEPT ![k] = [d.lots[k] EXCEPT !.status = "SOLD"]]
    BY <1>1, DatabaseParts, SoldRows
  <1>3. \A l \in Lots : l # k => e.lots[l] = d.lots[l]
    BY <1>1, <1>2, DatabaseParts
  <1>4. e.lots[k].auction = d.lots[k].auction
    BY <1>1, <1>2, DatabaseParts DEF LotRow
  <1>5. NewSale(d, k, b, price).lot = k
    BY DEF NewSale
  <1>6. QED BY <1>1, <1>2, <1>3, <1>4, <1>5, SameSalesSameBooks DEF LotsOf

(* A new lot is DRAFT and was on no auction's books.                       *)
LEMMA LotKeepsClosed ==
    ASSUME NEW d, Consistent(d), NEW k \in Lots, NEW b \in Auctions, NEW s, NEW price,
           d.lots[k].status = "ABSENT", NEW a \in Auctions
    PROVE  SameBooks(d, LotAdded(d, k, b, s, price), a)
  <1> DEFINE e == LotAdded(d, k, b, s, price)
  <1>1. d \in Database /\ k \notin LotsOf(d, a)
    BY NoRowAssumption DEF Consistent, PhaseAgrees, LotsOf
  <1>2. e.auctions = d.auctions /\ e.sales = d.sales
    BY <1>1, DatabaseParts DEF LotAdded
  <1>3. \A l \in Lots : l # k => e.lots[l] = d.lots[l]
    BY <1>1, DatabaseParts DEF LotAdded
  <1>4. QED BY <1>1, <1>2, <1>3, SameSalesSameBooks DEF LotsOf

(* A new auction takes a row that was not in use.                          *)
LEMMA AuctionKeepsClosed ==
    ASSUME NEW d, Consistent(d), NEW b \in Auctions, NEW rate,
           d.auctions[b].status = "ABSENT",
           NEW a \in Auctions, d.auctions[a].status = "CLOSED"
    PROVE  SameBooks(d, AuctionAdded(d, b, rate), a)
  <1> DEFINE e == AuctionAdded(d, b, rate)
  <1>1. d \in Database /\ a # b
    BY DEF Consistent
  <1>2. e.auctions[a] = d.auctions[a] /\ e.sales = d.sales /\ e.lots = d.lots
    BY <1>1, DatabaseParts DEF AuctionAdded
  <1>3. QED BY <1>2, SameSalesSameBooks

(* Participants are on no auction's books.                                 *)
LEMMA ParticipantsKeepClosed ==
    ASSUME NEW d, Consistent(d), NEW a \in Auctions, NEW s, NEW activity
    PROVE  /\ SameBooks(d, SellerSwitched(d, s, activity), a)
           /\ SameBooks(d, BuyerSwitched(d, s, activity), a)
  <1>1. d \in Database
    BY DEF Consistent
  <1>2. ASSUME NEW e, e.auctions = d.auctions, e.lots = d.lots, e.sales = d.sales
        PROVE  SameBooks(d, e, a)
    BY <1>2, SameSalesSameBooks
  <1>3. QED BY <1>1, <1>2, DatabaseParts DEF SellerSwitched, BuyerSwitched

-----------------------------------------------------------------------------
(* The sums of a report, as sets.  A sum of money over a set of rows is a   *)
(* fold, and what a fold computes is an induction; but it counts kopecks,  *)
(* and of two finite sets of kopecks the theorems about Cardinality say    *)
(* which is the larger.  The induction left is on which subset of the rows *)
(* is the smallest the fold gets wrong: there is none.                     *)

(* A sum of money as a set: one pair for each kopeck of each row.          *)
Kopecks(rows, value) == {pair \in rows \X Nat : pair[2] \in 1..value[pair[1]]}

(* What MapThenSumSet unfolds to.                                          *)
SumsUp(g, rows, value) ==
    g = [s \in SUBSET rows |->
           IF s = {} THEN 0
           ELSE value[CHOOSE x \in s : TRUE] + g[s \ {CHOOSE x \in s : TRUE}]]

(* Among subsets of a finite set there is one that holds no other.         *)
LEMMA SmallestSubset ==
    ASSUME NEW S, IsFiniteSet(S), NEW T \in SUBSET (SUBSET S), T # {}
    PROVE  \E t \in T : \A y \in T : y \subseteq t => y = t
  <1>1. IsWellFoundedOn(StrictSubsetOrdering(S), FiniteSubsetsOf(S))
    BY FS_StrictSubsetOrderingWellFounded
  <1>2. FiniteSubsetsOf(S) = SUBSET S
    BY FS_FiniteSubsetsOfFinite
  <1>3. PICK t \in T : \A y \in T : ~ (<<y, t>> \in StrictSubsetOrdering(S))
    BY <1>1, <1>2, WFMin
  <1>4. ASSUME NEW y \in T, y \subseteq t
        PROVE  y = t
    <2>1. <<y, t>> \in (SUBSET S) \X (SUBSET S)
      OBVIOUS
    <2>2. QED
      BY <1>3, <1>4, <2>1 DEF StrictSubsetOrdering
  <1>5. QED
    BY <1>4

(* One row has as many kopecks as it is worth.                             *)
LEMMA KopecksOfRow ==
    ASSUME NEW value, NEW x, value[x] \in Nat
    PROVE  /\ IsFiniteSet(Kopecks({x}, value))
           /\ Cardinality(Kopecks({x}, value)) = value[x]
  <1> DEFINE n == value[x]
             T == Kopecks({x}, value)
             f == [k \in 1..n |-> <<x, k>>]
  <1>1. T = {<<x, k>> : k \in 1..n}
    BY DEF Kopecks
  <1>2. f \in [1..n -> T]
    BY <1>1
  <1> HIDE DEF T
  <1>3. \A i, j \in 1..n : f[i] = f[j] => i = j
    OBVIOUS
  <1>4. \A t \in T : \E k \in 1..n : f[k] = t
    BY <1>1
  <1> HIDE DEF f
  <1>5. ExistsBijection(1..n, T)
    BY <1>2, <1>3, <1>4
       DEF ExistsBijection, Bijection, Injection, Surjection, IsInjective
  <1>6. QED
    BY <1>5, FS_NatBijection, FS_CountingElements DEF T

(* A row more is its kopecks more.                                         *)
LEMMA KopecksWithRow ==
    ASSUME NEW value, NEW S, NEW x \in S, value[x] \in Nat,
           IsFiniteSet(Kopecks(S \ {x}, value))
    PROVE  /\ IsFiniteSet(Kopecks(S, value))
           /\ Cardinality(Kopecks(S, value)) =
                value[x] + Cardinality(Kopecks(S \ {x}, value))
  <1> DEFINE K == Kopecks({x}, value)
             L == Kopecks(S \ {x}, value)
  <1>1. Kopecks(S, value) = K \cup L /\ K \cap L = {}
    BY DEF Kopecks
  <1>2. IsFiniteSet(K) /\ Cardinality(K) = value[x] /\ IsFiniteSet(L)
    BY KopecksOfRow
  <1> HIDE DEF K, L
  <1>3. /\ IsFiniteSet(K \cup L)
        /\ Cardinality(K \cup L) = Cardinality(K) + Cardinality(L) - Cardinality(K \cap L)
    BY <1>2, FS_Union
  <1>4. Cardinality(L) \in Nat
    BY <1>2, FS_CardinalityType
  <1>5. Cardinality(K \cap L) = 0
    BY <1>1, FS_EmptySet
  <1>6. Cardinality(K \cup L) = value[x] + Cardinality(L)
    <2> DEFINE k == Cardinality(K)  l == Cardinality(L)  m == Cardinality(K \cap L)
               u == Cardinality(K \cup L)  n == value[x]
    <2>1. u = k + l - m /\ m = 0 /\ k = n /\ l \in Nat /\ n \in Nat
      BY <1>2, <1>3, <1>4, <1>5
    <2> HIDE DEF k, l, m, u, n
    <2>2. u = n + l
      BY <2>1
    <2>3. QED
      BY <2>2 DEF u, n, l
  <1>7. QED
    BY <1>1, <1>3, <1>6 DEF L

LEMMA KopecksFinite ==
    ASSUME NEW S, IsFiniteSet(S), NEW value \in [S -> Nat]
    PROVE  IsFiniteSet(Kopecks(S, value))
  <1> DEFINE T == {s \in SUBSET S : ~IsFiniteSet(Kopecks(s, value))}
  <1>1. SUFFICES ASSUME T # {} PROVE FALSE
    OBVIOUS
  <1>2. PICK t \in T : \A y \in T : y \subseteq t => y = t
    <2>1. T \in SUBSET (SUBSET S)
      OBVIOUS
    <2> HIDE DEF T
    <2>2. QED
      BY <1>1, <2>1, SmallestSubset
  <1>3. t # {}
    <2>1. Kopecks({}, value) = {}
      BY DEF Kopecks
    <2>2. QED
      BY <2>1, FS_EmptySet
  <1>4. PICK x \in t : TRUE
    BY <1>3
  <1>5. t \ {x} \notin T /\ t \ {x} \in SUBSET S /\ x \in S
    BY <1>2
  <1>6. QED
    BY <1>5, KopecksWithRow

(* A fold that adds up values counts kopecks, in whatever order it goes.   *)
LEMMA FoldCountsKopecks ==
    ASSUME NEW S, IsFiniteSet(S), NEW value \in [S -> Nat], NEW g, SumsUp(g, S, value)
    PROVE  g[S] = Cardinality(Kopecks(S, value))
  <1> DEFINE T == {s \in SUBSET S : g[s] # Cardinality(Kopecks(s, value))}
  <1>1. SUFFICES ASSUME T # {} PROVE FALSE
    OBVIOUS
  <1>2. PICK t \in T : \A y \in T : y \subseteq t => y = t
    <2>1. T \in SUBSET (SUBSET S)
      OBVIOUS
    <2> HIDE DEF T
    <2>2. QED
      BY <1>1, <2>1, SmallestSubset
  <1>3. t # {}
    <2>1. Kopecks({}, value) = {} /\ g[{}] = 0
      BY DEF Kopecks, SumsUp
    <2>2. QED
      BY <2>1, FS_EmptySet
  <1> DEFINE x == CHOOSE x \in t : TRUE
  <1>4. x \in t
    BY <1>3
  <1>5. g[t] = value[x] + g[t \ {x}]
    BY <1>3 DEF SumsUp
  <1> HIDE DEF x
  <1>6. /\ t \ {x} \notin T /\ t \ {x} \in SUBSET S /\ x \in S
    BY <1>2, <1>4
  <1>7. IsFiniteSet(Kopecks(t \ {x}, value))
    <2>1. IsFiniteSet(t \ {x})
      BY <1>6, FS_Subset
    <2>2. DEFINE part == [y \in t \ {x} |-> value[y]]
    <2>3. part \in [t \ {x} -> Nat] /\ Kopecks(t \ {x}, part) = Kopecks(t \ {x}, value)
      BY <1>6 DEF Kopecks
    <2>4. QED
      BY <2>1, <2>3, KopecksFinite
  <1>8. QED
    BY <1>4, <1>5, <1>6, <1>7, KopecksWithRow

(* There is such a fold.                                                   *)
LEMMA FoldExists ==
    ASSUME NEW S, IsFiniteSet(S), NEW value \in [S -> Nat]
    PROVE  \E g : SumsUp(g, S, value)
  <1> DEFINE g == [s \in SUBSET S |-> Cardinality(Kopecks(s, value))]
  <1>1. ASSUME NEW s \in SUBSET S, s # {}
        PROVE  g[s] = value[CHOOSE x \in s : TRUE] + g[s \ {CHOOSE x \in s : TRUE}]
    <2> DEFINE x == CHOOSE x \in s : TRUE
    <2>1. x \in s
      BY <1>1
    <2> HIDE DEF x
    <2>2. IsFiniteSet(s \ {x}) /\ x \in S /\ s \ {x} \in SUBSET S
      BY <2>1, FS_Subset
    <2>3. DEFINE part == [y \in s \ {x} |-> value[y]]
    <2>4. part \in [s \ {x} -> Nat] /\ Kopecks(s \ {x}, part) = Kopecks(s \ {x}, value)
      BY <2>2 DEF Kopecks
    <2>5. IsFiniteSet(Kopecks(s \ {x}, value))
      BY <2>2, <2>4, KopecksFinite
    <2>6. g[s] = value[x] + g[s \ {x}]
      BY <2>1, <2>2, <2>5, KopecksWithRow
    <2>7. QED
      BY <2>6 DEF x
  <1>2. g[{}] = 0
    <2>1. Kopecks({}, value) = {}
      BY DEF Kopecks
    <2>2. QED
      BY <2>1, FS_EmptySet
  <1>3. SumsUp(g, S, value)
    BY <1>1, <1>2 DEF SumsUp
  <1>4. QED
    BY <1>3

(* The two sums of a report count kopecks.                                 *)
LEMMA SumsCountKopecks ==
    ASSUME NEW rows \in SUBSET SaleRow, IsFiniteSet(rows)
    PROVE  /\ SumOfPrices(rows) = Cardinality(Kopecks(rows, [s \in rows |-> s.price]))
           /\ SumOfCommissions(rows) = Cardinality(Kopecks(rows, [s \in rows |-> s.commission]))
  <1> DEFINE prices == [s \in rows |-> s.price]
             fees == [s \in rows |-> s.commission]
  <1>1. prices \in [rows -> Nat] /\ fees \in [rows -> Nat]
    BY DEF SaleRow
  <1>2. \A g : SumsUp(g, rows, prices) <=>
          g = [s \in SUBSET rows |->
                 IF s = {} THEN 0
                 ELSE (CHOOSE x \in s : TRUE).price + g[s \ {CHOOSE x \in s : TRUE}]]
    <2>1. \A s \in SUBSET rows : s # {} => (CHOOSE x \in s : TRUE) \in rows
      OBVIOUS
    <2>2. QED
      BY <2>1 DEF SumsUp
  <1>3. SumOfPrices(rows) =
          LET iter == CHOOSE g : SumsUp(g, rows, prices) IN iter[rows]
    BY <1>2 DEF SumOfPrices, MapThenSumSet, MapThenFoldSet
  <1>4. \A g : SumsUp(g, rows, fees) <=>
          g = [s \in SUBSET rows |->
                 IF s = {} THEN 0
                 ELSE (CHOOSE x \in s : TRUE).commission + g[s \ {CHOOSE x \in s : TRUE}]]
    <2>1. \A s \in SUBSET rows : s # {} => (CHOOSE x \in s : TRUE) \in rows
      OBVIOUS
    <2>2. QED
      BY <2>1 DEF SumsUp
  <1>5. SumOfCommissions(rows) =
          LET iter == CHOOSE g : SumsUp(g, rows, fees) IN iter[rows]
    BY <1>4 DEF SumOfCommissions, MapThenSumSet, MapThenFoldSet
  <1>6. ASSUME NEW value \in [rows -> Nat]
        PROVE  LET iter == CHOOSE g : SumsUp(g, rows, value)
               IN  iter[rows] = Cardinality(Kopecks(rows, value))
    BY FoldExists, FoldCountsKopecks
  <1> HIDE DEF prices, fees
  <1>7. QED
    BY <1>1, <1>3, <1>5, <1>6 DEF prices, fees

(* The sales a report counts, when every one of them is still counted in   *)
(* another, are worth no more there.                                       *)
LEMMA FewerRowsFewerKopecks ==
    ASSUME NEW rows, NEW more \in SUBSET SaleRow, rows \subseteq more, IsFiniteSet(more)
    PROVE  /\ Cardinality(rows) \in Nat /\ Cardinality(rows) <= Cardinality(more)
           /\ SumOfPrices(rows) \in Nat /\ SumOfPrices(rows) <= SumOfPrices(more)
           /\ SumOfCommissions(rows) \in Nat
           /\ SumOfCommissions(rows) <= SumOfCommissions(more)
  <1> DEFINE prices(set) == [s \in set |-> s.price]
             fees(set) == [s \in set |-> s.commission]
  <1>1. IsFiniteSet(rows) /\ Cardinality(rows) <= Cardinality(more)
    BY FS_Subset
  <1>2. prices(more) \in [more -> Nat] /\ fees(more) \in [more -> Nat]
    BY DEF SaleRow
  <1>3. /\ Kopecks(rows, prices(rows)) \subseteq Kopecks(more, prices(more))
        /\ Kopecks(rows, fees(rows)) \subseteq Kopecks(more, fees(more))
    BY DEF Kopecks
  <1>4. /\ SumOfPrices(rows) = Cardinality(Kopecks(rows, prices(rows)))
        /\ SumOfCommissions(rows) = Cardinality(Kopecks(rows, fees(rows)))
        /\ SumOfPrices(more) = Cardinality(Kopecks(more, prices(more)))
        /\ SumOfCommissions(more) = Cardinality(Kopecks(more, fees(more)))
    BY <1>1, SumsCountKopecks
  <1> HIDE DEF prices, fees
  <1>5. /\ IsFiniteSet(Kopecks(more, prices(more)))
        /\ IsFiniteSet(Kopecks(more, fees(more)))
    BY <1>2, KopecksFinite
  <1>6. QED
    BY <1>1, <1>3, <1>4, <1>5, FS_Subset, FS_CardinalityType

-----------------------------------------------------------------------------
(* 3. AuctionService.                                                      *)

(* Which operation a request at each label carries, and what a create_lot  *)
(* that has looked at its auction and its seller knows for good.           *)
Fits(r) ==
    /\ at[r] # "idle" => op[r] \in Operations
    /\ at[r] \in {"begin", "check", "first"} => op[r].kind \in {"open", "close", "sale"}
    /\ at[r] \in {"auction", "seller"} => op[r].kind = "lot"
    /\ at[r] = "report" => op[r].kind = "report"
    /\ at[r] \in {"write", "answer", "commit"} => op[r].kind # "report"
    /\ at[r] = "seller" => db.auctions[op[r].auction].status # "ABSENT"
    /\ at[r] = "write" /\ op[r].kind = "lot" =>
          /\ db.auctions[op[r].auction].status # "ABSENT"
          /\ db.sellers[op[r].seller] # "none"

IInv == /\ TypeOK /\ WriterIsolated
        /\ \A r \in Requests : Fits(r)
        /\ Consistent(db)

-----------------------------------------------------------------------------
(* What an operation of each kind carries.                                 *)
LEMMA OperationParts ==
    ASSUME NEW o \in Operations
    PROVE  /\ o.kind \in {"open", "close", "sale", "lot", "auction", "seller", "buyer", "report"}
           /\ o.kind \in {"open", "close"} => o.auction \in Auctions
           /\ o.kind = "sale" => o.lot \in Lots /\ o.buyer \in Buyers /\ o.price \in Prices
           /\ o.kind = "lot" => /\ o.auction \in Auctions /\ o.seller \in Sellers
                                /\ o.price \in Prices
           /\ o.kind = "auction" => o.rate \in Rates
           /\ o.kind = "seller" => o.email \in Sellers
           /\ o.kind = "buyer" => o.email \in Buyers
           /\ o.kind = "report" => o.scope \in Scopes
  BY DEF Operations, Scopes

(* The image has the auction and its lots turned, the rest as committed.   *)
SameLot(l) == /\ image.lots[l].auction = db.lots[l].auction
              /\ image.lots[l].seller = db.lots[l].seller
              /\ image.lots[l].starting_price = db.lots[l].starting_price

Turned(b, status, from, to) ==
    /\ \A a \in Auctions :
          /\ image.auctions[a].status = IF a = b THEN status ELSE db.auctions[a].status
          /\ image.auctions[a].commission_bps = db.auctions[a].commission_bps
    /\ \A l \in Lots :
          /\ SameLot(l)
          /\ image.lots[l].status = IF db.lots[l].auction = b /\ db.lots[l].status = from
                                    THEN to ELSE db.lots[l].status

(* The rows of an image that has both statements of a handler in it.       *)
LEMMA ImageRows ==
    ASSUME NEW r \in Requests, db \in Database, op[r] \in Operations
    PROVE  /\ op[r].kind = "open" /\ image = Opened(db, op[r].auction) =>
                 /\ Turned(op[r].auction, "OPEN", "DRAFT", "AVAILABLE")
                 /\ image.sellers = db.sellers /\ image.sales = db.sales
           /\ op[r].kind = "close" /\ image = Closed(db, op[r].auction) =>
                 /\ Turned(op[r].auction, "CLOSED", "AVAILABLE", "UNSOLD")
                 /\ image.sellers = db.sellers /\ image.sales = db.sales
           /\ op[r].kind = "sale" /\ image = Sold(db, op[r].lot, op[r].buyer, op[r].price) =>
                 /\ image.auctions = db.auctions /\ image.sellers = db.sellers
                 /\ \A l \in Lots :
                       /\ SameLot(l)
                       /\ image.lots[l].status =
                             IF l = op[r].lot THEN "SOLD" ELSE db.lots[l].status
                 /\ image.sales =
                       db.sales \cup {NewSale(db, op[r].lot, op[r].buyer, op[r].price)}
  <1> DEFINE o == op[r]
  <1> USE DEF Turned, SameLot
  <1>1. CASE o.kind = "open" /\ image = Opened(db, o.auction)
    <2>1. o.auction \in Auctions
      BY <1>1, OperationParts
    <2>2. /\ image.auctions = [db.auctions EXCEPT ![o.auction] = [@ EXCEPT !.status = "OPEN"]]
          /\ image.lots = LotsMoved(db, o.auction, "DRAFT", "AVAILABLE")
          /\ image.sellers = db.sellers /\ image.sales = db.sales
      BY <1>1, <2>1, OpenedRows
    <2>3. Turned(o.auction, "OPEN", "DRAFT", "AVAILABLE")
      BY <2>1, <2>2, LotsMovedRows, DatabaseParts DEF AuctionRow, LotStatus
    <2>4. QED BY <1>1, <2>2, <2>3
  <1>2. CASE o.kind = "close" /\ image = Closed(db, o.auction)
    <2>1. o.auction \in Auctions
      BY <1>2, OperationParts
    <2>2. /\ image.auctions = [db.auctions EXCEPT ![o.auction] = [@ EXCEPT !.status = "CLOSED"]]
          /\ image.lots = LotsMoved(db, o.auction, "AVAILABLE", "UNSOLD")
          /\ image.sellers = db.sellers /\ image.sales = db.sales
      BY <1>2, <2>1, ClosedRows
    <2>3. Turned(o.auction, "CLOSED", "AVAILABLE", "UNSOLD")
      BY <2>1, <2>2, LotsMovedRows, DatabaseParts DEF AuctionRow, LotStatus
    <2>4. QED BY <1>2, <2>2, <2>3
  <1>3. CASE o.kind = "sale" /\ image = Sold(db, o.lot, o.buyer, o.price)
    <2>1. o.lot \in Lots
      BY <1>3, OperationParts
    <2>2. /\ image.auctions = db.auctions /\ image.sellers = db.sellers
          /\ image.lots = [db.lots EXCEPT ![o.lot] = [@ EXCEPT !.status = "SOLD"]]
          /\ image.sales = db.sales \cup {NewSale(db, o.lot, o.buyer, o.price)}
      BY <1>3, <2>1, SoldRows
    <2>3. \A l \in Lots : /\ SameLot(l)
                          /\ image.lots[l].status =
                                IF l = o.lot THEN "SOLD" ELSE db.lots[l].status
      BY <2>1, <2>2, DatabaseParts DEF LotRow
    <2>4. QED BY <1>3, <2>2, <2>3
  <1>4. QED BY <1>1, <1>2, <1>3

(* One operation done to a consistent database leaves a consistent one.    *)
LEMMA OneOperationKeeps ==
    ASSUME NEW r \in Requests, Consistent(db), op[r] \in Operations, OneOperation(r)
    PROVE  Consistent(image)
  <1> DEFINE o == op[r]
  <1>1. CASE o.kind = "open" /\ CanOpen(db, o.auction) /\ image = Opened(db, o.auction)
    BY <1>1, OperationParts, OpenEffect
  <1>2. CASE o.kind = "close" /\ CanClose(db, o.auction) /\ image = Closed(db, o.auction)
    BY <1>2, OperationParts, CloseEffect
  <1>3. CASE /\ o.kind = "sale" /\ CanSell(db, o.lot, o.buyer, o.price)
             /\ image = Sold(db, o.lot, o.buyer, o.price)
    BY <1>3, OperationParts, SaleEffect
  <1>4. CASE /\ o.kind = "lot" /\ db.auctions[o.auction].status # "ABSENT"
             /\ db.sellers[o.seller] # "none"
             /\ \E l \in Lots : /\ db.lots[l].status = "ABSENT"
                                /\ image = LotAdded(db, l, o.auction, o.seller, o.price)
    BY <1>4, OperationParts, LotEffect
  <1>5. CASE /\ o.kind = "auction"
             /\ \E a \in Auctions : /\ db.auctions[a].status = "ABSENT"
                                    /\ image = AuctionAdded(db, a, o.rate)
    BY <1>5, OperationParts, AuctionEffect
  <1>6. CASE o.kind = "seller" /\ image = SellerAdded(db, o.email)
    <2>1. image = SellerSwitched(db, o.email, "active")
      BY <1>6 DEF SellerAdded, SellerSwitched
    <2>2. QED BY <1>6, <2>1, OperationParts, SellerEffect
  <1>7. CASE o.kind = "buyer" /\ image = BuyerAdded(db, o.email)
    <2>1. image = BuyerSwitched(db, o.email, "active")
      BY <1>7 DEF BuyerAdded, BuyerSwitched
    <2>2. QED BY <1>7, <2>1, OperationParts, BuyerEffect
  <1>8. QED BY <1>1, <1>2, <1>3, <1>4, <1>5, <1>6, <1>7 DEF OneOperation

(* No row that exists ever disappears.                                     *)
RowsStay(d, e) ==
    /\ \A a \in Auctions : d.auctions[a].status # "ABSENT" => e.auctions[a].status # "ABSENT"
    /\ \A s \in Sellers : d.sellers[s] # "none" => e.sellers[s] # "none"

(* An operation removes no auction and no seller.                          *)
LEMMA OneOperationAdds ==
    ASSUME NEW r \in Requests, db \in Database, op[r] \in Operations, OneOperation(r)
    PROVE  RowsStay(db, image)
  <1> DEFINE o == op[r]
  <1> USE DatabaseParts, OperationParts DEF RowsStay
  <1>0. \A a \in Auctions : db.auctions[a] \in AuctionRow
    OBVIOUS
  <1>1. CASE o.kind = "open" /\ image = Opened(db, o.auction)
    BY <1>0, <1>1, ImageRows DEF AuctionRow, Turned, SameLot
  <1>2. CASE o.kind = "close" /\ image = Closed(db, o.auction)
    BY <1>0, <1>2, ImageRows DEF AuctionRow, Turned, SameLot
  <1>3. CASE o.kind = "sale" /\ image = Sold(db, o.lot, o.buyer, o.price)
    BY <1>3, ImageRows DEF Turned, SameLot
  <1>4. CASE \E l \in Lots : image = LotAdded(db, l, o.auction, o.seller, o.price)
    BY <1>4 DEF LotAdded
  <1>5. CASE \E a \in Auctions : image = AuctionAdded(db, a, o.rate)
    BY <1>5 DEF AuctionAdded
  <1>6. CASE o.kind = "seller" /\ image = SellerAdded(db, o.email)
    BY <1>6 DEF SellerAdded
  <1>7. CASE o.kind = "buyer" /\ image = BuyerAdded(db, o.email)
    BY <1>7 DEF BuyerAdded
  <1>8. QED BY <1>1, <1>2, <1>3, <1>4, <1>5, <1>6, <1>7 DEF OneOperation

-----------------------------------------------------------------------------
(* A request that takes no part in a step keeps what it has: either nobody *)
(* touches the lock, or another request and nobody hold it before and      *)
(* after.                                                                  *)
LEMMA Bystander ==
    ASSUME TypeOK, TypeOK', NEW r, NEW q \in Requests, q # r, Isolated(q), Fits(q),
           at'[q] = at[q], op'[q] = op[q], RowsStay(db, db'),
           \/ UNCHANGED <<db, image, writer>>
           \/ writer \in {NoOne, r} /\ writer' \in {NoOne, r}
    PROVE  Isolated(q)' /\ Fits(q)'
  <1>1. Fits(q)'
    BY OperationParts DEF Fits, RowsStay
  <1>2. CASE UNCHANGED <<db, image, writer>>
    BY <1>1, <1>2 DEF Isolated, OneOperation
  <1>3. CASE writer \in {NoOne, r} /\ writer' \in {NoOne, r}
    <2>1. writer # q /\ writer' # q
      BY <1>3, NoOneAssumption
    <2>2. QED BY <1>1, <2>1 DEF Isolated
  <1>4. QED BY <1>2, <1>3

(* A step of request r keeps the invariant when it keeps r's own part of   *)
(* it, touches the lock only for r and leaves the other requests alone.    *)
LEMMA OwnStep ==
    ASSUME IInv, NEW r \in Requests, TypeOK', Consistent(db)', RowsStay(db, db'),
           (writer = NoOne => image = db)', Isolated(r)', Fits(r)',
           \A q \in Requests \ {r} : at'[q] = at[q] /\ op'[q] = op[q],
           \/ UNCHANGED <<db, image, writer>>
           \/ writer \in {NoOne, r} /\ writer' \in {NoOne, r}
    PROVE  IInv'
  <1>1. ASSUME NEW q \in Requests
        PROVE  Isolated(q)' /\ Fits(q)'
    <2>1. CASE q = r
      BY <2>1
    <2>2. CASE q # r
      BY <2>2, Bystander DEF IInv, WriterIsolated
    <2>3. QED BY <2>1, <2>2
  <1>2. QED BY <1>1 DEF IInv, WriterIsolated

(* The empty database of an idle service satisfies the invariant.          *)
LEMMA InitKeeps == Init => IInv
  <1>1. SUFFICES ASSUME Init PROVE IInv
    OBVIOUS
  <1>2. db = EmptyDatabase /\ image = EmptyDatabase /\ writer = NoOne /\ copying = FALSE
    BY <1>1 DEF Init, ConnectionInit
  <1>3. Consistent(db)
    BY <1>2, EmptyIsConsistent
  <1>4. /\ at = [r \in Requests |-> "idle"] /\ told = {}
        /\ op = [r \in Requests |-> NoOperation]
    BY <1>1 DEF Init
  <1>5. TypeOK
    BY <1>2, <1>3, <1>4 DEF TypeOK, Consistent, Labels
  <1>6. \A r \in Requests : Isolated(r) /\ Fits(r)
    BY <1>2, <1>4, NoOneAssumption DEF Isolated, Fits
  <1>7. QED BY <1>2, <1>3, <1>5, <1>6 DEF IInv, WriterIsolated

(* A request that ends without a commit: whatever it had written is gone   *)
(* and the lock, if it was its, is free.                                   *)
LEMMA LeaveKeeps ==
    ASSUME IInv, NEW r \in Requests, Leave(r), UNCHANGED history,
           Rollback(r) \/ WaitTimesOut(r)
    PROVE  IInv'
  <1>1. TypeOK /\ WriterIsolated /\ Consistent(db)
    BY DEF IInv
  <1>2. /\ at' = [at EXCEPT ![r] = "idle"] /\ op' = [op EXCEPT ![r] = NoOperation]
        /\ UNCHANGED <<told, reported>>
    BY DEF Leave, history
  <1>3. /\ UNCHANGED <<db, copying>>
        /\ \/ UNCHANGED <<image, writer>> /\ writer # r
           \/ writer = r /\ writer' = NoOne /\ image' = db
    BY DEF Rollback, WaitTimesOut, LockFree, connection
  <1>4. TypeOK'
    BY <1>1, <1>2, <1>3 DEF TypeOK, Labels
  <1>5. at'[r] = "idle" /\ writer' # r
    BY <1>1, <1>2, <1>3, NoOneAssumption DEF TypeOK
  <1>6. Isolated(r)' /\ Fits(r)'
    BY <1>5 DEF Isolated, Fits
  <1>7. \A q \in Requests \ {r} : at'[q] = at[q] /\ op'[q] = op[q]
    BY <1>1, <1>2 DEF TypeOK
  <1>8. Consistent(db)' /\ RowsStay(db, db') /\ (writer = NoOne => image = db)'
    BY <1>1, <1>3 DEF WriterIsolated, RowsStay
  <1>9. QED BY <1>3, <1>4, <1>6, <1>7, <1>8, OwnStep

(* A request that arrives holds no lock and has written nothing.           *)
LEMMA ReceiveKeeps ==
    ASSUME IInv, NEW r \in Requests, Receive(r)
    PROVE  IInv'
  <1>1. TypeOK /\ WriterIsolated /\ Consistent(db) /\ Isolated(r)
    BY DEF IInv, WriterIsolated
  <1>2. PICK o \in Operations : /\ op' = [op EXCEPT ![r] = o]
                                /\ at' = [at EXCEPT ![r] = FirstLabel(o)]
    BY DEF Receive
  <1>3. at[r] = "idle" /\ UNCHANGED <<db, image, writer, copying, told, reported>>
    BY DEF Receive, connection, history
  <1>4. FirstLabel(o) \in {"begin", "auction", "report", "write"}
    BY DEF FirstLabel
  <1>5. TypeOK'
    BY <1>1, <1>2, <1>3, <1>4 DEF TypeOK, Labels
  <1>6. at'[r] = FirstLabel(o) /\ op'[r] = o /\ writer # r
    BY <1>1, <1>2, <1>3 DEF TypeOK, Isolated
  <1>7. Fits(r)'
    BY <1>6, OperationParts DEF Fits, FirstLabel
  <1>8. Isolated(r)'
    BY <1>3, <1>6, OperationParts DEF Isolated, FirstLabel
  <1>9. \A q \in Requests \ {r} : at'[q] = at[q] /\ op'[q] = op[q]
    BY <1>1, <1>2 DEF TypeOK
  <1>10. Consistent(db)' /\ RowsStay(db, db') /\ (writer = NoOne => image = db)'
    BY <1>1, <1>3 DEF WriterIsolated, RowsStay
  <1>11. QED BY <1>3, <1>5, <1>7, <1>8, <1>9, <1>10, OwnStep

(* BEGIN IMMEDIATE: the lock was free, so the image is the database.       *)
LEMMA BeginKeeps ==
    ASSUME IInv, NEW r \in Requests, Begin(r)
    PROVE  IInv'
  <1>1. TypeOK /\ WriterIsolated /\ Consistent(db) /\ Fits(r)
    BY DEF IInv
  <1>2. /\ at[r] = "begin" /\ at' = [at EXCEPT ![r] = "check"]
        /\ writer = NoOne /\ writer' = r /\ image = db
        /\ UNCHANGED <<op, db, image, copying, told, reported>>
    BY <1>1 DEF Begin, BeginImmediate, Goto, history, WriterIsolated
  <1>3. TypeOK'
    BY <1>1, <1>2 DEF TypeOK, Labels
  <1>4. at'[r] = "check"
    BY <1>1, <1>2 DEF TypeOK
  <1>5. Isolated(r)' /\ Fits(r)'
    BY <1>1, <1>2, <1>4 DEF Isolated, Fits
  <1>6. \A q \in Requests \ {r} : at'[q] = at[q] /\ op'[q] = op[q]
    BY <1>1, <1>2 DEF TypeOK
  <1>7. Consistent(db)' /\ RowsStay(db, db') /\ (writer = NoOne => image = db)'
    BY <1>1, <1>2, NoOneAssumption DEF RowsStay
  <1>8. QED BY <1>2, <1>3, <1>5, <1>6, <1>7, OwnStep

(* A check that passes under the lock stays true until the write.          *)
LEMMA PassKeeps ==
    ASSUME IInv, NEW r \in Requests, Pass(r)
    PROVE  IInv'
  <1>1. TypeOK /\ WriterIsolated /\ Consistent(db) /\ Fits(r) /\ Isolated(r)
    BY DEF IInv, WriterIsolated
  <1>2. /\ at[r] \in {"check", "auction", "seller"}
        /\ RuleHolds(View(r), op[r], at[r])
        /\ at' = [at EXCEPT ![r] = NextLabel(at[r])]
        /\ UNCHANGED <<op, db, image, writer, copying, told, reported>>
    BY DEF Pass, Goto, connection, history
  <1>3. TypeOK'
    BY <1>1, <1>2 DEF TypeOK, Labels, NextLabel
  <1>4. at'[r] = NextLabel(at[r])
    BY <1>1, <1>2 DEF TypeOK
  <1>5. View(r) = db
    BY <1>1, <1>2 DEF View, Isolated
  <1>6. Isolated(r)'
    BY <1>1, <1>2, <1>4, <1>5 DEF Isolated, NextLabel, RuleHolds, Fits
  <1>7. Fits(r)'
    BY <1>1, <1>2, <1>4, <1>5
       DEF Fits, NextLabel, RuleHolds, AuctionEditable, SellerActive
  <1>8. \A q \in Requests \ {r} : at'[q] = at[q] /\ op'[q] = op[q]
    BY <1>1, <1>2 DEF TypeOK
  <1>9. Consistent(db)' /\ RowsStay(db, db') /\ (writer = NoOne => image = db)'
    BY <1>1, <1>2 DEF WriterIsolated, RowsStay
  <1>10. QED BY <1>2, <1>3, <1>6, <1>7, <1>8, <1>9, OwnStep

(* The first statement of two writes rows of the columns' domains.         *)
LEMMA BegunTyped ==
    ASSUME NEW d, Consistent(d), NEW o \in Operations, o.kind \in {"open", "close", "sale"},
           RuleHolds(d, o, "check")
    PROVE  Begun(d, o) \in Database
  <1>1. d \in Database
    BY DEF Consistent
  <1>2. CASE o.kind = "open"
    <2>1. CanOpen(d, o.auction) /\ o.auction \in Auctions
      BY <1>2, OperationParts DEF RuleHolds
    <2>2. Opened(d, o.auction) \in Database
      BY <2>1, OpenEffect DEF Consistent
    <2>3. Begun(d, o) = [Opened(d, o.auction) EXCEPT !.lots = d.lots]
      BY <1>1, <1>2, <2>1, OpenedRows, DatabaseParts DEF Begun, AuctionTurned
    <2>4. QED BY <1>1, <2>2, <2>3, DatabaseParts DEF Database
  <1>3. CASE o.kind = "close"
    <2>1. CanClose(d, o.auction) /\ o.auction \in Auctions
      BY <1>3, OperationParts DEF RuleHolds
    <2>2. Closed(d, o.auction) \in Database
      BY <2>1, CloseEffect DEF Consistent
    <2>3. Begun(d, o) = [Closed(d, o.auction) EXCEPT !.lots = d.lots]
      BY <1>1, <1>3, <2>1, ClosedRows, DatabaseParts DEF Begun, AuctionTurned
    <2>4. QED BY <1>1, <2>2, <2>3, DatabaseParts DEF Database
  <1>4. CASE o.kind = "sale"
    <2>1. /\ CanSell(d, o.lot, o.buyer, o.price)
          /\ o.lot \in Lots /\ o.buyer \in Buyers /\ o.price \in Prices
      BY <1>4, OperationParts DEF RuleHolds
    <2>2. Sold(d, o.lot, o.buyer, o.price) \in Database
      BY <2>1, SaleEffect DEF Consistent
    <2> DEFINE more == d.sales \cup {NewSale(d, o.lot, o.buyer, o.price)}
    <2>3. Sold(d, o.lot, o.buyer, o.price).sales = more
      BY <1>1, SoldRows
    <2>4. Begun(d, o) = [auctions |-> d.auctions, lots |-> d.lots, sellers |-> d.sellers,
                         buyers |-> d.buyers, sales |-> more]
      BY <1>1, <1>4, SaleAddedRows DEF Begun
    <2> HIDE DEF more
    <2>5. more \subseteq SaleRow
      BY <2>2, <2>3, DatabaseParts
    <2>6. QED BY <1>1, <2>4, <2>5, DatabaseParts DEF Database
  <1>5. QED BY <1>2, <1>3, <1>4

(* The second statement finds what it needs in the half-written image.     *)
LEMMA BegunThenDone ==
    ASSUME NEW o \in Operations, NEW d
    PROVE  /\ o.kind = "open" =>
                 LotsTurned(Begun(d, o), o.auction, "DRAFT", "AVAILABLE") = Opened(d, o.auction)
           /\ o.kind = "close" =>
                 LotsTurned(Begun(d, o), o.auction, "AVAILABLE", "UNSOLD") = Closed(d, o.auction)
           /\ o.kind = "sale" =>
                 LotMarked(Begun(d, o), o.lot) = Sold(d, o.lot, o.buyer, o.price)
  BY DEF Begun, Opened, Closed, Sold

(* Under the lock the first of two statements is one of the operation the  *)
(* handler has just checked.                                               *)
LEMMA FirstBegins ==
    ASSUME IInv, NEW r \in Requests, WriteFirst(r)
    PROVE  /\ at[r] = "first" /\ at' = [at EXCEPT ![r] = "write"]
           /\ writer = r /\ writer' = r /\ image' = Begun(db, op[r])
           /\ RuleHolds(db, op[r], "check") /\ ConstraintHolds(db, op[r], "first")
           /\ op[r] \in Operations /\ op[r].kind \in {"open", "close", "sale"}
           /\ UNCHANGED <<op, db, copying, told, reported>>
  <1>1. Isolated(r) /\ Fits(r) /\ at[r] = "first"
    BY DEF IInv, WriterIsolated, WriteFirst
  <1>2. writer = r /\ View(r) = db /\ RuleHolds(db, op[r], "check")
    BY <1>1 DEF Isolated, View
  <1>3. op[r] \in Operations /\ op[r].kind \in {"open", "close", "sale"}
    BY <1>1 DEF Fits
  <1>4. QED BY <1>1, <1>2, <1>3 DEF WriteFirst, Execute, Goto, history

(* Half of an operation in the image is no part of the database.           *)
LEMMA FirstKeeps ==
    ASSUME IInv, NEW r \in Requests, WriteFirst(r)
    PROVE  IInv'
  <1>1. TypeOK /\ WriterIsolated /\ Consistent(db) /\ Fits(r)
    BY DEF IInv
  <1>2. /\ at[r] = "first" /\ at' = [at EXCEPT ![r] = "write"]
        /\ writer = r /\ writer' = r /\ image' = Begun(db, op[r])
        /\ RuleHolds(db, op[r], "check") /\ ConstraintHolds(db, op[r], "first")
        /\ op[r] \in Operations /\ op[r].kind \in {"open", "close", "sale"}
        /\ UNCHANGED <<op, db, copying, told, reported>>
    BY FirstBegins
  <1>3. image' \in Database
    BY <1>1, <1>2, BegunTyped
  <1>4. TypeOK'
    BY <1>1, <1>2, <1>3 DEF TypeOK, Labels
  <1>5. at'[r] = "write"
    BY <1>1, <1>2 DEF TypeOK
  <1>6. Isolated(r)'
    BY <1>2, <1>5 DEF Isolated
  <1>7. Fits(r)'
    BY <1>2, <1>5 DEF Fits
  <1>8. \A q \in Requests \ {r} : at'[q] = at[q] /\ op'[q] = op[q]
    BY <1>1, <1>2 DEF TypeOK
  <1>9. Consistent(db)' /\ RowsStay(db, db') /\ (writer = NoOne => image = db)'
    BY <1>1, <1>2, NoOneAssumption DEF RowsStay
  <1>10. QED BY <1>2, <1>4, <1>6, <1>7, <1>8, <1>9, OwnStep

(* With the lock free, what a handler of one statement sees is the          *)
(* committed database.                                                     *)
LEMMA WriteSeesCommitted ==
    ASSUME IInv, NEW r \in Requests, at[r] = "write", LockFree(r),
           op[r].kind \notin {"open", "close", "sale"}
    PROVE  View(r) = db /\ image = db
  BY DEF IInv, WriterIsolated, Isolated, LockFree, View

(* After its last statement a handler's operation is exactly what the image *)
(* adds.                                                                   *)
LEMMA WriteIsOneOperation ==
    ASSUME IInv, NEW r \in Requests, WriteRows(r)
    PROVE  /\ at[r] = "write" /\ at' = [at EXCEPT ![r] = "answer"]
           /\ writer \in {NoOne, r} /\ writer' = r
           /\ UNCHANGED <<op, db, copying, told, reported>>
           /\ OneOperation(r)'
  <1>1. /\ at[r] = "write" /\ LockFree(r)
        /\ at' = [at EXCEPT ![r] = "answer"] /\ writer' = r
        /\ ConstraintHolds(View(r), op[r], "write")
        /\ UNCHANGED <<op, db, copying, told, reported>>
    BY DEF WriteRows, OpenAuction, CloseAuction, CreateSale, CreateSeller, CreateBuyer,
           CreateLot, CreateAuction, Write, Execute, Goto, history
  <1>2. Isolated(r) /\ Fits(r)
    BY DEF IInv, WriterIsolated
  <1> DEFINE o == op[r]
  <1>3. o \in Operations
    BY <1>1, <1>2 DEF Fits
  <1>4. ASSUME o.kind \in {"open", "close", "sale"}
        PROVE  OneOperation(r)'
    <2>1. /\ View(r) = Begun(db, o)
          /\ RuleHolds(db, o, "check") /\ ConstraintHolds(db, o, "first")
      BY <1>1, <1>2, <1>4 DEF Isolated, View
    <2>2. CASE OpenAuction(r)
      <3>1. o.kind = "open" /\ CanOpen(db, o.auction) /\ image' = Opened(db, o.auction)
        BY <1>3, <2>1, <2>2, BegunThenDone DEF OpenAuction, Write, Execute, RuleHolds
      <3>2. QED BY <1>1, <3>1 DEF OneOperation
    <2>3. CASE CloseAuction(r)
      <3>1. o.kind = "close" /\ CanClose(db, o.auction) /\ image' = Closed(db, o.auction)
        BY <1>3, <2>1, <2>3, BegunThenDone DEF CloseAuction, Write, Execute, RuleHolds
      <3>2. QED BY <1>1, <3>1 DEF OneOperation
    <2>4. CASE CreateSale(r)
      <3>1. /\ o.kind = "sale" /\ CanSell(db, o.lot, o.buyer, o.price)
            /\ NeverSold(db, o.lot) /\ image' = Sold(db, o.lot, o.buyer, o.price)
        BY <1>3, <2>1, <2>4, BegunThenDone
           DEF CreateSale, Write, Execute, RuleHolds, ConstraintHolds
      <3>2. QED BY <1>1, <3>1 DEF OneOperation
    <2>5. QED
      BY <1>4, <2>2, <2>3, <2>4
         DEF WriteRows, CreateSeller, CreateBuyer, CreateLot, CreateAuction, Write
  <1>5. ASSUME o.kind \notin {"open", "close", "sale"}
        PROVE  OneOperation(r)'
    <2>1. View(r) = db
      BY <1>1, <1>5, WriteSeesCommitted
    <2>2. CASE CreateSeller(r)
      BY <1>1, <2>1, <2>2 DEF CreateSeller, Write, Execute, OneOperation, ConstraintHolds
    <2>3. CASE CreateBuyer(r)
      BY <1>1, <2>1, <2>3 DEF CreateBuyer, Write, Execute, OneOperation, ConstraintHolds
    <2>4. CASE CreateLot(r)
      <3>1. PICK l \in Lots :
              /\ db.lots[l].status = "ABSENT" /\ o.kind = "lot"
              /\ image' = LotAdded(db, l, o.auction, o.seller, o.price)
        BY <2>1, <2>4 DEF CreateLot, Write, Execute
      <3>2. /\ db.auctions[o.auction].status # "ABSENT" /\ db.sellers[o.seller] # "none"
        BY <1>1, <1>2, <3>1 DEF Fits
      <3>3. QED BY <1>1, <3>1, <3>2 DEF OneOperation
    <2>5. CASE CreateAuction(r)
      BY <1>1, <2>1, <2>5 DEF CreateAuction, Write, Execute, OneOperation
    <2>6. QED
      BY <1>5, <2>2, <2>3, <2>4, <2>5
         DEF WriteRows, OpenAuction, CloseAuction, CreateSale, Write
  <1>6. QED BY <1>1, <1>4, <1>5 DEF LockFree

(* The writes of a handler make the image one operation ahead.             *)
LEMMA WriteKeeps ==
    ASSUME IInv, NEW r \in Requests, WriteRows(r)
    PROVE  IInv'
  <1>1. TypeOK /\ WriterIsolated /\ Consistent(db) /\ Fits(r)
    BY DEF IInv
  <1>2. /\ at[r] = "write" /\ at' = [at EXCEPT ![r] = "answer"]
        /\ writer \in {NoOne, r} /\ writer' = r
        /\ UNCHANGED <<op, db, copying, told, reported>>
        /\ OneOperation(r)'
    BY WriteIsOneOperation
  <1>3. op[r] \in Operations
    BY <1>1, <1>2 DEF Fits
  <1>4. Consistent(image)'
    <2>1. Consistent(db)' /\ (op[r] \in Operations)'
      BY <1>1, <1>2, <1>3
    <2>2. (Consistent(db) /\ op[r] \in Operations /\ OneOperation(r) => Consistent(image))'
      BY OneOperationKeeps, PTL
    <2>3. QED BY <1>2, <2>1, <2>2
  <1>5. TypeOK'
    BY <1>1, <1>2, <1>4 DEF TypeOK, Labels, Consistent
  <1>6. at'[r] = "answer"
    BY <1>1, <1>2 DEF TypeOK
  <1>7. Isolated(r)' /\ Fits(r)'
    BY <1>1, <1>2, <1>6 DEF Isolated, Fits
  <1>8. \A q \in Requests \ {r} : at'[q] = at[q] /\ op'[q] = op[q]
    BY <1>1, <1>2 DEF TypeOK
  <1>9. Consistent(db)' /\ RowsStay(db, db') /\ (writer = NoOne => image = db)'
    BY <1>1, <1>2, NoOneAssumption DEF RowsStay
  <1>10. QED BY <1>2, <1>5, <1>7, <1>8, <1>9, OwnStep

(* The answer to the client touches no row.                                *)
LEMMA AnswerKeeps ==
    ASSUME IInv, NEW r \in Requests, Answer(r)
    PROVE  IInv'
  <1>1. TypeOK /\ WriterIsolated /\ Consistent(db) /\ Fits(r) /\ Isolated(r)
    BY DEF IInv, WriterIsolated
  <1>2. /\ at[r] = "answer" /\ at' = [at EXCEPT ![r] = "commit"]
        /\ told' = IF op[r].kind = "sale" THEN told \cup {op[r].lot} ELSE told
        /\ UNCHANGED <<op, db, image, writer, copying>>
    BY DEF Answer, Goto, connection
  <1>3. op[r] \in Operations
    BY <1>1, <1>2 DEF Fits
  <1>4. TypeOK'
    BY <1>1, <1>2, <1>3, OperationParts DEF TypeOK, Labels
  <1>5. at'[r] = "commit"
    BY <1>1, <1>2 DEF TypeOK
  <1>6. Isolated(r)' /\ Fits(r)'
    BY <1>1, <1>2, <1>5 DEF Isolated, Fits, OneOperation
  <1>7. \A q \in Requests \ {r} : at'[q] = at[q] /\ op'[q] = op[q]
    BY <1>1, <1>2 DEF TypeOK
  <1>8. Consistent(db)' /\ RowsStay(db, db') /\ (writer = NoOne => image = db)'
    BY <1>1, <1>2 DEF WriterIsolated, RowsStay
  <1>9. QED BY <1>2, <1>4, <1>6, <1>7, <1>8, OwnStep

(* The one step of a request that changes the committed database.          *)
LEMMA FinishCommits ==
    ASSUME IInv, NEW r \in Requests, Finish(r)
    PROVE  /\ writer = r /\ writer' = NoOne /\ db' = image /\ image' = image
           /\ OneOperation(r) /\ op[r] \in Operations
  <1>1. at[r] = "commit" /\ Isolated(r) /\ Fits(r)
    BY DEF IInv, WriterIsolated, Finish
  <1>2. QED BY <1>1 DEF Finish, Commit, View, Isolated, Fits

(* The commit of one operation leaves a consistent database.               *)
LEMMA FinishKeeps ==
    ASSUME IInv, NEW r \in Requests, Finish(r)
    PROVE  IInv'
  <1>1. TypeOK /\ Consistent(db)
    BY DEF IInv
  <1>2. /\ writer = r /\ writer' = NoOne /\ db' = image /\ image' = image
        /\ OneOperation(r) /\ op[r] \in Operations
    BY FinishCommits
  <1>3. /\ at' = [at EXCEPT ![r] = "idle"] /\ op' = [op EXCEPT ![r] = NoOperation]
        /\ UNCHANGED <<copying, told, reported>>
    BY DEF Finish, Commit, Leave, history
  <1>4. TypeOK'
    BY <1>1, <1>2, <1>3 DEF TypeOK, Labels
  <1>5. at'[r] = "idle" /\ writer' # r
    BY <1>1, <1>2, <1>3, NoOneAssumption DEF TypeOK
  <1>6. Isolated(r)' /\ Fits(r)'
    BY <1>5 DEF Isolated, Fits
  <1>7. \A q \in Requests \ {r} : at'[q] = at[q] /\ op'[q] = op[q]
    BY <1>1, <1>3 DEF TypeOK
  <1>8. Consistent(db)'
    <2>1. Consistent(image)
      BY <1>1, <1>2, OneOperationKeeps
    <2>2. QED BY <1>2, <2>1
  <1>9. RowsStay(db, db')
    BY <1>1, <1>2, OneOperationAdds DEF Consistent
  <1>10. (writer = NoOne => image = db)'
    BY <1>2
  <1>11. QED BY <1>2, <1>4, <1>6, <1>7, <1>8, <1>9, <1>10, OwnStep

(* A report reads the committed database and writes nothing.               *)
LEMMA ReportKeeps ==
    ASSUME IInv, NEW r \in Requests, Report(r)
    PROVE  IInv'
  <1>1. TypeOK /\ WriterIsolated /\ Consistent(db) /\ Isolated(r)
    BY DEF IInv, WriterIsolated
  <1>2. /\ at[r] = "report" /\ at' = [at EXCEPT ![r] = "idle"]
        /\ op' = [op EXCEPT ![r] = NoOperation]
        /\ UNCHANGED <<db, image, writer, copying, told>>
    BY DEF Report, Leave, connection
  <1>3. TypeOK'
    BY <1>1, <1>2 DEF TypeOK, Labels
  <1>4. at'[r] = "idle" /\ writer' # r
    BY <1>1, <1>2 DEF TypeOK, Isolated
  <1>5. Isolated(r)' /\ Fits(r)'
    BY <1>4 DEF Isolated, Fits
  <1>6. \A q \in Requests \ {r} : at'[q] = at[q] /\ op'[q] = op[q]
    BY <1>1, <1>2 DEF TypeOK
  <1>7. Consistent(db)' /\ RowsStay(db, db') /\ (writer = NoOne => image = db)'
    BY <1>1, <1>2 DEF WriterIsolated, RowsStay
  <1>8. QED BY <1>2, <1>3, <1>5, <1>6, <1>7, OwnStep

(* A crash frees the lock and drops every image.                           *)
LEMMA CrashKeeps == ASSUME IInv, Crash PROVE IInv'
  <1>1. /\ writer' = NoOne /\ image' = db
        /\ at' = [r \in Requests |-> "idle"] /\ op' = [r \in Requests |-> NoOperation]
        /\ UNCHANGED <<db, copying, told, reported>>
    BY DEF Crash, LoseTransactions, history
  <1>2. TypeOK' /\ Consistent(db)'
    BY <1>1 DEF IInv, TypeOK, Labels
  <1>3. \A r \in Requests : Isolated(r)' /\ Fits(r)'
    BY <1>1, NoOneAssumption DEF Isolated, Fits
  <1>4. QED BY <1>1, <1>2, <1>3 DEF IInv, WriterIsolated

(* A backup only blocks commits.                                           *)
LEMMA BackupKeeps == ASSUME IInv, Backup PROVE IInv'
  <1>1. copying' \in BOOLEAN /\ UNCHANGED <<db, image, writer, at, op, told, reported>>
    BY DEF Backup, StartCopy, EndCopy, history
  <1>2. TypeOK' /\ Consistent(db)'
    BY <1>1 DEF IInv, TypeOK
  <1>3. \A r \in Requests : Isolated(r)' /\ Fits(r)'
    BY <1>1 DEF IInv, WriterIsolated, Isolated, OneOperation, Fits
  <1>4. QED BY <1>1, <1>2, <1>3 DEF IInv, WriterIsolated

(* SQL from outside: only while nobody holds the lock.                     *)
LEMMA SwitchIsSerial ==
    ASSUME Switch
    PROVE  /\ writer = NoOne /\ image' = db'
           /\ UNCHANGED <<writer, copying, at, op, told, reported>>
           /\ \E activity \in {"active", "inactive"} :
                 \/ \E s \in Sellers : /\ db.sellers[s] # "none"
                                       /\ db' = SellerSwitched(db, s, activity)
                 \/ \E b \in Buyers : /\ db.buyers[b] # "none"
                                      /\ db' = BuyerSwitched(db, b, activity)
  BY ActivitiesAssumption DEF Switch, ExecuteOutside, history

(* SQL from outside runs between transactions.                             *)
LEMMA SwitchKeeps == ASSUME IInv, Switch PROVE IInv'
  <1>1. TypeOK /\ WriterIsolated /\ Consistent(db) /\ db \in Database
    BY DEF IInv, TypeOK
  <1>2. /\ writer = NoOne /\ image' = db'
        /\ UNCHANGED <<writer, copying, at, op, told, reported>>
    BY SwitchIsSerial
  <1>3. PICK activity \in {"active", "inactive"} :
          \/ \E s \in Sellers : /\ db.sellers[s] # "none"
                                /\ db' = SellerSwitched(db, s, activity)
          \/ \E b \in Buyers : /\ db.buyers[b] # "none"
                               /\ db' = BuyerSwitched(db, b, activity)
    BY SwitchIsSerial
  <1>4. Consistent(db') /\ RowsStay(db, db')
    <2>1. ASSUME NEW s \in Sellers, db' = SellerSwitched(db, s, activity)
          PROVE  Consistent(db') /\ RowsStay(db, db')
      <3>1. Consistent(db')
        BY <1>1, <2>1, SellerEffect
      <3>2. RowsStay(db, db')
        BY <1>1, <2>1, DatabaseParts DEF SellerSwitched, RowsStay
      <3>3. QED BY <3>1, <3>2
    <2>2. ASSUME NEW b \in Buyers, db' = BuyerSwitched(db, b, activity)
          PROVE  Consistent(db') /\ RowsStay(db, db')
      <3>1. Consistent(db')
        BY <1>1, <2>2, BuyerEffect
      <3>2. RowsStay(db, db')
        BY <1>1, <2>2, DatabaseParts DEF BuyerSwitched, RowsStay
      <3>3. QED BY <3>1, <3>2
    <2>3. QED BY <1>3, <2>1, <2>2
  <1>5. TypeOK'
    BY <1>1, <1>2, <1>4 DEF TypeOK, Consistent
  <1>6. ASSUME NEW q \in Requests
        PROVE  Isolated(q)' /\ Fits(q)'
    BY <1>1, <1>2, <1>4, <1>5, <1>6, Bystander, NoOneAssumption DEF IInv, WriterIsolated
  <1>7. QED BY <1>2, <1>4, <1>5, <1>6 DEF IInv, WriterIsolated

(* Every step of the service keeps the invariant.                          *)
LEMMA StepKeeps == ASSUME IInv, [Next]_vars PROVE IInv'
  <1>1. ASSUME NEW r \in Requests, Receive(r) PROVE IInv'
    BY <1>1, ReceiveKeeps
  <1>2. ASSUME NEW r \in Requests, Begin(r) PROVE IInv'
    BY <1>2, BeginKeeps
  <1>3. ASSUME NEW r \in Requests, Pass(r) PROVE IInv'
    BY <1>3, PassKeeps
  <1>4. ASSUME NEW r \in Requests, Refuse(r) \/ CommitFails(r) \/ StorageError(r)
        PROVE  IInv'
    <2>1. Rollback(r) /\ Leave(r) /\ UNCHANGED history
      BY <1>4 DEF Refuse, CommitFails, CommitTimesOut, StorageError
    <2>2. QED BY <2>1, LeaveKeeps
  <1>5. ASSUME NEW r \in Requests, Unavailable(r) PROVE IInv'
    BY <1>5, LeaveKeeps DEF Unavailable
  <1>6. ASSUME NEW r \in Requests, WriteRows(r) PROVE IInv'
    BY <1>6, WriteKeeps
  <1>7. ASSUME NEW r \in Requests, Report(r) PROVE IInv'
    BY <1>7, ReportKeeps
  <1>8. ASSUME NEW r \in Requests, Answer(r) PROVE IInv'
    BY <1>8, AnswerKeeps
  <1>9. ASSUME NEW r \in Requests, Finish(r) PROVE IInv'
    BY <1>9, FinishKeeps
  <1>10. CASE Crash
    BY <1>10, CrashKeeps
  <1>11. CASE Backup
    BY <1>11, BackupKeeps
  <1>12. CASE Switch
    BY <1>12, SwitchKeeps
  <1>13. CASE UNCHANGED vars
    <2>1. UNCHANGED <<db, image, writer, copying, at, op, told, reported>>
      BY <1>13 DEF vars, connection, history
    <2>2. TypeOK' /\ Consistent(db)'
      BY <2>1 DEF IInv, TypeOK
    <2>3. \A r \in Requests : Isolated(r)' /\ Fits(r)'
      BY <2>1 DEF IInv, WriterIsolated, Isolated, OneOperation, Fits
    <2>4. QED BY <2>1, <2>2, <2>3 DEF IInv, WriterIsolated
  <1>14. ASSUME NEW r \in Requests, WriteFirst(r) PROVE IInv'
    BY <1>14, FirstKeeps
  <1>15. QED BY <1>1, <1>2, <1>3, <1>4, <1>5, <1>6, <1>7, <1>8, <1>9, <1>10, <1>11,
                <1>12, <1>13, <1>14 DEF Next, Step

(* The inductive invariant.                                                *)
THEOREM Invariance == Spec => []IInv
  BY InitKeeps, StepKeeps, PTL DEF Spec

(* Every variable keeps its type.                                          *)
THEOREM TypeCorrect == Spec => []TypeOK
  <1>1. IInv => TypeOK
    BY DEF IInv
  <1>2. QED BY <1>1, Invariance, PTL

(* BEGIN IMMEDIATE isolates: from its check to its commit a handler's rule *)
(* holds of the committed database and its image adds that operation only. *)
THEOREM Isolation == Spec => []WriterIsolated
  <1>1. IInv => WriterIsolated
    BY DEF IInv
  <1>2. QED BY <1>1, Invariance, PTL

(* No lot is sold twice or without a sale, and every sale carries its price *)
(* and commission, in every committed database.                            *)
THEOREM LedgerCorrect == Spec => []CommittedLedger
  <1>1. IInv => CommittedLedger
    BY DEF IInv, Consistent, CommittedLedger
  <1>2. QED BY <1>1, Invariance, PTL

(* Lots and auctions agree on their phase in every committed database.     *)
THEOREM PhasesCorrect == Spec => []CommittedPhases
  <1>1. IInv => CommittedPhases
    BY DEF IInv, Consistent, CommittedPhases
  <1>2. QED BY <1>1, Invariance, PTL

-----------------------------------------------------------------------------
(* The steps that change the committed database: a commit, and SQL from    *)
(* outside.                                                                *)
LEMMA CommitOrSwitch ==
    ASSUME IInv, [Next]_vars, db' # db
    PROVE  \/ Switch
           \/ \E r \in Requests : Finish(r)
  <1>1. ASSUME NEW r \in Requests, Receive(r) \/ StorageError(r) PROVE UNCHANGED db
    BY <1>1 DEF Receive, connection, StorageError, Rollback
  <1>2. ASSUME NEW r \in Requests, Step(r), ~Finish(r) PROVE UNCHANGED db
    <2>1. CASE WriteRows(r)
      BY <2>1, WriteIsOneOperation
    <2>2. CASE ~WriteRows(r)
      BY <1>2, <2>2
         DEF Step, Begin, BeginImmediate, Pass, Refuse, Rollback, WriteFirst, Execute,
             Report, Answer, Unavailable, WaitTimesOut, CommitFails, CommitTimesOut, connection
    <2>3. QED BY <2>1, <2>2
  <1>3. CASE Crash \/ Backup
    BY <1>3 DEF Crash, LoseTransactions, Backup, StartCopy, EndCopy
  <1>4. CASE UNCHANGED vars
    BY <1>4 DEF vars, connection
  <1>5. QED BY <1>1, <1>2, <1>3, <1>4 DEF Next

(* SerialAuctions has its own instances of the operators of AuctionData;   *)
(* they are the same operators.                                            *)
LEMMA SameRules ==
    /\ \A d, a : Serial!CanOpen(d, a) <=> CanOpen(d, a)
    /\ \A d, a : Serial!CanClose(d, a) <=> CanClose(d, a)
    /\ \A d, l, b, price : Serial!CanSell(d, l, b, price) <=> CanSell(d, l, b, price)
    /\ \A d, l : Serial!NeverSold(d, l) <=> NeverSold(d, l)
    /\ \A d, s : Serial!SellerUnknown(d, s) <=> SellerUnknown(d, s)
    /\ \A d, b : Serial!BuyerUnknown(d, b) <=> BuyerUnknown(d, b)
  BY DEF Serial!CanOpen, CanOpen, Serial!AuctionEditable, AuctionEditable,
         Serial!LotsOf, LotsOf, Serial!CanClose, CanClose, Serial!CanSell, CanSell,
         Serial!NeverSold, NeverSold, Serial!SoldLots, SoldLots,
         Serial!SellerUnknown, SellerUnknown, Serial!BuyerUnknown, BuyerUnknown

(* The same for the effects.                                               *)
LEMMA SameEffects ==
    /\ Serial!EmptyDatabase = EmptyDatabase
    /\ \A d, a : Serial!Opened(d, a) = Opened(d, a)
    /\ \A d, a : Serial!Closed(d, a) = Closed(d, a)
    /\ \A d, l, b, price : Serial!Sold(d, l, b, price) = Sold(d, l, b, price)
    /\ \A d, l, a, s, price : Serial!LotAdded(d, l, a, s, price) = LotAdded(d, l, a, s, price)
    /\ \A d, a, rate : Serial!AuctionAdded(d, a, rate) = AuctionAdded(d, a, rate)
    /\ \A d, s : Serial!SellerAdded(d, s) = SellerAdded(d, s)
    /\ \A d, b : Serial!BuyerAdded(d, b) = BuyerAdded(d, b)
    /\ \A d, s, v : Serial!SellerSwitched(d, s, v) = SellerSwitched(d, s, v)
    /\ \A d, b, v : Serial!BuyerSwitched(d, b, v) = BuyerSwitched(d, b, v)
  <1>1. Serial!EmptyDatabase = EmptyDatabase
    BY DEF Serial!EmptyDatabase, EmptyDatabase
  <1>2. \A d, a, from, to : Serial!LotsMoved(d, a, from, to) = LotsMoved(d, a, from, to)
    BY DEF Serial!LotsMoved, LotsMoved
  <1>3. \A d, a : Serial!Opened(d, a) = Opened(d, a)
    BY <1>2 DEF Serial!Opened, Opened, Serial!LotsTurned, LotsTurned, Serial!AuctionTurned,
               AuctionTurned
  <1>4. \A d, a : Serial!Closed(d, a) = Closed(d, a)
    BY <1>2 DEF Serial!Closed, Closed, Serial!LotsTurned, LotsTurned, Serial!AuctionTurned,
               AuctionTurned
  <1>5. \A d, l, b, price : Serial!NewSale(d, l, b, price) = NewSale(d, l, b, price)
    BY DEF Serial!NewSale, NewSale, Serial!commission_kopecks, commission_kopecks
  <1>6. \A d, l, b, price : Serial!Sold(d, l, b, price) = Sold(d, l, b, price)
    BY <1>5 DEF Serial!Sold, Sold, Serial!SaleAdded, SaleAdded, Serial!LotMarked, LotMarked
  <1>7. \A d, l, a, s, price :
           Serial!LotAdded(d, l, a, s, price) = LotAdded(d, l, a, s, price)
    BY DEF Serial!LotAdded, LotAdded
  <1>8. \A d, a, rate : Serial!AuctionAdded(d, a, rate) = AuctionAdded(d, a, rate)
    BY DEF Serial!AuctionAdded, AuctionAdded
  <1>9. /\ \A d, s : Serial!SellerAdded(d, s) = SellerAdded(d, s)
        /\ \A d, b : Serial!BuyerAdded(d, b) = BuyerAdded(d, b)
    BY DEF Serial!SellerAdded, SellerAdded, Serial!BuyerAdded, BuyerAdded
  <1>10. /\ \A d, s, v : Serial!SellerSwitched(d, s, v) = SellerSwitched(d, s, v)
         /\ \A d, b, v : Serial!BuyerSwitched(d, b, v) = BuyerSwitched(d, b, v)
    BY DEF Serial!SellerSwitched, SellerSwitched, Serial!BuyerSwitched, BuyerSwitched
  <1>11. QED BY <1>1, <1>3, <1>4, <1>6, <1>7, <1>8, <1>9, <1>10

(* A commit is one operation of SerialAuctions.                            *)
LEMMA OneOperationIsSerial ==
    ASSUME NEW r \in Requests, op[r] \in Operations, OneOperation(r), db' = image
    PROVE  Serial!Next
  <1> DEFINE o == op[r]
  <1> USE OperationParts, SameRules, SameEffects DEF Serial!Next, Serial!DocumentedNext
  <1>1. CASE o.kind = "open" /\ CanOpen(db, o.auction) /\ image = Opened(db, o.auction)
    BY <1>1 DEF Serial!Trading, Serial!OpenAuction
  <1>2. CASE o.kind = "close" /\ CanClose(db, o.auction) /\ image = Closed(db, o.auction)
    BY <1>2 DEF Serial!Trading, Serial!CloseAuction
  <1>3. CASE /\ o.kind = "sale" /\ CanSell(db, o.lot, o.buyer, o.price)
             /\ NeverSold(db, o.lot) /\ image = Sold(db, o.lot, o.buyer, o.price)
    BY <1>3 DEF Serial!Trading, Serial!CreateSale
  <1>4. CASE /\ o.kind = "lot" /\ db.auctions[o.auction].status # "ABSENT"
             /\ db.sellers[o.seller] # "none"
             /\ \E l \in Lots : /\ db.lots[l].status = "ABSENT"
                                /\ image = LotAdded(db, l, o.auction, o.seller, o.price)
    BY <1>4 DEF Serial!LateLot
  <1>5. CASE /\ o.kind = "auction"
             /\ \E a \in Auctions : /\ db.auctions[a].status = "ABSENT"
                                    /\ image = AuctionAdded(db, a, o.rate)
    BY <1>5 DEF Serial!CreateAuction
  <1>6. CASE /\ o.kind = "seller" /\ SellerUnknown(db, o.email)
             /\ image = SellerAdded(db, o.email)
    BY <1>6 DEF Serial!Participants, Serial!CreateSeller
  <1>7. CASE /\ o.kind = "buyer" /\ BuyerUnknown(db, o.email)
             /\ image = BuyerAdded(db, o.email)
    BY <1>7 DEF Serial!Participants, Serial!CreateBuyer
  <1>8. QED BY <1>1, <1>2, <1>3, <1>4, <1>5, <1>6, <1>7 DEF OneOperation

(* Every step is a step of SerialAuctions or leaves the database alone.    *)
LEMMA StepIsSerial == ASSUME IInv, [Next]_vars PROVE [Serial!Next]_db
  <1>1. ASSUME NEW r \in Requests, Finish(r) PROVE Serial!Next
    BY <1>1, FinishCommits, OneOperationIsSerial
  <1>2. CASE Switch
    BY <1>2, SwitchIsSerial, SameEffects
       DEF Serial!Next, Serial!DocumentedNext, Serial!Participants,
           Serial!SwitchSeller, Serial!SwitchBuyer
  <1>3. QED BY <1>1, <1>2, CommitOrSwitch

(* The service does what SerialAuctions says: every change of the committed *)
(* database is one operation, done when its rule holds.                    *)
THEOREM Refinement == Spec => RefinesSerial
  <1>1. Init => Serial!Init
    BY SameEffects DEF Init, ConnectionInit, Serial!Init
  <1>2. QED BY <1>1, StepIsSerial, Invariance, PTL DEF Spec, RefinesSerial, Serial!Spec
-----------------------------------------------------------------------------
(* Only a create_sale adds to the sales table, and one row.                *)
LEMMA NewSaleOnly ==
    ASSUME NEW r \in Requests, db \in Database, op[r] \in Operations, OneOperation(r),
           NEW s \in image.sales \ db.sales
    PROVE  CanSell(db, s.lot, s.buyer, s.price) /\ NeverSold(db, s.lot)
  <1> DEFINE o == op[r]
  <1> USE DatabaseParts
  <1>1. CASE o.kind = "sale" /\ CanSell(db, o.lot, o.buyer, o.price)
             /\ NeverSold(db, o.lot) /\ image = Sold(db, o.lot, o.buyer, o.price)
    <2>1. s = NewSale(db, o.lot, o.buyer, o.price)
      BY <1>1, ImageRows
    <2>2. s.lot = o.lot /\ s.buyer = o.buyer /\ s.price = o.price
      BY <2>1 DEF NewSale
    <2>3. QED BY <1>1, <2>2
  <1>2. CASE image = Opened(db, o.auction) \/ image = Closed(db, o.auction)
    BY <1>2 DEF Opened, Closed, LotsTurned, AuctionTurned
  <1>3. CASE \/ \E l \in Lots : image = LotAdded(db, l, o.auction, o.seller, o.price)
             \/ \E a \in Auctions : image = AuctionAdded(db, a, o.rate)
    BY <1>3 DEF LotAdded, AuctionAdded
  <1>4. CASE image = SellerAdded(db, o.email) \/ image = BuyerAdded(db, o.email)
    BY <1>4 DEF SellerAdded, BuyerAdded
  <1>5. QED BY <1>1, <1>2, <1>3, <1>4 DEF OneOperation

(* A sale is committed only while its auction is open, its buyer active,   *)
(* its lot available and never sold, at the starting price or more.        *)
THEOREM SalesCorrect == Spec => SalesFollowRules
  <1>1. ASSUME IInv, [Next]_vars, NEW s \in db'.sales \ db.sales
        PROVE  CanSell(db, s.lot, s.buyer, s.price) /\ NeverSold(db, s.lot)
    <2>1. db \in Database /\ db' # db
      BY <1>1 DEF IInv, TypeOK
    <2>2. CASE Switch
      BY <2>1, <2>2, <1>1, SwitchIsSerial, DatabaseParts DEF SellerSwitched, BuyerSwitched
    <2>3. ASSUME NEW r \in Requests, Finish(r)
          PROVE  CanSell(db, s.lot, s.buyer, s.price) /\ NeverSold(db, s.lot)
      BY <1>1, <2>1, <2>3, FinishCommits, NewSaleOnly
    <2>4. QED BY <1>1, <2>1, <2>2, <2>3, CommitOrSwitch
  <1>2. IInv /\ [Next]_vars =>
           [\A s \in db'.sales \ db.sales :
               CanSell(db, s.lot, s.buyer, s.price) /\ NeverSold(db, s.lot)]_vars
    BY <1>1
  <1>3. QED BY <1>2, Invariance, PTL DEF Spec, SalesFollowRules

(* No single operation changes the books of a closed auction.              *)
LEMMA OneOperationKeepsClosed ==
    ASSUME NEW r \in Requests, Consistent(db), op[r] \in Operations, OneOperation(r),
           NEW a \in Auctions, db.auctions[a].status = "CLOSED"
    PROVE  SameBooks(db, image, a)
  <1> DEFINE o == op[r]
  <1> USE OperationParts
  <1>1. CASE o.kind = "open" /\ CanOpen(db, o.auction) /\ image = Opened(db, o.auction)
    BY <1>1, OpenKeepsClosed
  <1>2. CASE o.kind = "close" /\ CanClose(db, o.auction) /\ image = Closed(db, o.auction)
    BY <1>2, CloseKeepsClosed
  <1>3. CASE /\ o.kind = "sale" /\ CanSell(db, o.lot, o.buyer, o.price)
             /\ image = Sold(db, o.lot, o.buyer, o.price)
    BY <1>3, SaleKeepsClosed
  <1>4. CASE /\ o.kind = "lot"
             /\ \E l \in Lots : /\ db.lots[l].status = "ABSENT"
                                /\ image = LotAdded(db, l, o.auction, o.seller, o.price)
    BY <1>4, LotKeepsClosed
  <1>5. CASE /\ o.kind = "auction"
             /\ \E b \in Auctions : /\ db.auctions[b].status = "ABSENT"
                                    /\ image = AuctionAdded(db, b, o.rate)
    BY <1>5, AuctionKeepsClosed
  <1>6. CASE image = SellerAdded(db, o.email) \/ image = BuyerAdded(db, o.email)
    <2>1. \/ image = SellerSwitched(db, o.email, "active")
          \/ image = BuyerSwitched(db, o.email, "active")
      BY <1>6 DEF SellerAdded, BuyerAdded, SellerSwitched, BuyerSwitched
    <2>2. QED BY <2>1, ParticipantsKeepClosed
  <1>7. QED BY <1>1, <1>2, <1>3, <1>4, <1>5, <1>6 DEF OneOperation

(* The books of a closed auction never change again.                       *)
THEOREM ClosedBooksCorrect == Spec => ClosedBooks
  <1>1. ASSUME IInv, [Next]_vars, NEW a \in Auctions, db.auctions[a].status = "CLOSED"
        PROVE  SameBooks(db, db', a)
    <2>1. Consistent(db)
      BY <1>1 DEF IInv
    <2>2. CASE db' = db
      BY <2>2 DEF SameBooks
    <2>3. CASE Switch
      BY <2>1, <2>3, SwitchIsSerial, ParticipantsKeepClosed
    <2>4. ASSUME NEW r \in Requests, Finish(r)
          PROVE  SameBooks(db, db', a)
      BY <1>1, <2>1, <2>4, FinishCommits, OneOperationKeepsClosed
    <2>5. QED BY <1>1, <2>2, <2>3, <2>4, CommitOrSwitch
  <1>2. IInv /\ [Next]_vars =>
           [\A a \in Auctions : db.auctions[a].status = "CLOSED" =>
              /\ db'.auctions[a] = db.auctions[a]
              /\ revenue_report(db', a) = revenue_report(db, a)
              /\ \A l \in LotsOf(db, a) : db'.lots[l] = db.lots[l]]_vars
    BY <1>1 DEF SameBooks
  <1>3. QED BY <1>2, Invariance, PTL DEF Spec, ClosedBooks

-----------------------------------------------------------------------------
(* 4. Acceptance.                                                          *)

ScriptFits ==
    /\ script \in [stage : 0..9, waits : Requests \cup {NoOne},
                   auction : Auctions \cup {NoAuction}, lot : Lots \cup {NoLot}]
    /\ script.stage >= 4 => script.auction \in Auctions
    /\ script.stage >= 5 => script.lot \in Lots

(* It waits for one request; any other has answered.                       *)
Awaited ==
    /\ script.waits # NoOne => /\ script.stage \in 1..8 /\ op[script.waits] = Asked
                               /\ at[script.waits] \notin {"idle", "commit"}
    /\ \A r \in Requests : r # script.waits => at[r] \in {"idle", "commit"}

NoneOpened(d) == \A a \in Auctions : d.auctions[a].status \in {"ABSENT", "DRAFT"}

(* No auction has been opened, nor is one about to be, while a lot is       *)
(* under way; the one sale is that of the script's lot.                    *)
Mine(r) ==
    at[r] # "idle" =>
       /\ op[r].kind \in {"open", "close"} => script.stage \notin 1..4
       /\ op[r].kind = "lot" => NoneOpened(db)
       /\ op[r].kind = "sale" => /\ script.stage \notin 1..5 /\ op[r].lot = script.lot
                                 /\ op[r].buyer = MyBuyer /\ op[r].price = MyPrice

Committed ==
    /\ script.stage \in 1..4 => NoneOpened(db)
    /\ script.stage \in 1..5 => db.sales = {}
    /\ \A s \in Sellers : db.sellers[s] # "inactive"
    /\ \A s \in db.sales : s.lot = script.lot /\ s.buyer = MyBuyer /\ s.price = MyPrice
    /\ SeenIsCommitted

Script == /\ ScriptFits /\ Awaited /\ Committed
          /\ \A r \in Requests : Mine(r)
          /\ DOMAIN reported = Scopes

AInv == IInv /\ Script

-----------------------------------------------------------------------------
LEMMA StageNames ==
    ASSUME script.stage \in 1..9
    PROVE  /\ Stage = "seller" <=> script.stage = 1
           /\ Stage = "buyer" <=> script.stage = 2
           /\ Stage = "auction" <=> script.stage = 3
           /\ Stage = "lot" <=> script.stage = 4
           /\ Stage = "open" <=> script.stage = 5
           /\ Stage = "sale" <=> script.stage = 6
           /\ Stage = "report" <=> script.stage = 7
           /\ Stage = "close" <=> script.stage = 8
           /\ Stage = "accepted" <=> script.stage = 9
  <1> DEFINE n == script.stage
  <1>1. n = 1 \/ n = 2 \/ n = 3 \/ n = 4 \/ n = 5 \/ n = 6 \/ n = 7 \/ n = 8 \/ n = 9
    OBVIOUS
  <1> HIDE DEF n
  <1>2. Stage = Stages[n]
    BY DEF Stage, n
  <1>3. QED
    BY <1>1, <1>2 DEF Stages, n

(* What the script asks for at each stage is an operation.                 *)
LEMMA AskedParts ==
    ASSUME ScriptFits, script.stage \in 1..8
    PROVE  /\ Asked \in Operations
           /\ Asked.kind = Stage
           /\ Stage = "sale" => /\ Asked.lot = script.lot /\ Asked.buyer = MyBuyer
                                /\ Asked.price = MyPrice
           /\ Stage = "report" => Asked.scope = script.auction
  <1> USE StageNames, ScriptAssumption DEF ScriptFits
  <1>1. CASE script.stage = 1
    <2>1. Asked = [kind |-> "seller", email |-> MySeller] /\ Stage = "seller"
      BY <1>1 DEF Asked
    <2>2. QED
      BY <2>1 DEF Operations
  <1>2. CASE script.stage = 2
    <2>1. Asked = [kind |-> "buyer", email |-> MyBuyer] /\ Stage = "buyer"
      BY <1>2 DEF Asked
    <2>2. QED
      BY <2>1 DEF Operations
  <1>3. CASE script.stage = 3
    <2>1. Asked = [kind |-> "auction", rate |-> MyRate] /\ Stage = "auction"
      BY <1>3 DEF Asked
    <2>2. QED
      BY <2>1 DEF Operations
  <1>4. CASE script.stage = 4
    <2>1. /\ Asked = [kind |-> "lot", auction |-> script.auction,
                      seller |-> MySeller, price |-> MyPrice]
          /\ Stage = "lot" /\ script.auction \in Auctions
      BY <1>4 DEF Asked
    <2>2. QED
      BY <2>1 DEF Operations
  <1>5. CASE script.stage = 6
    <2>1. /\ Asked = [kind |-> "sale", lot |-> script.lot, buyer |-> MyBuyer,
                      price |-> MyPrice]
          /\ Stage = "sale" /\ script.lot \in Lots
      BY <1>5 DEF Asked
    <2>2. QED
      BY <2>1 DEF Operations
  <1>6. CASE script.stage = 7
    <2>1. /\ Asked = [kind |-> "report", scope |-> script.auction]
          /\ Stage = "report" /\ script.auction \in Auctions
      BY <1>6 DEF Asked
    <2>2. QED
      BY <2>1 DEF Operations
  <1>7. CASE script.stage \in {5, 8}
    <2>1. /\ Asked = [kind |-> Stage, auction |-> script.auction]
          /\ Stage \in {"open", "close"} /\ script.auction \in Auctions
      BY <1>7 DEF Asked
    <2>2. QED
      BY <2>1 DEF Operations
  <1>8. QED
    BY <1>1, <1>2, <1>3, <1>4, <1>5, <1>6, <1>7

-----------------------------------------------------------------------------
(* The script's requests are requests of AuctionService.                   *)
LEMMA AskIsReceive ==
    ASSUME AInv, NEW r \in Requests, Ask(r)
    PROVE  Receive(r)
  <1>1. script.stage \in 1..8
    BY StageNames DEF Ask, Failed, Accepted, AInv, Script, ScriptFits
  <1>2. QED
    BY <1>1, AskedParts DEF Ask, Receive, AInv, Script

LEMMA StepOfService ==
    ASSUME AInv, [NextAccepting]_allVars
    PROVE  [Next]_vars
  <1>1. ASSUME NEW r \in Requests, Heard(r) \/ Lingers(r) \/ TimesOut(r)
        PROVE  Step(r)
    BY <1>1 DEF Heard, Lingers, TimesOut, Step
  <1>2. CASE UNCHANGED allVars
    BY <1>2 DEF allVars
  <1>3. QED
    BY <1>1, <1>2, AskIsReceive DEF NextAccepting, Proceeds, Breaks, Killed, Next

LEMMA ServiceKeeps ==
    ASSUME AInv, [NextAccepting]_allVars
    PROVE  IInv'
  BY StepOfService, StepKeeps DEF AInv

LEMMA AcceptanceStarts ==
    ASSUME Init, ScriptInit
    PROVE  AInv
  <1>1. IInv
    BY InitKeeps
  <1>2. /\ script = [stage |-> 1, waits |-> NoOne, auction |-> NoAuction, lot |-> NoLot]
        /\ db = EmptyDatabase /\ at = [r \in Requests |-> "idle"]
    BY DEF Init, ScriptInit, ConnectionInit
  <1>3. ScriptFits /\ Awaited /\ \A r \in Requests : Mine(r)
    BY <1>2 DEF ScriptFits, Awaited, Mine
  <1>4. Committed
    BY <1>2 DEF Committed, NoneOpened, EmptyDatabase, SeenIsCommitted
  <1>5. DOMAIN reported = Scopes
    BY DEF Init
  <1>6. QED
    BY <1>1, <1>3, <1>4, <1>5 DEF AInv, Script

-----------------------------------------------------------------------------
(* What an operation leaves as it was.                                     *)
LEMMA OperationLeaves ==
    ASSUME NEW r \in Requests, Consistent(db), op[r] \in Operations, OneOperation(r)
    PROVE  /\ op[r].kind \notin {"open", "close"} /\ NoneOpened(db) => NoneOpened(image)
           /\ IF op[r].kind = "sale"
              THEN /\ NeverSold(db, op[r].lot)
                   /\ image.sales = db.sales \cup
                         {NewSale(db, op[r].lot, op[r].buyer, op[r].price)}
              ELSE image.sales = db.sales
           /\ \A s \in Sellers : db.sellers[s] # "inactive" => image.sellers[s] # "inactive"
           /\ \A l \in Lots : db.lots[l].status # "ABSENT" =>
                 image.lots[l].auction = db.lots[l].auction
           /\ \A a \in Auctions : db.auctions[a].status # "ABSENT" =>
                 image.auctions[a].commission_bps = db.auctions[a].commission_bps
  <1> DEFINE o == op[r]
  <1> USE DatabaseParts, OperationParts DEF Consistent, NoneOpened
  <1>0. /\ \A a \in Auctions : db.auctions[a] \in AuctionRow
        /\ \A l \in Lots : db.lots[l] \in LotRow
    OBVIOUS
  <1>1. CASE o.kind = "open" /\ image = Opened(db, o.auction)
    BY <1>0, <1>1, ImageRows DEF AuctionRow, LotStatus, Turned, SameLot
  <1>2. CASE o.kind = "close" /\ image = Closed(db, o.auction)
    BY <1>0, <1>2, ImageRows DEF AuctionRow, LotStatus, Turned, SameLot
  <1>3. CASE o.kind = "sale" /\ NeverSold(db, o.lot) /\ image = Sold(db, o.lot, o.buyer, o.price)
    BY <1>0, <1>3, ImageRows DEF LotRow, Turned, SameLot
  <1>4. CASE /\ o.kind = "lot"
             /\ \E l \in Lots : /\ db.lots[l].status = "ABSENT"
                                /\ image = LotAdded(db, l, o.auction, o.seller, o.price)
    BY <1>4 DEF LotAdded
  <1>5. CASE /\ o.kind = "auction"
             /\ \E a \in Auctions : /\ db.auctions[a].status = "ABSENT"
                                    /\ image = AuctionAdded(db, a, o.rate)
    BY <1>5 DEF AuctionAdded
  <1>6. CASE o.kind = "seller" /\ image = SellerAdded(db, o.email)
    BY <1>6 DEF SellerAdded
  <1>7. CASE o.kind = "buyer" /\ image = BuyerAdded(db, o.email)
    BY <1>7 DEF BuyerAdded
  <1>8. QED
    BY <1>1, <1>2, <1>3, <1>4, <1>5, <1>6, <1>7 DEF OneOperation

(* The question the script waits to have answered is one of its own.       *)
LEMMA SameQuestion ==
    ASSUME script'.stage = script.stage, script'.auction = script.auction,
           script'.lot = script.lot
    PROVE  Asked' = Asked /\ Stage' = Stage
  BY DEF Asked, Stage

(* The one request ahead of the script, which holds the lock, leaves all   *)
(* others but the awaited one at rest.                                     *)
LEMMA OthersRest ==
    ASSUME AInv, NEW r \in Requests, writer = r, NEW q \in Requests, q # r, ~Waiting(q)
    PROVE  at[q] = "idle"
  BY DEF AInv, IInv, WriterIsolated, Isolated, Script, Awaited, Waiting

(* Nothing moves that the script or its requests are about.                *)
LEMMA NothingMoves ==
    ASSUME AInv, UNCHANGED <<db, at, op, script, reported>>
    PROVE  Script'
  <1>1. SeenIsCommitted'
    BY DEF AInv, Script, Committed, SeenIsCommitted
  <1>2. Asked' = Asked
    BY SameQuestion
  <1>3. QED
    BY <1>1, <1>2 DEF AInv, Script, ScriptFits, Awaited, Committed, Mine, NoneOpened

(* A script that has failed asks for nothing more.                         *)
LEMMA FailedScript ==
    ASSUME ScriptFits, Fails
    PROVE  /\ script'.stage = 0 /\ script'.waits = NoOne
           /\ script'.auction = script.auction /\ script'.lot = script.lot
           /\ ScriptFits'
  <1>1. /\ script' = [script EXCEPT !.stage = 0, !.waits = NoOne]
        /\ script \in [stage : 0..9, waits : Requests \cup {NoOne},
                       auction : Auctions \cup {NoAuction}, lot : Lots \cup {NoLot}]
    BY DEF Fails, ScriptFits
  <1>2. /\ script'.stage = 0 /\ script'.waits = NoOne
        /\ script'.auction = script.auction /\ script'.lot = script.lot
        /\ script' \in [stage : 0..9, waits : Requests \cup {NoOne},
                        auction : Auctions \cup {NoAuction}, lot : Lots \cup {NoLot}]
    <2> DEFINE mid == [script EXCEPT !.stage = 0]
    <2>1. /\ mid.stage = 0 /\ mid.auction = script.auction /\ mid.lot = script.lot
          /\ mid \in [stage : 0..9, waits : Requests \cup {NoOne},
                     auction : Auctions \cup {NoAuction}, lot : Lots \cup {NoLot}]
      BY <1>1
    <2>2. script' = [mid EXCEPT !.waits = NoOne]
      BY <1>1
    <2> HIDE DEF mid
    <2>3. QED
      BY <2>1, <2>2
  <1>3. ~(script'.stage >= 4) /\ ~(script'.stage >= 5)
    BY <1>2
  <1>4. ScriptFits'
    BY <1>2, <1>3 DEF ScriptFits
  <1>5. QED
    BY <1>2, <1>4

(* A request that ends without an answer the script can use: it gives up,  *)
(* unless it had its answer before.                                        *)
LEMMA GivesUp ==
    ASSUME AInv, NEW r \in Requests, Leave(r), UNCHANGED db, DOMAIN reported' = Scopes,
           Disturbs(r)
    PROVE  Script'
  <1> USE DEF AInv, Script
  <1>1. TypeOK /\ ScriptFits /\ NoOne \notin Requests
    BY NoOneAssumption DEF IInv
  <1>2. /\ at'[r] = "idle"
        /\ \A q \in Requests \ {r} : at'[q] = at[q] /\ op'[q] = op[q]
    BY <1>1 DEF Leave, TypeOK
  <1>3. CASE Waiting(r)
    <2>1. Fails
      BY <1>3 DEF Disturbs
    <2>2. /\ script'.stage = 0 /\ script'.waits = NoOne
          /\ script'.auction = script.auction /\ script'.lot = script.lot
          /\ ScriptFits'
      BY <1>1, <2>1, FailedScript
    <2>3. Awaited'
      BY <1>1, <1>2, <1>3, <2>2 DEF Awaited, Waiting
    <2>4. Committed'
      BY <2>2 DEF Committed, SeenIsCommitted
    <2>5. \A q \in Requests : Mine(q)'
      BY <1>2, <2>2 DEF Mine, NoneOpened
    <2>6. QED
      BY <2>2, <2>3, <2>4, <2>5
  <1>4. CASE ~Waiting(r)
    <2>1. UNCHANGED script
      BY <1>4 DEF Disturbs
    <2>2. Asked' = Asked
      BY <2>1, SameQuestion
    <2>3. script.waits # NoOne => script.waits \in Requests \ {r}
      BY <1>1, <1>4 DEF ScriptFits, Waiting
    <2>4. Awaited'
      BY <1>1, <1>2, <2>1, <2>2, <2>3 DEF Awaited
    <2>5. Committed'
      BY <2>1 DEF Committed, SeenIsCommitted, NoneOpened
    <2>6. \A q \in Requests : Mine(q)'
      BY <1>2, <2>1 DEF Mine, NoneOpened
    <2>7. QED
      BY <2>1, <2>4, <2>5, <2>6 DEF ScriptFits
  <1>5. QED
    BY <1>3, <1>4

(* A restart ends every request, the awaited one unanswered.               *)
LEMMA KilledKeeps ==
    ASSUME AInv, Killed
    PROVE  Script'
  <1> USE DEF AInv, Script
  <1>1. /\ UNCHANGED <<db, reported>>
        /\ at' = [r \in Requests |-> "idle"]
    BY DEF Killed, Crash, LoseTransactions, history
  <1>2. ScriptFits' /\ script'.waits = NoOne
    <2>1. CASE Waiting(NoOne)
      BY <2>1 DEF Killed, ScriptFits, Waiting
    <2>2. CASE ~Waiting(NoOne)
      BY <2>2, FailedScript DEF Killed
    <2>3. QED
      BY <2>1, <2>2
  <1>3. \A r \in Requests : Mine(r)'
    BY <1>1 DEF Mine
  <1>4. Awaited'
    BY <1>1, <1>2 DEF Awaited
  <1>5. Committed'
    <2>1. CASE Waiting(NoOne)
      BY <1>1, <2>1 DEF Killed, Committed, SeenIsCommitted, NoneOpened
    <2>2. CASE ~Waiting(NoOne)
      BY <1>1, <2>2, FailedScript DEF Killed, Committed, SeenIsCommitted
    <2>3. QED
      BY <2>1, <2>2
  <1>6. QED
    BY <1>1, <1>2, <1>3, <1>4, <1>5

(* The next request finds the others answered.                             *)
LEMMA AskKeeps ==
    ASSUME AInv, NEW r \in Requests, Ask(r)
    PROVE  Script'
  <1> USE DEF AInv, Script
  <1>1. /\ TypeOK /\ ScriptFits /\ NoOne \notin Requests /\ script.waits = NoOne
        /\ UNCHANGED <<db, reported>>
    BY NoOneAssumption DEF IInv, Ask, connection, history, Waiting
  <1>2. script.stage \in 1..8
    BY StageNames DEF Ask, Failed, Accepted, ScriptFits
  <1>3. /\ script'.stage = script.stage /\ script'.waits = r
        /\ script'.auction = script.auction /\ script'.lot = script.lot
        /\ ScriptFits'
    BY <1>1 DEF Ask, ScriptFits
  <1>4. Asked' = Asked
    BY <1>3, SameQuestion
  <1>5. /\ at'[r] = FirstLabel(Asked) /\ op'[r] = Asked
        /\ \A q \in Requests \ {r} : at'[q] = at[q] /\ op'[q] = op[q]
    BY <1>1 DEF Ask, TypeOK
  <1>6. Awaited'
    BY <1>1, <1>2, <1>3, <1>4, <1>5 DEF Awaited, FirstLabel
  <1>7. Committed'
    BY <1>1, <1>3 DEF Committed, SeenIsCommitted, NoneOpened
  <1>8. Mine(r)'
    <2>1. Asked.kind = Stage
      BY <1>2, AskedParts
    <2>2. Asked.kind = "lot" => NoneOpened(db)
      BY <1>2, <2>1, StageNames DEF Committed
    <2>3. QED
      BY <1>1, <1>2, <1>3, <1>5, <2>1, <2>2, AskedParts, StageNames DEF Mine, NoneOpened
  <1>9. \A q \in Requests \ {r} : Mine(q)'
    BY <1>1, <1>3, <1>5 DEF Mine, NoneOpened
  <1>10. QED
    BY <1>1, <1>3, <1>6, <1>7, <1>8, <1>9

(* The awaited request takes a step towards its answer.                    *)
LEMMA ForwardKeeps ==
    ASSUME AInv, NEW r \in Requests, Waiting(r), UNCHANGED script,
           Begin(r) \/ Pass(r) \/ WriteFirst(r) \/ WriteRows(r)
    PROVE  Script'
  <1> USE DEF AInv, Script
  <1>1. TypeOK /\ ScriptFits /\ script.waits = r /\ NoOne \notin Requests
    BY NoOneAssumption DEF IInv, Waiting
  <1>2. /\ UNCHANGED <<db, op, reported>>
        /\ \E label \in {"check", "seller", "first", "write", "answer"} :
              at' = [at EXCEPT ![r] = label]
    <2>1. CASE Begin(r)
      BY <2>1 DEF Begin, BeginImmediate, Goto, history
    <2>2. CASE Pass(r)
      BY <2>2 DEF Pass, Goto, NextLabel, connection, history
    <2>3. CASE WriteRows(r)
      BY <2>3, WriteIsOneOperation
    <2>4. CASE WriteFirst(r)
      BY <2>4, FirstBegins
    <2>5. QED
      BY <2>1, <2>2, <2>3, <2>4
  <1>3. /\ at'[r] \in {"check", "seller", "first", "write", "answer"}
        /\ \A q \in Requests \ {r} : at'[q] = at[q]
    BY <1>1, <1>2 DEF TypeOK
  <1>4. at[r] # "idle"
    BY <1>1 DEF Awaited
  <1>5. Asked' = Asked
    BY SameQuestion
  <1>6. Awaited'
    BY <1>1, <1>2, <1>3, <1>5 DEF Awaited
  <1>7. Committed'
    BY <1>2 DEF Committed, SeenIsCommitted, NoneOpened
  <1>8. \A q \in Requests : Mine(q)'
    BY <1>2, <1>3, <1>4 DEF Mine, NoneOpened
  <1>9. QED
    BY <1>2, <1>6, <1>7, <1>8 DEF ScriptFits

(* What the script knows after it has gone on.                             *)
LEMMA NextStage ==
    ASSUME ScriptFits, script.stage \in 1..8, NEW r, GoOn(r),
           Stage = "auction" => NewAuction(r) \in Auctions,
           Stage = "lot" => NewLot(r) \in Lots
    PROVE  /\ script'.stage = script.stage + 1 /\ script'.waits = NoOne
           /\ Stage # "auction" => script'.auction = script.auction
           /\ Stage # "lot" => script'.lot = script.lot
           /\ ScriptFits'
  <1> DEFINE Place == [stage : 0..9, waits : Requests \cup {NoOne},
                       auction : Auctions \cup {NoAuction}, lot : Lots \cup {NoLot}]
             a == IF Stage = "auction" THEN NewAuction(r) ELSE script.auction
             l == IF Stage = "lot" THEN NewLot(r) ELSE script.lot
             moved == [script EXCEPT !.stage = @ + 1]
             heard == [moved EXCEPT !.waits = NoOne]
             named == [heard EXCEPT !.auction = a]
  <1>1. /\ script \in Place
        /\ a \in Auctions \cup {NoAuction} /\ l \in Lots \cup {NoLot}
    BY DEF ScriptFits
  <1>2. script' = [named EXCEPT !.lot = l]
    BY <1>1 DEF GoOn
  <1> HIDE DEF a, l
  <1>3. /\ moved.stage = script.stage + 1 /\ moved.lot = script.lot
        /\ moved \in Place
    BY <1>1
  <1> HIDE DEF moved
  <1>4. /\ heard.stage = script.stage + 1 /\ heard.lot = script.lot
        /\ heard.waits = NoOne /\ heard \in Place
    BY <1>3
  <1> HIDE DEF heard
  <1>5. /\ named.stage = script.stage + 1
        /\ named.waits = NoOne /\ named.auction = a /\ named \in Place
    BY <1>1, <1>4
  <1> HIDE DEF named
  <1>6. /\ script'.stage = script.stage + 1 /\ script'.waits = NoOne
        /\ script'.auction = a /\ script'.lot = l /\ script' \in Place
    BY <1>1, <1>2, <1>5
  <1>7. script'.stage >= 4 => script'.auction \in Auctions
    BY <1>6, StageNames DEF ScriptFits, a
  <1>8. script'.stage >= 5 => script'.lot \in Lots
    BY <1>6, StageNames DEF ScriptFits, l
  <1>9. QED
    BY <1>6, <1>7, <1>8 DEF ScriptFits, a, l

(* The 201 of a handler that made a row names one.                         *)
LEMMA AnswerNamesRow ==
    ASSUME AInv, NEW r \in Requests, Answer(r)
    PROVE  /\ op[r].kind = "auction" => NewAuction(r) \in Auctions
           /\ op[r].kind = "lot" => NewLot(r) \in Lots
  <1>1. /\ db \in Database /\ OneOperation(r)
    BY DEF AInv, IInv, TypeOK, WriterIsolated, Isolated, Answer
  <1>2. ASSUME op[r].kind = "auction"
        PROVE  NewAuction(r) \in Auctions
    <2>1. PICK a \in Auctions : /\ db.auctions[a].status = "ABSENT"
                                /\ image = AuctionAdded(db, a, op[r].rate)
      BY <1>1, <1>2 DEF OneOperation
    <2>2. image.auctions[a].status # "ABSENT"
      BY <1>1, <2>1, DatabaseParts DEF AuctionAdded
    <2>3. QED
      BY <2>1, <2>2 DEF NewAuction
  <1>3. ASSUME op[r].kind = "lot"
        PROVE  NewLot(r) \in Lots
    <2>1. PICK l \in Lots :
            /\ db.lots[l].status = "ABSENT"
            /\ image = LotAdded(db, l, op[r].auction, op[r].seller, op[r].price)
      BY <1>1, <1>3 DEF OneOperation
    <2>2. image.lots[l].status # "ABSENT"
      BY <1>1, <2>1, DatabaseParts DEF LotAdded
    <2>3. QED
      BY <2>1, <2>2 DEF NewLot
  <1>4. QED
    BY <1>2, <1>3

(* The script has its answer and asks for the next operation, though the   *)
(* commit is still to come.                                                *)
LEMMA AnsweredKeeps ==
    ASSUME AInv, NEW r \in Requests, Waiting(r), Answer(r), GoOn(r)
    PROVE  Script'
  <1> USE DEF AInv, Script
  <1>1. /\ TypeOK /\ ScriptFits /\ script.waits = r /\ NoOne \notin Requests
        /\ script.stage \in 1..8 /\ op[r] = Asked
    BY NoOneAssumption DEF IInv, Waiting, Awaited
  <1>2. /\ at[r] = "answer" /\ writer = r /\ op[r].kind # "report"
        /\ UNCHANGED <<db, op, reported>>
        /\ at'[r] = "commit"
        /\ \A q \in Requests \ {r} : at'[q] = at[q]
    BY <1>1 DEF Answer, Goto, connection, TypeOK, IInv, Fits, WriterIsolated, Isolated
  <1>3. op[r].kind = Stage /\ script.stage # 7
    BY <1>1, <1>2, AskedParts, StageNames
  <1>4. /\ script'.stage = script.stage + 1 /\ script'.waits = NoOne
        /\ Stage # "auction" => script'.auction = script.auction
        /\ Stage # "lot" => script'.lot = script.lot
        /\ ScriptFits'
    BY <1>1, <1>3, NextStage, AnswerNamesRow
  <1>5. \A q \in Requests \ {r} : at[q] = "idle"
    BY <1>1, <1>2, OthersRest DEF Waiting
  <1>6. Awaited'
    BY <1>2, <1>4, <1>5 DEF Awaited
  <1>7. Committed'
    <2>1. /\ script'.stage \in 1..4 => NoneOpened(db)
          /\ script'.stage \in 1..5 => db.sales = {}
      BY <1>1, <1>3, <1>4, StageNames DEF Committed
    <2>2. \A s \in db.sales : s.lot = script'.lot
      BY <1>1, <1>3, <1>4, StageNames DEF Committed
    <2>3. SeenIsCommitted'
      BY <1>1, <1>2, <1>3, <1>4, StageNames DEF Committed, SeenIsCommitted
    <2>4. QED
      BY <1>2, <2>1, <2>2, <2>3 DEF Committed, NoneOpened
  <1>8. Mine(r)'
    <2>1. script.stage = 6 => Asked.lot = script.lot
      BY <1>1, AskedParts, StageNames
    <2>2. Mine(r)
      OBVIOUS
    <2>3. QED
      BY <1>1, <1>2, <1>3, <1>4, <2>1, <2>2, StageNames DEF Mine, NoneOpened
  <1>9. \A q \in Requests \ {r} : Mine(q)'
    BY <1>2, <1>5 DEF Mine
  <1>10. QED
    BY <1>2, <1>4, <1>6, <1>7, <1>8, <1>9

(* A report that says one sale of the right price and commission is about  *)
(* the script's own sale, and the database it read is committed.           *)
LEMMA ReportShowsSale ==
    ASSUME Consistent(db), ScriptFits, script.stage = 7, Committed,
           Expected(revenue_report(db, script.auction))
    PROVE  /\ NewSale(db, script.lot, MyBuyer, MyPrice) \in db.sales
           /\ db.lots[script.lot].auction = script.auction
  <1> DEFINE rows == ReportedSales(db, script.auction)
  <1>1. script.auction \in Auctions /\ script.lot \in Lots
    BY DEF ScriptFits
  <1>2. Cardinality(rows) = 1
    BY DEF Expected, revenue_report
  <1>3. rows # {}
    BY <1>2, FS_EmptySet
  <1>4. PICK s \in db.sales : script.auction \in {NoAuction, db.lots[s.lot].auction}
    BY <1>3 DEF ReportedSales
  <1>5. /\ s.lot = script.lot /\ s.buyer = MyBuyer /\ s.price = MyPrice
        /\ db.lots[script.lot].auction = script.auction
    BY <1>1, <1>4, NoRowAssumption DEF Committed
  <1>6. /\ s \in SaleRow
        /\ s.commission = commission_kopecks(MyPrice,
                             db.auctions[script.auction].commission_bps)
    BY <1>5, DatabaseParts DEF Consistent, LedgerAgrees
  <1>7. s = NewSale(db, script.lot, MyBuyer, MyPrice)
    BY <1>5, <1>6 DEF NewSale, SaleRow
  <1>8. QED
    BY <1>5, <1>7

(* The script has seen its sale in the report.                             *)
LEMMA SeenKeeps ==
    ASSUME AInv, NEW r \in Requests, Waiting(r), Report(r), GoOn(r),
           Expected(reported'[script.auction])
    PROVE  Script'
  <1> USE DEF AInv, Script
  <1>1. /\ TypeOK /\ ScriptFits /\ script.waits = r /\ NoOne \notin Requests
        /\ script.stage \in 1..8 /\ op[r] = Asked /\ Consistent(db)
    BY NoOneAssumption DEF IInv, Waiting, Awaited
  <1>2. /\ at[r] = "report" /\ View(r) = db /\ op[r].kind = "report"
        /\ UNCHANGED db
        /\ reported' = [reported EXCEPT ![op[r].scope] = revenue_report(View(r), op[r].scope)]
        /\ at'[r] = "idle"
        /\ \A q \in Requests \ {r} : at'[q] = at[q] /\ op'[q] = op[q]
    BY <1>1 DEF Report, Leave, connection, TypeOK, IInv, Fits, WriterIsolated, Isolated, View
  <1>3. script.stage = 7 /\ op[r].scope = script.auction /\ script.auction \in Scopes
    BY <1>1, <1>2, AskedParts, StageNames DEF ScriptFits, Scopes
  <1>4. Expected(revenue_report(db, script.auction)) /\ DOMAIN reported' = Scopes
    BY <1>2, <1>3
  <1>5. /\ script'.stage = 8 /\ script'.waits = NoOne
        /\ script'.auction = script.auction /\ script'.lot = script.lot
        /\ ScriptFits'
    BY <1>1, <1>3, NextStage, StageNames
  <1>6. Awaited'
    BY <1>1, <1>2, <1>5 DEF Awaited
  <1>7. SeenIsCommitted'
    BY <1>1, <1>2, <1>3, <1>4, <1>5, ReportShowsSale DEF SeenIsCommitted
  <1>8. Committed'
    BY <1>2, <1>5, <1>7 DEF Committed
  <1>9. \A q \in Requests : Mine(q)'
    BY <1>2, <1>3, <1>5 DEF Mine, NoneOpened
  <1>10. QED
    BY <1>4, <1>5, <1>6, <1>8, <1>9

(* The commit of an operation answered before.                             *)
LEMMA LingersKeeps ==
    ASSUME AInv, NEW r \in Requests, Lingers(r)
    PROVE  Script'
  <1> USE DEF AInv, Script
  <1> DEFINE o == op[r]
  <1>1. /\ TypeOK /\ ScriptFits /\ Consistent(db) /\ Committed /\ Mine(r)
        /\ NoOne \notin Requests /\ UNCHANGED <<script, reported>>
        /\ at[r] = "commit" /\ script.waits # r
    BY NoOneAssumption DEF IInv, Lingers, Waiting, Finish, history
  <1>2. /\ writer = r /\ db' = image /\ OneOperation(r) /\ op[r] \in Operations
    BY FinishCommits DEF Lingers
  <1>3. /\ at'[r] = "idle"
        /\ \A q \in Requests \ {r} : at'[q] = at[q] /\ op'[q] = op[q]
    BY <1>1 DEF Lingers, Finish, Leave, TypeOK
  <1>4. \A q \in Requests : at[q] # "idle" => q = r \/ script.waits = q
    BY <1>2, OthersRest DEF Waiting
  <1>5. /\ o.kind \notin {"open", "close"} /\ NoneOpened(db) => NoneOpened(db')
        /\ IF o.kind = "sale"
           THEN /\ NeverSold(db, o.lot)
                /\ db'.sales = db.sales \cup {NewSale(db, o.lot, o.buyer, o.price)}
           ELSE db'.sales = db.sales
        /\ \A s \in Sellers : db.sellers[s] # "inactive" => db'.sellers[s] # "inactive"
        /\ \A l \in Lots : db.lots[l].status # "ABSENT" =>
              db'.lots[l].auction = db.lots[l].auction
        /\ \A a \in Auctions : db.auctions[a].status # "ABSENT" =>
              db'.auctions[a].commission_bps = db.auctions[a].commission_bps
    BY <1>1, <1>2, OperationLeaves
  <1>6. Asked' = Asked
    BY <1>1, SameQuestion
  <1>7. Awaited'
    BY <1>1, <1>3, <1>6 DEF Awaited, ScriptFits
  <1>8. SeenIsCommitted'
    <2> SUFFICES ASSUME script.stage > 7
                 PROVE  /\ NewSale(db', script.lot, MyBuyer, MyPrice) \in db'.sales
                        /\ db'.lots[script.lot].auction = script.auction
                        /\ Expected(revenue_report(db', script.auction))
      BY <1>1 DEF SeenIsCommitted
    <2> DEFINE sale == NewSale(db, script.lot, MyBuyer, MyPrice)
    <2>1. /\ script.lot \in Lots /\ script.auction \in Auctions /\ sale \in db.sales
          /\ db.lots[script.lot].auction = script.auction
          /\ Expected(revenue_report(db, script.auction))
      BY <1>1 DEF ScriptFits, Committed, SeenIsCommitted
    <2>2. script.lot \in SoldLots(db) /\ script.lot = sale.lot
      BY <2>1 DEF SoldLots, NewSale
    <2>3. o.kind # "sale"
      BY <1>1, <1>5, <2>2 DEF Mine, NeverSold
    <2>4. db'.sales = db.sales
      BY <1>5, <2>3
    <2>5. /\ db.lots[script.lot].status = "SOLD"
          /\ db.auctions[script.auction].status # "ABSENT"
      BY <1>1, <2>1, <2>2 DEF Consistent, LedgerAgrees, PhaseAgrees
    <2>6. /\ db'.lots[script.lot].auction = script.auction
          /\ db'.auctions[script.auction].commission_bps =
                db.auctions[script.auction].commission_bps
      BY <1>5, <2>1, <2>5
    <2>7. NewSale(db', script.lot, MyBuyer, MyPrice) = sale
      BY <2>1, <2>6 DEF NewSale
    <2>8. \A s \in db.sales : db'.lots[s.lot].auction = db.lots[s.lot].auction
      BY <1>1, <2>1, <2>6 DEF Committed
    <2>9. ReportedSales(db', script.auction) = ReportedSales(db, script.auction)
      BY <2>4, <2>8 DEF ReportedSales
    <2>10. revenue_report(db', script.auction) = revenue_report(db, script.auction)
      BY <2>9 DEF revenue_report
    <2>11. QED
      BY <2>1, <2>4, <2>6, <2>7, <2>10
  <1>9. Committed'
    <2>1. script.stage \in 1..4 => NoneOpened(db')
      BY <1>1, <1>5 DEF Committed, Mine
    <2>2. script.stage \in 1..5 => db'.sales = {}
      BY <1>1, <1>5 DEF Committed, Mine
    <2>3. \A s \in db'.sales : s.lot = script.lot /\ s.buyer = MyBuyer /\ s.price = MyPrice
      <3>1. o.kind = "sale" =>
              LET new == NewSale(db, o.lot, o.buyer, o.price)
              IN  new.lot = script.lot /\ new.buyer = MyBuyer /\ new.price = MyPrice
        BY <1>1 DEF Mine, NewSale
      <3>2. QED
        BY <1>1, <1>5, <3>1 DEF Committed
    <2>4. \A s \in Sellers : db'.sellers[s] # "inactive"
      BY <1>1, <1>5 DEF Committed
    <2>5. QED
      BY <1>1, <1>8, <2>1, <2>2, <2>3, <2>4 DEF Committed, NoneOpened
  <1>10. ASSUME NEW q \in Requests
         PROVE  Mine(q)'
    <2>1. CASE q = r
      BY <1>3, <2>1 DEF Mine
    <2>2. CASE q # r /\ at[q] = "idle"
      BY <1>3, <2>2 DEF Mine
    <2>3. CASE q # r /\ at[q] # "idle"
      <3>1. script.stage \in 1..8 /\ op[q] = Asked /\ Mine(q)
        BY <1>1, <1>4, <2>3 DEF Awaited
      <3>2. op[q].kind = "lot" => script.stage = 4
        BY <1>1, <3>1, AskedParts, StageNames
      <3>3. op[q].kind = "lot" => NoneOpened(db')
        BY <1>1, <1>5, <3>2 DEF Committed, Mine
      <3>4. QED
        BY <1>1, <1>3, <2>3, <3>1, <3>3 DEF Mine, NoneOpened
    <2>4. QED
      BY <2>1, <2>2, <2>3
  <1>11. QED
    BY <1>1, <1>7, <1>9, <1>10 DEF ScriptFits

(* Every step of the script, of the service or of both keeps the invariant. *)
LEMMA AcceptingKeeps ==
    ASSUME AInv, [NextAccepting]_allVars
    PROVE  AInv'
  <1> SUFFICES Script'
    BY ServiceKeeps DEF AInv
  <1>1. DOMAIN reported = Scopes
    BY DEF AInv, Script
  <1>2. ASSUME NEW r \in Requests, Ask(r)
        PROVE  Script'
    BY <1>2, AskKeeps
  <1>3. ASSUME NEW r \in Requests, Heard(r)
        PROVE  Script'
    <2>1. Waiting(r)
      BY <1>3 DEF Heard
    <2>2. CASE Answer(r) /\ GoOn(r)
      BY <2>1, <2>2, AnsweredKeeps
    <2>3. CASE Report(r) /\ Expected(reported'[script.auction]) /\ GoOn(r)
      BY <2>1, <2>3, SeenKeeps
    <2>4. CASE Report(r) /\ Fails
      BY <1>1, <2>1, <2>4, GivesUp DEF Report, connection, Disturbs
    <2>5. CASE Refuse(r) /\ Fails
      BY <1>1, <2>1, <2>5, GivesUp DEF Refuse, Rollback, history, Disturbs
    <2>6. CASE (Begin(r) \/ Pass(r) \/ WriteFirst(r) \/ WriteRows(r)) /\ UNCHANGED script
      BY <2>1, <2>6, ForwardKeeps
    <2>7. QED
      BY <1>3, <2>2, <2>3, <2>4, <2>5, <2>6 DEF Heard
  <1>4. ASSUME NEW r \in Requests, Lingers(r)
        PROVE  Script'
    BY <1>4, LingersKeeps
  <1>5. ASSUME NEW r \in Requests, TimesOut(r) \/ Breaks(r)
        PROVE  Script'
    <2>1. Leave(r) /\ Disturbs(r) /\ UNCHANGED <<db, reported>>
      BY <1>5 DEF TimesOut, Breaks, Unavailable, WaitTimesOut, CommitFails, CommitTimesOut,
                  StorageError, Rollback, connection, history
    <2>2. QED
      BY <1>1, <2>1, GivesUp
  <1>6. CASE Killed
    BY <1>6, KilledKeeps
  <1>7. CASE Backup /\ UNCHANGED script
    BY <1>7, NothingMoves DEF Backup, StartCopy, EndCopy, history
  <1>8. CASE UNCHANGED allVars
    BY <1>8, NothingMoves DEF allVars, vars, connection, history
  <1>9. QED
    BY <1>2, <1>3, <1>4, <1>5, <1>6, <1>7, <1>8 DEF NextAccepting, Proceeds

(* The inductive invariant of the acceptance.                              *)
THEOREM AcceptanceInvariance == SpecAccepting => []AInv
  BY AcceptanceStarts, AcceptingKeeps, PTL DEF SpecAccepting

(* A release that is accepted did the sale, whatever crashed on the way.   *)
THEOREM AcceptedSaleIsCommitted == SpecAccepting => []SeenIsCommitted
  <1>1. AInv => SeenIsCommitted
    BY DEF AInv, Script, Committed
  <1>2. QED
    BY <1>1, AcceptanceInvariance, PTL

-----------------------------------------------------------------------------
(* A lot is committed while its auction is still a draft and its seller    *)
(* active: the script asks for the opening only after the answer, and the  *)
(* opening then waits for the lock the lot holds.                          *)
LEMMA CommitIsDocumented ==
    ASSUME AInv, NEW r \in Requests, Lingers(r)
    PROVE  Serial!DocumentedNext
  <1> DEFINE o == op[r]
  <1>1. /\ Mine(r) /\ Committed /\ db \in Database /\ at[r] = "commit"
    BY DEF AInv, Script, IInv, TypeOK, Lingers, Finish
  <1>2. /\ db' = image /\ OneOperation(r) /\ op[r] \in Operations
    BY FinishCommits DEF Lingers, AInv
  <1> USE OperationParts, SameRules, SameEffects DEF Serial!DocumentedNext
  <1>3. CASE \/ o.kind = "open" /\ CanOpen(db, o.auction) /\ image = Opened(db, o.auction)
             \/ o.kind = "close" /\ CanClose(db, o.auction) /\ image = Closed(db, o.auction)
    BY <1>2, <1>3 DEF Serial!Trading, Serial!OpenAuction, Serial!CloseAuction
  <1>4. CASE /\ o.kind = "sale" /\ CanSell(db, o.lot, o.buyer, o.price)
             /\ NeverSold(db, o.lot) /\ image = Sold(db, o.lot, o.buyer, o.price)
    BY <1>2, <1>4 DEF Serial!Trading, Serial!CreateSale
  <1>5. CASE /\ o.kind = "lot" /\ db.auctions[o.auction].status # "ABSENT"
             /\ db.sellers[o.seller] # "none"
             /\ \E l \in Lots : /\ db.lots[l].status = "ABSENT"
                                /\ image = LotAdded(db, l, o.auction, o.seller, o.price)
    <2>1. o.auction \in Auctions /\ o.seller \in Sellers /\ o.price \in Prices
      BY <1>2, <1>5
    <2>2. db.auctions[o.auction].status = "DRAFT"
      BY <1>1, <1>5, <2>1 DEF Mine, NoneOpened
    <2>3. db.sellers[o.seller] = "active"
      BY <1>1, <1>5, <2>1, DatabaseParts DEF Committed, Activity
    <2>4. \E l \in Lots : Serial!CreateLot(l, o.auction, o.seller, o.price)
      BY <1>2, <1>5, <2>2, <2>3
         DEF Serial!CreateLot, Serial!AuctionEditable, Serial!SellerActive
    <2>5. QED
      BY <2>1, <2>4
  <1>6. CASE /\ o.kind = "auction"
             /\ \E a \in Auctions : /\ db.auctions[a].status = "ABSENT"
                                    /\ image = AuctionAdded(db, a, o.rate)
    BY <1>2, <1>6 DEF Serial!CreateAuction
  <1>7. CASE \/ /\ o.kind = "seller" /\ SellerUnknown(db, o.email)
                /\ image = SellerAdded(db, o.email)
             \/ /\ o.kind = "buyer" /\ BuyerUnknown(db, o.email)
                /\ image = BuyerAdded(db, o.email)
    BY <1>2, <1>7 DEF Serial!Participants, Serial!CreateSeller, Serial!CreateBuyer
  <1>8. QED
    BY <1>2, <1>3, <1>4, <1>5, <1>6, <1>7 DEF OneOperation

(* The awaited request commits nothing, nor does anything but a commit.    *)
LEMMA OnlyCommits ==
    ASSUME AInv, [NextAccepting]_allVars, db' # db
    PROVE  \E r \in Requests : Lingers(r)
  <1>1. ASSUME NEW r \in Requests, Ask(r)
        PROVE  UNCHANGED db
    BY <1>1 DEF Ask, connection
  <1>2. ASSUME NEW r \in Requests, Heard(r)
        PROVE  UNCHANGED db
    <2>1. CASE WriteRows(r)
      BY <2>1, WriteIsOneOperation DEF AInv
    <2>2. CASE ~WriteRows(r)
      BY <1>2, <2>2 DEF Heard, Answer, Report, Refuse, Rollback, Begin, BeginImmediate, Pass,
                        WriteFirst, Execute, connection
    <2>3. QED
      BY <2>1, <2>2
  <1>3. ASSUME NEW r \in Requests, TimesOut(r) \/ Breaks(r)
        PROVE  UNCHANGED db
    BY <1>3 DEF TimesOut, Breaks, Unavailable, WaitTimesOut, CommitFails, CommitTimesOut,
                StorageError, Rollback, connection
  <1>4. CASE Killed \/ Backup \/ UNCHANGED allVars
    BY <1>4 DEF Killed, Crash, LoseTransactions, Backup, StartCopy, EndCopy, allVars, vars,
                connection
  <1>5. QED
    BY <1>1, <1>2, <1>3, <1>4 DEF NextAccepting, Proceeds

(* For a client that waits for each answer every rule of the documentation *)
(* holds at the commit, that of create_lot too.                            *)
THEOREM DocumentedForOneClient == SpecAccepting => RefinesDocumented
  <1>1. Init => Serial!Init
    BY SameEffects DEF Init, ConnectionInit, Serial!Init
  <1>2. AInv /\ [NextAccepting]_allVars => [Serial!DocumentedNext]_db
    BY OnlyCommits, CommitIsDocumented
  <1>3. QED
    BY <1>1, <1>2, AcceptanceInvariance, PTL
       DEF SpecAccepting, RefinesDocumented, Serial!Documented

-----------------------------------------------------------------------------
(* 5. Reports.                                                             *)

Figures == [sales_count : Nat, gross_revenue : Nat, commission_revenue : Nat]

AtMost(x, y) ==
    /\ x.sales_count <= y.sales_count
    /\ x.gross_revenue <= y.gross_revenue
    /\ x.commission_revenue <= y.commission_revenue

(* No report a client has is ahead of the committed database.              *)
NotAhead ==
    /\ IsFiniteSet(db.sales)
    /\ reported \in [Scopes -> Figures]
    /\ \A a \in Scopes : AtMost(reported[a], revenue_report(db, a))

(* The figures of a report, and the report of a database whose sales and   *)
(* their auctions are all in another.                                      *)
LEMMA ReportsGrowWithSales ==
    ASSUME NEW d, NEW e, d.sales \subseteq e.sales, e.sales \subseteq SaleRow,
           IsFiniteSet(e.sales),
           \A s \in d.sales : e.lots[s.lot].auction = d.lots[s.lot].auction,
           NEW a
    PROVE  /\ revenue_report(d, a) \in Figures
           /\ revenue_report(e, a) \in Figures
           /\ AtMost(revenue_report(d, a), revenue_report(e, a))
  <1>1. ReportedSales(d, a) \subseteq ReportedSales(e, a)
    BY DEF ReportedSales
  <1>2. ReportedSales(e, a) \in SUBSET SaleRow /\ IsFiniteSet(ReportedSales(e, a))
    BY FS_Subset DEF ReportedSales
  <1> DEFINE few == ReportedSales(d, a)  all == ReportedSales(e, a)
  <1>3. /\ revenue_report(d, a) = [sales_count |-> Cardinality(few),
              gross_revenue |-> SumOfPrices(few), commission_revenue |-> SumOfCommissions(few)]
        /\ revenue_report(e, a) = [sales_count |-> Cardinality(all),
              gross_revenue |-> SumOfPrices(all), commission_revenue |-> SumOfCommissions(all)]
    BY DEF revenue_report
  <1> HIDE DEF few, all
  <1>4. few \subseteq all /\ all \in SUBSET SaleRow /\ IsFiniteSet(all)
    BY <1>1, <1>2 DEF few, all
  <1>5. QED
    BY <1>3, <1>4, FewerRowsFewerKopecks DEF Figures, AtMost

(* A committed sale stays, in its auction, and at most one joins at a time. *)
LEMMA SalesStay ==
    ASSUME IInv, [Next]_vars
    PROVE  /\ db'.sales \subseteq SaleRow
           /\ \/ db'.sales = db.sales
              \/ \E row : db'.sales = db.sales \cup {row}
           /\ \A s \in db.sales : db'.lots[s.lot].auction = db.lots[s.lot].auction
  <1>1. db \in Database /\ db' \in Database /\ Consistent(db)
    BY StepKeeps DEF IInv, TypeOK
  <1>2. db'.sales \subseteq SaleRow
    BY <1>1, DatabaseParts
  <1>3. CASE db' = db
    BY <1>2, <1>3
  <1>4. CASE Switch
    <2>1. db'.sales = db.sales /\ db'.lots = db.lots
      BY <1>1, <1>4, SwitchIsSerial, DatabaseParts DEF SellerSwitched, BuyerSwitched
    <2>2. QED
      BY <1>2, <2>1
  <1>5. ASSUME NEW r \in Requests, Finish(r)
        PROVE  /\ \/ db'.sales = db.sales
                  \/ \E row : db'.sales = db.sales \cup {row}
               /\ \A s \in db.sales : db'.lots[s.lot].auction = db.lots[s.lot].auction
    <2>1. db' = image /\ OneOperation(r) /\ op[r] \in Operations
      BY <1>5, FinishCommits
    <2>2. /\ \/ image.sales = db.sales
             \/ image.sales = db.sales \cup {NewSale(db, op[r].lot, op[r].buyer, op[r].price)}
          /\ \A l \in Lots : db.lots[l].status # "ABSENT" =>
                image.lots[l].auction = db.lots[l].auction
      BY <1>1, <2>1, OperationLeaves
    <2>3. \A s \in db.sales : s.lot \in Lots /\ db.lots[s.lot].status # "ABSENT"
      <3>1. \A s \in db.sales : s.lot \in Lots /\ db.lots[s.lot].auction \in Auctions
        BY <1>1, DatabaseParts DEF Consistent, LedgerAgrees, SaleRow
      <3>2. QED
        BY <1>1, <3>1, NoRowAssumption DEF Consistent, PhaseAgrees
    <2>4. QED
      BY <2>1, <2>2, <2>3
  <1>6. QED
    BY <1>2, <1>3, <1>4, <1>5, CommitOrSwitch

(* A report replaces an earlier one by the figures of the committed        *)
(* database; nothing else touches what clients have been told.             *)
LEMMA ReportsAreCommitted ==
    ASSUME IInv, [Next]_vars
    PROVE  \/ reported' = reported
           \/ /\ db' = db
              /\ \E a \in Scopes :
                    reported' = [reported EXCEPT ![a] = revenue_report(db, a)]
  <1>1. ASSUME NEW r \in Requests, Report(r)
        PROVE  /\ db' = db
               /\ \E a \in Scopes :
                     reported' = [reported EXCEPT ![a] = revenue_report(db, a)]
    <2>1. at[r] = "report" /\ Isolated(r) /\ Fits(r)
      BY <1>1 DEF Report, IInv, WriterIsolated
    <2>2. writer # r /\ op[r] \in Operations /\ op[r].kind = "report"
      BY <2>1 DEF Isolated, Fits
    <2>3. op[r].scope \in Scopes
      BY <2>2 DEF Operations, Scopes
    <2>4. QED
      BY <1>1, <2>2, <2>3 DEF Report, View, connection
  <1>2. ASSUME NEW r \in Requests, Receive(r) \/ StorageError(r)
        PROVE  reported' = reported
    BY <1>2 DEF Receive, StorageError, history
  <1>3. ASSUME NEW r \in Requests, Step(r), ~Report(r)
        PROVE  reported' = reported
    <2>1. CASE WriteRows(r)
      BY <2>1 DEF WriteRows, OpenAuction, CloseAuction, CreateSale, CreateSeller,
                  CreateBuyer, CreateLot, CreateAuction, Write, history
    <2>2. QED
      BY <1>3, <2>1 DEF Step, Begin, Pass, Refuse, WriteFirst, Answer, Finish, Unavailable,
                        CommitFails, history
  <1>4. CASE Crash \/ Backup \/ Switch \/ UNCHANGED vars
    BY <1>4 DEF Crash, Backup, Switch, vars, history
  <1>5. QED
    BY <1>1, <1>2, <1>3, <1>4 DEF Next

(* A step leaves every report not ahead, and none behind an earlier one.   *)
LEMMA ReportsStep ==
    ASSUME IInv, NotAhead, [Next]_vars
    PROVE  /\ NotAhead'
           /\ \A a \in Scopes : AtMost(reported[a], reported'[a])
  <1> DEFINE now(a) == revenue_report(db, a)
             then(a) == revenue_report(db', a)
  <1>1. IsFiniteSet(db'.sales)
    BY SalesStay, FS_AddElement DEF NotAhead
  <1>2. ASSUME NEW a \in Scopes
        PROVE  now(a) \in Figures /\ then(a) \in Figures /\ AtMost(now(a), then(a))
    BY <1>1, SalesStay, ReportsGrowWithSales DEF NotAhead
  <1> HIDE DEF now, then
  <1>3. /\ reported \in [Scopes -> Figures]
        /\ \A a \in Scopes : AtMost(reported[a], now(a))
    BY DEF NotAhead, now
  <1>4. CASE reported' = reported
    <2>1. ASSUME NEW a \in Scopes
          PROVE  AtMost(reported[a], reported[a]) /\ AtMost(reported[a], then(a))
      BY <1>2, <1>3 DEF AtMost, Figures
    <2>2. QED
      BY <1>1, <1>3, <1>4, <2>1 DEF NotAhead, then
  <1>5. ASSUME db' = db, NEW b \in Scopes, reported' = [reported EXCEPT ![b] = now(b)]
        PROVE  /\ NotAhead'
               /\ \A a \in Scopes : AtMost(reported[a], reported'[a])
    <2>1. reported' \in [Scopes -> Figures]
      BY <1>2, <1>3, <1>5
    <2>2. ASSUME NEW a \in Scopes
          PROVE  then(a) = now(a) /\ AtMost(reported[a], reported'[a])
                 /\ AtMost(reported'[a], now(a))
      <3>1. then(a) = now(a)
        BY <1>5 DEF then, now
      <3>2. reported'[a] = IF a = b THEN now(a) ELSE reported[a]
        BY <1>3, <1>5
      <3>3. AtMost(reported[a], reported[a]) /\ AtMost(now(a), now(a))
        BY <1>2, <1>3 DEF AtMost, Figures
      <3>4. QED
        BY <1>3, <3>1, <3>2, <3>3
    <2>3. QED
      BY <1>1, <2>1, <2>2 DEF NotAhead, then
  <1>6. QED
    BY <1>4, <1>5, ReportsAreCommitted DEF now

(* No report, whenever it was answered, counts what is not committed now:  *)
(* what a client has read in a report stays true, with or without a crash. *)
THEOREM ReportsStayCommitted == Spec => []NotAhead
  <1>1. ASSUME Init
        PROVE  NotAhead
    <2>1. db = EmptyDatabase /\ db.sales = {} /\ IsFiniteSet(db.sales)
      BY <1>1, FS_EmptySet DEF Init, ConnectionInit, EmptyDatabase
    <2>2. ASSUME NEW a \in Scopes
          PROVE  reported[a] = revenue_report(db, a) /\ revenue_report(db, a) \in Figures
                 /\ AtMost(revenue_report(db, a), revenue_report(db, a))
      BY <1>1, <2>1, ReportsGrowWithSales DEF Init
    <2>3. QED
      BY <1>1, <2>1, <2>2 DEF Init, NotAhead
  <1>2. IInv /\ NotAhead /\ [Next]_vars => NotAhead'
    BY ReportsStep
  <1>3. QED
    BY <1>1, <1>2, Invariance, PTL DEF Spec

(* Two reports on the same auction, or on all, never contradict each       *)
(* other: whatever a report has counted stays committed and counted.       *)
THEOREM ReportsGrow == Spec => ReportsOnlyGrow
  <1>1. IInv /\ NotAhead /\ [Next]_vars =>
          [\A a \in Scopes :
             /\ reported'[a].sales_count >= reported[a].sales_count
             /\ reported'[a].gross_revenue >= reported[a].gross_revenue
             /\ reported'[a].commission_revenue >= reported[a].commission_revenue]_vars
    BY ReportsStep DEF AtMost
  <1>2. QED
    BY <1>1, Invariance, ReportsStayCommitted, PTL DEF Spec, ReportsOnlyGrow

-----------------------------------------------------------------------------
(* 6. What the service promises beyond its runs.                           *)

(* The IntegrityError that create_sale catches never comes: whoever has    *)
(* passed the checks under the write lock finds the lot without a sale.    *)
THEOREM SaleNeverBreaksUnique ==
    Spec => [](\A r \in Requests :
                  at[r] = "first" /\ op[r].kind = "sale" => NeverSold(View(r), op[r].lot))
  <1>1. ASSUME IInv, NEW r \in Requests, at[r] = "first", op[r].kind = "sale"
        PROVE  NeverSold(View(r), op[r].lot)
    <2>1. View(r) = db /\ CanSell(db, op[r].lot, op[r].buyer, op[r].price)
      BY <1>1 DEF IInv, WriterIsolated, Isolated, RuleHolds, View
    <2>2. op[r].lot \in Lots
      BY <1>1, OperationParts DEF IInv, Fits
    <2>3. db.lots[op[r].lot].status # "SOLD"
      BY <2>1 DEF CanSell
    <2>4. QED
      BY <1>1, <2>1, <2>2, <2>3 DEF IInv, Consistent, LedgerAgrees, NeverSold
  <1>2. IInv => \A r \in Requests :
                  at[r] = "first" /\ op[r].kind = "sale" => NeverSold(View(r), op[r].lot)
    BY <1>1
  <1>3. QED
    BY <1>2, Invariance, PTL

(* The house never reports more commission than turnover, and the report   *)
(* on everything covers that on each auction.                              *)
THEOREM ReportsAreConsistent ==
    Spec => [](\A a \in Scopes :
                  LET report == revenue_report(db, a) IN
                  /\ report.commission_revenue <= report.gross_revenue
                  /\ AtMost(report, revenue_report(db, NoAuction)))
  <1>1. ASSUME IInv, NotAhead, NEW a \in Scopes
        PROVE  /\ revenue_report(db, a).commission_revenue <= revenue_report(db, a).gross_revenue
               /\ AtMost(revenue_report(db, a), revenue_report(db, NoAuction))
    <2> DEFINE rows == ReportedSales(db, a)  all == ReportedSales(db, NoAuction)
               prices(set) == [s \in set |-> s.price]
               fees(set) == [s \in set |-> s.commission]
    <2>1. db \in Database /\ LedgerAgrees(db) /\ IsFiniteSet(db.sales)
      BY <1>1 DEF IInv, Consistent, NotAhead
    <2>2. rows \subseteq all /\ all = db.sales /\ all \in SUBSET SaleRow
      BY <2>1, DatabaseParts DEF ReportedSales
    <2>3. ASSUME NEW s \in rows
          PROVE  s.commission <= s.price /\ s.commission \in Nat /\ s.price \in Nat
      <3>1. /\ s \in db.sales /\ s \in SaleRow /\ s.price > 0
            /\ db.lots[s.lot].auction \in Auctions
            /\ s.commission =
                 commission_kopecks(s.price, db.auctions[db.lots[s.lot].auction].commission_bps)
        BY <2>1, <2>2 DEF LedgerAgrees
      <3>2. s.price \in Nat /\ s.commission \in Nat
        BY <3>1 DEF SaleRow
      <3>3. db.auctions[db.lots[s.lot].auction].commission_bps \in BasisPoints
        BY <2>1, <3>1, DatabaseParts DEF AuctionRow
      <3>4. s.commission \in 0..s.price
        BY <3>1, <3>2, <3>3, FeeWithinPrice DEF ValidPrice, ValidRate
      <3>5. QED
        BY <3>2, <3>4
    <2>4. IsFiniteSet(rows) /\ rows \in SUBSET SaleRow
      BY <2>1, <2>2, FS_Subset
    <2>5. Kopecks(rows, fees(rows)) \subseteq Kopecks(rows, prices(rows))
      BY <2>3 DEF Kopecks
    <2>6. prices(rows) \in [rows -> Nat]
      BY <2>3
    <2>7. /\ SumOfPrices(rows) = Cardinality(Kopecks(rows, prices(rows)))
          /\ SumOfCommissions(rows) = Cardinality(Kopecks(rows, fees(rows)))
      BY <2>4, SumsCountKopecks
    <2>8. revenue_report(db, a) =
            [sales_count |-> Cardinality(rows), gross_revenue |-> SumOfPrices(rows),
             commission_revenue |-> SumOfCommissions(rows)]
      BY DEF revenue_report
    <2>9. revenue_report(db, NoAuction) =
            [sales_count |-> Cardinality(all), gross_revenue |-> SumOfPrices(all),
             commission_revenue |-> SumOfCommissions(all)]
      BY DEF revenue_report
    <2> HIDE DEF rows, all, prices, fees
    <2>10. SumOfCommissions(rows) <= SumOfPrices(rows)
      BY <2>4, <2>5, <2>6, <2>7, KopecksFinite, FS_Subset
    <2>11. AtMost(revenue_report(db, a), revenue_report(db, NoAuction))
      BY <2>1, <2>2, <2>8, <2>9, FewerRowsFewerKopecks DEF AtMost
    <2>12. QED
      BY <2>8, <2>10, <2>11
  <1>2. IInv /\ NotAhead =>
          \A a \in Scopes :
             LET report == revenue_report(db, a) IN
             /\ report.commission_revenue <= report.gross_revenue
             /\ AtMost(report, revenue_report(db, NoAuction))
    BY <1>1
  <1>3. QED
    BY <1>2, Invariance, ReportsStayCommitted, PTL

(* What can lose a sale whose client has its 201: the commit did not come  *)
(* to pass.                                                                *)
CommitLost ==
    \/ Crash
    \/ \E r \in Requests : at[r] = "commit" /\ (StorageError(r) \/ CommitFails(r))

(* A request that has answered keeps its image, until it commits it.       *)
LEMMA AnsweredStays ==
    ASSUME IInv, [Next]_vars, ~CommitLost, NEW q \in Requests, at[q] = "commit"
    PROVE  \/ at'[q] = "commit" /\ View(q)' = View(q)
           \/ db' = View(q)
  <1>1. writer = q /\ View(q) = image /\ TypeOK
    BY DEF IInv, WriterIsolated, Isolated, View
  <1>2. SUFFICES \/ at'[q] = "commit" /\ writer' = q /\ image' = image
                 \/ db' = image
    BY <1>1 DEF View
  <1>3. CASE UNCHANGED vars
    BY <1>1, <1>3 DEF vars, connection
  <1>4. CASE Crash
    BY <1>4 DEF CommitLost
  <1>5. CASE Backup
    BY <1>1, <1>5 DEF Backup, StartCopy, EndCopy
  <1>6. CASE Switch
    BY <1>1, <1>6, SwitchIsSerial, NoOneAssumption
  <1>7. ASSUME NEW r \in Requests, Receive(r)
        PROVE  at'[q] = "commit" /\ writer' = q /\ image' = image
    BY <1>1, <1>7 DEF Receive, connection, TypeOK
  <1>8. ASSUME NEW r \in Requests, StorageError(r)
        PROVE  at'[q] = "commit" /\ writer' = q /\ image' = image
    <2>1. r # q
      BY <1>8 DEF CommitLost
    <2>2. QED
      BY <1>1, <1>8, <2>1 DEF StorageError, Rollback, Leave, TypeOK
  <1>9. ASSUME NEW r \in Requests, Step(r)
        PROVE  \/ at'[q] = "commit" /\ writer' = q /\ image' = image
               \/ db' = image
    <2>1. CASE Finish(r)
      BY <2>1, FinishCommits
    <2>2. CASE WriteRows(r)
      BY <1>1, <2>2, WriteIsOneOperation, NoOneAssumption
    <2>3. CASE Begin(r)
      BY <1>1, <2>3, NoOneAssumption DEF Begin, BeginImmediate
    <2>4. CASE Pass(r) \/ Report(r) \/ Answer(r)
      BY <1>1, <2>4 DEF Pass, Report, Answer, Goto, Leave, connection, TypeOK
    <2>5. CASE Refuse(r) \/ Unavailable(r)
      BY <1>1, <2>5 DEF Refuse, Unavailable, Rollback, WaitTimesOut, LockFree, Leave,
                        connection, TypeOK
    <2>6. CASE CommitFails(r)
      BY <2>6 DEF CommitLost, CommitFails
    <2>7. CASE WriteFirst(r)
      <3>1. writer = r /\ at[r] = "first"
        BY <2>7, FirstBegins
      <3>2. QED
        BY <1>1, <3>1
    <2>8. QED
      BY <1>9, <2>1, <2>2, <2>3, <2>4, <2>5, <2>6, <2>7 DEF Step
  <1>10. QED
    BY <1>3, <1>4, <1>5, <1>6, <1>7, <1>8, <1>9 DEF Next

(* Only an answer tells of a sale, and it has its row written.             *)
LEMMA ToldByAnswer ==
    ASSUME IInv, [Next]_vars
    PROVE  \A l \in told' \ told :
              \E r \in Requests : at'[r] = "commit" /\ l \in SoldLots(View(r)')
  <1>1. ASSUME NEW r \in Requests, Answer(r), NEW l \in told' \ told
        PROVE  at'[r] = "commit" /\ l \in SoldLots(View(r)')
    <2>1. /\ at[r] = "answer" /\ l = op[r].lot /\ op[r].kind = "sale"
          /\ at' = [at EXCEPT ![r] = "commit"] /\ UNCHANGED <<image, writer>>
      BY <1>1 DEF Answer, Goto, connection
    <2>2. TypeOK /\ Isolated(r) /\ Fits(r) /\ Consistent(db)
      BY DEF IInv, WriterIsolated
    <2>3. writer = r /\ OneOperation(r) /\ op[r] \in Operations
      BY <2>1, <2>2 DEF Isolated, Fits
    <2>4. image.sales = db.sales \cup {NewSale(db, l, op[r].buyer, op[r].price)}
      BY <2>1, <2>2, <2>3, OperationLeaves
    <2>5. View(r)' = image /\ at'[r] = "commit"
      BY <2>1, <2>2, <2>3 DEF View, TypeOK
    <2>6. QED
      BY <2>4, <2>5 DEF SoldLots, NewSale
  <1>2. ASSUME NEW r \in Requests, Receive(r) \/ StorageError(r)
        PROVE  told' = told
    BY <1>2 DEF Receive, StorageError, history
  <1>3. ASSUME NEW r \in Requests, Step(r), ~Answer(r)
        PROVE  told' = told
    <2>1. CASE WriteRows(r)
      BY <2>1, WriteIsOneOperation
    <2>2. QED
      BY <1>3, <2>1 DEF Step, Begin, Pass, Refuse, WriteFirst, Report, Finish, Unavailable,
                        CommitFails, history
  <1>4. CASE Crash \/ Backup \/ Switch \/ UNCHANGED vars
    BY <1>4 DEF Crash, Backup, Switch, vars, history
  <1>5. QED
    BY <1>1, <1>2, <1>3, <1>4 DEF Next

(* release_check.py counts on a sale answered with 201 to stay.  It does,  *)
(* unless its commit is lost to a crash, a storage error or a backup: no   *)
(* other request, refusal or timeout can take it back.                     *)
THEOREM ToldIsKeptUnlessCommitLost == Init /\ [][Next /\ ~CommitLost]_vars => []ToldIsKept
  <1>1. Init => ToldIsKept
    BY DEF Init, ToldIsKept
  <1>2. ASSUME IInv, ToldIsKept, [Next /\ ~CommitLost]_vars
        PROVE  ToldIsKept'
    <2>1. CASE UNCHANGED vars
      BY <1>2, <2>1 DEF ToldIsKept, vars, connection, history, View, SoldLots
    <2>2. CASE Next /\ ~CommitLost
      <3>1. db.sales \subseteq db'.sales
        BY <1>2, <2>2, SalesStay
      <3>2. ASSUME NEW l \in told, l \in SoldLots(db)
            PROVE  l \in SoldLots(db')
        BY <3>1, <3>2 DEF SoldLots
      <3>3. ASSUME NEW l \in told, NEW r \in Requests, at[r] = "commit",
                   l \in SoldLots(View(r))
            PROVE  \/ l \in SoldLots(db')
                   \/ at'[r] = "commit" /\ l \in SoldLots(View(r)')
        BY <1>2, <2>2, <3>3, AnsweredStays
      <3>4. ASSUME NEW l \in told' \ told
            PROVE  \E r \in Requests : at'[r] = "commit" /\ l \in SoldLots(View(r)')
        BY <1>2, <2>2, ToldByAnswer
      <3>5. \A l \in told' : \/ l \in SoldLots(db')
                             \/ \E r \in Requests : at'[r] = "commit" /\ l \in SoldLots(View(r)')
        BY <1>2, <3>2, <3>3, <3>4 DEF ToldIsKept
      <3>6. QED
        BY <3>5 DEF ToldIsKept, SoldLots
    <2>3. QED
      BY <1>2, <2>1, <2>2
  <1>3. Init /\ [][Next /\ ~CommitLost]_vars => []IInv
    BY InitKeeps, StepKeeps, PTL
  <1>4. QED
    BY <1>1, <1>2, <1>3, PTL

-----------------------------------------------------------------------------
(* create_lot reads its auction's status without a transaction.  An        *)
(* open_auction of that auction overtakes it when it commits after that    *)
(* read and before the insert.                                             *)
LotOvertaken ==
    \E r, q \in Requests :
        /\ Finish(r) /\ op[r].kind = "open"
        /\ op[q].kind = "lot" /\ at[q] \in {"seller", "write"}
        /\ op[q].auction = op[r].auction

PastItsCheck == {"seller", "write", "answer", "commit"}

(* The auction of a lot under way is still the DRAFT it was at the check.  *)
InTime(q) == op[q].kind = "lot" /\ at[q] \in PastItsCheck =>
                db.auctions[op[q].auction].status = "DRAFT"

(* Only open_auction ends the DRAFT of an auction.                         *)
LEMMA OpenEndsDraft ==
    ASSUME NEW r \in Requests, db \in Database, op[r] \in Operations, OneOperation(r),
           NEW a \in Auctions, db.auctions[a].status = "DRAFT",
           image.auctions[a].status # "DRAFT"
    PROVE  op[r].kind = "open" /\ op[r].auction = a
  <1> DEFINE o == op[r]
  <1> USE DatabaseParts, OperationParts
  <1>0. \A b \in Auctions : db.auctions[b] \in AuctionRow
    OBVIOUS
  <1>1. CASE o.kind = "open" /\ image = Opened(db, o.auction)
    BY <1>0, <1>1, ImageRows DEF AuctionRow, Turned, SameLot
  <1>2. CASE o.kind = "close" /\ CanClose(db, o.auction) /\ image = Closed(db, o.auction)
    BY <1>0, <1>2, ImageRows DEF CanClose, AuctionRow, Turned, SameLot
  <1>3. CASE o.kind = "sale" /\ image = Sold(db, o.lot, o.buyer, o.price)
    BY <1>3, ImageRows DEF Turned, SameLot
  <1>4. CASE \E l \in Lots : image = LotAdded(db, l, o.auction, o.seller, o.price)
    BY <1>4 DEF LotAdded
  <1>5. CASE \E b \in Auctions : /\ db.auctions[b].status = "ABSENT"
                                 /\ image = AuctionAdded(db, b, o.rate)
    BY <1>0, <1>5 DEF AuctionAdded, AuctionRow
  <1>6. CASE image = SellerAdded(db, o.email) \/ image = BuyerAdded(db, o.email)
    BY <1>6 DEF SellerAdded, BuyerAdded
  <1>7. QED
    BY <1>1, <1>2, <1>3, <1>4, <1>5, <1>6 DEF OneOperation

(* Only create_lot makes a lot, in the auction it was asked for.           *)
LEMMA LotsAreCreated ==
    ASSUME NEW r \in Requests, db \in Database, op[r] \in Operations, OneOperation(r),
           NEW l \in Lots, db.lots[l].status = "ABSENT", image.lots[l].status # "ABSENT"
    PROVE  op[r].kind = "lot" /\ image.lots[l].auction = op[r].auction
  <1> DEFINE o == op[r]
  <1> USE DatabaseParts, OperationParts
  <1>0. \A k \in Lots : db.lots[k] \in LotRow
    OBVIOUS
  <1>1. CASE o.kind = "open" /\ image = Opened(db, o.auction)
    BY <1>0, <1>1, ImageRows DEF LotStatus, Turned, SameLot
  <1>2. CASE o.kind = "close" /\ image = Closed(db, o.auction)
    BY <1>0, <1>2, ImageRows DEF LotStatus, Turned, SameLot
  <1>3. CASE /\ o.kind = "sale" /\ CanSell(db, o.lot, o.buyer, o.price)
             /\ image = Sold(db, o.lot, o.buyer, o.price)
    BY <1>0, <1>3, ImageRows DEF CanSell, LotRow, Turned, SameLot
  <1>4. CASE o.kind = "lot" /\ \E k \in Lots : image = LotAdded(db, k, o.auction, o.seller, o.price)
    BY <1>0, <1>4 DEF LotAdded
  <1>5. CASE \E b \in Auctions : image = AuctionAdded(db, b, o.rate)
    BY <1>5 DEF AuctionAdded
  <1>6. CASE image = SellerAdded(db, o.email) \/ image = BuyerAdded(db, o.email)
    BY <1>6 DEF SellerAdded, BuyerAdded
  <1>7. QED
    BY <1>1, <1>2, <1>3, <1>4, <1>5, <1>6 DEF OneOperation

(* A create_lot comes past its check by making it.                         *)
LEMMA PastByChecking ==
    ASSUME IInv, Next, NEW q \in Requests, op'[q].kind = "lot", at'[q] \in PastItsCheck
    PROVE  /\ op'[q] = op[q]
           /\ \/ at[q] \in PastItsCheck
              \/ db' = db /\ AuctionEditable(db, op[q].auction)
  <1> USE DEF PastItsCheck
  <1>1. TypeOK /\ Isolated(q) /\ Fits(q)
    BY DEF IInv, WriterIsolated
  <1>2. CASE Crash
    BY <1>2 DEF Crash
  <1>3. CASE Backup \/ Switch
    BY <1>3 DEF Backup, Switch
  <1>4. ASSUME NEW r \in Requests, r # q, Receive(r) \/ Step(r) \/ StorageError(r)
        PROVE  at'[q] = at[q] /\ op'[q] = op[q]
    <2>1. CASE WriteRows(r)
      BY <1>1, <1>4, <2>1, WriteIsOneOperation DEF TypeOK
    <2>2. CASE Receive(r) \/ StorageError(r)
      BY <1>1, <1>4, <2>2 DEF Receive, StorageError, Leave, TypeOK
    <2>3. CASE Step(r) /\ ~WriteRows(r)
      BY <1>1, <1>4, <2>3
      DEF Step, Begin, Pass, Refuse, WriteFirst, Report, Answer, Finish, Unavailable,
          CommitFails, Goto, Leave, TypeOK
    <2>4. QED
      BY <1>4, <2>1, <2>2, <2>3
  <1>5. CASE Receive(q)
    BY <1>1, <1>5 DEF Receive, FirstLabel, TypeOK
  <1>6. CASE StorageError(q)
    BY <1>1, <1>6 DEF StorageError, Leave, TypeOK
  <1>7. CASE Step(q)
    <2>1. CASE WriteRows(q)
      BY <1>1, <2>1, WriteIsOneOperation
    <2>2. CASE Begin(q)
      BY <1>1, <2>2 DEF Begin, Goto, TypeOK
    <2>3. CASE Pass(q)
      <3>1. /\ at[q] \in {"check", "auction", "seller"} /\ op' = op /\ db' = db
            /\ RuleHolds(View(q), op[q], at[q])
        BY <2>3 DEF Pass, Goto, connection
      <3>2. at[q] # "check"
        BY <1>1, <3>1 DEF Fits
      <3>3. CASE at[q] = "auction"
        BY <1>1, <3>1, <3>3 DEF RuleHolds, View, Isolated
      <3>4. QED
        BY <3>1, <3>2, <3>3
    <2>4. CASE Answer(q)
      BY <1>1, <2>4 DEF Answer, Goto
    <2>5. CASE Refuse(q) \/ Report(q) \/ Finish(q) \/ Unavailable(q) \/ CommitFails(q)
      BY <1>1, <2>5 DEF Refuse, Report, Finish, Unavailable, CommitFails, Leave, TypeOK
    <2>6. CASE WriteFirst(q)
      <3>1. op' = op /\ op[q].kind \in {"open", "close", "sale"}
        BY <2>6, FirstBegins
      <3>2. QED
        BY <3>1
    <2>7. QED
      BY <1>7, <2>1, <2>2, <2>3, <2>4, <2>5, <2>6 DEF Step
  <1>8. QED
    BY <1>2, <1>3, <1>4, <1>5, <1>6, <1>7 DEF Next

(* technical-spec.md: a lot is added only to a DRAFT auction.  The code    *)
(* keeps to it but for one race, that of LotOvertaken.                     *)
THEOREM LotsJoinDraftsUnlessOvertaken ==
    Init /\ [][Next /\ ~LotOvertaken]_vars => LotsJoinOnlyDrafts
  <1> DEFINE AllInTime == \A q \in Requests : InTime(q)
  <1>1. Init => AllInTime
    BY DEF Init, InTime, PastItsCheck
  <1>2. ASSUME IInv, AllInTime, [Next /\ ~LotOvertaken]_vars
        PROVE  AllInTime'
    <2>1. CASE UNCHANGED vars
      BY <1>2, <2>1 DEF vars, connection, InTime
    <2>2. ASSUME Next, ~LotOvertaken, NEW q \in Requests, op'[q].kind = "lot",
                 at'[q] \in PastItsCheck
          PROVE  db'.auctions[op'[q].auction].status = "DRAFT"
      <3>1. /\ op'[q] = op[q]
            /\ \/ at[q] \in PastItsCheck
               \/ db' = db /\ AuctionEditable(db, op[q].auction)
        BY <1>2, <2>2, PastByChecking
      <3>2. CASE db' = db /\ AuctionEditable(db, op[q].auction)
        BY <3>1, <3>2 DEF AuctionEditable
      <3>3. CASE at[q] \in PastItsCheck
        <4> DEFINE a == op[q].auction
        <4>1. db \in Database /\ op[q] \in Operations /\ a \in Auctions
          BY <1>2, <2>2, <3>1, <3>3, OperationParts DEF IInv, TypeOK, Fits, PastItsCheck
        <4>2. db.auctions[a].status = "DRAFT"
          BY <1>2, <2>2, <3>1, <3>3 DEF InTime
        <4>3. CASE db' = db
          BY <3>1, <4>2, <4>3
        <4>4. CASE Switch
          BY <3>1, <4>1, <4>2, <4>4, SwitchIsSerial, DatabaseParts
             DEF SellerSwitched, BuyerSwitched
        <4>5. ASSUME NEW r \in Requests, Finish(r), db'.auctions[a].status # "DRAFT"
              PROVE  FALSE
          <5>1. op[r].kind = "open" /\ op[r].auction = a
            BY <1>2, <4>1, <4>2, <4>5, FinishCommits, OpenEndsDraft
          <5>2. at[q] \in {"seller", "write"}
            <6>1. writer = r /\ r # q
              BY <1>2, <2>2, <3>1, <4>5, <5>1, FinishCommits
            <6>2. QED
              BY <1>2, <3>3, <6>1 DEF IInv, WriterIsolated, Isolated, PastItsCheck
          <5>3. QED
            BY <2>2, <3>1, <4>5, <5>1, <5>2 DEF LotOvertaken
        <4>6. QED
          BY <1>2, <2>2, <3>1, <4>3, <4>4, <4>5, CommitOrSwitch
      <3>4. QED
        BY <3>1, <3>2, <3>3
    <2>3. QED
      BY <1>2, <2>1, <2>2 DEF InTime
  <1>3. ASSUME IInv, AllInTime, [Next]_vars, NEW l \in Lots,
               db.lots[l].status = "ABSENT", db'.lots[l].status # "ABSENT"
        PROVE  db.auctions[db'.lots[l].auction].status = "DRAFT"
    <2>1. db \in Database /\ db' # db
      BY <1>3 DEF IInv, TypeOK
    <2>2. CASE Switch
      BY <1>3, <2>1, <2>2, SwitchIsSerial, DatabaseParts DEF SellerSwitched, BuyerSwitched
    <2>3. ASSUME NEW r \in Requests, Finish(r)
          PROVE  db.auctions[db'.lots[l].auction].status = "DRAFT"
      <3>1. op[r].kind = "lot" /\ db'.lots[l].auction = op[r].auction
        BY <1>3, <2>1, <2>3, FinishCommits, LotsAreCreated
      <3>2. at[r] \in PastItsCheck
        BY <2>3 DEF Finish, PastItsCheck
      <3>3. QED
        BY <1>3, <3>1, <3>2 DEF InTime
    <2>4. QED
      BY <1>3, <2>1, <2>2, <2>3, CommitOrSwitch
  <1>4. IInv /\ AllInTime /\ [Next]_vars =>
          [\A l \in Lots :
             db.lots[l].status = "ABSENT" /\ db'.lots[l].status # "ABSENT" =>
                db.auctions[db'.lots[l].auction].status = "DRAFT"]_vars
    BY <1>3
  <1> HIDE DEF AllInTime
  <1>5. Init /\ [][Next /\ ~LotOvertaken]_vars => []IInv
    BY InitKeeps, StepKeeps, PTL
  <1>6. IInv /\ AllInTime /\ [Next /\ ~LotOvertaken]_vars => AllInTime'
    BY <1>2
  <1>7. QED
    BY <1>1, <1>4, <1>5, <1>6, PTL DEF LotsJoinOnlyDrafts

-----------------------------------------------------------------------------
(* The life of the rows, from one committed database to the next.          *)
AuctionMoves == {<<"ABSENT", "DRAFT">>, <<"DRAFT", "OPEN">>, <<"OPEN", "CLOSED">>}
LotMoves == {<<"ABSENT", "DRAFT">>, <<"DRAFT", "AVAILABLE">>,
             <<"AVAILABLE", "SOLD">>, <<"AVAILABLE", "UNSOLD">>}

LivesOn(d, e) ==
    /\ \A a \in Auctions :
          LET old == d.auctions[a]
              new == e.auctions[a] IN
          /\ new.status # old.status => <<old.status, new.status>> \in AuctionMoves
          /\ old.status # "ABSENT" => new.commission_bps = old.commission_bps
    /\ \A l \in Lots :
          LET old == d.lots[l]
              new == e.lots[l] IN
          /\ new.status # old.status => <<old.status, new.status>> \in LotMoves
          /\ old.status # "ABSENT" => /\ new.auction = old.auction
                                      /\ new.seller = old.seller
                                      /\ new.starting_price = old.starting_price
    /\ d.sales \subseteq e.sales

(* One operation moves a row by one stage at most.                         *)
LEMMA OperationLivesOn ==
    ASSUME NEW r \in Requests, db \in Database, op[r] \in Operations, OneOperation(r)
    PROVE  LivesOn(db, image)
  <1> DEFINE o == op[r]
  <1> USE DatabaseParts, OperationParts DEF LivesOn, AuctionMoves, LotMoves
  <1>0. /\ \A a \in Auctions : db.auctions[a] \in AuctionRow
        /\ \A l \in Lots : db.lots[l] \in LotRow
    OBVIOUS
  <1>1. CASE o.kind = "open" /\ CanOpen(db, o.auction) /\ image = Opened(db, o.auction)
    BY <1>0, <1>1, ImageRows DEF CanOpen, AuctionEditable, AuctionRow, LotStatus, Turned, SameLot
  <1>2. CASE o.kind = "close" /\ CanClose(db, o.auction) /\ image = Closed(db, o.auction)
    BY <1>0, <1>2, ImageRows DEF CanClose, AuctionRow, LotStatus, Turned, SameLot
  <1>3. CASE /\ o.kind = "sale" /\ CanSell(db, o.lot, o.buyer, o.price)
             /\ image = Sold(db, o.lot, o.buyer, o.price)
    BY <1>0, <1>3, ImageRows DEF CanSell, LotRow, Turned, SameLot
  <1>4. CASE /\ o.kind = "lot"
             /\ \E l \in Lots : /\ db.lots[l].status = "ABSENT"
                                /\ image = LotAdded(db, l, o.auction, o.seller, o.price)
    BY <1>0, <1>4 DEF LotAdded
  <1>5. CASE /\ o.kind = "auction"
             /\ \E a \in Auctions : /\ db.auctions[a].status = "ABSENT"
                                    /\ image = AuctionAdded(db, a, o.rate)
    BY <1>0, <1>5 DEF AuctionAdded
  <1>6. CASE image = SellerAdded(db, o.email) \/ image = BuyerAdded(db, o.email)
    BY <1>6 DEF SellerAdded, BuyerAdded
  <1>7. QED
    BY <1>1, <1>2, <1>3, <1>4, <1>5, <1>6 DEF OneOperation

(* README.md of the repository, line 37: an auction goes from DRAFT to     *)
(* OPEN to CLOSED and a lot from DRAFT to AVAILABLE to SOLD or UNSOLD.  No *)
(* commit of any request leaves a stage out or goes back, and what a row   *)
(* was created with, its rate or its starting price, it keeps.             *)
THEOREM RowsLiveOn == Spec => [][LivesOn(db, db')]_vars
  <1>1. ASSUME IInv, [Next]_vars
        PROVE  LivesOn(db, db')
    <2>1. db \in Database
      BY <1>1 DEF IInv, TypeOK
    <2>2. CASE db' = db
      BY <2>2 DEF LivesOn
    <2>3. CASE Switch
      <3>1. db'.auctions = db.auctions /\ db'.lots = db.lots /\ db'.sales = db.sales
        BY <2>1, <2>3, SwitchIsSerial, DatabaseParts DEF SellerSwitched, BuyerSwitched
      <3>2. QED
        BY <3>1 DEF LivesOn
    <2>4. ASSUME NEW r \in Requests, Finish(r)
          PROVE  LivesOn(db, db')
      BY <1>1, <2>1, <2>4, FinishCommits, OperationLivesOn
    <2>5. QED
      BY <1>1, <2>2, <2>3, <2>4, CommitOrSwitch
  <1>2. IInv /\ [Next]_vars => [LivesOn(db, db')]_vars
    BY <1>1
  <1>3. QED
    BY <1>2, Invariance, PTL DEF Spec

(* SerialAuctions is sound by itself: every operation, done at once when   *)
(* its rule holds, LateLot included, keeps ledger and phases in agreement. *)
THEOREM SerialIsConsistent == Serial!Spec => []Consistent(db)
  <1>1. Serial!Init => Consistent(db)
    BY EmptyIsConsistent, SameEffects DEF Serial!Init
  <1>2. ASSUME Consistent(db), Serial!Next
        PROVE  Consistent(db')
    <2> USE SameRules, SameEffects
    <2>1. CASE Serial!Participants
      <3>1. \/ \E s \in Sellers, activity \in {"active", "inactive"} :
                  db' = SellerSwitched(db, s, activity)
            \/ \E b \in Buyers, activity \in {"active", "inactive"} :
                  db' = BuyerSwitched(db, b, activity)
        BY <2>1 DEF Serial!Participants, Serial!CreateSeller, Serial!CreateBuyer,
                    Serial!SwitchSeller, Serial!SwitchBuyer, SellerAdded, BuyerAdded,
                    SellerSwitched, BuyerSwitched
      <3>2. QED
        BY <1>2, <3>1, SellerEffect, BuyerEffect
    <2>2. CASE Serial!Trading
      BY <1>2, <2>2, OpenEffect, CloseEffect, SaleEffect
         DEF Serial!Trading, Serial!OpenAuction, Serial!CloseAuction, Serial!CreateSale
    <2>3. ASSUME NEW a \in Auctions, NEW rate \in Rates, Serial!CreateAuction(a, rate)
          PROVE  Consistent(db')
      BY <1>2, <2>3, AuctionEffect DEF Serial!CreateAuction
    <2>4. ASSUME NEW l \in Lots, NEW a \in Auctions, NEW s \in Sellers, NEW price \in Prices,
                 Serial!LateLot(l, a, s, price) \/ Serial!CreateLot(l, a, s, price)
          PROVE  Consistent(db')
      BY <1>2, <2>4, LotEffect
         DEF Serial!LateLot, Serial!CreateLot, Serial!AuctionEditable, Serial!SellerActive
    <2>5. QED
      BY <1>2, <2>1, <2>2, <2>3, <2>4 DEF Serial!Next, Serial!DocumentedNext
  <1>3. Consistent(db) /\ [Serial!Next]_db => Consistent(db)'
    <2>1. ASSUME Consistent(db), UNCHANGED db
          PROVE  Consistent(db')
      BY <2>1
    <2>2. Consistent(db)' <=> Consistent(db')
      BY DEF Consistent, LedgerAgrees, PhaseAgrees, SoldLots, LotsOf
    <2>3. QED
      BY <1>2, <2>1, <2>2
  <1>4. QED
    BY <1>1, <1>3, PTL DEF Serial!Spec
=============================================================================
