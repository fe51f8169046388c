---------------------------- MODULE SerialAuctions ----------------------------
(***************************************************************************)
(* What the service promises: every request that succeeds is one step on   *)
(* the database, taken when the rules of its handler hold, and nothing     *)
(* else happens to the database.                                           *)
(*                                                                         *)
(* One promise of the documentation is weakened to what the code keeps:    *)
(* LateLot.  create_lot looks at the auction and at the seller before it   *)
(* takes the write lock, so by the time its row is written both may have   *)
(* moved on; all that is left then is what a foreign key demands.          *)
(***************************************************************************)
EXTENDS AuctionData

VARIABLE db

Init == db = EmptyDatabase

CreateSeller(s) == SellerUnknown(db, s) /\ db' = SellerAdded(db, s)
CreateBuyer(b) == BuyerUnknown(db, b) /\ db' = BuyerAdded(db, b)

CreateAuction(a, rate) ==
    db.auctions[a].status = "ABSENT" /\ db' = AuctionAdded(db, a, rate)

(* create_lot as documented: into a DRAFT auction, by an active seller.    *)
CreateLot(l, a, s, price) ==
    /\ db.lots[l].status = "ABSENT"
    /\ AuctionEditable(db, a) /\ SellerActive(db, s)
    /\ db' = LotAdded(db, l, a, s, price)

(* create_lot as the code allows it to end.                                *)
LateLot(l, a, s, price) ==
    /\ db.lots[l].status = "ABSENT"
    /\ db.auctions[a].status # "ABSENT" /\ db.sellers[s] # "none"
    /\ db' = LotAdded(db, l, a, s, price)

OpenAuction(a) == CanOpen(db, a) /\ db' = Opened(db, a)
CloseAuction(a) == CanClose(db, a) /\ db' = Closed(db, a)

CreateSale(l, b, price) ==
    /\ CanSell(db, l, b, price) /\ NeverSold(db, l)
    /\ db' = Sold(db, l, b, price)

SwitchSeller(s, activity) ==
    /\ db.sellers[s] # "none" /\ db' = SellerSwitched(db, s, activity)
SwitchBuyer(b, activity) ==
    /\ db.buyers[b] # "none" /\ db' = BuyerSwitched(db, b, activity)

Participants ==
    \/ \E s \in Sellers : CreateSeller(s)
    \/ \E b \in Buyers : CreateBuyer(b)
    \/ \E s \in Sellers, activity \in {"active", "inactive"} : SwitchSeller(s, activity)
    \/ \E b \in Buyers, activity \in {"active", "inactive"} : SwitchBuyer(b, activity)

Trading ==
    \/ \E a \in Auctions : OpenAuction(a) \/ CloseAuction(a)
    \/ \E l \in Lots, b \in Buyers, price \in Prices : CreateSale(l, b, price)

DocumentedNext ==
    \/ Participants
    \/ Trading
    \/ \E a \in Auctions, rate \in Rates : CreateAuction(a, rate)
    \/ \E l \in Lots, a \in Auctions, s \in Sellers, price \in Prices :
          CreateLot(l, a, s, price)

Next ==
    \/ DocumentedNext
    \/ \E l \in Lots, a \in Auctions, s \in Sellers, price \in Prices :
          LateLot(l, a, s, price)

(* As documented, and as built.                                            *)
Documented == Init /\ [][DocumentedNext]_db
Spec == Init /\ [][Next]_db
=============================================================================
