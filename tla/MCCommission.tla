----------------------------- MODULE MCCommission -----------------------------
(***************************************************************************)
(* The arithmetic of Commission on a grid of prices and rates, walked one  *)
(* price or one rate at a time, so that what must hold between two         *)
(* neighbouring prices or rates can be said of a step.                     *)
(***************************************************************************)
EXTENDS Commission

CONSTANTS
    MaxPrice,   \* bound: prices are 1..MaxPrice kopecks
    RateStep    \* bound: rates are the multiples of RateStep up to 10000

ASSUME GridAssumption == MaxPrice \in Nat \ {0} /\ RateStep \in Nat \ {0}

VARIABLES amount, share     \* the price and the rate the walk is at
place == <<amount, share>>

fee == commission_kopecks(amount, share)

Start == amount = 1 /\ share = 0

DearerLot == amount < MaxPrice /\ amount' = amount + 1 /\ UNCHANGED share
HigherRate == share + RateStep <= 10000 /\ share' = share + RateStep /\ UNCHANGED amount

Further == DearerLot \/ HigherRate
Walk == Start /\ [][Further]_place

(* Cutting a sale in two can move the commission by at most one kopeck: no *)
(* way to split a price gains or loses more than the rounding of one sale. *)
SplitMovesOneKopeck ==
    \A part \in 1..(amount - 1) :
        commission_kopecks(part, share) + commission_kopecks(amount - part, share) - fee
            \in {-1, 0, 1}

(* A dearer sale never leaves the seller with less, nor the house; a higher *)
(* rate never lowers the fee.                                              *)
BothGainFromMore ==
    [][/\ fee' >= fee
       /\ share' = share => seller_proceeds(amount, share)' >= seller_proceeds(amount, share)]_place
=============================================================================
