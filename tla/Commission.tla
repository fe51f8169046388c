------------------------------ MODULE Commission ------------------------------
(***************************************************************************)
(* The service's arithmetic of money: app/finance.py and the two           *)
(* conversions of app/services.py.  Amounts are stored as whole kopecks and *)
(* cross the API as decimals of at most two places; a rate is a number of  *)
(* basis points, 10000 of which are the whole price.                       *)
(***************************************************************************)
EXTENDS Integers

(* The amounts and rates the function accepts (finance.py raises            *)
(* ValueError outside them).                                               *)
ValidPrice(price) == price \in Nat /\ price > 0
BasisPoints == 0..10000
ValidRate(rate) == rate \in BasisPoints

(* Deviation: rounding to whole roubles.                                    *)
commission_in_roubles(price, rate) == 100 * ((price * rate + 500000) \div 1000000)

(* What a sale costs the seller: integer division, half a kopeck rounds up. *)
commission_kopecks(price, rate) == (price * rate + 5000) \div 10000

(* What is left to the seller; the API computes it, no column stores it.    *)
seller_proceeds(price, rate) == price - commission_kopecks(price, rate)

(* A Decimal is its coefficient and its number of places: 1.50 is          *)
(* [coef |-> 150, places |-> 2].  The request schemas allow 0..2 places.   *)
Scale(places) == CASE places = 0 -> 100 [] places = 1 -> 10 [] OTHER -> 1
Decimals == [coef : Nat, places : 0..2]

(* int(value * 100).                                                        *)
to_kopecks(value) == value.coef * Scale(value.places)

(* Decimal(value) / Decimal(100): the quotient with as few places as it    *)
(* needs.                                                                   *)
from_kopecks(value) ==
    CASE value % 100 = 0 -> [coef |-> value \div 100, places |-> 0]
      [] value % 100 # 0 /\ value % 10 = 0 -> [coef |-> value \div 10, places |-> 1]
      [] OTHER -> [coef |-> value, places |-> 2]

-----------------------------------------------------------------------------
(* The reference: fee is price * rate / 10000 rounded half up, said without *)
(* a division.  The fee is the only integer whose distance from the exact  *)
(* quotient is at most half a kopeck, ties going up.                       *)
RoundedHalfUp(fee, exact, unit) ==
    2 * fee * unit - unit <= 2 * exact /\ 2 * exact < 2 * fee * unit + unit
=============================================================================
