SPECIFICATION Spec
CONSTANTS
    Requests = {r1, r2}
    NoOne = NoOne
    Auctions = {a1}
    Lots = {l1, l2}
    Sellers = {s1}
    Buyers = {b1}
    Prices = {2}
    Rates = {2500}
    NoAuction = NoAuction
    NoSeller = NoSeller
    Activities = {}
INVARIANTS
    ToldIsKept
