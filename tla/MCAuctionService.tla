--------------------------- MODULE MCAuctionService ---------------------------
(***************************************************************************)
(* AuctionService on small sets.  Ids, e-mails and requests are            *)
(* interchangeable: nothing in the service prefers one to another.         *)
(***************************************************************************)
EXTENDS AuctionService, TLC

ServiceSymmetry ==
    Permutations(Requests) \cup Permutations(Lots) \cup Permutations(Auctions)
=============================================================================
