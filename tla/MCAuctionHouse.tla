--------------------------- MODULE MCAuctionHouse ---------------------------
(* Two players with a coin each, and one blade; or three with a coin each.  *)
EXTENDS AuctionHouse

CONSTANTS ann, ben, cid, blade, gil

Purses == [p \in Player |-> [i \in Item |-> IF i = gil \/ p = ann THEN 1 ELSE 0]]
Coins == [p \in Player |-> [i \in Item |-> IF i = gil THEN 1 ELSE 0]]
=============================================================================
