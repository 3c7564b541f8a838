---------------------------- MODULE AuctionHouse ----------------------------
(***************************************************************************)
(* The auction house on top of the delivery box: players offer, buy and    *)
(* withdraw from map servers, the search server sends back what nobody     *)
(* bought, and payments and returns arrive as parcels.  Everything costs   *)
(* one coin; the fee is left out.                                          *)
(***************************************************************************)
EXTENDS DeliveryBox

CONSTANT ListLimit   \* AH_LIST_LIMIT

ASSUME AuctionAssumption == ListLimit \in Nat

VARIABLES
  sales,    \* rows of auction_house without a buyer
  expiry    \* the search server sending sales back: those selected, and the one at hand
vars == <<boxVars, sales, expiry>>

Sale     == [item : Item \ {Coin}, seller : Player]
NoSale   == [item |-> None, seller |-> None]
Resting  == [todo |-> {}, now |-> NoSale]

\* The auction house serves p.
Served(p) == MayAct(p) /\ (expiry = Resting \/ "expire" \in Interrupted)

\* INSERT of the sale, and the item out of the inventory.
ProofOfPurchase(p, i) ==
  /\ Served(p) /\ i # Coin /\ Has(p, i)
  /\ ListLimit > 0 => Cardinality({s \in sales : s.seller = p}) < ListLimit
  /\ [item |-> i, seller |-> p] \notin sales
  /\ sales' = sales \cup {[item |-> i, seller |-> p]}
  /\ Take(p, i)
  /\ UNCHANGED <<out, inn, view, pc, gone, expiry>>

\* UPDATE of a row without a buyer, the trigger auction_house_buy, and the inventory.
PurchasingItems(p, s) ==
  /\ Served(p) /\ Used(bag[p]) < Room /\ Has(p, Coin) /\ Fits(s.seller)
  /\ sales' = sales \ {s}
  /\ inn' = [inn EXCEPT ![s.seller] = Post(@, Coin, None)]
  /\ bag' = [bag EXCEPT ![p] = More(More(@, s.item, 1), Coin, -1)]
  /\ UNCHANGED <<out, view, pc, gone, expiry>>

\* One transaction.
CancelSale(p, s) ==
  /\ Served(p) /\ s.seller = p /\ HasRoom(p, s.item)
  /\ sales' = sales \ {s} /\ Give(p, s.item)
  /\ UNCHANGED <<out, inn, view, pc, gone, expiry>>

Unhurried == \A p \in Player : pc[p].op \in Interrupted \cup {"idle"}

\* SELECT of what is too old, whichever that is.
ExpireAHItems ==
  /\ expiry = Resting /\ Unhurried
  /\ \E old \in (SUBSET sales) \ {{}} : expiry' = [todo |-> old, now |-> NoSale]
  /\ UNCHANGED <<boxVars, sales>>

\* INSERT of a parcel for the seller.
SendBack(s) ==
  /\ s \in expiry.todo /\ expiry.now = NoSale /\ Unhurried /\ Fits(s.seller)
  /\ inn' = [inn EXCEPT ![s.seller] = Post(@, s.item, None)]
  /\ expiry' = [expiry EXCEPT !.now = s]
  /\ UNCHANGED <<bag, out, view, pc, gone, sales>>

\* DELETE by its number.
StrikeOff ==
  /\ expiry.now # NoSale /\ Unhurried
  /\ sales' = sales \ {expiry.now}
  /\ expiry' = [todo |-> expiry.todo \ {expiry.now}, now |-> NoSale]
  /\ UNCHANGED boxVars

Init == BoxInit /\ sales = {} /\ expiry = Resting

Next ==
  \/ \E p \in Player :
       \/ (expiry = Resting \/ "expire" \in Interrupted) /\ BoxStep(p) /\ UNCHANGED <<sales, expiry>>
       \/ \E i \in Item : ProofOfPurchase(p, i)
       \/ \E s \in sales : PurchasingItems(p, s) \/ CancelSale(p, s)
  \/ ExpireAHItems \/ StrikeOff
  \/ \E s \in expiry.todo : SendBack(s)

Spec == Init /\ [][Next]_vars

-----------------------------------------------------------------------------
TypeOK ==
  /\ BoxTypeOK /\ sales \subseteq Sale
  /\ expiry \in [todo : SUBSET Sale, now : Sale \cup {NoSale}]

(* Where things are.                                                        *)
Laid(p, i)      == Cardinality({k \in Cell : out[p][k].item = i /\ ~out[p][k].sent})
In(p, Slots, i) == Cardinality({s \in Slots : inn[p][s].item = i})
OnSale(p, i)    == Cardinality({s \in sales : s.seller = p /\ s.item = i /\ s # expiry.now})

Where(place, p, i) ==
  CASE place = "hand"   -> bag[p][i]
    [] place = "out"    -> Laid(p, i)
    [] place = "queue"  -> In(p, Queued, i)
    [] place = "box"    -> In(p, Cell, i)
    [] place = "market" -> OnSale(p, i)
    [] place = "gone"   -> gone[p][i]
Thing  == ({"hand", "out", "queue", "box", "market", "gone"} \X Player) \X Item
Parcel == INSTANCE Parcels WITH Kind <- Item, at <- [h \in Thing |-> Where(h[1][1], h[1][2], h[2])]

\* Whatever the players and the search server do between each other's statements, every
\* item is in one place and takes the known ways: a parcel is with its sender, in the
\* queue or in the box of its receiver, a purchase pays the seller once.
ParcelSpec == Parcel!Spec

\* No item is made or lost.
ItemsKept == \A i \in Item :
  MapThenSumSet(LAMBDA h : IF h[2] = i THEN Where(h[1][1], h[1][2], i) ELSE 0, Thing)
    = MapThenSumSet(LAMBDA p : Belongings[p][i], Player)
=============================================================================
