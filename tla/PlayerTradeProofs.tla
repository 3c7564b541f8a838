------------------------- MODULE PlayerTradeProofs -------------------------
(***************************************************************************)
(* For any players, items, capacities and situations: the variables keep   *)
(* their types, no more of an item is reserved than there is, a rare item  *)
(* is held once, and where nothing is withdrawn no slot of a container     *)
(* points at an item that is gone.  For any players whose requests do not  *)
(* cross: a trade opens between one who asked and one who accepted, it     *)
(* binds both to each other until it ends for both, and a closed window    *)
(* means no trade.                                                         *)
(*                                                                         *)
(* The argument: every write to an inventory, be it an exchange, a change  *)
(* of a reservation, a use or a loss, takes a legal inventory to a legal   *)
(* one, where slot 0 always holds the currency and no more than its cap.   *)
(* Each slot of a container has an item of its own, which is reserved or   *)
(* in use, and what is reserved or in use is not thrown away.              *)
(*                                                                         *)
(* While the server holds two as each other's target and one of them is    *)
(* asked, the other waits for the answer and nothing that it has yet to    *)
(* read takes the wait from it.  The targets of two that trade change only *)
(* for both at once, because neither has a closed window.                  *)
(*                                                                         *)
(* The exchange makes and loses nothing.  An inventory refuses what it has *)
(* no room for, and what it refuses is lost: so there is room for all that *)
(* has yet to cross.  The counter of a container, which is what the check  *)
(* before an exchange compares with the free slots, is no less than the    *)
(* filled slots, and a rare item goes to one who has none.                 *)
(***************************************************************************)
EXTENDS PlayerTrade, FiniteSetTheorems, WellFoundedInduction, TLAPS

Item == [kind : Kind \cup {None}, qty : Nat, res : Nat]
Inventory == [InvSlot -> Item]
Box == [type : {"empty", "trade", "use"}, lock : BOOLEAN, count : 0 .. CountSize - 1,
        slot : [BoxSlot -> InvSlot \cup {Nothing}]]

\* An inventory as a character may have one.
Legal(in) ==
  /\ in \in Inventory
  /\ in[0].kind = Gil /\ in[0].qty <= GilCap
  /\ \A s \in InvSlot : in[s].res <= in[s].qty
  /\ \A s, t \in InvSlot : in[s].kind = in[t].kind /\ in[s].kind \in Rare => s = t

\* An exchange is between two players.
DealOK == deal # NoDeal => deal.from \in Player /\ deal.to \in Player /\ deal.from # deal.to

\* Nobody trades with themselves.
NotOneself == \A p \in Player : pend[p] # p

\* The inductive strengthening of TypeOK, Backed and RareOnce.
TradeInv == TypeOK /\ DealOK /\ NotOneself /\ \A p \in Player : Legal(inv[p])

-----------------------------------------------------------------------------
(* The operators on inventories.                                            *)

\* There is a first one in a set of slots.
LEMMA FirstIn ==
  ASSUME NEW S \in SUBSET InvSlot, S # {}
  PROVE  First(S) \in S
<1>1. S \subseteq Nat
  BY DEF InvSlot
<1>2. PICK x \in S : \A y \in S : ~(<<y, x>> \in OpToRel(<, Nat))
  BY <1>1, NatLessThanWellFounded, WFMin
<1>3. \A y \in S : ~(y < x)
  BY <1>1, <1>2 DEF OpToRel
<1>4. \A y \in S : x <= y
  BY <1>1, <1>3
<1> QED
  BY <1>4 DEF First

\* An item is added to a free slot, the currency to slot 0, a rare one only if there is
\* none of it.
LEMMA AddItemLegal ==
  ASSUME NEW in, Legal(in), NEW kind \in Kind \cup {None}, NEW n \in Nat
  PROVE  Legal(AddItem(in, kind, n))
<1> USE TradeAssumption
<1> DEFINE out == AddItem(in, kind, n)
<1>0. 0 \in InvSlot
  BY DEF InvSlot
<1>1. CASE out = in
  BY <1>1
<1>2. CASE kind = Gil /\ out = [in EXCEPT ![0].qty = AtMost(@ + n, GilCap)]
  <2> DEFINE q == AtMost(in[0].qty + n, GilCap)
  <2>1. in[0] \in Item /\ q \in Nat /\ in[0].qty <= q /\ q <= GilCap
    BY <1>0 DEF Legal, Inventory, Item, AtMost
  <2> HIDE DEF q
  <2>2. out = [in EXCEPT ![0] = [in[0] EXCEPT !.qty = q]]
    BY <1>0, <1>2 DEF Legal, Inventory, q
  <2> DEFINE i == [in[0] EXCEPT !.qty = q]
  <2>3. i \in Item /\ i.kind = in[0].kind /\ i.qty = q /\ i.res = in[0].res
    BY <2>1 DEF Item
  <2> HIDE DEF i
  <2>4. in[0].res <= q
    BY <1>0, <2>1 DEF Legal, Item
  <2>5. /\ out \in Inventory /\ out[0] = i
        /\ \A s \in InvSlot : s # 0 => out[s] = in[s]
    BY <1>0, <2>2, <2>3 DEF Legal, Inventory, i
  <2> HIDE DEF out
  <2>6. out[0].kind = Gil /\ out[0].qty <= GilCap
    BY <2>1, <2>3, <2>5 DEF Legal
  <2>7. \A s \in InvSlot : out[s].res <= out[s].qty /\ out[s].kind = in[s].kind
    BY <1>0, <2>3, <2>4, <2>5 DEF Legal
  <2>8. \A s, t \in InvSlot : out[s].kind = out[t].kind /\ out[s].kind \in Rare => s = t
    BY <2>7 DEF Legal
  <2>9. Legal(out)
    BY <2>5, <2>6, <2>7, <2>8 DEF Legal
  <2> QED
    BY <2>9 DEF out
<1>3. CASE /\ FreeSlots(in) # {} /\ ~(kind \in Rare /\ Holds(in, kind)) /\ kind # Gil
           /\ out = [in EXCEPT ![First(FreeSlots(in))] = [kind |-> kind, qty |-> n, res |-> 0]]
  <2> DEFINE f == First(FreeSlots(in))
             i == [kind |-> kind, qty |-> n, res |-> 0]
  <2>1. f \in FreeSlots(in)
    BY <1>3, FirstIn DEF FreeSlots
  <2>2. f \in InvSlot \ {0}
    BY <2>1 DEF FreeSlots
  <2>3. i \in Item /\ i.kind = kind /\ i.res <= i.qty
    BY DEF Item
  <2> HIDE DEF f, i
  <2>4. /\ out \in Inventory /\ out[f] = i
        /\ \A s \in InvSlot : s # f => out[s] = in[s]
    BY <1>3, <2>2, <2>3 DEF Legal, Inventory, f, i
  <2>5. kind \in Rare => \A s \in InvSlot : in[s].kind # kind
    BY <1>0, <1>3 DEF Holds, Legal
  <2> HIDE DEF out
  <2>6. out[0].kind = Gil /\ out[0].qty <= GilCap
    BY <1>0, <2>2, <2>4 DEF Legal
  <2>7. \A s \in InvSlot : out[s].res <= out[s].qty
    BY <2>3, <2>4 DEF Legal
  <2>8. \A s, t \in InvSlot : out[s].kind = out[t].kind /\ out[s].kind \in Rare => s = t
    BY <2>2, <2>3, <2>4, <2>5 DEF Legal
  <2>9. Legal(out)
    BY <2>4, <2>6, <2>7, <2>8 DEF Legal
  <2> QED
    BY <2>9 DEF out
<1> QED
  BY <1>1, <1>2, <1>3 DEF AddItem

\* Some of an item goes, or all of it with its slot.
LEMMA UpdateItemLegal ==
  ASSUME NEW in, Legal(in), NEW s \in InvSlot, NEW n \in Nat
  PROVE  Legal(UpdateItem(in, s, n))
<1> USE TradeAssumption
<1> DEFINE out == UpdateItem(in, s, n)
<1>0. 0 \in InvSlot /\ in[s] \in Item /\ in[s].res <= in[s].qty
  BY DEF InvSlot, Legal, Inventory
<1>1. CASE out = in
  BY <1>1
<1>2. ASSUME NEW i \in Item, out = [in EXCEPT ![s] = i], i.res <= i.qty,
             i.kind = in[s].kind \/ i.kind \notin Rare,
             s = 0 => i.kind = Gil /\ i.qty <= GilCap
      PROVE  Legal(out)
  <2>1. /\ out \in Inventory /\ out[s] = i
        /\ \A t \in InvSlot : t # s => out[t] = in[t]
    BY <1>2 DEF Legal, Inventory
  <2> HIDE DEF out
  <2> QED
    BY <1>0, <1>2, <2>1 DEF Legal
<1>3. CASE s # 0 /\ out = [in EXCEPT ![s] = NoItem]
  <2>1. NoItem \in Item /\ NoItem.res <= NoItem.qty /\ NoItem.kind \notin Rare
    BY DEF NoItem, Item
  <2> QED
    BY <1>2, <1>3, <2>1
<1>4. CASE ~(in[s].qty - in[s].res < n) /\ out = [in EXCEPT ![s].qty = @ - n]
  <2> DEFINE i == [in[s] EXCEPT !.qty = @ - n]
  <2>1. in[s].qty - n \in Nat /\ in[s].res <= in[s].qty - n
    BY <1>0, <1>4 DEF Item
  <2>2. i \in Item /\ i.res <= i.qty /\ i.kind = in[s].kind /\ i.qty <= in[s].qty
    BY <1>0, <2>1 DEF Item
  <2>3. out = [in EXCEPT ![s] = i]
    BY <1>4 DEF Legal, Inventory
  <2>4. s = 0 => i.kind = Gil /\ i.qty <= GilCap
    <3> HIDE DEF i, out
    <3> QED
      BY <1>0, <2>2 DEF Legal, Item
  <2> QED
    BY <1>2, <2>2, <2>3, <2>4
<1> QED
  BY <1>1, <1>3, <1>4 DEF UpdateItem

\* Reservations change, each within its quantity.
LEMMA ReservedLegal ==
  ASSUME NEW in, Legal(in), NEW out \in Inventory,
         \A s \in InvSlot : /\ out[s].kind = in[s].kind /\ out[s].qty = in[s].qty
                            /\ out[s].res <= in[s].qty
  PROVE  Legal(out)
<1>1. 0 \in InvSlot
  BY TradeAssumption DEF InvSlot
<1> QED
  BY <1>1 DEF Legal

\* A reservation of what there is.
LEMMA SetReserveLegal ==
  ASSUME NEW in, Legal(in), NEW s \in InvSlot, NEW n \in Nat, n <= in[s].qty
  PROVE  /\ Legal(SetReserve(in, s, n))
         /\ SetReserve(in, s, n)[s] = [in[s] EXCEPT !.res = n]
         /\ \A t \in InvSlot : t # s => SetReserve(in, s, n)[t] = in[t]
<1> DEFINE out == SetReserve(in, s, n)
           i == [in[s] EXCEPT !.res = n]
<1>1. in[s] \in Item
  BY DEF Legal, Inventory
<1>2. i \in Item /\ i.kind = in[s].kind /\ i.qty = in[s].qty /\ i.res = n
  BY <1>1 DEF Item
<1>3. out = [in EXCEPT ![s] = i]
  BY DEF SetReserve, Legal, Inventory
<1> HIDE DEF i
<1>4. /\ out \in Inventory /\ out[s] = i
      /\ \A t \in InvSlot : t # s => out[t] = in[t]
  BY <1>2, <1>3 DEF Legal, Inventory
<1> HIDE DEF out
<1>5. \A t \in InvSlot : /\ out[t].kind = in[t].kind /\ out[t].qty = in[t].qty
                         /\ out[t].res <= in[t].qty
  BY <1>2, <1>4 DEF Legal
<1>6. Legal(out)
  BY <1>4, <1>5, ReservedLegal
<1> QED
  BY <1>4, <1>6 DEF out, i

\* What a container pointed at is free again.
LEMMA UnreservedLegal ==
  ASSUME NEW in, Legal(in), NEW b
  PROVE  Legal(Unreserved(in, b))
<1> DEFINE out == [s \in InvSlot |-> IF s \in Pointed(b) THEN [in[s] EXCEPT !.res = 0] ELSE in[s]]
<1>1. ASSUME NEW s \in InvSlot
      PROVE  /\ out[s] \in Item
             /\ out[s].kind = in[s].kind /\ out[s].qty = in[s].qty
             /\ out[s].res <= in[s].qty
  <2>1. in[s] \in Item /\ in[s].res <= in[s].qty
    BY DEF Legal, Inventory
  <2> QED
    BY <2>1 DEF Item
<1>2. out \in Inventory
  BY <1>1 DEF Inventory
<1> HIDE DEF out
<1>3. Legal(out)
  BY <1>1, <1>2, ReservedLegal
<1> QED
  BY <1>3 DEF Unreserved, out

-----------------------------------------------------------------------------
(* The containers.                                                          *)

\* An item is put into a slot, or a slot is emptied.
LEMMA BoxTypes ==
  ASSUME NEW b \in Box, NEW k \in BoxSlot
  PROVE  /\ EmptyBox \in Box /\ ClearSlot(b, k) \in Box
         /\ \A s \in InvSlot : SetItem(b, k, s) \in Box
         /\ \A type \in {"trade", "use"} : SetType(b, type) \in Box
         /\ \A l \in BOOLEAN : [b EXCEPT !.lock = l] \in Box
<1> USE TradeAssumption
<1>1. EmptyBox \in Box
  BY DEF EmptyBox, Box
<1>2. ASSUME NEW s \in InvSlot \cup {Nothing}
      PROVE  /\ [b.slot EXCEPT ![k] = s] \in [BoxSlot -> InvSlot \cup {Nothing}]
             /\ [b EXCEPT !.slot = [@ EXCEPT ![k] = s]] \in Box
  BY DEF Box
<1>3. ClearSlot(b, k) \in Box
  BY <1>2 DEF ClearSlot
<1>4. ASSUME NEW s \in InvSlot PROVE SetItem(b, k, s) \in Box
  <2> DEFINE sl == [b.slot EXCEPT ![k] = s]
             n  == IF b.slot[k] = Nothing THEN (b.count + 1) % CountSize ELSE b.count
  <2>1. sl \in [BoxSlot -> InvSlot \cup {Nothing}]
    BY <1>2
  <2>2. b.count \in 0 .. CountSize - 1 /\ (b.count + 1) % CountSize \in 0 .. CountSize - 1
    BY DEF Box
  <2>3. n \in 0 .. CountSize - 1
    BY <2>2
  <2>4. SetItem(b, k, s) = IF b.lock THEN b ELSE [b EXCEPT !.slot = sl, !.count = n]
    BY DEF SetItem, Box
  <2> HIDE DEF sl, n
  <2> QED
    BY <2>1, <2>3, <2>4 DEF Box
<1>5. \A type \in {"trade", "use"} : SetType(b, type) \in Box
  BY DEF SetType, Box
<1>6. \A l \in BOOLEAN : [b EXCEPT !.lock = l] \in Box
  BY DEF Box
<1> QED
  BY <1>1, <1>3, <1>4, <1>5, <1>6

\* The inventories of all players are legal.
Lawful(iv) == iv \in [Player -> Inventory] /\ \A p \in Player : Legal(iv[p])

\* What is left to show when the players who are there and the exchange are.
TradeTypes ==
  /\ box \in [Player -> Box] /\ Lawful(inv) /\ NotOneself
  /\ pend \in [Player -> Player \cup {None}]
  /\ using \in [Player -> InvSlot]
  /\ client \in [Player -> {"closed", "waiting", "asked", "open", "ok"}]
  /\ news \in [Player -> {"same", "changed", "closed", "asked", "open"}]
  /\ here \in [Player -> BOOLEAN] /\ fresh \in [Player -> BOOLEAN]
DealTypes ==
  /\ deal \in [from : Player \cup {None}, to : Player \cup {None}, k : 0 .. TradeSlots, back : BOOLEAN]
  /\ DealOK
  /\ play \in Play

SpentType == spent \in [Player -> BOOLEAN]

\* The invariant is what it says of each part.
LEMMA SplitTrade == TradeInv <=> TradeTypes /\ DealTypes /\ SpentType
BY DEF TradeInv, TypeOK, TradeTypes, DealTypes, SpentType, Lawful, Inventory, Item, Box, Legal

\* The same of the next state.
LEMMA SplitTradeNext == TradeInv' <=> TradeTypes' /\ DealTypes' /\ SpentType'
BY SplitTrade, PTL

\* Containers are cleaned, and what they pointed at is free again.
LEMMA CleanTypes ==
  ASSUME TradeTypes, NEW P, Clean(P)
  PROVE  box' \in [Player -> Box] /\ Lawful(inv')
<1>1. EmptyBox \in Box
  BY TradeAssumption DEF EmptyBox, Box
<1>2. box' \in [Player -> Box]
  BY <1>1 DEF Clean, TradeTypes
<1>3. ASSUME NEW p \in Player PROVE Legal(inv'[p])
  BY <1>3, UnreservedLegal DEF Clean, TradeTypes, Lawful
<1>4. inv' \in [Player -> Inventory]
  BY <1>3 DEF Clean, Legal
<1> QED
  BY <1>2, <1>3, <1>4 DEF Lawful

\* Trade targets are forgotten, and news is told.
LEMMA TellTypes ==
  ASSUME TradeTypes, NEW P
  PROVE  /\ CleanTradeTargets(P) => pend' \in [Player -> Player \cup {None}] /\ NotOneself'
         /\ \A win \in {"closed", "asked", "open"} :
              Tell(P, win) => news' \in [Player -> {"same", "changed", "closed", "asked", "open"}]
         /\ \A p \in Player : TellChange(p)
              => news' \in [Player -> {"same", "changed", "closed", "asked", "open"}]
         /\ \A p \in Player : \A win \in {"closed", "waiting", "asked", "open", "ok"} :
              ClientDoes(p, win)
                => client' \in [Player -> {"closed", "waiting", "asked", "open", "ok"}]
BY TradeAssumption DEF TradeTypes, CleanTradeTargets, NotOneself, Tell, TellChange, ClientDoes

\* One inventory becomes another legal one.
LEMMA OneInventory ==
  ASSUME Lawful(inv), NEW p \in Player, NEW out, Legal(out), inv' = [inv EXCEPT ![p] = out]
  PROVE  Lawful(inv')
BY DEF Lawful, Legal

-----------------------------------------------------------------------------
(* Every step keeps the invariant.                                          *)

\* Reading, asking and the passing of a minute.
LEMMA AskTypes ==
  ASSUME TradeTypes, NEW p \in Player,
         Read(p) \/ Age(p) \/ \E q \in Player : TradeReq(p, q)
  PROVE  TradeTypes'
<1>1. CASE Read(p)
  <2>1. client' \in [Player -> {"closed", "waiting", "asked", "open", "ok"}]
    BY <1>1 DEF Read, TradeTypes
  <2>2. news' \in [Player -> {"same", "changed", "closed", "asked", "open"}]
    BY <1>1 DEF Read, TradeTypes
  <2> QED
    BY <1>1, <2>1, <2>2 DEF Read, TradeTypes, Lawful, NotOneself
<1>2. CASE Age(p)
  BY <1>2 DEF Age, TradeTypes, Lawful, NotOneself
<1>3. ASSUME NEW q \in Player, TradeReq(p, q) PROVE TradeTypes'
  <2>1. p # q /\ ClientDoes(p, "waiting") /\ UNCHANGED <<play, here, inv, box, using, deal>>
    BY <1>3 DEF TradeReq
  <2>2. \/ Tell({p}, "closed") /\ UNCHANGED <<pend, fresh>>
        \/ UNCHANGED <<pend, fresh, news>>
        \/ CleanTradeTargets({p, pend[p]}) /\ Tell({p, pend[p]}, "closed") /\ UNCHANGED fresh
        \/ /\ pend' = [pend EXCEPT ![p] = q, ![q] = p]
           /\ fresh' = [fresh EXCEPT ![p] = TRUE, ![q] = TRUE]
           /\ Tell({q}, "asked")
    BY <1>3 DEF TradeReq
  <2>3. client' \in [Player -> {"closed", "waiting", "asked", "open", "ok"}]
    BY <2>1, TellTypes
  <2>4. news' \in [Player -> {"same", "changed", "closed", "asked", "open"}]
    BY <2>2, TellTypes DEF TradeTypes
  <2>5. pend' = [pend EXCEPT ![p] = q, ![q] = p]
          => pend' \in [Player -> Player \cup {None}] /\ NotOneself'
    BY <2>1 DEF TradeTypes, NotOneself
  <2>6. pend' \in [Player -> Player \cup {None}] /\ NotOneself'
    BY <2>2, <2>5, TellTypes DEF TradeTypes, NotOneself
  <2>7. fresh' \in [Player -> BOOLEAN]
    BY <2>2 DEF TradeTypes
  <2> QED
    BY <2>1, <2>3, <2>4, <2>6, <2>7 DEF TradeTypes, Lawful
<1> QED
  BY <1>1, <1>2, <1>3

\* Accepting, cancelling and confirming.
LEMMA AnswerTypes ==
  ASSUME TradeTypes, NEW p \in Player,
         TradeStart(p) \/ TradeCancell(p) \/ TradeMake(p)
  PROVE  TradeTypes'
<1>1. Mutual(p) => pend[p] \in Player
  BY DEF Mutual, Found, TradeTypes
<1>2. \A q \in Player, l \in BOOLEAN :
        box[q] \in Box /\ SetType(box[q], "trade") \in Box /\ [box[q] EXCEPT !.lock = l] \in Box
  <2>1. 0 \in BoxSlot /\ \A q \in Player : box[q] \in Box
    BY TradeAssumption DEF BoxSlot, TradeTypes
  <2> QED
    BY <2>1, BoxTypes
<1>3. CASE TradeStart(p)
  <2>1. ClientDoes(p, "waiting") /\ UNCHANGED <<play, here, fresh, using, deal, inv>>
    BY <1>3 DEF TradeStart, Ignored
  <2>2. \/ UNCHANGED <<box, pend, news>>
        \/ /\ Mutual(p)
           /\ box' = [box EXCEPT ![p] = SetType(@, "trade"), ![pend[p]] = SetType(@, "trade")]
           /\ Tell({p, pend[p]}, "open") /\ UNCHANGED pend
        \/ CleanTradeTargets({p, pend[p]}) /\ UNCHANGED <<box, news>>
    BY <1>3 DEF TradeStart, Ignored
  <2>3. ASSUME Mutual(p),
               box' = [box EXCEPT ![p] = SetType(@, "trade"), ![pend[p]] = SetType(@, "trade")]
        PROVE  box' \in [Player -> Box]
    <3> DEFINE b1 == [box EXCEPT ![p] = SetType(@, "trade")]
    <3>1. b1 \in [Player -> Box]
      BY <1>2 DEF TradeTypes
    <3>2. SetType(b1[pend[p]], "trade") \in Box
      BY <1>1, <2>3, <3>1, BoxTypes, TradeAssumption DEF BoxSlot
    <3> QED
      BY <2>3, <3>1, <3>2
  <2>4. box' \in [Player -> Box]
    BY <2>2, <2>3 DEF TradeTypes
  <2>5. client' \in [Player -> {"closed", "waiting", "asked", "open", "ok"}]
    BY <2>1, TellTypes
  <2>6. news' \in [Player -> {"same", "changed", "closed", "asked", "open"}]
    BY <2>2, TellTypes DEF TradeTypes
  <2>7. pend' \in [Player -> Player \cup {None}] /\ NotOneself'
    BY <2>2, TellTypes DEF TradeTypes, NotOneself
  <2> QED
    BY <2>1, <2>4, <2>5, <2>6, <2>7 DEF TradeTypes, Lawful
<1>4. CASE TradeCancell(p)
  <2>1. ClientDoes(p, "closed") /\ UNCHANGED <<play, here, fresh, using, deal>>
    BY <1>4 DEF TradeCancell
  <2>2. \/ news' = [news EXCEPT ![p] = "same"] /\ UNCHANGED <<inv, box, pend>>
        \/ /\ Clean({r \in {p, pend[p]} : Trading(r)})
           /\ CleanTradeTargets({p, pend[p]})
           /\ news' = [news EXCEPT ![p] = "same", ![pend[p]] = "closed"]
    BY <1>4 DEF TradeCancell
  <2>3. box' \in [Player -> Box] /\ Lawful(inv')
    BY <2>2, CleanTypes DEF TradeTypes
  <2>4. client' \in [Player -> {"closed", "waiting", "asked", "open", "ok"}]
    BY <2>1, TellTypes
  <2>5. news' \in [Player -> {"same", "changed", "closed", "asked", "open"}]
    BY <2>2 DEF TradeTypes
  <2>6. pend' \in [Player -> Player \cup {None}] /\ NotOneself'
    BY <2>2, TellTypes DEF TradeTypes, NotOneself
  <2> QED
    BY <2>1, <2>3, <2>4, <2>5, <2>6 DEF TradeTypes
<1>5. CASE TradeMake(p)
  <2>1. ClientDoes(p, "ok") /\ UNCHANGED <<play, here, fresh, using>>
    BY <1>5 DEF TradeMake
  <2>2. \/ UNCHANGED <<inv, box, pend, news>>
        \/ box' = [box EXCEPT ![p].lock = TRUE] /\ UNCHANGED <<inv, pend, news>>
        \/ Clean({p, pend[p]}) /\ CleanTradeTargets({p, pend[p]}) /\ Tell({p, pend[p]}, "closed")
    BY <1>5 DEF TradeMake, Ignored
  <2>3. box' \in [Player -> Box] /\ Lawful(inv')
    BY <1>2, <2>2, CleanTypes DEF TradeTypes
  <2>4. client' \in [Player -> {"closed", "waiting", "asked", "open", "ok"}]
    BY <2>1, TellTypes
  <2>5. news' \in [Player -> {"same", "changed", "closed", "asked", "open"}]
    BY <2>2, TellTypes DEF TradeTypes
  <2>6. pend' \in [Player -> Player \cup {None}] /\ NotOneself'
    BY <2>2, TellTypes DEF TradeTypes, NotOneself
  <2> QED
    BY <2>1, <2>3, <2>4, <2>5, <2>6 DEF TradeTypes
<1> QED
  BY <1>3, <1>4, <1>5

\* An item is put into a slot or taken back.
LEMMA ListTypes ==
  ASSUME TradeTypes, NEW p \in Player, NEW k \in BoxSlot, NEW s \in InvSlot, NEW n \in Nat,
         TradeList(p, k, s, n), UNCHANGED <<here, pend, fresh, using, client>>
  PROVE  TradeTypes'
<1> DEFINE q    == pend[p]
           old  == box[p].slot[k]
           in1  == IF old = Nothing THEN inv[p] ELSE SetReserve(inv[p], old, 0)
           box1 == IF old = Nothing THEN box[p] ELSE ClearSlot(box[p], k)
           item == in1[s]
           res  == IF n = 0 THEN 0 ELSE item.res + n
<1>1. box[p] \in Box /\ old \in InvSlot \cup {Nothing} /\ Legal(inv[p])
  BY DEF TradeTypes, Box, Lawful
<1>2. Legal(in1)
  <2>1. CASE old = Nothing
    BY <1>1, <2>1
  <2>2. CASE old # Nothing
    <3>1. old \in InvSlot /\ inv[p][old].qty \in Nat
      BY <1>1, <2>2 DEF Legal, Inventory, Item
    <3> HIDE DEF old
    <3>2. 0 <= inv[p][old].qty
      BY <3>1
    <3> QED
      BY <1>1, <2>2, <3>1, <3>2, SetReserveLegal
  <2> QED
    BY <2>1, <2>2
<1>3. box1 \in Box
  BY <1>1, BoxTypes
<1>4. item \in Item
  BY <1>2 DEF Legal, Inventory
<1> HIDE DEF in1, box1
<1>5. Offerable(item, n) => res \in Nat /\ res <= item.qty
  BY <1>4 DEF Offerable, Item
<1>6. Offerable(item, n) => Legal(SetReserve(in1, s, res))
  <2> HIDE DEF res, item
  <2> QED
    BY <1>2, <1>5, SetReserveLegal DEF item
<1>7. Legal(SetReserve(in1, s, 0))
  <2>1. 0 <= in1[s].qty
    BY <1>4 DEF Item
  <2> QED
    BY <1>2, <2>1, SetReserveLegal
<1>8. \/ UNCHANGED <<inv, box, news>>
      \/ inv' = [inv EXCEPT ![p] = in1] /\ box' = [box EXCEPT ![p] = box1] /\ UNCHANGED news
      \/ /\ Mutual(p) /\ Offerable(item, n)
         /\ inv' = [inv EXCEPT ![p] = SetReserve(in1, s, res)]
         /\ box' = [box EXCEPT ![p] = [SetItem(box1, k, s) EXCEPT !.lock = FALSE], ![q].lock = FALSE]
         /\ TellChange(q)
      \/ /\ Mutual(p)
         /\ inv' = [inv EXCEPT ![p] = SetReserve(in1, s, 0)]
         /\ box' = [box EXCEPT ![p] = [box1 EXCEPT !.lock = FALSE], ![q].lock = FALSE]
         /\ TellChange(q)
  BY ZenonT(30) DEF TradeList, in1, box1
<1>9. Mutual(p) => q \in Player /\ q # p
  BY DEF Mutual, Found, TradeTypes, NotOneself
<1>10. Lawful(inv')
  <2> HIDE DEF res, item
  <2>1. Lawful(inv)
    BY DEF TradeTypes
  <2> QED
    BY <1>2, <1>6, <1>7, <1>8, <2>1, OneInventory
<1>11. box' \in [Player -> Box]
  <2>1. ASSUME NEW b \in Box, Mutual(p), box' = [box EXCEPT ![p] = b, ![q].lock = FALSE]
        PROVE  box' \in [Player -> Box]
    <3>1. box[q] \in Box /\ [box[q] EXCEPT !.lock = FALSE] \in Box
      BY <1>9, <2>1, BoxTypes DEF TradeTypes
    <3>2. box' = [box EXCEPT ![p] = b, ![q] = [box[q] EXCEPT !.lock = FALSE]]
      BY <1>9, <2>1 DEF TradeTypes
    <3> HIDE DEF q
    <3> QED
      BY <3>1, <3>2 DEF TradeTypes
  <2>2. [SetItem(box1, k, s) EXCEPT !.lock = FALSE] \in Box /\ [box1 EXCEPT !.lock = FALSE] \in Box
    <3>1. SetItem(box1, k, s) \in Box
      BY <1>3, BoxTypes
    <3> QED
      BY <1>3, <3>1, BoxTypes
  <2>3. CASE box' = box \/ box' = [box EXCEPT ![p] = box1]
    BY <1>3, <2>3 DEF TradeTypes
  <2> QED
    BY <1>8, <2>1, <2>2, <2>3
<1>12. news' \in [Player -> {"same", "changed", "closed", "asked", "open"}]
  BY <1>8, <1>9, TellTypes DEF TradeTypes
<1> QED
  BY <1>10, <1>11, <1>12 DEF TradeTypes, NotOneself

\* The other uses of containers and inventories.
LEMMA OtherTypes ==
  ASSUME TradeTypes, NEW p \in Player,
         \/ \E s \in InvSlot : UseItem(p, s)
         \/ FinishItem(p) \/ Cleanup(p) \/ CombineAsk(p)
         \/ \E s \in InvSlot : \E n \in 1 .. inv[p][s].qty : Discard(p, s, n)
         \/ LeaveZone(p) \/ EnterZone(p)
  PROVE  TradeTypes'
<1>1. box[p] \in Box /\ Legal(inv[p]) /\ using[p] \in InvSlot /\ EmptyBox \in Box /\ Lawful(inv)
  BY TradeAssumption DEF TradeTypes, Lawful, EmptyBox, Box
<1>2. ASSUME NEW s \in InvSlot, UseItem(p, s) PROVE TradeTypes'
  <2>1. SetItem(SetType(box[p], "use"), 0, s) \in Box
    <3>1. 0 \in BoxSlot
      BY TradeAssumption DEF BoxSlot
    <3>2. SetType(box[p], "use") \in Box
      BY <1>1, <3>1, BoxTypes
    <3> QED
      BY <3>1, <3>2, BoxTypes
  <2>2. box' \in [Player -> Box]
    BY <1>2, <2>1 DEF UseItem, TradeTypes
  <2> QED
    BY <1>2, <2>2 DEF UseItem, TradeTypes, NotOneself
<1>3. CASE FinishItem(p)
  <2>1. inv' = [inv EXCEPT ![p] = UpdateItem(inv[p], using[p], 1)] /\ 1 \in Nat
    BY <1>3 DEF FinishItem
  <2>2. Legal(UpdateItem(inv[p], using[p], 1))
    BY <1>1, <2>1, UpdateItemLegal
  <2>3. Lawful(inv')
    BY <1>1, <2>1, <2>2, OneInventory
  <2> QED
    BY <1>3, <2>3 DEF FinishItem, TradeTypes, NotOneself
<1>8. CASE Cleanup(p)
  <2>1. Clean({p}) /\ UNCHANGED <<here, pend, fresh, client, news>> /\ using' = [using EXCEPT ![p] = 0]
    BY <1>8 DEF Cleanup
  <2>2. box' \in [Player -> Box] /\ Lawful(inv')
    BY <2>1, CleanTypes
  <2>3. using' \in [Player -> InvSlot]
    BY <1>1, <2>1, TradeAssumption DEF TradeTypes, InvSlot
  <2> QED
    BY <2>1, <2>2, <2>3 DEF TradeTypes, NotOneself
<1>4. CASE CombineAsk(p)
  <2>1. UNCHANGED <<here, fresh, using, client>>
    BY <1>4 DEF CombineAsk
  <2>2. PICK P, Q, R : /\ CleanTradeTargets(P)
                       /\ Clean(Q) \/ UNCHANGED <<inv, box>>
                       /\ Tell(R, "closed") \/ UNCHANGED news
    BY <1>4 DEF CombineAsk
  <2>3. box' \in [Player -> Box] /\ Lawful(inv')
    BY <1>1, <2>2, CleanTypes DEF TradeTypes
  <2>4. /\ pend' \in [Player -> Player \cup {None}] /\ NotOneself'
        /\ news' \in [Player -> {"same", "changed", "closed", "asked", "open"}]
    BY <2>2, TellTypes DEF TradeTypes
  <2> QED
    BY <2>1, <2>3, <2>4 DEF TradeTypes
<1>5. ASSUME NEW s \in InvSlot, NEW n \in 1 .. inv[p][s].qty, Discard(p, s, n)
      PROVE  TradeTypes'
  <2>1. n \in Nat
    OBVIOUS
  <2>2. Legal(UpdateItem(inv[p], s, n))
    BY <1>1, <2>1, UpdateItemLegal
  <2>3. Lawful(inv')
    <3>1. inv' = [inv EXCEPT ![p] = UpdateItem(inv[p], s, n)]
      BY <1>5 DEF Discard
    <3> QED
      BY <1>1, <2>2, <3>1, OneInventory
  <2> QED
    BY <1>5, <2>3 DEF Discard, TradeTypes, NotOneself
<1>6. CASE LeaveZone(p)
  <2> DEFINE out == [s \in InvSlot |-> [inv[p][s] EXCEPT !.res = 0]]
  <2>1. ASSUME NEW s \in InvSlot
        PROVE  /\ out[s] \in Item
               /\ out[s].kind = inv[p][s].kind /\ out[s].qty = inv[p][s].qty
               /\ out[s].res <= inv[p][s].qty
    <3>1. inv[p][s] \in Item
      BY <1>1 DEF Legal, Inventory
    <3> QED
      BY <3>1 DEF Item
  <2>2. out \in Inventory
    BY <2>1 DEF Inventory
  <2>3. inv' = [inv EXCEPT ![p] = out]
    BY <1>6 DEF LeaveZone
  <2> HIDE DEF out
  <2>4. Legal(out)
    BY <1>1, <2>1, <2>2, ReservedLegal
  <2>5. Lawful(inv')
    BY <1>1, <2>3, <2>4, OneInventory
  <2>6. /\ box' \in [Player -> Box] /\ using' \in [Player -> InvSlot]
        /\ pend' \in [Player -> Player \cup {None}] /\ NotOneself'
    BY <1>1, <1>6, TradeAssumption DEF LeaveZone, TradeTypes, InvSlot, NotOneself
  <2>7. /\ client' \in [Player -> {"closed", "waiting", "asked", "open", "ok"}]
        /\ news' \in [Player -> {"same", "changed", "closed", "asked", "open"}]
        /\ here' \in [Player -> BOOLEAN] /\ fresh' \in [Player -> BOOLEAN]
    BY <1>6 DEF LeaveZone, TradeTypes
  <2> QED
    BY <2>5, <2>6, <2>7 DEF TradeTypes
<1>7. CASE EnterZone(p)
  BY <1>7 DEF EnterZone, TradeTypes, NotOneself
<1> QED
  BY <1>2, <1>3, <1>4, <1>5, <1>6, <1>7, <1>8

\* An item crosses from one player to another.
LEMMA DoTradeTypes ==
  ASSUME TradeTypes, DealTypes, DoTrade
  PROVE  TradeTypes'
<1> DEFINE p == deal.from
           q == deal.to
           s == box[p].slot[deal.k]
           item == inv[p][s]
<1>1. deal # NoDeal /\ deal.k < TradeSlots
  BY DEF DoTrade
<1>2. p \in Player /\ q \in Player /\ p # q /\ deal.k \in BoxSlot
  BY <1>1, TradeAssumption DEF DealTypes, DealOK, BoxSlot
<1>3. UNCHANGED <<here, pend, fresh, using, client, news>>
  BY DEF DoTrade
<1> HIDE DEF p, q
<1>4. CASE s = Nothing
  BY <1>3, <1>4 DEF DoTrade, TradeTypes, NotOneself, p
<1>5. CASE s # Nothing
  <2> DEFINE give == UpdateItem(SetReserve(inv[p], s, 0), s, item.res)
             take == AddItem(inv[q], item.kind, item.res)
             b    == ClearSlot(box[p], deal.k)
  <2>1. inv' = [inv EXCEPT ![q] = take, ![p] = UpdateItem(SetReserve(@, s, 0), s, item.res)]
        /\ box' = [box EXCEPT ![p] = b]
    BY <1>5 DEF DoTrade, p, q
  <2>2. s \in InvSlot /\ box[p] \in Box /\ Legal(inv[p]) /\ Legal(inv[q])
    BY <1>2, <1>5 DEF TradeTypes, Box, Lawful
  <2>3. item \in Item /\ item.kind \in Kind \cup {None} /\ item.res \in Nat /\ item.qty \in Nat
    BY <2>2 DEF Legal, Inventory, Item
  <2> HIDE DEF s
  <2>4. Legal(SetReserve(inv[p], s, 0))
    <3>1. 0 <= inv[p][s].qty
      BY <2>3
    <3> QED
      BY <2>2, <3>1, SetReserveLegal
  <2> HIDE DEF item
  <2>5. Legal(give)
    BY <2>2, <2>3, <2>4, UpdateItemLegal
  <2>6. Legal(take)
    BY <2>2, <2>3, AddItemLegal
  <2>7. inv' = [inv EXCEPT ![q] = take, ![p] = give]
    BY <1>2, <2>1 DEF TradeTypes, Lawful
  <2>8. Lawful(inv')
    <3> HIDE DEF take, give
    <3> QED
      BY <1>2, <2>5, <2>6, <2>7 DEF TradeTypes, Lawful, Legal
  <2>9. box' \in [Player -> Box]
    <3>1. b \in Box
      BY <1>2, <2>2, BoxTypes
    <3> HIDE DEF b
    <3> QED
      BY <2>1, <3>1 DEF TradeTypes
  <2> QED
    BY <1>3, <2>8, <2>9 DEF TradeTypes, NotOneself
<1> QED
  BY <1>4, <1>5

\* The exchange ends.
LEMMA TradeEndTypes ==
  ASSUME TradeTypes, TradeEnd
  PROVE  TradeTypes'
<1> DEFINE P == {deal.from, deal.to}
<1>1. /\ Clean(P) /\ CleanTradeTargets(P) /\ Tell(P, "closed")
      /\ UNCHANGED <<here, fresh, using, client>>
  BY DEF TradeEnd
<1>2. box' \in [Player -> Box] /\ Lawful(inv')
  BY <1>1, CleanTypes
<1>3. /\ pend' \in [Player -> Player \cup {None}] /\ NotOneself'
      /\ news' \in [Player -> {"same", "changed", "closed", "asked", "open"}]
  BY <1>1, TellTypes
<1> QED
  BY <1>1, <1>2, <1>3 DEF TradeTypes

\* An exchange begins between the two, turns around and ends.
LEMMA DealKeeps ==
  ASSUME TradeTypes, DealTypes, [Next]_vars
  PROVE  DealTypes'
<1> USE TradeAssumption
<1>1. CASE UNCHANGED <<deal, play>>
  BY <1>1 DEF DealTypes, DealOK
<1>2. NoDeal \in [from : Player \cup {None}, to : Player \cup {None}, k : 0 .. TradeSlots, back : BOOLEAN]
  BY DEF NoDeal
<1>3. ASSUME NEW p \in Player, TradeMake(p) PROVE DealTypes'
  <2>1. Mutual(p) => pend[p] \in Player /\ pend[p] # p
    BY DEF Mutual, Found, TradeTypes, NotOneself
  <2>2. UNCHANGED <<deal, play>>
        \/ (UNCHANGED play /\ Mutual(p) /\ deal' = [from |-> p, to |-> pend[p], k |-> 0, back |-> FALSE])
    BY <1>3 DEF TradeMake
  <2>3. ASSUME Mutual(p), deal' = [from |-> p, to |-> pend[p], k |-> 0, back |-> FALSE]
        PROVE  /\ deal' \in [from : Player \cup {None}, to : Player \cup {None},
                            k : 0 .. TradeSlots, back : BOOLEAN]
               /\ DealOK'
    BY <2>1, <2>3 DEF DealOK
  <2> QED
    BY <1>1, <2>2, <2>3 DEF DealTypes
<1>4. CASE DoTrade
  <2>1. deal # NoDeal /\ deal.from \in Player /\ deal.to \in Player /\ deal.from # deal.to
        /\ deal.k < TradeSlots /\ play' = play
    BY <1>4 DEF DoTrade, DealTypes, DealOK
  <2>2. deal' \in {[deal EXCEPT !.k = @ + 1], [deal EXCEPT !.k = TradeSlots],
                   [from |-> deal.to, to |-> deal.from, k |-> 0, back |-> TRUE]}
    BY <1>4 DEF DoTrade
  <2>3. deal.k + 1 \in 0 .. TradeSlots /\ TradeSlots \in 0 .. TradeSlots /\ 0 \in 0 .. TradeSlots
    BY <2>1 DEF DealTypes
  <2>4. ASSUME NEW n \in 0 .. TradeSlots
        PROVE  /\ [deal EXCEPT !.k = n] \in [from : Player \cup {None}, to : Player \cup {None},
                                             k : 0 .. TradeSlots, back : BOOLEAN]
               /\ [deal EXCEPT !.k = n].from = deal.from /\ [deal EXCEPT !.k = n].to = deal.to
    BY DEF DealTypes
  <2>5. [from |-> deal.to, to |-> deal.from, k |-> 0, back |-> TRUE]
          \in [from : Player \cup {None}, to : Player \cup {None}, k : 0 .. TradeSlots, back : BOOLEAN]
    BY <2>1, <2>3
  <2>6. /\ deal' \in [from : Player \cup {None}, to : Player \cup {None}, k : 0 .. TradeSlots,
                      back : BOOLEAN]
        /\ {deal'.from, deal'.to} = {deal.from, deal.to}
    <3>1. CASE deal' = [deal EXCEPT !.k = deal.k + 1]
      BY <2>3, <2>4, <3>1
    <3>2. CASE deal' = [deal EXCEPT !.k = TradeSlots]
      BY <2>3, <2>4, <3>2
    <3>3. CASE deal' = [from |-> deal.to, to |-> deal.from, k |-> 0, back |-> TRUE]
      BY <2>5, <3>3
    <3> QED
      BY <2>2, <3>1, <3>2, <3>3
  <2> QED
    BY <2>1, <2>6 DEF DealTypes, DealOK
<1>5. CASE TradeEnd
  BY <1>2, <1>5 DEF TradeEnd, DealTypes, DealOK
<1>6. ASSUME NEW p \in Player, Step(p), ~TradeMake(p) PROVE UNCHANGED <<deal, play>>
  BY <1>6, ZenonT(60) DEF Step, Read, Age, TradeStart, TradeCancell, TradeReq, Put, Withdraw, UseItem,
     FinishItem, Cleanup, CombineAsk, Discard, LeaveZone, EnterZone
<1> QED
  BY <1>1, <1>3, <1>4, <1>5, <1>6 DEF Next, vars

\* Whether an item is consumed is known of every player.
LEMMA SpentKeeps ==
  ASSUME SpentType, [Next]_vars
  PROVE  SpentType'
<1>1. CASE spent' = spent
  BY <1>1 DEF SpentType
<1>2. ASSUME NEW p \in Player, FinishItem(p) \/ Cleanup(p) \/ LeaveZone(p) PROVE SpentType'
  BY <1>2 DEF FinishItem, Cleanup, LeaveZone, SpentType
<1>3. ASSUME NEW p \in Player, Step(p), ~FinishItem(p), ~Cleanup(p), ~LeaveZone(p) PROVE spent' = spent
  BY <1>3, ZenonT(60) DEF Step, Read, Age, TradeStart, TradeCancell, TradeMake, TradeReq, Put, Withdraw,
     UseItem, CombineAsk, Discard, EnterZone
<1>4. DoTrade \/ TradeEnd \/ UNCHANGED vars => spent' = spent
  BY DEF DoTrade, TradeEnd, vars
<1> QED
  BY <1>1, <1>2, <1>3, <1>4 DEF Next

\* Every step keeps the invariant.
LEMMA NextTypes == TradeInv /\ [Next]_vars => TradeInv'
<1> SUFFICES ASSUME TradeTypes, DealTypes, SpentType, [Next]_vars PROVE TradeTypes'
  BY SplitTrade, SplitTradeNext, DealKeeps, SpentKeeps
<1>1. ASSUME NEW p \in Player, Step(p) PROVE TradeTypes'
  <2>1. ASSUME NEW k \in BoxSlot, NEW s \in InvSlot, NEW n \in 1 .. inv[p][s].qty, Put(p, k, s, n)
        PROVE  TradeTypes'
    <3>1. n \in Nat /\ TradeList(p, k, s, n) /\ UNCHANGED <<here, pend, fresh, using, client>>
      BY <2>1 DEF Put
    <3> QED
      BY <3>1, ListTypes
  <2>2. ASSUME NEW k \in BoxSlot, Withdraw(p, k) PROVE TradeTypes'
    <3>1. box[p].slot[k] \in InvSlot
      BY <2>2 DEF Withdraw, Offer, TradeTypes, Box
    <3>2. TradeList(p, k, box[p].slot[k], 0) /\ UNCHANGED <<here, pend, fresh, using, client>>
      BY <2>2 DEF Withdraw
    <3> QED
      BY <3>1, <3>2, ListTypes
  <2> QED
    BY <1>1, <2>1, <2>2, AskTypes, AnswerTypes, OtherTypes DEF Step
<1>2. CASE UNCHANGED vars
  BY <1>2 DEF vars, TradeTypes, NotOneself
<1> QED
  BY <1>1, <1>2, DoTradeTypes, TradeEndTypes DEF Next

\* The first states satisfy it.
LEMMA InitTypes == Init => TradeInv
<1> SUFFICES ASSUME Init PROVE TradeTypes /\ DealTypes /\ SpentType
  BY SplitTrade
<1> USE TradeAssumption
<1>1. play \in Play /\ play \in Situation
  BY PlayAssumption DEF Init
<1>2. ASSUME NEW p \in Player PROVE play.pouch[p] \in Pouch
  BY <1>1 DEF Situation
<1>3. ASSUME NEW in \in Pouch PROVE Legal(in)
  BY DEF Pouch, Legal, Inventory, Item
<1>4. Lawful(inv)
  <2>1. inv = play.pouch /\ play.pouch \in [Player -> Pouch]
    BY <1>1 DEF Init, Situation
  <2> QED
    BY <1>3, <2>1 DEF Lawful, Legal
<1>5. EmptyBox \in Box /\ 0 \in InvSlot
  BY DEF EmptyBox, Box, InvSlot
<1>6. TradeTypes
  BY <1>4, <1>5 DEF Init, TradeTypes, NotOneself
<1>7. DealTypes
  BY <1>1 DEF Init, DealTypes, DealOK, NoDeal
<1>8. SpentType
  BY DEF Init, SpentType
<1> QED
  BY <1>6, <1>7, <1>8

-----------------------------------------------------------------------------
\* Every state of every trade satisfies the inductive invariant.
THEOREM Invariance == Spec => []TradeInv
BY InitTypes, NextTypes, PTL DEF Spec

\* The variables keep their types.
THEOREM TypeCorrect == Spec => []TypeOK
<1>1. TradeInv => TypeOK
  BY DEF TradeInv
<1> QED
  BY <1>1, Invariance, PTL

\* No more is reserved of an item than there is of it, whatever is offered, withdrawn,
\* exchanged, used or lost, and by whom.
THEOREM ReservationsBacked == Spec => []Backed
<1>1. TradeInv => Backed
  BY DEF TradeInv, Backed, Legal
<1> QED
  BY <1>1, Invariance, PTL

\* A rare item is held once, whatever is exchanged at the same time.
THEOREM RareHeldOnce == Spec => []RareOnce
<1>1. TradeInv => RareOnce
  BY DEF TradeInv, RareOnce, Legal
<1> QED
  BY <1>1, Invariance, PTL


-----------------------------------------------------------------------------
(* What the containers point at.                                            *)

\* What was in slot s has been consumed.
Eaten(s, u, d) == s = u /\ u # 0 /\ d

\* Each filled slot points at an item of its own, which is reserved or in use; but for those that
\* point at what has been consumed.
Backing(in, b, u, d) ==
  /\ \A k \in Filled(b) :
       \/ Eaten(b.slot[k], u, d)
       \/ /\ in[b.slot[k]] # NoItem
          /\ in[b.slot[k]].res > 0 \/ (b.slot[k] = u /\ u # 0)
  /\ \A j, k \in Filled(b) : b.slot[j] = b.slot[k] => j = k \/ Eaten(b.slot[j], u, d)

\* So it is for everybody where nothing is withdrawn.
SlotsBacked == ~play.withdraws =>
  \A p \in Player : Backing(inv[p], box[p], using[p], spent[p])

\* An empty container points at nothing.
LEMMA EmptyBacking == \A in, u, d : Backing(in, EmptyBox, u, d)
BY DEF Backing, Filled, EmptyBox

\* What is pointed at keeps its reservation.
LEMMA SameBacking ==
  ASSUME NEW in, NEW out, NEW b, NEW c, NEW u, NEW d, Backing(in, b, u, d), c.slot = b.slot,
         \A k \in Filled(b) : \/ Eaten(b.slot[k], u, d) \/ out[b.slot[k]] = in[b.slot[k]]
                              \/ (out[b.slot[k]].res = in[b.slot[k]].res /\ out[b.slot[k]] # NoItem)
  PROVE  Backing(out, c, u, d)
BY DEF Backing, Filled

\* A slot is emptied, and the reservation of what it pointed at may change.
LEMMA ClearedBacking ==
  ASSUME NEW in, NEW out, NEW b \in Box, NEW k \in BoxSlot, NEW u, NEW d, Backing(in, b, u, d),
         \A s \in InvSlot : s # b.slot[k] => out[s] = in[s]
  PROVE  /\ Backing(out, ClearSlot(b, k), u, d)
         /\ \A j \in BoxSlot : ClearSlot(b, k).slot[j] = IF j = k THEN Nothing ELSE b.slot[j]
<1> DEFINE c == ClearSlot(b, k)
<1>1. \A j \in BoxSlot : c.slot[j] = IF j = k THEN Nothing ELSE b.slot[j]
  BY DEF ClearSlot, Box
<1> HIDE DEF c
<1>2. \A j \in Filled(c) : j # k /\ j \in Filled(b) /\ c.slot[j] = b.slot[j]
  BY <1>1 DEF Filled
<1>3. ASSUME NEW j \in Filled(c), ~Eaten(c.slot[j], u, d) PROVE out[c.slot[j]] = in[b.slot[j]]
  <2>1. k \in Filled(b) => b.slot[j] # b.slot[k]
    BY <1>2, <1>3 DEF Backing
  <2>2. b.slot[j] # b.slot[k]
    BY <1>2, <2>1 DEF Filled
  <2>3. b.slot[j] \in InvSlot
    BY <1>2 DEF Filled, Box
  <2> QED
    BY <1>2, <2>2, <2>3
<1>4. Backing(out, c, u, d)
  BY <1>2, <1>3 DEF Backing
<1> QED
  BY <1>1, <1>4 DEF c

\* An item that no slot points at is put into one.
LEMMA FilledBacking ==
  ASSUME NEW in, NEW out, NEW b \in Box, NEW k \in BoxSlot, NEW s \in InvSlot, NEW u, NEW d,
         Backing(in, b, u, d),
         ~Eaten(s, u, d) => \A j \in BoxSlot : b.slot[j] # s,
         \A t \in InvSlot : t # s => out[t] = in[t],
         out[s] # NoItem /\ (out[s].res > 0 \/ (s = u /\ u # 0))
  PROVE  Backing(out, SetItem(b, k, s), u, d)
<1>1. \A j \in Filled(b) : /\ b.slot[j] \in InvSlot
                           /\ Eaten(b.slot[j], u, d)
                                \/ (b.slot[j] # s /\ out[b.slot[j]] = in[b.slot[j]])
  BY DEF Filled, Box
<1>2. CASE b.lock
  BY <1>1, <1>2 DEF SetItem, Backing
<1>3. CASE ~b.lock
  <2> DEFINE c == SetItem(b, k, s)
  <2>1. \A j \in BoxSlot : c.slot[j] = IF j = k THEN s ELSE b.slot[j]
    BY <1>3 DEF SetItem, Box
  <2> HIDE DEF c
  <2>2. \A j \in Filled(c) : \/ j = k /\ c.slot[j] = s
                             \/ j # k /\ j \in Filled(b) /\ c.slot[j] = b.slot[j]
    BY <2>1 DEF Filled
  <2>3. Backing(out, c, u, d)
    BY <1>1, <2>2 DEF Backing
  <2> QED
    BY <2>3 DEF c
<1> QED
  BY <1>2, <1>3

\* An addition leaves what is there with its reservation.
LEMMA AddItemKeeps ==
  ASSUME NEW in, Legal(in), NEW kind \in Kind \cup {None}, NEW n \in Nat,
         NEW s \in InvSlot, in[s] # NoItem
  PROVE  LET out == AddItem(in, kind, n)
         IN out[s] = in[s] \/ (out[s].res = in[s].res /\ out[s] # NoItem)
<1> USE TradeAssumption
<1> DEFINE out == AddItem(in, kind, n)
           f == First(FreeSlots(in))
<1>1. CASE out = in
  BY <1>1
<1>2. CASE out = [in EXCEPT ![0].qty = AtMost(@ + n, GilCap)]
  <2>1. in[0] \in Item /\ 0 \in InvSlot /\ in[0].kind = Gil
    BY DEF Legal, Inventory, InvSlot
  <2> DEFINE i == [in[0] EXCEPT !.qty = AtMost(@ + n, GilCap)]
  <2>2. i.kind = Gil /\ i.res = in[0].res
    BY <2>1 DEF Item
  <2>3. out = [in EXCEPT ![0] = i]
    BY <1>2, <2>1 DEF Legal, Inventory
  <2> HIDE DEF i
  <2> QED
    BY <2>1, <2>2, <2>3 DEF Legal, Inventory, NoItem
<1>3. CASE FreeSlots(in) # {} /\ out = [in EXCEPT ![f] = [kind |-> kind, qty |-> n, res |-> 0]]
  <2>1. f \in FreeSlots(in)
    BY <1>3, FirstIn DEF FreeSlots
  <2>2. f # s
    BY <2>1 DEF FreeSlots
  <2> QED
    BY <1>3, <2>2 DEF Legal, Inventory
<1> QED
  BY <1>1, <1>2, <1>3 DEF AddItem

\* A container that is cleaned points at nothing.
LEMMA CleanBacking ==
  ASSUME TradeTypes, SlotsBacked, UNCHANGED <<play, using, spent>>, NEW P, Clean(P)
  PROVE  SlotsBacked'
<1>1. SUFFICES ASSUME ~play.withdraws, NEW p \in Player PROVE Backing(inv'[p], box'[p], using'[p], spent'[p])
  BY DEF SlotsBacked
<1>2. Backing(inv[p], box[p], using[p], spent[p])
  BY <1>1 DEF SlotsBacked
<1>3. CASE p \in P
  BY <1>3, EmptyBacking DEF Clean
<1>4. CASE p \notin P
  BY <1>2, <1>4 DEF Clean
<1> QED
  BY <1>3, <1>4

\* Nothing is pointed at anew, and the inventories stay.
LEMMA QuietBacking ==
  ASSUME TradeTypes, SlotsBacked, UNCHANGED <<play, using, spent, inv>>,
         \A r \in Player : box'[r].slot = box[r].slot
  PROVE  SlotsBacked'
BY SameBacking DEF SlotsBacked

\* An item is put into a slot of the container.
LEMMA PutBacking ==
  ASSUME TradeTypes, SlotsBacked, NEW p \in Player, NEW k \in BoxSlot, NEW s \in InvSlot,
         NEW n \in 1 .. inv[p][s].qty, Put(p, k, s, n)
  PROVE  SlotsBacked'
<1> DEFINE q    == pend[p]
           old  == box[p].slot[k]
           in1  == IF old = Nothing THEN inv[p] ELSE SetReserve(inv[p], old, 0)
           box1 == IF old = Nothing THEN box[p] ELSE ClearSlot(box[p], k)
           item == in1[s]
           res  == IF n = 0 THEN 0 ELSE item.res + n
           set  == SetItem(box1, k, s)
           u    == using[p]
           d    == spent[p]
<1>1. SUFFICES ASSUME ~play.withdraws PROVE SlotsBacked'
  BY DEF Put, SlotsBacked
<1>2. /\ UNCHANGED <<play, using, spent>> /\ TradeList(p, k, s, n) /\ n \in Nat /\ n > 0
      /\ \A j \in BoxSlot : box[p].slot[j] = s => j = k \/ Offer(p)[j] = NoOffer
  BY DEF Put
<1>3. /\ box[p] \in Box /\ Legal(inv[p]) /\ inv[p] \in Inventory /\ old \in InvSlot \cup {Nothing}
      /\ Backing(inv[p], box[p], u, d)
  BY <1>1 DEF TradeTypes, Lawful, Legal, Box, SlotsBacked
<1>4. in1 \in Inventory /\ \A t \in InvSlot : t # old => in1[t] = inv[p][t]
  <2>1. ASSUME old # Nothing
        PROVE  /\ Legal(SetReserve(inv[p], old, 0))
               /\ \A t \in InvSlot : t # old => SetReserve(inv[p], old, 0)[t] = inv[p][t]
    <3>1. old \in InvSlot /\ 0 <= inv[p][old].qty
      BY <1>3, <2>1 DEF Inventory, Item
    <3>2. Legal(inv[p])
      BY <1>3
    <3> HIDE DEF old
    <3>3. Legal(SetReserve(inv[p], old, 0))
      BY <3>1, <3>2, SetReserveLegal
    <3>4. \A t \in InvSlot : t # old => SetReserve(inv[p], old, 0)[t] = inv[p][t]
      BY <3>2 DEF SetReserve, Legal, Inventory
    <3> QED
      BY <3>3, <3>4
  <2> QED
    BY <1>3, <2>1 DEF Legal
<1>5. /\ box1 \in Box /\ Backing(in1, box1, u, d)
      /\ \A j \in BoxSlot : box1.slot[j] = IF j = k THEN Nothing ELSE box[p].slot[j]
  <2>1. CASE old = Nothing
    BY <1>3, <2>1
  <2>2. CASE old # Nothing
    <3>1. box1 = ClearSlot(box[p], k)
      BY <2>2
    <3> HIDE DEF in1
    <3>2. \A t \in InvSlot : t # box[p].slot[k] => in1[t] = inv[p][t]
      BY <1>4
    <3>3. box[p] \in Box /\ Backing(inv[p], box[p], u, d)
      BY <1>3
    <3> HIDE DEF u, d, box1, old
    <3>4. /\ Backing(in1, ClearSlot(box[p], k), u, d)
          /\ \A j \in BoxSlot : ClearSlot(box[p], k).slot[j] = IF j = k THEN Nothing ELSE box[p].slot[j]
      BY <3>2, <3>3, ClearedBacking
    <3>5. ClearSlot(box[p], k) \in Box
      BY <3>3, BoxTypes
    <3> QED
      BY <3>1, <3>4, <3>5
  <2> QED
    BY <2>1, <2>2
<1> HIDE DEF in1, box1, old
<1>6. ASSUME ~(s # 0 /\ s = u /\ ~d) PROVE ~Eaten(s, u, d) => \A j \in BoxSlot : box1.slot[j] # s
  <2> SUFFICES ASSUME ~Eaten(s, u, d), NEW j \in BoxSlot, box1.slot[j] = s PROVE FALSE
    OBVIOUS
  <2>1. s # Nothing
    BY TradeAssumption DEF Nothing, InvSlot
  <2>2. j # k /\ box[p].slot[j] = s /\ j \in Filled(box[p])
    BY <1>5, <2>1 DEF Filled
  <2>3. Offer(p)[j] = NoOffer /\ inv[p][s].res \in Nat
    BY <1>2, <1>3, <2>2 DEF Inventory, Item
  <2>4. inv[p][s].res = 0
    BY <2>1, <2>2, <2>3 DEF Offer, NoOffer
  <2> QED
    BY <1>3, <1>6, <2>2, <2>4 DEF Backing, Eaten
<1>7. Mutual(p) => q \in Player /\ q # p
  BY DEF Mutual, Found, TradeTypes, NotOneself
<1>8. item \in Item /\ res \in Nat /\ res > 0
  <2>1. item \in Item
    BY <1>4 DEF Inventory
  <2> QED
    BY <1>2, <2>1 DEF Item
<1>9. \/ UNCHANGED <<inv, box>>
      \/ /\ inv' = [inv EXCEPT ![p] = in1]
         /\ box' = [box EXCEPT ![p] = box1]
      \/ /\ Mutual(p) /\ ~(s # 0 /\ s = u /\ ~d)
         /\ inv' = [inv EXCEPT ![p] = SetReserve(in1, s, res)]
         /\ box' = [box EXCEPT ![p] = [set EXCEPT !.lock = FALSE], ![q].lock = FALSE]
      \/ /\ Mutual(p) /\ ~(s # 0 /\ s = u /\ ~d)
         /\ inv' = [inv EXCEPT ![p] = SetReserve(in1, s, 0)]
         /\ box' = [box EXCEPT ![p] = [box1 EXCEPT !.lock = FALSE], ![q].lock = FALSE]
  BY <1>2, ZenonT(30) DEF TradeList, Locked, in1, box1, old
<1>10. ASSUME NEW out, NEW b \in Box, Backing(out, b, u, d), inv' = [inv EXCEPT ![p] = out],
              \/ box' = [box EXCEPT ![p] = b]
              \/ Mutual(p) /\ box' = [box EXCEPT ![p] = [b EXCEPT !.lock = FALSE], ![q].lock = FALSE]
       PROVE  SlotsBacked'
  <2>1. inv'[p] = out /\ \A r \in Player : r # p => inv'[r] = inv[r]
    BY <1>10 DEF TradeTypes, Lawful
  <2> DEFINE free  == [b EXCEPT !.lock = FALSE]
             other == [box[q] EXCEPT !.lock = FALSE]
  <2>2. free.slot = b.slot /\ (Mutual(p) => other.slot = box[q].slot)
    BY <1>7 DEF TradeTypes, Box
  <2>3. box' = [box EXCEPT ![p] = b] \/ (Mutual(p) /\ box' = [box EXCEPT ![p] = free, ![q] = other])
    BY <1>7, <1>10 DEF TradeTypes
  <2> HIDE DEF free, other, q
  <2>4. box'[p].slot = b.slot /\ \A r \in Player : r # p => box'[r].slot = box[r].slot
    BY <1>7, <2>2, <2>3 DEF TradeTypes
  <2>5. ASSUME NEW r \in Player PROVE Backing(inv'[r], box'[r], using'[r], spent'[r])
    <3>1. CASE r = p
      BY <1>2, <1>10, <2>1, <2>4, <3>1, SameBacking
    <3>2. CASE r # p
      BY <1>1, <1>2, <2>1, <2>4, <3>2, SameBacking DEF SlotsBacked
    <3> QED
      BY <3>1, <3>2
  <2> QED
    BY <2>5 DEF SlotsBacked
<1>11. CASE UNCHANGED <<inv, box>>
  BY <1>2, <1>11 DEF SlotsBacked
<1>12. CASE inv' = [inv EXCEPT ![p] = in1] /\ box' = [box EXCEPT ![p] = box1]
  BY <1>5, <1>10, <1>12
<1>13. ASSUME ~(s # 0 /\ s = u /\ ~d), NEW m \in Nat
       PROVE  /\ SetReserve(in1, s, m)[s].res = m
              /\ \A t \in InvSlot : t # s => SetReserve(in1, s, m)[t] = in1[t]
  BY <1>4, <1>8 DEF SetReserve, Inventory, Item
<1>14. CASE /\ Mutual(p) /\ ~(s # 0 /\ s = u /\ ~d)
            /\ inv' = [inv EXCEPT ![p] = SetReserve(in1, s, res)]
            /\ box' = [box EXCEPT ![p] = [set EXCEPT !.lock = FALSE], ![q].lock = FALSE]
  <2> DEFINE out == SetReserve(in1, s, res)
  <2>1. out[s].res = res /\ \A t \in InvSlot : t # s => out[t] = in1[t]
    BY <1>8, <1>13, <1>14
  <2> HIDE DEF out, res
  <2>2. out[s] # NoItem /\ out[s].res > 0
    BY <1>8, <2>1 DEF NoItem
  <2>3. Backing(out, set, u, d)
    BY <1>5, <1>6, <1>14, <2>1, <2>2, FilledBacking
  <2>4. set \in Box
    BY <1>5, BoxTypes
  <2> HIDE DEF set
  <2> QED
    BY <1>10, <1>14, <2>3, <2>4 DEF out
<1>15. CASE /\ Mutual(p) /\ ~(s # 0 /\ s = u /\ ~d)
            /\ inv' = [inv EXCEPT ![p] = SetReserve(in1, s, 0)]
            /\ box' = [box EXCEPT ![p] = [box1 EXCEPT !.lock = FALSE], ![q].lock = FALSE]
  <2> DEFINE out == SetReserve(in1, s, 0)
  <2>1. \A t \in InvSlot : t # s => out[t] = in1[t]
    BY <1>13, <1>15
  <2> HIDE DEF out
  <2>2. \A j \in Filled(box1) : box1.slot[j] \in InvSlot /\ (box1.slot[j] # s \/ Eaten(s, u, d))
    BY <1>5, <1>6, <1>15 DEF Filled, Box
  <2>3. Backing(out, box1, u, d)
    BY <1>5, <2>1, <2>2, SameBacking
  <2> QED
    BY <1>5, <1>10, <1>15, <2>3 DEF out
<1> QED
  BY <1>9, <1>11, <1>12, <1>14, <1>15


\* An item is used, its use ends, an item is thrown away, the player leaves.
LEMMA OtherBacking ==
  ASSUME TradeTypes, SpentType, SlotsBacked, NEW p \in Player,
         \/ \E s \in InvSlot : UseItem(p, s)
         \/ FinishItem(p) \/ Cleanup(p) \/ CombineAsk(p)
         \/ \E s \in InvSlot : \E n \in 1 .. inv[p][s].qty : Discard(p, s, n)
         \/ LeaveZone(p)
  PROVE  SlotsBacked'
<1>1. box[p] \in Box /\ Legal(inv[p]) /\ using[p] \in InvSlot
  BY DEF TradeTypes, Lawful
<1>2. ASSUME ~play.withdraws PROVE Backing(inv[p], box[p], using[p], spent[p])
  BY <1>2 DEF SlotsBacked
<1>3. ASSUME play' = play, ~play.withdraws => Backing(inv'[p], box'[p], using'[p], spent'[p]),
             \A r \in Player : r # p => /\ inv'[r] = inv[r] /\ box'[r] = box[r]
                                        /\ using'[r] = using[r] /\ spent'[r] = spent[r]
      PROVE  SlotsBacked'
  BY <1>3 DEF SlotsBacked
<1>4. ASSUME NEW s \in InvSlot, UseItem(p, s) PROVE SlotsBacked'
  <2> DEFINE b == SetType(box[p], "use")
  <2>1. /\ inv[p][s].kind \in Usable /\ inv[p][s].res = 0 /\ using[p] = 0 /\ UNCHANGED <<play, inv, spent>>
        /\ using' = [using EXCEPT ![p] = s] /\ box' = [box EXCEPT ![p] = SetItem(b, 0, s)]
    BY <1>4 DEF UseItem
  <2>2. s # 0 /\ inv[p][s] # NoItem
    BY <1>1, <2>1, TradeAssumption DEF Legal, NoItem
  <2>3. 0 \in BoxSlot
    BY TradeAssumption DEF BoxSlot
  <2>4. b \in Box /\ b.slot = box[p].slot
    BY <1>1, <2>3, BoxTypes DEF SetType, Box
  <2> HIDE DEF b
  <2>5. ASSUME ~play.withdraws PROVE Backing(inv[p], SetItem(b, 0, s), s, spent[p])
    <3>1. /\ \A k \in Filled(box[p]) : inv[p][box[p].slot[k]] # NoItem /\ inv[p][box[p].slot[k]].res > 0
          /\ \A j, k \in Filled(box[p]) : box[p].slot[j] = box[p].slot[k] => j = k
      BY <1>2, <2>1, <2>5 DEF Backing, Eaten
    <3>2. Backing(inv[p], b, s, spent[p])
      BY <2>4, <3>1 DEF Backing, Filled
    <3>3. s # Nothing
      BY TradeAssumption DEF Nothing, InvSlot
    <3>4. \A j \in BoxSlot : b.slot[j] # s
      BY <2>1, <2>4, <3>1, <3>3 DEF Filled
    <3>5. inv[p][s] # NoItem /\ (inv[p][s].res > 0 \/ (s = s /\ s # 0))
      BY <2>2
    <3> QED
      BY <2>3, <2>4, <3>2, <3>4, <3>5, FilledBacking
  <2> QED
    BY <1>3, <2>1, <2>5 DEF TradeTypes
<1>5. CASE FinishItem(p)
  <2> DEFINE out == UpdateItem(inv[p], using[p], 1)
  <2>1. /\ using[p] # 0 /\ UNCHANGED <<play, box, using>>
        /\ inv' = [inv EXCEPT ![p] = out] /\ spent' = [spent EXCEPT ![p] = TRUE]
    BY <1>5 DEF FinishItem
  <2>2. \A t \in InvSlot : t # using[p] => out[t] = inv[p][t]
    BY <1>1 DEF UpdateItem, Legal, Inventory
  <2>3. \A k \in Filled(box[p]) : box[p].slot[k] \in InvSlot
    BY <1>1 DEF Filled, Box
  <2> HIDE DEF out
  <2>4. ASSUME ~play.withdraws PROVE Backing(out, box[p], using[p], TRUE)
    BY <1>2, <2>1, <2>2, <2>3, <2>4 DEF Backing, Eaten
  <2> QED
    BY <1>3, <2>1, <2>4 DEF TradeTypes, Lawful, SpentType
<1>9. CASE Cleanup(p)
  <2>1. /\ play' = play /\ Clean({p})
        /\ using' = [using EXCEPT ![p] = 0] /\ spent' = [spent EXCEPT ![p] = FALSE]
    BY <1>9 DEF Cleanup
  <2>2. box'[p] = EmptyBox /\ \A r \in Player : r # p => inv'[r] = inv[r] /\ box'[r] = box[r]
    BY <2>1 DEF Clean
  <2> QED
    BY <1>3, <2>1, <2>2, EmptyBacking DEF TradeTypes, SpentType
<1>6. CASE CombineAsk(p)
  <2>1. UNCHANGED <<play, using, spent>>
    BY <1>6 DEF CombineAsk
  <2>2. UNCHANGED <<inv, box>> \/ \E P : Clean(P)
    BY <1>6 DEF CombineAsk
  <2> QED
    BY <2>1, <2>2, CleanBacking DEF SlotsBacked
<1>7. ASSUME NEW s \in InvSlot, NEW n \in 1 .. inv[p][s].qty, Discard(p, s, n) PROVE SlotsBacked'
  <2> DEFINE out == UpdateItem(inv[p], s, n)
  <2>1. /\ ~Locked(p, s) /\ s # 0 /\ n <= inv[p][s].qty - inv[p][s].res /\ UNCHANGED <<play, box, using, spent>>
        /\ inv' = [inv EXCEPT ![p] = out]
    BY <1>7 DEF Discard
  <2>2. inv[p][s] \in Item /\ n \in Nat /\ n > 0
    BY <1>1 DEF Legal, Inventory
  <2>3. \A t \in InvSlot : t # s => out[t] = inv[p][t]
    BY <1>1 DEF UpdateItem, Legal, Inventory
  <2>4. ASSUME inv[p][s].res > 0
        PROVE  out[s] = inv[p][s] \/ (out[s].res = inv[p][s].res /\ out[s] # NoItem)
    <3>1. inv[p][s].qty # n
      BY <2>1, <2>2, <2>4 DEF Item
    <3>2. out = inv[p] \/ out = [inv[p] EXCEPT ![s].qty = @ - n]
      BY <3>1 DEF UpdateItem
    <3> DEFINE i == [inv[p][s] EXCEPT !.qty = @ - n]
    <3>3. out = inv[p] \/ out = [inv[p] EXCEPT ![s] = i]
      BY <1>1, <3>2 DEF Legal, Inventory
    <3>4. i.res = inv[p][s].res /\ i # NoItem
      BY <2>2, <2>4 DEF Item, NoItem
    <3> HIDE DEF i, out
    <3> QED
      BY <1>1, <3>3, <3>4 DEF Legal, Inventory
  <2> HIDE DEF out
  <2>5. ASSUME ~play.withdraws PROVE Backing(out, box[p], using[p], spent[p])
    <3>1. \A k \in Filled(box[p]) : box[p].slot[k] = s => inv[p][s].res > 0 \/ Eaten(s, using[p], spent[p])
      BY <1>2, <2>1, <2>5 DEF Backing, Locked, Eaten
    <3>2. \A k \in Filled(box[p]) : box[p].slot[k] \in InvSlot
      BY <1>1 DEF Filled, Box
    <3>3. Backing(inv[p], box[p], using[p], spent[p])
      BY <1>2, <2>5
    <3>4. ASSUME NEW k \in Filled(box[p])
          PROVE  \/ Eaten(box[p].slot[k], using[p], spent[p])
                 \/ out[box[p].slot[k]] = inv[p][box[p].slot[k]]
                 \/ /\ out[box[p].slot[k]].res = inv[p][box[p].slot[k]].res
                    /\ out[box[p].slot[k]] # NoItem
      BY <2>3, <2>4, <3>1, <3>2
    <3> QED
      BY <3>3, <3>4, SameBacking
  <2>6. /\ inv'[p] = out /\ box'[p] = box[p] /\ using'[p] = using[p] /\ spent'[p] = spent[p] /\ play' = play
        /\ \A r \in Player : r # p => /\ inv'[r] = inv[r] /\ box'[r] = box[r]
                                     /\ using'[r] = using[r] /\ spent'[r] = spent[r]
    BY <2>1 DEF TradeTypes, Lawful
  <2> QED
    BY <1>3, <2>5, <2>6
<1>8. CASE LeaveZone(p)
  <2>1. /\ play' = play /\ box' = [box EXCEPT ![p] = EmptyBox] /\ using' = [using EXCEPT ![p] = 0]
        /\ spent' = [spent EXCEPT ![p] = FALSE]
        /\ \A r \in Player : r # p => inv'[r] = inv[r]
    BY <1>8 DEF LeaveZone, TradeTypes, Lawful
  <2> QED
    BY <1>3, <2>1, EmptyBacking DEF TradeTypes, SpentType
<1> QED
  BY <1>4, <1>5, <1>6, <1>7, <1>8, <1>9

\* An item crosses from one player to the other, and its slot of the container is emptied.
LEMMA DoTradeBacking ==
  ASSUME TradeTypes, DealTypes, SlotsBacked, DoTrade
  PROVE  SlotsBacked'
<1> DEFINE p == deal.from
           q == deal.to
           s == box[p].slot[deal.k]
           item == inv[p][s]
<1>1. deal # NoDeal /\ deal.k < TradeSlots /\ UNCHANGED <<play, using, spent>>
  BY DEF DoTrade
<1>2. p \in Player /\ q \in Player /\ p # q /\ deal.k \in BoxSlot
  BY <1>1, TradeAssumption DEF DealTypes, DealOK, BoxSlot
<1> HIDE DEF p, q
<1>3. CASE s = Nothing
  BY <1>1, <1>3 DEF DoTrade, SlotsBacked, p
<1>4. CASE s # Nothing
  <2> DEFINE put  == SetReserve(inv[p], s, 0)
             give == UpdateItem(put, s, item.res)
             take == AddItem(inv[q], item.kind, item.res)
             b    == ClearSlot(box[p], deal.k)
  <2>1. inv' = [inv EXCEPT ![q] = take, ![p] = UpdateItem(SetReserve(@, s, 0), s, item.res)]
        /\ box' = [box EXCEPT ![p] = b]
    BY <1>4 DEF DoTrade, p, q
  <2>2. s \in InvSlot /\ box[p] \in Box /\ Legal(inv[p]) /\ Legal(inv[q]) /\ box[q] \in Box
    BY <1>2, <1>4 DEF TradeTypes, Box, Lawful
  <2>3. item.kind \in Kind \cup {None} /\ item.res \in Nat
    BY <2>2 DEF Legal, Inventory, Item
  <2> HIDE DEF item
  <2>4. \A t \in InvSlot : t # s => give[t] = inv[p][t]
    <3>1. put \in [InvSlot -> {put[t] : t \in InvSlot}] /\ \A t \in InvSlot : t # s => put[t] = inv[p][t]
      BY <2>2 DEF SetReserve, Legal, Inventory
    <3> HIDE DEF put, s
    <3> QED
      BY <3>1 DEF UpdateItem
  <2>5. inv'[q] = take /\ inv'[p] = give /\ box'[p] = b
        /\ \A r \in Player : /\ r \notin {p, q} => inv'[r] = inv[r]
                             /\ r # p => box'[r] = box[r]
    BY <1>2, <2>1 DEF TradeTypes, Lawful
  <2> HIDE DEF give, take, put
  <2>6. ASSUME ~play.withdraws, NEW r \in Player PROVE Backing(inv'[r], box'[r], using'[r], spent'[r])
    <3>1. Backing(inv[r], box[r], using[r], spent[r]) /\ using'[r] = using[r] /\ spent'[r] = spent[r]
      BY <1>1, <2>6 DEF SlotsBacked
    <3>2. CASE r = p
      <4>1. \A t \in InvSlot : t # box[p].slot[deal.k] => give[t] = inv[p][t]
        BY <2>4
      <4>2. Backing(inv[p], box[p], using[p], spent[p]) /\ box[p] \in Box
        BY <2>2, <3>1, <3>2
      <4>3. Backing(give, b, using[p], spent[p])
        BY <1>2, <4>1, <4>2, ClearedBacking
      <4> QED
        BY <2>5, <3>1, <3>2, <4>3
    <3>3. CASE r = q
      <4>1. \A k \in Filled(box[q]) : /\ box[q].slot[k] \in InvSlot
                                      /\ \/ Eaten(box[q].slot[k], using[q], spent[q])
                                         \/ inv[q][box[q].slot[k]] # NoItem
        BY <2>2, <3>1, <3>3 DEF Filled, Box, Backing
      <4>2. \A t \in InvSlot : inv[q][t] # NoItem =>
              take[t] = inv[q][t] \/ (take[t].res = inv[q][t].res /\ take[t] # NoItem)
        BY <2>2, <2>3, AddItemKeeps DEF take
      <4>3. Backing(take, box[q], using[q], spent[q])
        BY <3>1, <3>3, <4>1, <4>2, SameBacking
      <4> QED
        BY <1>2, <2>5, <3>1, <3>3, <4>3
    <3>4. CASE r \notin {p, q}
      BY <2>5, <3>1, <3>4
    <3> QED
      BY <3>2, <3>3, <3>4
  <2> QED
    BY <1>1, <2>6 DEF SlotsBacked
<1> QED
  BY <1>3, <1>4

\* Every step keeps what the slots point at.
LEMMA BackingNext ==
  ASSUME TradeInv, SlotsBacked, [Next]_vars
  PROVE  SlotsBacked'
<1>1. TradeTypes /\ DealTypes /\ SpentType
  BY SplitTrade
<1>2. ASSUME NEW p \in Player, Step(p) PROVE SlotsBacked'
  <2>1. CASE TradeStart(p)
    <3>1. UNCHANGED <<play, using, spent, inv>>
      BY <2>1, ZenonT(30) DEF TradeStart, Ignored
    <3>2. box' = box \/ (Mutual(p) /\ box' = [box EXCEPT ![p] = SetType(@, "trade"),
                                                         ![pend[p]] = SetType(@, "trade")])
      BY <2>1, ZenonT(30) DEF TradeStart, Ignored
    <3>3. \A r \in Player : SetType(box[r], "trade").slot = box[r].slot
      BY <1>1 DEF SetType, TradeTypes, Box
    <3>4. Mutual(p) => pend[p] \in Player /\ pend[p] # p
      BY <1>1 DEF Mutual, Found, TradeTypes, NotOneself
    <3>5. \A r \in Player : box'[r].slot = box[r].slot
      BY <1>1, <3>2, <3>3, <3>4 DEF TradeTypes
    <3> QED
      BY <1>1, <3>1, <3>5, QuietBacking
  <2>2. CASE TradeCancell(p)
    <3>1. UNCHANGED <<play, using, spent>> /\ (UNCHANGED <<inv, box>> \/ \E P : Clean(P))
      BY <2>2 DEF TradeCancell
    <3> QED
      BY <1>1, <3>1, CleanBacking DEF SlotsBacked
  <2>3. CASE TradeMake(p)
    <3>1. UNCHANGED <<play, using, spent>>
      BY <2>3 DEF TradeMake
    <3>2. \/ UNCHANGED <<inv, box>>
          \/ UNCHANGED inv /\ box' = [box EXCEPT ![p].lock = TRUE]
          \/ \E P : Clean(P)
      BY <2>3, ZenonT(30) DEF TradeMake, Ignored
    <3>3. [box[p] EXCEPT !.lock = TRUE].slot = box[p].slot
      BY <1>1 DEF TradeTypes, Box
    <3>4. box' = [box EXCEPT ![p].lock = TRUE] => \A r \in Player : box'[r].slot = box[r].slot
      BY <1>1, <3>3 DEF TradeTypes
    <3> QED
      BY <1>1, <3>1, <3>2, <3>4, CleanBacking, QuietBacking DEF SlotsBacked
  <2>4. CASE Read(p) \/ Age(p) \/ EnterZone(p) \/ \E q \in Player : TradeReq(p, q)
    BY <2>4 DEF Read, Age, EnterZone, TradeReq, SlotsBacked
  <2>5. ASSUME NEW k \in BoxSlot, Withdraw(p, k) PROVE SlotsBacked'
    BY <2>5 DEF Withdraw, SlotsBacked
  <2> QED
    BY <1>1, <1>2, <2>1, <2>2, <2>3, <2>4, <2>5, PutBacking, OtherBacking DEF Step
<1>3. CASE TradeEnd
  BY <1>1, <1>3, CleanBacking DEF TradeEnd
<1>4. CASE UNCHANGED vars
  BY <1>4 DEF vars, SlotsBacked
<1> QED
  BY <1>1, <1>2, <1>3, <1>4, DoTradeBacking DEF Next

\* The inductive strengthening of NoDangling.
BackingInv == TradeInv /\ SlotsBacked

\* It holds at first, and every step keeps it.
LEMMA BackingSteps == /\ Init => BackingInv
                      /\ BackingInv /\ [Next]_vars => BackingInv'
<1>1. ASSUME Init PROVE BackingInv
  <2>1. \A p \in Player : box[p] = EmptyBox
    BY <1>1 DEF Init
  <2> QED
    BY <1>1, <2>1, InitTypes, EmptyBacking DEF BackingInv, SlotsBacked
<1>2. ASSUME BackingInv, [Next]_vars PROVE BackingInv'
  BY <1>2, NextTypes, BackingNext DEF BackingInv
<1> QED
  BY <1>1, <1>2

\* A slot of a container never points at an item that is gone, if nothing is withdrawn, other
\* than the item that the use under way has consumed.
THEOREM SlotsPointAtItems == Spec => []NoDangling
<1>1. BackingInv => NoDangling
  BY DEF BackingInv, SlotsBacked, Backing, Eaten, NoDangling, Pointed, Filled
<1> QED
  BY <1>1, BackingSteps, PTL DEF Spec

-----------------------------------------------------------------------------
(* Who trades with whom.                                                     *)

\* Who is not in the zone has no target, and who is there is a player of the situation.
TargetsHere == \A p \in Player : /\ ~here[p] => pend[p] = None
                                 /\ here[p] => p \in play.players

\* Asked for a trade, whether the client knows it or has yet to read it.
Asked(p) == client[p] = "asked" \/ news[p] = "asked"

Waits(p) == client[p] = "waiting" /\ news[p] \in {"same", "changed"}

\* While two are each other's target and one is asked, the other waits for the answer.
AskerWaits == Orderly => \A p \in Player : Mutual(p) /\ Asked(p) => Waits(pend[p])

\* A request that is not read is still held by the server.
RequestHeld == Orderly /\ play.hasty =>
  \A p \in Player : client[p] = "closed" /\ news[p] = "asked" => Mutual(p)

Requests == TargetsHere /\ AskerWaits /\ RequestHeld

\* Who trades does so with somebody, who trades with them, and their window is not closed.
InTrade(p) == /\ Mutual(p) /\ Trading(pend[p])
              /\ client[p] \in {"waiting", "open", "ok"}
              /\ news[p] \in {"same", "changed", "open"}
TradesAgree == Orderly /\ Undisturbed => \A p \in Player : Trading(p) => InTrade(p)

\* The two of an exchange are each other's target.
DealMutual == deal # NoDeal => pend[deal.from] = deal.to /\ pend[deal.to] = deal.from

\* An item is used where players are busy.
NoneUsed == ~play.busy => \A p \in Player : using[p] = 0

Agreements == TradesAgree /\ DealMutual /\ NoneUsed

-----------------------------------------------------------------------------
(* Requests.                                                                *)

\* A step that makes no two players each other's target, and asks nobody.
LEMMA RequestsKept ==
  ASSUME Requests, play' = play, TargetsHere',
         \A r \in Player : Mutual(r)' => Mutual(r) /\ pend'[r] = pend[r],
         Orderly => \A r \in Player : Mutual(r)' /\ Asked(r)'
                      => Asked(r) /\ (Waits(pend[r]) => Waits(pend[r])'),
         Orderly /\ play.hasty =>
           \A r \in Player : client'[r] = "closed" /\ news'[r] = "asked"
             => client[r] = "closed" /\ news[r] = "asked" /\ Mutual(r)'
  PROVE  Requests'
<1>1. Orderly' <=> Orderly
  BY DEF Orderly, Undisturbed
<1>2. AskerWaits'
  BY <1>1 DEF Requests, AskerWaits, Waits
<1>3. RequestHeld'
  BY <1>1 DEF RequestHeld
<1> QED
  BY <1>2, <1>3 DEF Requests

\* Targets are forgotten by two of whom each is the other's, or by all the targets of whom
\* nothing is asked.
LEMMA MutualCleared ==
  ASSUME TradeTypes, Requests, here' = here,
         \A r \in Player : pend'[r] = pend[r] \/ pend'[r] = None
  PROVE  /\ \A r \in Player : Mutual(r)' => Mutual(r) /\ pend'[r] = pend[r]
         /\ play' = play => TargetsHere'
<1>1. ASSUME NEW r \in Player, Mutual(r)' PROVE Mutual(r) /\ pend'[r] = pend[r]
  <2>1. pend'[r] = pend[r] /\ pend[r] \in Player /\ here[pend[r]] /\ pend'[pend[r]] = r
    BY <1>1 DEF Mutual, Found, TradeTypes
  <2>2. pend[pend[r]] = r
    BY <2>1, TradeAssumption
  <2> QED
    BY <2>1, <2>2, TradeAssumption DEF Mutual, Found
<1>2. play' = play => TargetsHere'
  BY DEF Requests, TargetsHere
<1> QED
  BY <1>1, <1>2

\* Two players, each other's target, are each in the zone.
LEMMA MutualBoth ==
  ASSUME TradeTypes, Requests, NEW p \in Player, Mutual(p)
  PROVE  /\ pend[p] \in Player /\ pend[p] # p /\ here[p] /\ here[pend[p]]
         /\ Mutual(pend[p]) /\ pend[pend[p]] = p
<1>1. pend[p] \in Player /\ here[pend[p]] /\ pend[pend[p]] = p /\ pend[p] # p
  BY DEF Mutual, Found, TradeTypes, NotOneself
<1>2. here[p]
  BY <1>1, TradeAssumption DEF Requests, TargetsHere, Mutual, Found
<1> QED
  BY <1>1, <1>2, TradeAssumption DEF Mutual, Found

\* Steps that leave targets and windows alone; the other side is told of a change at most.
LEMMA QuietRequests ==
  ASSUME TradeTypes, Requests, UNCHANGED <<play, here, pend, client>>,
         news' = news \/ \E q \in Player : TellChange(q)
  PROVE  Requests'
<1>1. /\ \A r \in Player : Mutual(r)' <=> Mutual(r)
      /\ TargetsHere'
  BY DEF Mutual, Found, Requests, TargetsHere
<1>2. \A r \in Player : \/ news'[r] = news[r]
                        \/ news[r] = "same" /\ news'[r] = "changed"
  BY DEF TellChange, TradeTypes
<1>3. \A r \in Player : Mutual(r) => pend[r] \in Player
  BY DEF Mutual, Found, TradeTypes
<1>4. \A r \in Player : Asked(r)' <=> Asked(r)
  BY <1>2 DEF Asked
<1>5. \A r \in Player : Waits(r) => Waits(r)'
  BY <1>2 DEF Waits
<1>6. Orderly /\ play.hasty => \A r \in Player : client'[r] = "closed" /\ news'[r] = "asked"
        => client[r] = "closed" /\ news[r] = "asked" /\ Mutual(r)'
  BY <1>1, <1>2 DEF Requests, RequestHeld
<1> QED
  BY <1>1, <1>3, <1>4, <1>5, <1>6, RequestsKept

\* A client reads its news.
LEMMA ReadRequests ==
  ASSUME TradeTypes, Requests, NEW p \in Player, Read(p)
  PROVE  Requests'
<1>1. /\ \A r \in Player : Mutual(r)' <=> Mutual(r)
      /\ TargetsHere' /\ UNCHANGED <<play, pend>>
  BY DEF Read, Mutual, Found, Requests, TargetsHere
<1>2. \A r \in Player : r # p => client'[r] = client[r] /\ news'[r] = news[r]
  BY DEF Read, TradeTypes
<1>3. news'[p] = "same" /\ news[p] # "same"
      /\ client'[p] = CASE news[p] \in {"closed", "asked"}             -> news[p]
                        [] news[p] = "open" /\ client[p] = "waiting"   -> "open"
                        [] news[p] = "changed" /\ client[p] = "ok"     -> "open"
                        [] OTHER                                       -> client[p]
  BY DEF Read, TradeTypes
<1>4. Waits(p) => Waits(p)'
  BY <1>3 DEF Waits
<1>5. Asked(p)' => Asked(p)
  BY <1>3 DEF Asked
<1>6. \A r \in Player : Mutual(r) => pend[r] \in Player
  BY DEF Mutual, Found, TradeTypes
<1>7. \A r \in Player : (Asked(r)' => Asked(r)) /\ (Waits(r) => Waits(r)')
  BY <1>2, <1>4, <1>5 DEF Asked, Waits
<1>8. Orderly /\ play.hasty => \A r \in Player : client'[r] = "closed" /\ news'[r] = "asked"
        => client[r] = "closed" /\ news[r] = "asked" /\ Mutual(r)'
  BY <1>1, <1>2, <1>3 DEF Requests, RequestHeld
<1> QED
  BY <1>1, <1>6, <1>7, <1>8, RequestsKept


\* p asks q.
LEMMA ReqRequests ==
  ASSUME TradeTypes, Requests, NEW p \in Player, NEW q \in Player, TradeReq(p, q)
  PROVE  Requests'
<1>1. /\ here[p] /\ here[q] /\ p # q /\ client[p] = "closed" /\ UNCHANGED <<play, here>>
      /\ client' = [client EXCEPT ![p] = "waiting"]
      /\ IF play.hasty THEN news[p] \in {"same", "asked"} ELSE news[p] = "same" /\ news[q] # "closed"
  BY DEF TradeReq, Acts, ClientDoes
<1>2. /\ client'[p] = "waiting"
      /\ \A r \in Player : r # p => client'[r] = client[r]
  BY <1>1 DEF TradeTypes
<1>3. \A r \in Player : Mutual(r) => pend[r] \in Player
  BY DEF Mutual, Found, TradeTypes
<1>4. Orderly => ~(Mutual(p) /\ Asked(pend[p]))
  <2> SUFFICES ASSUME Orderly, Mutual(p), Asked(pend[p]) PROVE FALSE
    OBVIOUS
  <2>1. pend[p] \in Player /\ Mutual(pend[p]) /\ pend[pend[p]] = p
    BY MutualBoth
  <2>2. Waits(p)
    BY <2>1 DEF Requests, AskerWaits
  <2> QED
    BY <1>1, <2>2 DEF Waits
<1>5. CASE UNCHANGED pend /\ (Tell({p}, "closed") \/ UNCHANGED news)
  <2>1. /\ \A r \in Player : Mutual(r)' <=> Mutual(r)
        /\ TargetsHere'
    BY <1>1, <1>5 DEF Mutual, Found, Requests, TargetsHere
  <2>2. /\ \A r \in Player : r # p => news'[r] = news[r]
        /\ news'[p] \in {news[p], "closed"}
    BY <1>5 DEF Tell, TradeTypes
  <2>3. \A r \in Player : Asked(r)' => Asked(r)
    BY <1>2, <2>2 DEF Asked
  <2>4. \A r \in Player : r # p => (Waits(r) => Waits(r)')
    BY <1>2, <2>2 DEF Waits
  <2>5. ~Waits(p)
    <3>1. client[p] = "closed"
      BY <1>1
    <3> QED
      BY <3>1 DEF Waits
  <2>6. Orderly /\ play.hasty => \A r \in Player : client'[r] = "closed" /\ news'[r] = "asked"
          => client[r] = "closed" /\ news[r] = "asked" /\ Mutual(r)'
    BY <1>2, <2>1, <2>2 DEF Requests, RequestHeld
  <2>7. \A r \in Player : Mutual(r) => (Waits(pend[r]) => Waits(pend[r])')
    BY <1>3, <1>5, <2>4, <2>5
  <2> QED
    BY <1>1, <1>5, <2>1, <2>3, <2>6, <2>7, RequestsKept
<1>6. CASE /\ pend[p] \in play.same /\ here[pend[p]]
           /\ CleanTradeTargets({p, pend[p]}) /\ Tell({p, pend[p]}, "closed")
  <2>1. ~(Orderly /\ play.hasty)
    BY <1>6 DEF Orderly, Undisturbed
  <2>2. \A r \in Player : pend'[r] = IF r \in {p, pend[p]} THEN None ELSE pend[r]
    BY <1>6 DEF CleanTradeTargets
  <2>3. \A r \in Player : news'[r] = IF r \in {p, pend[p]} THEN "closed" ELSE news[r]
    BY <1>6 DEF Tell
  <2>4. /\ \A r \in Player : Mutual(r)' => Mutual(r) /\ pend'[r] = pend[r]
        /\ TargetsHere'
    BY <1>1, <2>2, MutualCleared
  <2>5. \A r \in Player : Mutual(r)' => r \notin {p, pend[p]} /\ pend[r] \in Player \ {p, pend[p]}
    BY <2>2, <2>4, <1>3, TradeAssumption DEF Mutual, Found
  <2>6. \A r \in Player : r \notin {p, pend[p]} => (Asked(r)' <=> Asked(r)) /\ (Waits(r) => Waits(r)')
    BY <1>2, <2>3 DEF Asked, Waits
  <2> QED
    BY <1>1, <2>1, <2>4, <2>5, <2>6, RequestsKept
<1>7. CASE /\ pend[q] # p /\ (pend[q] = None \/ ~fresh[q])
           /\ pend' = [pend EXCEPT ![p] = q, ![q] = p] /\ Tell({q}, "asked")
  <2>1. /\ pend'[p] = q /\ pend'[q] = p
        /\ \A r \in Player : r \notin {p, q} => pend'[r] = pend[r]
    BY <1>1, <1>7 DEF TradeTypes
  <2>2. news'[q] = "asked" /\ \A r \in Player : r # q => news'[r] = news[r]
    BY <1>7 DEF Tell, TradeTypes
  <2>3. TargetsHere'
    BY <1>1, <2>1 DEF Requests, TargetsHere
  <2>4. \A r \in Player : r \notin {p, q} /\ Mutual(r)'
          => Mutual(r) /\ pend[r] \in Player \ {p, q} /\ pend'[r] = pend[r]
    <3> SUFFICES ASSUME NEW r \in Player, r \notin {p, q}, Mutual(r)'
                 PROVE  Mutual(r) /\ pend[r] \in Player \ {p, q} /\ pend'[r] = pend[r]
      OBVIOUS
    <3>1. pend'[r] = pend[r] /\ pend[r] # None /\ here[pend[r]] /\ pend'[pend[r]] = r
      BY <1>1, <2>1 DEF Mutual, Found
    <3>2. pend[r] \in Player /\ pend[r] # p /\ pend[r] # q
      BY <2>1, <3>1 DEF TradeTypes
    <3> QED
      BY <2>1, <3>1, <3>2 DEF Mutual, Found
  <2>5. Orderly /\ play.hasty => news[p] # "asked"
    <3> SUFFICES ASSUME Orderly, play.hasty, news[p] = "asked" PROVE FALSE
      OBVIOUS
    <3>1. Mutual(p)
      BY <1>1 DEF Requests, RequestHeld
    <3>2. pend[p] \in Player /\ pend[p] # p /\ here[pend[p]] /\ pend[pend[p]] = p
      BY <3>1, MutualBoth
    <3>3. {p, q, pend[p]} \subseteq play.players
      BY <1>1, <3>2 DEF Requests, TargetsHere
    <3> QED
      BY <1>1, <1>7, <3>2, <3>3 DEF Orderly
  <2>6. Orderly => Waits(p)'
    BY <1>1, <1>2, <2>2, <2>5 DEF Waits
  <2>7. Orderly => ~Asked(p)'
    BY <1>1, <1>2, <2>2, <2>5 DEF Asked
  <2>8. Orderly' <=> Orderly
    BY <1>1 DEF Orderly, Undisturbed
  <2>9. AskerWaits'
    <3> SUFFICES ASSUME Orderly, NEW r \in Player, Mutual(r)', Asked(r)' PROVE Waits(pend[r])'
      BY <2>8 DEF AskerWaits
    <3>1. CASE r = p
      BY <2>7, <3>1
    <3>2. CASE r = q
      BY <2>1, <2>6, <3>2
    <3>3. CASE r \notin {p, q}
      <4>1. Mutual(r) /\ pend[r] \in Player \ {p, q} /\ pend'[r] = pend[r]
        BY <2>4, <3>3
      <4>2. Asked(r)
        BY <1>2, <2>2, <3>3 DEF Asked
      <4>3. Waits(pend[r])
        BY <4>1, <4>2 DEF Requests, AskerWaits
      <4> QED
        BY <1>2, <2>2, <4>1, <4>3 DEF Waits
    <3> QED
      BY <3>1, <3>2, <3>3
  <2>10. RequestHeld'
    <3> SUFFICES ASSUME Orderly, play.hasty, NEW r \in Player, client'[r] = "closed", news'[r] = "asked"
                 PROVE  Mutual(r)'
      BY <1>1, <2>8 DEF RequestHeld
    <3>1. CASE r = q
      BY <1>1, <2>1, <3>1, TradeAssumption DEF Mutual, Found
    <3>2. CASE r # q
      <4>1. r # p /\ Mutual(r)
        BY <1>2, <2>2, <3>2 DEF Requests, RequestHeld
      <4>2. r \in play.players /\ p \in play.players /\ q \in play.players
        BY <1>1, <4>1, MutualBoth DEF Requests, TargetsHere
      <4> QED
        BY <1>1, <3>2, <4>1, <4>2 DEF Orderly
    <3> QED
      BY <3>1, <3>2
  <2> QED
    BY <2>3, <2>9, <2>10 DEF Requests
<1> QED
  BY <1>5, <1>6, <1>7, ZenonT(30) DEF TradeReq


\* The answer to a request.
LEMMA StartRequests ==
  ASSUME TradeTypes, Requests, NEW p \in Player, TradeStart(p)
  PROVE  Requests'
<1>1. /\ client[p] = "asked" /\ client'[p] = "waiting" /\ UNCHANGED <<play, here>>
      /\ \A r \in Player : r # p => client'[r] = client[r]
  BY DEF TradeStart, ClientDoes, TradeTypes
<1>2. \A r \in Player : Mutual(r) => pend[r] \in Player
  BY DEF Mutual, Found, TradeTypes
<1>3. ~Waits(p)
  BY <1>1 DEF Waits
<1>4. Orderly => (Mutual(p) => Waits(pend[p]))
  BY <1>1 DEF Requests, AskerWaits, Asked
<1>5. CASE ~Mutual(p) /\ UNCHANGED <<pend, news>>
  <2>1. /\ \A r \in Player : Mutual(r)' <=> Mutual(r)
        /\ TargetsHere'
    BY <1>1, <1>5 DEF Mutual, Found, Requests, TargetsHere
  <2>2. \A r \in Player : (Asked(r)' => Asked(r)) /\ (Waits(r) => Waits(r)')
    BY <1>1, <1>3, <1>5 DEF Asked, Waits
  <2>3. Orderly /\ play.hasty => \A r \in Player : client'[r] = "closed" /\ news'[r] = "asked"
          => client[r] = "closed" /\ news[r] = "asked" /\ Mutual(r)'
    BY <1>1, <1>5, <2>1 DEF Requests, RequestHeld
  <2> QED
    BY <1>1, <1>2, <1>5, <2>1, <2>2, <2>3, RequestsKept
<1>6. CASE Mutual(p) /\ Tell({p, pend[p]}, "open") /\ UNCHANGED pend
  <2>1. /\ \A r \in Player : Mutual(r)' <=> Mutual(r)
        /\ TargetsHere'
    BY <1>1, <1>6 DEF Mutual, Found, Requests, TargetsHere
  <2>2. \A r \in Player : news'[r] = IF r \in {p, pend[p]} THEN "open" ELSE news[r]
    BY <1>6 DEF Tell
  <2>3. /\ \A r \in Player : Asked(r)' => Asked(r)
        /\ \A r \in Player : r \notin {p, pend[p]} => (Waits(r) => Waits(r)')
    BY <1>1, <2>2 DEF Asked, Waits
  <2>4. Orderly => ~Asked(p)' /\ ~Asked(pend[p])'
    BY <1>1, <1>2, <1>4, <1>6, <2>2, MutualBoth DEF Asked, Waits
  <2>5. \A r \in Player : Mutual(r) /\ r \notin {p, pend[p]} => pend[r] \notin {p, pend[p]}
    BY <1>2, <1>6, MutualBoth
  <2>6. Orderly /\ play.hasty => \A r \in Player : client'[r] = "closed" /\ news'[r] = "asked"
          => client[r] = "closed" /\ news[r] = "asked" /\ Mutual(r)'
    BY <1>1, <2>1, <2>2 DEF Requests, RequestHeld
  <2> QED
    BY <1>1, <1>2, <1>6, <2>1, <2>3, <2>4, <2>5, <2>6, RequestsKept
<1>7. CASE Mutual(p) /\ CleanTradeTargets({p, pend[p]}) /\ UNCHANGED news
  <2>1. \A r \in Player : pend'[r] = IF r \in {p, pend[p]} THEN None ELSE pend[r]
    BY <1>7 DEF CleanTradeTargets
  <2>2. /\ \A r \in Player : Mutual(r)' => Mutual(r) /\ pend'[r] = pend[r]
        /\ TargetsHere'
    BY <1>1, <2>1, MutualCleared
  <2>3. \A r \in Player : (Asked(r)' => Asked(r)) /\ (Waits(r) => Waits(r)')
    BY <1>1, <1>3, <1>7 DEF Asked, Waits
  <2>4. ASSUME Orderly, play.hasty, NEW r \in Player, client'[r] = "closed", news'[r] = "asked"
        PROVE  client[r] = "closed" /\ news[r] = "asked" /\ Mutual(r)'
    <3>1. client[r] = "closed" /\ news[r] = "asked" /\ r # p
      BY <1>1, <1>7, <2>4
    <3>2. Mutual(r) /\ r # pend[p]
      BY <1>4, <1>7, <2>4, <3>1 DEF Requests, RequestHeld, Waits
    <3>3. pend[r] \in Player /\ pend[pend[r]] = r /\ pend[pend[p]] = p
      BY <1>7, <3>2, MutualBoth
    <3>4. pend[r] \notin {p, pend[p]}
      BY <3>1, <3>2, <3>3
    <3> QED
      BY <1>1, <2>1, <3>1, <3>2, <3>3, <3>4, TradeAssumption DEF Mutual, Found
  <2> QED
    BY <1>1, <1>2, <2>2, <2>3, <2>4, RequestsKept
<1> QED
  BY <1>5, <1>6, <1>7, ZenonT(30) DEF TradeStart, Ignored

\* A trade is called off, by one of the two.
LEMMA CancelRequests ==
  ASSUME TradeTypes, Requests, NEW p \in Player, TradeCancell(p)
  PROVE  Requests'
<1>1. /\ client'[p] = "closed" /\ news'[p] = "same" /\ UNCHANGED <<play, here>>
      /\ \A r \in Player : r # p => client'[r] = client[r]
  <2>1. ClientDoes(p, "closed") /\ UNCHANGED <<play, here>>
    BY DEF TradeCancell
  <2>2. news' = [news EXCEPT ![p] = "same"]
        \/ (Mutual(p) /\ news' = [news EXCEPT ![p] = "same", ![pend[p]] = "closed"])
    BY DEF TradeCancell
  <2>3. Mutual(p) => pend[p] # p
    BY MutualBoth
  <2>4. news'[p] = "same"
    BY <2>2, <2>3 DEF TradeTypes
  <2> QED
    BY <2>1, <2>4 DEF ClientDoes, TradeTypes
<1>2. \A r \in Player : Mutual(r) => pend[r] \in Player
  BY DEF Mutual, Found, TradeTypes
<1>3. ~Asked(p)'
  BY <1>1 DEF Asked
<1>4. CASE ~Mutual(p) /\ news' = [news EXCEPT ![p] = "same"] /\ UNCHANGED pend
  <2>1. /\ \A r \in Player : Mutual(r)' <=> Mutual(r)
        /\ TargetsHere'
    BY <1>1, <1>4 DEF Mutual, Found, Requests, TargetsHere
  <2>2. \A r \in Player : r # p => news'[r] = news[r]
    BY <1>4 DEF TradeTypes
  <2>3. \A r \in Player : (Asked(r)' => Asked(r)) /\ (r # p => (Waits(r) => Waits(r)'))
    BY <1>1, <1>3, <2>2 DEF Asked, Waits
  <2>4. \A r \in Player : Mutual(r) => pend[r] # p
    BY <1>4, MutualBoth
  <2>5. Orderly /\ play.hasty => \A r \in Player : client'[r] = "closed" /\ news'[r] = "asked"
          => client[r] = "closed" /\ news[r] = "asked" /\ Mutual(r)'
    BY <1>1, <2>1, <2>2 DEF Requests, RequestHeld
  <2> QED
    BY <1>1, <1>2, <1>4, <2>1, <2>3, <2>4, <2>5, RequestsKept
<1>5. CASE /\ Mutual(p) /\ CleanTradeTargets({p, pend[p]})
           /\ news' = [news EXCEPT ![p] = "same", ![pend[p]] = "closed"]
  <2>1. \A r \in Player : pend'[r] = IF r \in {p, pend[p]} THEN None ELSE pend[r]
    BY <1>5 DEF CleanTradeTargets
  <2>2. /\ \A r \in Player : Mutual(r)' => Mutual(r) /\ pend'[r] = pend[r]
        /\ TargetsHere'
    BY <1>1, <2>1, MutualCleared
  <2>3. news'[pend[p]] = "closed"
        /\ \A r \in Player : r \notin {p, pend[p]} => news'[r] = news[r]
    BY <1>5, MutualBoth DEF TradeTypes
  <2>4. \A r \in Player : r \notin {p, pend[p]} => (Asked(r)' => Asked(r)) /\ (Waits(r) => Waits(r)')
    BY <1>1, <2>3 DEF Asked, Waits
  <2>5. \A r \in Player : Mutual(r)' => r \notin {p, pend[p]} /\ pend[r] \in Player \ {p, pend[p]}
    BY <1>2, <2>1, <2>2, TradeAssumption DEF Mutual, Found
  <2>6. ASSUME Orderly, play.hasty, NEW r \in Player, client'[r] = "closed", news'[r] = "asked"
        PROVE  client[r] = "closed" /\ news[r] = "asked" /\ Mutual(r)'
    <3>1. client[r] = "closed" /\ news[r] = "asked" /\ r \notin {p, pend[p]}
      BY <1>1, <2>3, <2>6
    <3>2. Mutual(r)
      BY <2>6, <3>1 DEF Requests, RequestHeld
    <3>3. pend[r] \in Player /\ pend[pend[r]] = r /\ pend[pend[p]] = p
      BY <1>5, <3>2, MutualBoth
    <3>4. pend[r] \notin {p, pend[p]}
      BY <3>1, <3>2, <3>3
    <3> QED
      BY <1>1, <2>1, <3>1, <3>2, <3>3, <3>4, TradeAssumption DEF Mutual, Found
  <2> QED
    BY <1>1, <2>2, <2>4, <2>5, <2>6, RequestsKept
<1> QED
  BY <1>4, <1>5 DEF TradeCancell


\* A trade ends for the two of it at once, and both are told.
LEMMA BothReleased ==
  ASSUME TradeTypes, Requests, NEW p \in Player, Mutual(p), UNCHANGED <<play, here>>,
         CleanTradeTargets({p, pend[p]}), Tell({p, pend[p]}, "closed"),
         \A r \in Player : r # p => client'[r] = client[r]
  PROVE  Requests'
<1>1. \A r \in Player : /\ pend'[r] = IF r \in {p, pend[p]} THEN None ELSE pend[r]
                        /\ news'[r] = IF r \in {p, pend[p]} THEN "closed" ELSE news[r]
  BY DEF CleanTradeTargets, Tell
<1>2. /\ \A r \in Player : Mutual(r)' => Mutual(r) /\ pend'[r] = pend[r]
      /\ TargetsHere'
  BY <1>1, MutualCleared
<1>3. \A r \in Player : r \notin {p, pend[p]} => (Asked(r)' => Asked(r)) /\ (Waits(r) => Waits(r)')
  BY <1>1 DEF Asked, Waits
<1>4. \A r \in Player : Mutual(r)' => r \notin {p, pend[p]} /\ pend[r] \in Player \ {p, pend[p]}
  BY <1>1, <1>2, MutualBoth, TradeAssumption DEF Mutual, Found
<1>5. ASSUME Orderly, play.hasty, NEW r \in Player, client'[r] = "closed", news'[r] = "asked"
      PROVE  client[r] = "closed" /\ news[r] = "asked" /\ Mutual(r)'
  <2>1. client[r] = "closed" /\ news[r] = "asked" /\ r \notin {p, pend[p]}
    BY <1>1, <1>5
  <2>2. Mutual(r)
    BY <1>5, <2>1 DEF Requests, RequestHeld
  <2>3. pend[r] \in Player /\ pend[pend[r]] = r /\ pend[pend[p]] = p
    BY <2>2, MutualBoth
  <2>4. pend[r] \notin {p, pend[p]}
    BY <2>1, <2>2, <2>3
  <2> QED
    BY <1>1, <2>1, <2>2, <2>3, <2>4, TradeAssumption DEF Mutual, Found
<1> QED
  BY <1>2, <1>3, <1>4, <1>5, RequestsKept

\* A confirmation.
LEMMA MakeRequests ==
  ASSUME TradeTypes, Requests, NEW p \in Player, TradeMake(p)
  PROVE  Requests'
<1>1. /\ client[p] = "open" /\ client'[p] = "ok" /\ UNCHANGED <<play, here>>
      /\ \A r \in Player : r # p => client'[r] = client[r]
  BY DEF TradeMake, ClientDoes, TradeTypes
<1>2. CASE UNCHANGED <<pend, news>>
  <2>1. /\ \A r \in Player : Mutual(r)' <=> Mutual(r)
        /\ TargetsHere'
    BY <1>1, <1>2 DEF Mutual, Found, Requests, TargetsHere
  <2>2. \A r \in Player : (Asked(r)' => Asked(r)) /\ (Waits(r) => Waits(r)')
    BY <1>1, <1>2 DEF Asked, Waits
  <2>3. \A r \in Player : Mutual(r) => pend[r] \in Player
    BY MutualBoth
  <2>4. Orderly /\ play.hasty => \A r \in Player : client'[r] = "closed" /\ news'[r] = "asked"
          => client[r] = "closed" /\ news[r] = "asked" /\ Mutual(r)'
    BY <1>1, <1>2, <2>1 DEF Requests, RequestHeld
  <2> QED
    BY <1>1, <1>2, <2>1, <2>2, <2>3, <2>4, RequestsKept
<1>3. CASE Mutual(p) /\ CleanTradeTargets({p, pend[p]}) /\ Tell({p, pend[p]}, "closed")
  BY <1>1, <1>3, BothReleased
<1> QED
  BY <1>2, <1>3, ZenonT(30) DEF TradeMake, Ignored

\* The end of an exchange.
LEMMA EndRequests ==
  ASSUME TradeTypes, DealTypes, Requests, DealMutual, TradeEnd
  PROVE  Requests'
<1> DEFINE p == deal.from
<1>1. deal # NoDeal
  BY TradeAssumption DEF TradeEnd, NoDeal
<1>2. p \in Player /\ deal.to \in Player /\ pend[p] = deal.to /\ pend[deal.to] = p
  BY <1>1 DEF DealMutual, DealTypes, DealOK
<1>3. Mutual(p)
  <2>1. here[pend[p]]
    BY <1>2, TradeAssumption DEF Requests, TargetsHere
  <2> QED
    BY <1>2, <2>1, TradeAssumption DEF Mutual, Found
<1>4. /\ CleanTradeTargets({p, pend[p]}) /\ Tell({p, pend[p]}, "closed")
      /\ UNCHANGED <<play, here, client>>
  BY <1>2 DEF TradeEnd
<1> HIDE DEF p
<1> QED
  BY <1>2, <1>3, <1>4, BothReleased

\* A synthesis, and leaving and entering the zone.
LEMMA OtherRequests ==
  ASSUME TradeTypes, Requests, NEW p \in Player, CombineAsk(p) \/ LeaveZone(p) \/ EnterZone(p)
  PROVE  Requests'
<1>1. CASE CombineAsk(p)
  <2>1. play.busy /\ UNCHANGED <<play, here, client>>
    BY <1>1 DEF CombineAsk
  <2>2. PICK P, R : /\ R \subseteq P
                    /\ CleanTradeTargets(P)
                    /\ Tell(R, "closed") \/ UNCHANGED news
    <3>1. CASE TypeEmpty(p)
      <4>1. \E P : CleanTradeTargets(P) /\ UNCHANGED news
        BY <1>1, <3>1 DEF CombineAsk
      <4> QED
        BY <4>1
    <3>2. CASE ~TypeEmpty(p)
      <4>1. CleanTradeTargets({p} \cup (IF Found(p) THEN {pend[p]} ELSE {}))
            /\ Tell(IF Found(p) THEN {p, pend[p]} ELSE {}, "closed")
        BY <1>1, <3>2 DEF CombineAsk
      <4>2. (IF Found(p) THEN {p, pend[p]} ELSE {}) \subseteq {p} \cup (IF Found(p) THEN {pend[p]} ELSE {})
        OBVIOUS
      <4> QED
        BY <4>1, <4>2
    <3> QED
      BY <3>1, <3>2
  <2>3. ~(Orderly /\ play.hasty)
    BY <2>1 DEF Orderly, Undisturbed
  <2>4. \A r \in Player : pend'[r] = IF r \in P THEN None ELSE pend[r]
    BY <2>2 DEF CleanTradeTargets
  <2>5. \A r \in Player : r \notin P => news'[r] = news[r]
    BY <2>2 DEF Tell
  <2>6. /\ \A r \in Player : Mutual(r)' => Mutual(r) /\ pend'[r] = pend[r]
        /\ TargetsHere'
    BY <2>1, <2>4, MutualCleared
  <2>7. \A r \in Player : Mutual(r)' => r \notin P /\ pend[r] \in Player \ P
    BY <2>4, <2>6, MutualBoth, TradeAssumption DEF Mutual, Found
  <2>8. \A r \in Player : r \notin P => (Asked(r)' => Asked(r)) /\ (Waits(r) => Waits(r)')
    BY <2>1, <2>5 DEF Asked, Waits
  <2> QED
    BY <2>1, <2>3, <2>6, <2>7, <2>8, RequestsKept
<1>2. CASE LeaveZone(p)
  <2>1. /\ play.leaves /\ play' = play
        /\ ~here'[p] /\ pend'[p] = None
        /\ \A r \in Player : r # p => /\ here'[r] = here[r] /\ pend'[r] = pend[r]
                                      /\ client'[r] = client[r] /\ news'[r] = news[r]
    BY <1>2 DEF LeaveZone, TradeTypes
  <2>2. ~(Orderly /\ play.hasty)
    BY <2>1 DEF Orderly, Undisturbed
  <2>3. TargetsHere'
    BY <2>1 DEF Requests, TargetsHere
  <2>4. \A r \in Player : Mutual(r)' => Mutual(r) /\ pend'[r] = pend[r] /\ r # p /\ pend[r] \in Player \ {p}
    <3> SUFFICES ASSUME NEW r \in Player, Mutual(r)'
                 PROVE  Mutual(r) /\ pend'[r] = pend[r] /\ r # p /\ pend[r] \in Player \ {p}
      OBVIOUS
    <3>1. r # p /\ pend'[r] = pend[r] /\ pend[r] \in Player /\ here'[pend[r]]
          /\ pend'[pend[r]] = r
      BY <1>2, <2>1, TradeAssumption DEF Mutual, Found, TradeTypes
    <3> QED
      BY <2>1, <3>1, TradeAssumption DEF Mutual, Found
  <2>5. \A r \in Player : r # p => (Asked(r)' => Asked(r)) /\ (Waits(r) => Waits(r)')
    BY <2>1 DEF Asked, Waits
  <2> QED
    BY <2>1, <2>2, <2>3, <2>4, <2>5, RequestsKept
<1>3. CASE EnterZone(p)
  <2>1. /\ UNCHANGED <<play, pend, client, news>> /\ ~here[p] /\ p \in play.players
        /\ \A r \in Player : r # p => here'[r] = here[r]
    BY <1>3 DEF EnterZone, TradeTypes
  <2>2. TargetsHere'
    BY <2>1 DEF Requests, TargetsHere
  <2>3. \A r \in Player : Mutual(r)' => Mutual(r)
    <3> SUFFICES ASSUME NEW r \in Player, Mutual(r)' PROVE Mutual(r)
      OBVIOUS
    <3>1. pend[r] \in Player /\ pend[pend[r]] = r
      BY <2>1 DEF Mutual, Found, TradeTypes
    <3>2. pend[r] # p
      BY <2>1, <3>1, TradeAssumption DEF Requests, TargetsHere
    <3> QED
      BY <2>1, <3>1, <3>2, TradeAssumption DEF Mutual, Found
  <2>4. \A r \in Player : Mutual(r) => Mutual(r)'
    <3> SUFFICES ASSUME NEW r \in Player, Mutual(r) PROVE Mutual(r)'
      OBVIOUS
    <3>1. pend[r] \in Player /\ here[pend[r]] /\ pend[pend[r]] = r
      BY MutualBoth
    <3> QED
      BY <2>1, <3>1, TradeAssumption DEF Mutual, Found
  <2>5. \A r \in Player : (Asked(r)' <=> Asked(r)) /\ (Waits(r)' <=> Waits(r))
    BY <2>1 DEF Asked, Waits
  <2>6. \A r \in Player : Mutual(r) => pend[r] \in Player
    BY MutualBoth
  <2>7. Orderly /\ play.hasty => \A r \in Player : client'[r] = "closed" /\ news'[r] = "asked"
          => client[r] = "closed" /\ news[r] = "asked" /\ Mutual(r)'
    BY <2>1, <2>4 DEF Requests, RequestHeld
  <2> QED
    BY <2>1, <2>2, <2>3, <2>5, <2>6, <2>7, RequestsKept
<1> QED
  BY <1>1, <1>2, <1>3


\* What is offered and withdrawn tells the other of a change, and no container gets another type.
LEMMA ListQuiet ==
  ASSUME TradeTypes, NEW p \in Player, NEW k \in BoxSlot, NEW s, NEW n, TradeList(p, k, s, n)
  PROVE  /\ news' = news \/ \E q \in Player : TellChange(q)
         /\ \A r \in Player : box'[r].type = box[r].type
<1> DEFINE old  == box[p].slot[k]
           box1 == IF old = Nothing THEN box[p] ELSE ClearSlot(box[p], k)
           set  == [SetItem(box1, k, s) EXCEPT !.lock = FALSE]
           free == [box1 EXCEPT !.lock = FALSE]
<1>1. Mutual(p) => pend[p] \in Player
  BY DEF Mutual, Found, TradeTypes
<1>2. \/ UNCHANGED <<box, news>>
      \/ box' = [box EXCEPT ![p] = box1] /\ UNCHANGED news
      \/ /\ Mutual(p) /\ TellChange(pend[p])
         /\ \/ box' = [box EXCEPT ![p] = set, ![pend[p]].lock = FALSE]
            \/ box' = [box EXCEPT ![p] = free, ![pend[p]].lock = FALSE]
  BY ZenonT(30) DEF TradeList
<1>3. box[p] \in Box
  BY DEF TradeTypes
<1>4. box1.type = box[p].type
  BY <1>3 DEF ClearSlot, Box
<1>5. set.type = box[p].type /\ free.type = box[p].type
  <2>1. box1 \in Box
    BY <1>3, BoxTypes
  <2> HIDE DEF box1
  <2>2. SetItem(box1, k, s).type = box1.type
    BY <2>1 DEF SetItem, Box
  <2>3. set.type = SetItem(box1, k, s).type
    <3> DEFINE b == SetItem(box1, k, s)
    <3> HIDE DEF b
    <3>1. [b EXCEPT !.lock = FALSE].type = b.type
      OBVIOUS
    <3> QED
      BY <3>1 DEF b
  <2> QED
    BY <1>4, <2>1, <2>2, <2>3 DEF Box
<1> HIDE DEF box1, set, free
<1>6. ASSUME NEW b, b.type = box[p].type, Mutual(p), box' = [box EXCEPT ![p] = b, ![pend[p]].lock = FALSE]
      PROVE  \A r \in Player : box'[r].type = box[r].type
  <2>1. pend[p] \in Player /\ pend[p] # p /\ box[pend[p]] \in Box
    BY <1>1, <1>6 DEF TradeTypes, NotOneself
  <2> DEFINE other == [box[pend[p]] EXCEPT !.lock = FALSE]
  <2>2. other.type = box[pend[p]].type
    BY <2>1 DEF Box
  <2>3. box' = [box EXCEPT ![p] = b, ![pend[p]] = other]
    BY <1>6, <2>1 DEF TradeTypes
  <2> HIDE DEF other
  <2> QED
    BY <1>6, <2>1, <2>2, <2>3 DEF TradeTypes
<1> QED
  BY <1>1, <1>2, <1>4, <1>5, <1>6 DEF TradeTypes

\* Every step keeps what is known of the requests.
LEMMA RequestsNext ==
  ASSUME TradeTypes, DealTypes, Requests, DealMutual, [Next]_vars
  PROVE  Requests'
<1>1. ASSUME NEW p \in Player, NEW k \in BoxSlot, NEW s, NEW n, TradeList(p, k, s, n),
             UNCHANGED <<play, here, pend, client>>
      PROVE  Requests'
  BY <1>1, ListQuiet, QuietRequests
<1>2. ASSUME NEW p \in Player, Step(p) PROVE Requests'
  <2>1. ASSUME NEW k \in BoxSlot, NEW s \in InvSlot, NEW n \in 1 .. inv[p][s].qty, Put(p, k, s, n)
        PROVE  Requests'
    BY <1>1, <2>1 DEF Put
  <2>2. ASSUME NEW k \in BoxSlot, Withdraw(p, k) PROVE Requests'
    BY <1>1, <2>2 DEF Withdraw
  <2>3. ASSUME NEW s \in InvSlot, UseItem(p, s) \/ \E n \in 1 .. inv[p][s].qty : Discard(p, s, n)
        PROVE  Requests'
    BY <2>3, QuietRequests DEF UseItem, Discard
  <2>4. CASE Age(p) \/ FinishItem(p) \/ Cleanup(p)
    BY <2>4, QuietRequests DEF Age, FinishItem, Cleanup
  <2> QED
    BY <1>2, <2>1, <2>2, <2>3, <2>4, ReadRequests, ReqRequests, StartRequests, CancelRequests,
       MakeRequests, OtherRequests DEF Step
<1>3. CASE DoTrade \/ UNCHANGED vars
  BY <1>3, QuietRequests DEF DoTrade, vars
<1> QED
  BY <1>2, <1>3, EndRequests DEF Next

-----------------------------------------------------------------------------
(* Trades.                                                                  *)

\* The two of an exchange stay each other's target until it ends.
LEMMA DealNext ==
  ASSUME TradeTypes, DealTypes, Requests, DealMutual, [Next]_vars
  PROVE  DealMutual'
<1>1. CASE UNCHANGED <<deal, pend>>
  BY <1>1 DEF DealMutual
<1>2. ASSUME NEW p \in Player, Step(p) PROVE DealMutual'
  <2>1. CASE TradeMake(p)
    <3>1. Acts(p)
      BY <2>1 DEF TradeMake
    <3>2. \/ UNCHANGED deal
          \/ /\ Mutual(p) /\ UNCHANGED pend
             /\ deal' = [from |-> p, to |-> pend[p], k |-> 0, back |-> FALSE]
      BY <2>1, ZenonT(30) DEF TradeMake
    <3> QED
      BY <3>1, <3>2 DEF Acts, DealMutual, Mutual
  <2>2. CASE ~TradeMake(p)
    <3>1. deal = NoDeal /\ deal' = deal
      BY <1>2, <2>2, ZenonT(60) DEF Step, Read, Age, TradeStart, TradeCancell, TradeReq, Put, Withdraw,
         UseItem, FinishItem, Cleanup, CombineAsk, Discard, LeaveZone, EnterZone, Outside, Acts
    <3> QED
      BY <3>1 DEF DealMutual
  <2> QED
    BY <2>1, <2>2
<1>3. CASE DoTrade
  <2>1. deal # NoDeal /\ UNCHANGED pend /\ pend[deal.from] = deal.to /\ pend[deal.to] = deal.from
    BY <1>3 DEF DoTrade, DealMutual
  <2>2. deal' \in {[deal EXCEPT !.k = @ + 1], [deal EXCEPT !.k = TradeSlots],
                   [from |-> deal.to, to |-> deal.from, k |-> 0, back |-> TRUE]}
    BY <1>3 DEF DoTrade
  <2>3. \/ deal'.from = deal.from /\ deal'.to = deal.to
        \/ deal'.from = deal.to /\ deal'.to = deal.from
    BY <2>2 DEF DealTypes
  <2> QED
    BY <2>1, <2>3 DEF DealMutual
<1>4. CASE TradeEnd
  BY <1>4 DEF TradeEnd, DealMutual
<1> QED
  BY <1>1, <1>2, <1>3, <1>4 DEF Next, vars

\* Items are used only where players are busy.
LEMMA UseNext ==
  ASSUME TradeTypes, NoneUsed, [Next]_vars
  PROVE  NoneUsed'
<1>1. CASE UNCHANGED <<using, play>>
  BY <1>1 DEF NoneUsed
<1>2. ASSUME NEW p \in Player, \/ Cleanup(p) \/ LeaveZone(p)
                               \/ \E s \in InvSlot : UseItem(p, s)
      PROVE  NoneUsed'
  BY <1>2 DEF Cleanup, LeaveZone, UseItem, NoneUsed, TradeTypes
<1>3. ASSUME NEW p \in Player, Step(p), ~Cleanup(p), ~LeaveZone(p), ~\E s \in InvSlot : UseItem(p, s)
      PROVE  UNCHANGED <<using, play>>
  BY <1>3, ZenonT(60) DEF Step, Read, Age, TradeStart, TradeCancell, TradeReq, TradeMake, Put, Withdraw,
     FinishItem, CombineAsk, Discard, EnterZone
<1>4. DoTrade \/ TradeEnd \/ UNCHANGED vars => UNCHANGED <<using, play>>
  BY DEF DoTrade, TradeEnd, vars
<1> QED
  BY <1>1, <1>2, <1>3, <1>4 DEF Next


\* A step that opens no trade and takes from none what it is.
LEMMA TradesKept ==
  ASSUME TradesAgree, play' = play,
         Orderly /\ Undisturbed => \A r \in Player : Trading(r)' =>
            /\ Trading(r)
            /\ InTrade(r) => InTrade(r)'
  PROVE  TradesAgree'
<1>1. (Orderly /\ Undisturbed)' <=> Orderly /\ Undisturbed
  BY DEF Orderly, Undisturbed
<1> QED
  BY <1>1 DEF TradesAgree

\* The containers keep their types, the players their targets and windows.
LEMMA QuietTrades ==
  ASSUME TradeTypes, TradesAgree, UNCHANGED <<play, here, pend, client>>,
         \A r \in Player : box'[r].type = box[r].type,
         news' = news \/ \E q \in Player : TellChange(q)
  PROVE  TradesAgree'
<1>1. \A r \in Player : /\ Trading(r)' <=> Trading(r)
                        /\ Mutual(r)' <=> Mutual(r)
                        /\ Mutual(r) => pend[r] \in Player
  BY DEF Trading, Mutual, Found, TradeTypes
<1>2. \A r \in Player : \/ news'[r] = news[r]
                        \/ news[r] = "same" /\ news'[r] = "changed"
  BY DEF TellChange, TradeTypes
<1>3. \A r \in Player : InTrade(r) => InTrade(r)'
  BY <1>1, <1>2 DEF InTrade
<1> QED
  BY <1>1, <1>3, TradesKept

\* News is read, and requests are made: of those who trade nobody asks or is asked.
LEMMA AskTrades ==
  ASSUME TradeTypes, TradesAgree, NEW p \in Player, Read(p) \/ \E q \in Player : TradeReq(p, q)
  PROVE  TradesAgree'
<1>1. CASE Read(p)
  <2>1. /\ UNCHANGED <<play, here, box, pend>> /\ news'[p] = "same"
        /\ client'[p] = CASE news[p] \in {"closed", "asked"}             -> news[p]
                          [] news[p] = "open" /\ client[p] = "waiting"   -> "open"
                          [] news[p] = "changed" /\ client[p] = "ok"     -> "open"
                          [] OTHER                                       -> client[p]
        /\ \A r \in Player : r # p => client'[r] = client[r] /\ news'[r] = news[r]
    BY <1>1 DEF Read, TradeTypes
  <2>2. \A r \in Player : (Trading(r)' <=> Trading(r)) /\ (Mutual(r)' <=> Mutual(r))
    BY <2>1 DEF Trading, Mutual, Found
  <2>3. \A r \in Player : Mutual(r) /\ Trading(pend[r]) => Mutual(r)' /\ Trading(pend[r])'
    BY <2>1 DEF Trading, Mutual, Found
  <2>4. client[p] \in {"waiting", "open", "ok"} /\ news[p] \in {"same", "changed", "open"}
          => client'[p] \in {"waiting", "open", "ok"} /\ news'[p] \in {"same", "changed", "open"}
    BY <2>1
  <2>5. \A r \in Player : InTrade(r) => InTrade(r)'
    BY <2>1, <2>3, <2>4 DEF InTrade
  <2> QED
    BY <2>1, <2>2, <2>5, TradesKept
<1>2. ASSUME NEW q \in Player, TradeReq(p, q) PROVE TradesAgree'
  <2>1. /\ p # q /\ client[p] = "closed" /\ UNCHANGED <<play, here, box>>
        /\ client' = [client EXCEPT ![p] = "waiting"]
    BY <1>2 DEF TradeReq, ClientDoes
  <2>2. \A r \in Player : Trading(r)' <=> Trading(r)
    BY <2>1 DEF Trading
  <2>3. SUFFICES ASSUME Orderly, Undisturbed, NEW r \in Player, Trading(r) PROVE InTrade(r)'
    BY <2>1, <2>2, TradesKept
  <2>4. InTrade(r)
    BY <2>3 DEF TradesAgree
  <2>5. r # p /\ client'[r] = client[r]
    BY <2>1, <2>4 DEF InTrade, TradeTypes
  <2>6. /\ pend[r] \in Player /\ here[pend[r]] /\ pend[pend[r]] = r
        /\ Trading(pend[r]) /\ pend[r] # p
    <3>1. pend[r] \in Player /\ here[pend[r]] /\ pend[pend[r]] = r /\ Trading(pend[r])
      BY <2>4 DEF InTrade, Mutual, Found, TradeTypes
    <3>2. InTrade(pend[r])
      BY <2>3, <3>1 DEF TradesAgree
    <3> QED
      BY <2>1, <3>1, <3>2 DEF InTrade
  <2>7. \/ Tell({p}, "closed") /\ UNCHANGED pend
        \/ UNCHANGED <<pend, news>>
        \/ /\ TypeEmpty(q) /\ Tell({q}, "asked")
           /\ pend' = [pend EXCEPT ![p] = q, ![q] = p]
    BY <1>2, <2>3, ZenonT(30) DEF TradeReq, Undisturbed
  <2>8. /\ pend'[r] = pend[r] /\ pend'[pend[r]] = r
        /\ news'[r] = news[r]
    BY <2>3, <2>5, <2>6, <2>7 DEF Tell, TypeEmpty, Trading, TradeTypes
  <2> QED
    BY <2>1, <2>2, <2>4, <2>5, <2>6, <2>8, TradeAssumption DEF InTrade, Mutual, Found
<1> QED
  BY <1>1, <1>2

\* A request is answered: the one who accepts was asked, and the other waits.
LEMMA StartTrades ==
  ASSUME TradeTypes, Requests, TradesAgree, NEW p \in Player, TradeStart(p)
  PROVE  TradesAgree'
<1>1. /\ client[p] = "asked" /\ UNCHANGED <<play, here>>
      /\ client' = [client EXCEPT ![p] = "waiting"]
  BY DEF TradeStart, ClientDoes
<1>2. Orderly => (Mutual(p) => Waits(pend[p]))
  BY <1>1 DEF Requests, AskerWaits, Asked
<1>3. Orderly /\ Undisturbed => ~Trading(p) /\ (Mutual(p) => ~Trading(pend[p]))
  <2> SUFFICES ASSUME Orderly, Undisturbed PROVE ~Trading(p) /\ (Mutual(p) => ~Trading(pend[p]))
    OBVIOUS
  <2>1. ~Trading(p)
    BY <1>1 DEF TradesAgree, InTrade
  <2>2. ASSUME Mutual(p), Trading(pend[p]) PROVE FALSE
    <3>1. pend[p] \in Player /\ pend[pend[p]] = p
      BY <2>2, MutualBoth
    <3> QED
      BY <2>1, <2>2, <3>1 DEF TradesAgree, InTrade
  <2> QED
    BY <2>1, <2>2
<1>4. (Orderly /\ Undisturbed)' <=> Orderly /\ Undisturbed
  BY <1>1 DEF Orderly, Undisturbed
<1>5. SUFFICES ASSUME Orderly, Undisturbed, NEW r \in Player, Trading(r)' PROVE InTrade(r)'
  BY <1>4 DEF TradesAgree
<1>6. ASSUME Trading(r) PROVE /\ InTrade(r) /\ r # p /\ client'[r] = client[r]
                              /\ pend[r] \in Player /\ pend[pend[r]] = r /\ here[pend[r]]
                              /\ pend[r] # p /\ (Mutual(p) => r # pend[p])
  <2>1. InTrade(r)
    BY <1>5, <1>6 DEF TradesAgree
  <2>2. /\ pend[r] \in Player /\ pend[pend[r]] = r /\ here[pend[r]] /\ Trading(pend[r])
        /\ r # p
    BY <1>1, <2>1, MutualBoth DEF InTrade
  <2>3. pend[r] # p
    BY <1>3, <1>5, <2>2
  <2> QED
    BY <1>1, <1>3, <1>5, <1>6, <2>1, <2>2, <2>3 DEF TradeTypes
<1>7. CASE UNCHANGED <<box, pend, news>>
  <2>1. Trading(r)
    BY <1>5, <1>7 DEF Trading
  <2> QED
    BY <1>1, <1>6, <1>7, <2>1 DEF InTrade, Mutual, Found, Trading
<1>8. CASE /\ Mutual(p) /\ Tell({p, pend[p]}, "open") /\ UNCHANGED pend
           /\ TypeEmpty(p) /\ TypeEmpty(pend[p])
           /\ box' = [box EXCEPT ![p] = SetType(@, "trade"), ![pend[p]] = SetType(@, "trade")]
  <2>1. /\ pend[p] \in Player /\ pend[p] # p /\ here[p] /\ here[pend[p]] /\ pend[pend[p]] = p
    BY <1>8, MutualBoth
  <2>2. SetType(box[p], "trade").type = "trade" /\ SetType(box[pend[p]], "trade").type = "trade"
    BY <1>8, <2>1 DEF TypeEmpty, SetType, TradeTypes, Box
  <2>3. /\ Trading(p)' /\ Trading(pend[p])'
        /\ \A x \in Player : x \notin {p, pend[p]} => (Trading(x)' <=> Trading(x))
    BY <1>8, <2>1, <2>2 DEF Trading, TradeTypes
  <2>4. \A x \in Player : news'[x] = IF x \in {p, pend[p]} THEN "open" ELSE news[x]
    BY <1>8 DEF Tell
  <2>5. CASE r \in {p, pend[p]}
    <3>1. Mutual(r)' /\ Trading(pend[r])'
      BY <1>1, <1>8, <2>1, <2>3, <2>5, TradeAssumption DEF Mutual, Found
    <3>2. client'[r] = "waiting"
      BY <1>1, <1>2, <1>5, <1>8, <2>1, <2>5 DEF Waits, TradeTypes
    <3> QED
      BY <1>8, <2>4, <2>5, <3>1, <3>2 DEF InTrade
  <2>6. CASE r \notin {p, pend[p]}
    <3>1. Trading(r)
      BY <1>5, <2>3, <2>6
    <3>2. pend[r] \notin {p, pend[p]}
      BY <1>6, <2>1, <2>6, <3>1
    <3> QED
      BY <1>1, <1>6, <1>8, <2>3, <2>4, <2>6, <3>1, <3>2 DEF InTrade, Mutual, Found
  <2> QED
    BY <2>5, <2>6
<1>9. CASE Mutual(p) /\ CleanTradeTargets({p, pend[p]}) /\ UNCHANGED <<box, news>>
  <2>1. Trading(r)
    BY <1>5, <1>9 DEF Trading
  <2>2. pend[pend[p]] = p
    BY <1>9, MutualBoth
  <2>3. r \notin {p, pend[p]} /\ pend[r] \notin {p, pend[p]}
    BY <1>6, <1>9, <2>1, <2>2
  <2>4. pend'[r] = pend[r] /\ pend'[pend[r]] = pend[pend[r]]
    BY <1>6, <1>9, <2>1, <2>3 DEF CleanTradeTargets
  <2> QED
    BY <1>1, <1>6, <1>9, <2>1, <2>4 DEF InTrade, Mutual, Found, Trading
<1> QED
  BY <1>7, <1>8, <1>9, ZenonT(30) DEF TradeStart, Ignored


\* A trade ends for the two of it: their containers are emptied, their targets forgotten.
LEMMA BothEnded ==
  ASSUME TradeTypes, Requests, TradesAgree, UNCHANGED <<play, here>>, NEW p \in Player, Mutual(p),
         NEW P, P \subseteq {p, pend[p]}, \A r \in {p, pend[p]} : Trading(r) => r \in P,
         Clean(P), CleanTradeTargets({p, pend[p]}),
         \A r \in Player : r \notin {p, pend[p]} => client'[r] = client[r] /\ news'[r] = news[r]
  PROVE  TradesAgree'
<1>1. pend[p] \in Player /\ pend[pend[p]] = p
  BY MutualBoth
<1>2. \A r \in Player : r \in {p, pend[p]} => ~Trading(r)'
  BY <1>1 DEF Clean, Trading, EmptyBox
<1>3. \A r \in Player : r \notin {p, pend[p]} => box'[r] = box[r] /\ pend'[r] = pend[r]
  BY DEF Clean, CleanTradeTargets
<1>4. ASSUME NEW r \in Player, Trading(r)' PROVE Trading(r) /\ (InTrade(r) => InTrade(r)')
  <2>1. r \notin {p, pend[p]} /\ Trading(r)
    BY <1>2, <1>3, <1>4 DEF Trading
  <2>2. ASSUME InTrade(r) PROVE InTrade(r)'
    <3>1. pend[r] \in Player /\ pend[pend[r]] = r /\ here[pend[r]]
      BY <2>2, MutualBoth DEF InTrade
    <3>2. pend[r] \notin {p, pend[p]}
      BY <1>1, <2>1, <3>1
    <3> QED
      BY <1>3, <2>1, <2>2, <3>1, <3>2 DEF InTrade, Mutual, Found, Trading
  <2> QED
    BY <2>1, <2>2
<1> QED
  BY <1>4, TradesKept

\* A trade is called off.
LEMMA CancelTrades ==
  ASSUME TradeTypes, Requests, TradesAgree, NEW p \in Player, TradeCancell(p)
  PROVE  TradesAgree'
<1>1. ClientDoes(p, "closed") /\ UNCHANGED <<play, here>>
  BY DEF TradeCancell
<1>2. CASE ~Mutual(p)
  <2>1. news' = [news EXCEPT ![p] = "same"] /\ UNCHANGED <<box, pend>>
    BY <1>2 DEF TradeCancell
  <2>2. Orderly /\ Undisturbed => ~Trading(p)
    BY <1>2 DEF TradesAgree, InTrade
  <2>3. \A r \in Player : r # p => client'[r] = client[r] /\ news'[r] = news[r]
    BY <1>1, <2>1 DEF ClientDoes, TradeTypes
  <2>4. \A r \in Player : (Trading(r)' <=> Trading(r)) /\ (Mutual(r)' <=> Mutual(r))
    BY <1>1, <2>1 DEF Trading, Mutual, Found
  <2>5. \A r \in Player : r # p /\ InTrade(r) => InTrade(r)'
    BY <2>1, <2>3, <2>4 DEF InTrade, Trading
  <2> QED
    BY <1>1, <2>2, <2>4, <2>5, TradesKept
<1>3. CASE Mutual(p)
  <2> DEFINE P == {r \in {p, pend[p]} : Trading(r)}
  <2>1. /\ Clean(P) /\ CleanTradeTargets({p, pend[p]})
        /\ news' = [news EXCEPT ![p] = "same", ![pend[p]] = "closed"]
    BY <1>3 DEF TradeCancell
  <2>2. P \subseteq {p, pend[p]} /\ \A r \in {p, pend[p]} : Trading(r) => r \in P
    OBVIOUS
  <2>3. \A r \in Player : r \notin {p, pend[p]} => client'[r] = client[r] /\ news'[r] = news[r]
    BY <1>1, <2>1 DEF ClientDoes, TradeTypes
  <2> HIDE DEF P
  <2> QED
    BY <1>1, <1>3, <2>1, <2>2, <2>3, BothEnded
<1> QED
  BY <1>2, <1>3

\* A confirmation, the exchange and its end.
LEMMA MakeTrades ==
  ASSUME TradeTypes, DealTypes, Requests, TradesAgree, DealMutual,
         DoTrade \/ TradeEnd \/ \E p \in Player : TradeMake(p)
  PROVE  TradesAgree'
<1>1. ASSUME NEW p \in Player, TradeMake(p) PROVE TradesAgree'
  <2>1. /\ client[p] = "open" /\ client' = [client EXCEPT ![p] = "ok"] /\ UNCHANGED <<play, here>>
    BY <1>1 DEF TradeMake, ClientDoes
  <2>2. CASE /\ box' = box \/ box' = [box EXCEPT ![p].lock = TRUE]
             /\ UNCHANGED <<pend, news>>
    <3>1. \A r \in Player : (Trading(r)' <=> Trading(r)) /\ (Mutual(r)' <=> Mutual(r))
      <4>1. [box[p] EXCEPT !.lock = TRUE].type = box[p].type
        BY DEF TradeTypes, Box
      <4> QED
        BY <2>1, <2>2, <4>1 DEF Trading, Mutual, Found, TradeTypes
    <3>2. \A r \in Player : InTrade(r) => InTrade(r)'
      BY <2>1, <2>2, <3>1, MutualBoth DEF InTrade, TradeTypes
    <3> QED
      BY <2>1, <3>1, <3>2, TradesKept
  <2>3. CASE /\ Mutual(p) /\ Clean({p, pend[p]}) /\ CleanTradeTargets({p, pend[p]})
             /\ Tell({p, pend[p]}, "closed")
    <3>1. \A r \in Player : r \notin {p, pend[p]} => client'[r] = client[r] /\ news'[r] = news[r]
      BY <2>1, <2>3 DEF Tell, TradeTypes
    <3>2. /\ {p, pend[p]} \subseteq {p, pend[p]}
          /\ \A r \in {p, pend[p]} : Trading(r) => r \in {p, pend[p]}
      OBVIOUS
    <3> QED
      BY <2>1, <2>3, <3>1, <3>2, BothEnded
  <2> QED
    BY <1>1, <2>2, <2>3, ZenonT(30) DEF TradeMake, Ignored
<1>2. CASE DoTrade
  <2>1. UNCHANGED <<play, here, pend, client, news>>
    BY <1>2 DEF DoTrade
  <2>2. box' = box \/ box' = [box EXCEPT ![deal.from] = ClearSlot(@, deal.k)]
    BY <1>2 DEF DoTrade
  <2>3. deal.from \in Player /\ box[deal.from] \in Box
    BY <1>2 DEF DoTrade, DealTypes, DealOK, TradeTypes
  <2>4. ClearSlot(box[deal.from], deal.k).type = box[deal.from].type
    BY <2>3 DEF ClearSlot, Box
  <2>5. \A r \in Player : box'[r].type = box[r].type
    BY <2>2, <2>3, <2>4 DEF TradeTypes
  <2> QED
    BY <2>1, <2>5, QuietTrades
<1>3. CASE TradeEnd
  <2> DEFINE p == deal.from
  <2>1. deal # NoDeal
    BY <1>3, TradeAssumption DEF TradeEnd, NoDeal
  <2>2. p \in Player /\ deal.to \in Player /\ pend[p] = deal.to /\ pend[deal.to] = p
    BY <2>1 DEF DealMutual, DealTypes, DealOK
  <2>3. Mutual(p)
    BY <2>2, TradeAssumption DEF Mutual, Found, Requests, TargetsHere
  <2>4. /\ Clean({p, pend[p]}) /\ CleanTradeTargets({p, pend[p]}) /\ Tell({p, pend[p]}, "closed")
        /\ UNCHANGED <<play, here, client>>
    BY <1>3, <2>2 DEF TradeEnd
  <2>5. /\ {p, pend[p]} \subseteq {p, pend[p]}
        /\ \A r \in {p, pend[p]} : Trading(r) => r \in {p, pend[p]}
    OBVIOUS
  <2>6. \A r \in Player : r \notin {p, pend[p]} => client'[r] = client[r] /\ news'[r] = news[r]
    BY <2>4 DEF Tell
  <2> HIDE DEF p
  <2> QED
    BY <2>2, <2>3, <2>4, <2>5, <2>6, BothEnded
<1> QED
  BY <1>1, <1>2, <1>3

\* Every step keeps what is known of the trades.
LEMMA TradesNext ==
  ASSUME TradeTypes, DealTypes, Requests, Agreements, [Next]_vars
  PROVE  TradesAgree'
<1>1. TradesAgree /\ DealMutual /\ NoneUsed
  BY DEF Agreements
<1>2. ASSUME NEW p \in Player, NEW k \in BoxSlot, NEW s, NEW n, TradeList(p, k, s, n),
             UNCHANGED <<play, here, pend, client>>
      PROVE  TradesAgree'
  BY <1>1, <1>2, ListQuiet, QuietTrades
<1>3. ASSUME NEW p \in Player, Step(p) PROVE TradesAgree'
  <2>1. ASSUME NEW k \in BoxSlot, NEW s \in InvSlot, NEW n \in 1 .. inv[p][s].qty, Put(p, k, s, n)
        PROVE  TradesAgree'
    BY <1>2, <2>1 DEF Put
  <2>2. ASSUME NEW k \in BoxSlot, Withdraw(p, k) PROVE TradesAgree'
    BY <1>2, <2>2 DEF Withdraw
  <2>3. ASSUME NEW s \in InvSlot, \E n \in 1 .. inv[p][s].qty : Discard(p, s, n)
        PROVE  TradesAgree'
    BY <1>1, <2>3, QuietTrades DEF Discard
  <2>4. CASE Age(p)
    BY <1>1, <2>4, QuietTrades DEF Age
  <2>5. FinishItem(p) \/ Cleanup(p) \/ CombineAsk(p) \/ LeaveZone(p) \/ (\E s \in InvSlot : UseItem(p, s))
          => play' = play /\ (play.busy \/ play.leaves)
    BY <1>1 DEF FinishItem, Cleanup, CombineAsk, LeaveZone, UseItem, NoneUsed
  <2>6. play' = play /\ (play.busy \/ play.leaves) => TradesAgree'
    BY DEF TradesAgree, Undisturbed
  <2>7. CASE EnterZone(p)
    <3>1. /\ UNCHANGED <<play, box, pend, client, news>> /\ ~here[p]
          /\ \A r \in Player : here[r] => here'[r]
      BY <2>7 DEF EnterZone, TradeTypes
    <3>2. \A r \in Player : Trading(r)' <=> Trading(r)
      BY <3>1 DEF Trading
    <3>3. \A r \in Player : InTrade(r) => InTrade(r)'
      BY <3>1, MutualBoth DEF InTrade, Mutual, Found, Trading
    <3> QED
      BY <1>1, <3>1, <3>2, <3>3, TradesKept
  <2> QED
    BY <1>1, <1>3, <2>1, <2>2, <2>3, <2>4, <2>5, <2>6, <2>7, AskTrades, StartTrades, CancelTrades,
       MakeTrades DEF Step
<1>4. CASE UNCHANGED vars
  BY <1>1, <1>4, QuietTrades DEF vars
<1> QED
  BY <1>1, <1>3, <1>4, MakeTrades DEF Next

\* The inductive strengthening of Partners and ClosedMeansReleased.
AgreementInv == TradeInv /\ Requests /\ Agreements

\* Every step keeps it.
LEMMA AgreementNext == AgreementInv /\ [Next]_vars => AgreementInv'
<1> SUFFICES ASSUME TradeInv, Requests, Agreements, [Next]_vars PROVE AgreementInv'
  BY DEF AgreementInv
<1>1. TradeTypes /\ DealTypes /\ TradeInv'
  BY SplitTrade, NextTypes
<1>2. TradesAgree /\ DealMutual /\ NoneUsed
  BY DEF Agreements
<1>3. Requests' /\ DealMutual' /\ NoneUsed' /\ TradesAgree'
  BY <1>1, <1>2, RequestsNext, DealNext, UseNext, TradesNext
<1> QED
  BY <1>1, <1>3 DEF AgreementInv, Agreements

\* The first states satisfy it.
LEMMA AgreementInit == Init => AgreementInv
<1> SUFFICES ASSUME Init PROVE Requests /\ Agreements
  BY InitTypes DEF AgreementInv
<1>1. /\ \A p \in Player : /\ here[p] <=> p \in play.players
                           /\ pend[p] = None /\ using[p] = 0 /\ client[p] = "closed"
                           /\ news[p] = "same" /\ box[p].type = "empty"
      /\ deal = NoDeal
  BY DEF Init, EmptyBox
<1>2. Requests
  BY <1>1 DEF Requests, TargetsHere, AskerWaits, RequestHeld, Asked
<1>3. Agreements
  BY <1>1 DEF Agreements, TradesAgree, DealMutual, NoneUsed, Trading
<1> QED
  BY <1>2, <1>3

-----------------------------------------------------------------------------
\* Every state satisfies the inductive invariant.
THEOREM Agreement == Spec => []AgreementInv
BY AgreementInit, AgreementNext, PTL DEF Spec

\* Whoever is in a trade is in it with somebody who is in it with them, however many players ask,
\* accept, call off and confirm.
THEOREM TradesArePaired == Spec => []Partners
<1>1. AgreementInv => Partners
  BY DEF AgreementInv, Agreements, TradesAgree, InTrade, Partners
<1> QED
  BY <1>1, Agreement, PTL

\* A player whose window is closed is in no trade on the server.
THEOREM ClosedIsReleased == Spec => []ClosedMeansReleased
<1>1. AgreementInv => ClosedMeansReleased
  BY DEF AgreementInv, Agreements, TradesAgree, InTrade, ClosedMeansReleased
<1> QED
  BY <1>1, Agreement, PTL

\* A step that opens a trade finds both waiting: one for the answer, the other having given it.
LEMMA OpensAgreed ==
  AgreementInv /\ [Next]_vars
    => [Orderly => \A p \in Player : ~Trading(p) /\ Trading(p)' => client'[p] = "waiting"]_vars
<1> SUFFICES ASSUME TradeInv, Requests, [Next]_vars, Orderly, NEW r \in Player, ~Trading(r), Trading(r)'
             PROVE  client'[r] = "waiting"
  BY DEF AgreementInv
<1>1. TradeTypes /\ DealTypes
  BY SplitTrade
<1>2. box'[r].type # box[r].type /\ box'[r].type # "empty"
  BY DEF Trading
<1>3. ASSUME NEW p \in Player, TradeStart(p) PROVE client'[r] = "waiting"
  <2>1. client[p] = "asked" /\ client' = [client EXCEPT ![p] = "waiting"]
    BY <1>3 DEF TradeStart, ClientDoes
  <2>2. Mutual(p) /\ box' = [box EXCEPT ![p] = SetType(@, "trade"), ![pend[p]] = SetType(@, "trade")]
    BY <1>2, <1>3, ZenonT(30) DEF TradeStart, Ignored
  <2>3. pend[p] \in Player /\ pend[p] # p /\ Waits(pend[p])
    BY <1>1, <2>1, <2>2, MutualBoth DEF Requests, AskerWaits, Asked
  <2>4. r \in {p, pend[p]}
    BY <1>1, <1>2, <2>2, <2>3 DEF TradeTypes
  <2> QED
    BY <1>1, <2>1, <2>3, <2>4 DEF Waits, TradeTypes
<1>4. ASSUME NEW P, Clean(P) PROVE FALSE
  BY <1>1, <1>2, <1>4 DEF Clean, EmptyBox
<1>5. \A p \in Player, k \in BoxSlot : \A s, n : ~TradeList(p, k, s, n)
  BY <1>1, <1>2, ListQuiet
<1>6. ASSUME NEW p \in Player, Step(p), ~TradeStart(p) PROVE FALSE
  <2>1. ~(Read(p) \/ Age(p) \/ EnterZone(p) \/ \E q \in Player : TradeReq(p, q))
    BY <1>2 DEF Read, Age, EnterZone, TradeReq
  <2>2. ~TradeCancell(p)
    BY <1>2, <1>4 DEF TradeCancell
  <2>3. ~TradeMake(p)
    <3>1. TradeMake(p) => \/ box' = [box EXCEPT ![p].lock = TRUE]
                          \/ box' = box
                          \/ \E P : Clean(P)
      BY ZenonT(30) DEF TradeMake, Ignored
    <3>2. [box[p] EXCEPT !.lock = TRUE].type = box[p].type
      BY <1>1 DEF TradeTypes, Box
    <3> QED
      BY <1>1, <1>2, <1>4, <3>1, <3>2 DEF TradeTypes
  <2>4. \A s \in InvSlot : ~UseItem(p, s) /\ \A n : ~Discard(p, s, n)
    <3> SUFFICES ASSUME NEW s \in InvSlot, UseItem(p, s) PROVE FALSE
      BY <1>2 DEF Discard
    <3> DEFINE b == SetItem(SetType(box[p], "use"), 0, s)
    <3>1. 0 \in BoxSlot /\ box[p] \in Box
      BY <1>1, TradeAssumption DEF TradeTypes, BoxSlot
    <3>2. b.type = SetType(box[p], "use").type
      <4> DEFINE c == SetType(box[p], "use")
      <4>1. c \in Box
        BY <3>1, BoxTypes
      <4> HIDE DEF c
      <4> QED
        BY <4>1 DEF SetItem, Box
    <3>3. SetType(box[p], "use").type \in {box[p].type, "use"}
      BY <3>1 DEF SetType, Box
    <3>4. box' = [box EXCEPT ![p] = b]
      BY DEF UseItem
    <3> HIDE DEF b
    <3> QED
      BY <1>1, <1>2, <3>2, <3>3, <3>4 DEF Trading, TradeTypes
  <2>5. ~FinishItem(p) /\ ~Cleanup(p) /\ ~LeaveZone(p)
    <3>1. EmptyBox.type = "empty" /\ box \in [Player -> Box]
      BY <1>1 DEF EmptyBox, TradeTypes
    <3>2. FinishItem(p) => box' = box
      BY DEF FinishItem
    <3>3. Cleanup(p) => \A y \in Player : box'[y] = box[y] \/ box'[y] = EmptyBox
      BY DEF Cleanup, Clean
    <3>4. LeaveZone(p) => \A y \in Player : box'[y] = box[y] \/ box'[y] = EmptyBox
      BY <3>1 DEF LeaveZone
    <3> QED
      BY <1>2, <3>1, <3>2, <3>3, <3>4 DEF Trading
  <2>6. ~CombineAsk(p)
    BY <1>2, <1>4 DEF CombineAsk
  <2>7. /\ \A k \in BoxSlot : ~Withdraw(p, k)
        /\ \A k \in BoxSlot, s \in InvSlot : \A n : ~Put(p, k, s, n)
    BY <1>5 DEF Withdraw, Put
  <2> QED
    BY <1>6, <2>1, <2>2, <2>3, <2>4, <2>5, <2>6, <2>7 DEF Step
<1>7. ~DoTrade /\ ~TradeEnd /\ ~UNCHANGED vars
  <2>1. ~DoTrade
    <3>1. DoTrade => box' = box \/ box' = [box EXCEPT ![deal.from] = ClearSlot(@, deal.k)]
      BY DEF DoTrade
    <3>2. \A b \in Box : \A k : ClearSlot(b, k).type = b.type
      BY DEF ClearSlot, Box
    <3>3. box \in [Player -> Box]
      BY <1>1 DEF TradeTypes
    <3> QED
      BY <1>2, <3>1, <3>2, <3>3
  <2> QED
    BY <1>2, <1>4, <2>1 DEF TradeEnd, vars
<1> QED
  BY <1>3, <1>6, <1>7 DEF Next

\* A trade opens between two players of whom one asked and the other accepted.
THEOREM OpensByAgreement == Spec => NobodyDraggedIn
BY Agreement, OpensAgreed, PTL DEF Spec, NobodyDraggedIn

-----------------------------------------------------------------------------
(* Sums over a finite set.                                                   *)

\* The element a sum takes out of a set first.
Taken(s) == CHOOSE x \in s : TRUE

\* The subsets of S of at most n elements.
UpTo(S, n) == {T \in SUBSET S : Cardinality(T) <= n}

\* A set loses an element.
LEMMA OneLess ==
  ASSUME NEW S, IsFiniteSet(S), NEW n \in Nat, NEW T \in UpTo(S, n), NEW x \in T
  PROVE  n # 0 /\ T \ {x} \in UpTo(S, n - 1)
<1>1. T \subseteq S /\ IsFiniteSet(T) /\ Cardinality(T) <= n
  BY FS_Subset DEF UpTo
<1>2. IsFiniteSet(T \ {x}) /\ Cardinality(T \ {x}) = Cardinality(T) - 1
  BY <1>1, FS_RemoveElement
<1>3. Cardinality(T) \in Nat /\ Cardinality(T \ {x}) \in Nat
  BY <1>1, <1>2, FS_CardinalityType
<1>4. n # 0 /\ Cardinality(T \ {x}) <= n - 1
  BY <1>1, <1>2, <1>3
<1> QED
  BY <1>1, <1>4 DEF UpTo

\* A set of numbers without a least one that is missing has all of them.
LEMMA Climbs ==
  ASSUME NEW N \in SUBSET Nat, \A n \in Nat : (n # 0 => n - 1 \in N) => n \in N
  PROVE  N = Nat
<1> SUFFICES ASSUME Nat \ N # {} PROVE FALSE
  OBVIOUS
<1>0. Nat \ N \subseteq Nat
  OBVIOUS
<1>1. PICK m \in Nat \ N : \A y \in Nat \ N : ~(<<y, m>> \in OpToRel(<, Nat))
  BY <1>0, NatLessThanWellFounded, WFMin
<1>2. \A y \in Nat \ N : ~(y < m)
  BY <1>0, <1>1 DEF OpToRel
<1>3. m \in Nat /\ m \notin N
  BY <1>1
<1>4. ASSUME m # 0 PROVE m - 1 \in N
  <2>1. m - 1 \in Nat /\ m - 1 < m
    BY <1>3, <1>4
  <2> QED
    BY <1>2, <2>1
<1> QED
  BY <1>3, <1>4

\* g is the sum of f over each subset of S.
Adds(g, S, f) ==
  \A T \in SUBSET S : g[T] = IF T = {} THEN 0 ELSE f[Taken(T)] + g[T \ {Taken(T)}]

\* There is one.
LEMMA AddsExists ==
  ASSUME NEW S, IsFiniteSet(S), NEW f \in [S -> Nat]
  PROVE  \E g \in [SUBSET S -> Nat] : Adds(g, S, f)
<1> DEFINE Upto(n, g) == \A T \in UpTo(S, n) : g[T] = IF T = {} THEN 0 ELSE f[Taken(T)] + g[T \ {Taken(T)}]
           N == {n \in Nat : \E g \in [UpTo(S, n) -> Nat] : Upto(n, g)}
<1>1. ASSUME NEW n \in Nat, n # 0 => n - 1 \in N PROVE n \in N
  <2>1. CASE n = 0
    <3>1. PICK g : g = [T \in UpTo(S, n) |-> 0]
      OBVIOUS
    <3>2. g \in [UpTo(S, n) -> Nat] /\ \A T \in UpTo(S, n) : g[T] = 0
      BY <3>1
    <3>3. \A T \in UpTo(S, n) : T = {}
      BY <2>1, OneLess
    <3> QED
      BY <3>2, <3>3
  <2>2. CASE n # 0
    <3>1. PICK g \in [UpTo(S, n - 1) -> Nat] : Upto(n - 1, g)
      BY <1>1, <2>2
    <3>2. PICK h : h = [T \in UpTo(S, n) |-> IF T = {} THEN 0 ELSE f[Taken(T)] + g[T \ {Taken(T)}]]
      OBVIOUS
    <3>3. \A T \in UpTo(S, n) : h[T] = IF T = {} THEN 0 ELSE f[Taken(T)] + g[T \ {Taken(T)}]
      BY <3>2
    <3>4. ASSUME NEW T \in UpTo(S, n), T # {}
          PROVE  Taken(T) \in S /\ T \ {Taken(T)} \in UpTo(S, n - 1)
      <4>1. Taken(T) \in T
        BY <3>4 DEF Taken
      <4> QED
        BY <4>1, OneLess DEF UpTo
    <3>5. ASSUME NEW T \in UpTo(S, n - 1) PROVE T \in UpTo(S, n) /\ h[T] = g[T]
      <4>1. IsFiniteSet(T) /\ Cardinality(T) \in Nat /\ Cardinality(T) <= n - 1 /\ T \in SUBSET S
        BY FS_Subset, FS_CardinalityType DEF UpTo
      <4>2. Cardinality(T) <= n
        BY <4>1
      <4>3. T \in UpTo(S, n)
        BY <4>1, <4>2 DEF UpTo
      <4> QED
        BY <3>1, <3>3, <4>3
    <3>6. ASSUME NEW T \in UpTo(S, n) PROVE h[T] \in Nat
      <4>1. CASE T = {}
        BY <3>3, <4>1
      <4>2. CASE T # {}
        <5>1. PICK a : a = f[Taken(T)]
          OBVIOUS
        <5>2. PICK b : b = g[T \ {Taken(T)}]
          OBVIOUS
        <5>3. a \in Nat /\ b \in Nat
          BY <3>1, <3>4, <4>2, <5>1, <5>2
        <5>4. h[T] = a + b
          BY <3>3, <4>2, <5>1, <5>2
        <5> QED
          BY <5>3, <5>4
      <4> QED
        BY <4>1, <4>2
    <3>7. h \in [UpTo(S, n) -> Nat]
      BY <3>2, <3>6
    <3>8. ASSUME NEW T \in UpTo(S, n) PROVE h[T] = IF T = {} THEN 0 ELSE f[Taken(T)] + h[T \ {Taken(T)}]
      BY <3>3, <3>4, <3>5
    <3> QED
      BY <3>7, <3>8
  <2> QED
    BY <2>1, <2>2
<1>2. N = Nat
  <2>1. N \in SUBSET Nat /\ \A n \in Nat : (n # 0 => n - 1 \in N) => n \in N
    BY <1>1
  <2> HIDE DEF N
  <2> QED
    BY <2>1, Climbs
<1>3. Cardinality(S) \in N /\ Cardinality(S) \in Nat
  BY <1>2, FS_CardinalityType
<1>4. PICK g \in [UpTo(S, Cardinality(S)) -> Nat] : Upto(Cardinality(S), g)
  BY <1>3
<1>5. UpTo(S, Cardinality(S)) = SUBSET S
  BY FS_Subset DEF UpTo
<1> HIDE DEF N
<1> QED
  BY <1>4, <1>5 DEF Adds

\* Any element may be taken first.
LEMMA AddsAny ==
  ASSUME NEW S, IsFiniteSet(S), NEW f \in [S -> Nat], NEW g, Adds(g, S, f)
  PROVE  \A T \in SUBSET S : g[T] \in Nat /\ \A x \in T : g[T] = f[x] + g[T \ {x}]
<1> DEFINE Any(T) == g[T] \in Nat /\ \A x \in T : g[T] = f[x] + g[T \ {x}]
           N == {n \in Nat : \A T \in UpTo(S, n) : Any(T)}
<1>1. ASSUME NEW n \in Nat, n # 0 => n - 1 \in N PROVE n \in N
  <2> SUFFICES ASSUME NEW T \in UpTo(S, n) PROVE Any(T)
    OBVIOUS
  <2>0. T \in SUBSET S
    BY DEF UpTo
  <2>1. CASE T = {}
    <3>1. g[T] = 0
      BY <2>0, <2>1 DEF Adds
    <3> QED
      BY <2>1, <3>1
  <2>2. CASE T # {}
    <3>c. PICK c \in T : c = Taken(T)
      BY <2>2 DEF Taken
    <3>1. g[T] = f[c] + g[T \ {c}]
      BY <2>0, <2>2, <3>c DEF Adds
    <3>2. n # 0 /\ \A y \in T : T \ {y} \in UpTo(S, n - 1)
      BY <3>c, OneLess
    <3>3. \A y \in T : Any(T \ {y}) /\ f[y] \in Nat
      BY <1>1, <2>0, <3>2
    <3>4. g[T] \in Nat
      <4>1. PICK a : a = f[c]
        OBVIOUS
      <4>2. PICK b : b = g[T \ {c}]
        OBVIOUS
      <4>3. a \in Nat /\ b \in Nat /\ g[T] = a + b
        BY <3>1, <3>3, <4>1, <4>2
      <4> QED
        BY <4>3
    <3>5. ASSUME NEW x \in T PROVE g[T] = f[x] + g[T \ {x}]
      <4>1. CASE x = c
        BY <3>1, <4>1
      <4>2. CASE x # c
        <5>1. g[T \ {c}] = f[x] + g[(T \ {c}) \ {x}]
          BY <3>3, <4>2
        <5>2. g[T \ {x}] = f[c] + g[(T \ {x}) \ {c}]
          BY <3>3, <4>2
        <5>3. (T \ {c}) \ {x} = (T \ {x}) \ {c}
          OBVIOUS
        <5>r. PICK r : r = g[(T \ {x}) \ {c}]
          OBVIOUS
        <5>4. r \in Nat
          <6>1. (T \ {x}) \ {c} \in UpTo(S, n - 1)
            <7>1. c \in T \ {x} /\ T \ {x} \in UpTo(S, n - 1) /\ n - 1 \in Nat
              BY <3>2, <4>2
            <7>2. n - 1 # 0 /\ (T \ {x}) \ {c} \in UpTo(S, (n - 1) - 1)
              BY <7>1, OneLess
            <7>3. IsFiniteSet((T \ {x}) \ {c}) /\ (T \ {x}) \ {c} \in SUBSET S /\ Cardinality((T \ {x}) \ {c}) <= (n - 1) - 1
              BY <7>2, FS_Subset DEF UpTo
            <7>4. Cardinality((T \ {x}) \ {c}) <= n - 1
              BY <7>1, <7>3, FS_CardinalityType
            <7> QED
              BY <7>3, <7>4 DEF UpTo
          <6> QED
            BY <1>1, <3>2, <5>r, <6>1
        <5>5. f[x] \in Nat /\ f[c] \in Nat
          BY <3>3
        <5>6. g[T] = f[c] + (f[x] + r) /\ g[T \ {x}] = f[c] + r
          BY <3>1, <5>1, <5>2, <5>3, <5>r
        <5> QED
          BY <5>4, <5>5, <5>6
      <4> QED
        BY <4>1, <4>2
    <3> QED
      BY <3>4, <3>5
  <2> QED
    BY <2>1, <2>2
<1>2. N = Nat
  <2>1. N \in SUBSET Nat /\ \A n \in Nat : (n # 0 => n - 1 \in N) => n \in N
    BY <1>1
  <2> HIDE DEF N
  <2> QED
    BY <2>1, Climbs
<1>3. ASSUME NEW T \in SUBSET S PROVE Any(T)
  <2>1. IsFiniteSet(T) /\ Cardinality(T) \in Nat
    BY FS_Subset, FS_CardinalityType
  <2>2. T \in UpTo(S, Cardinality(T))
    BY <2>1 DEF UpTo
  <2> QED
    BY <1>2, <2>1, <2>2
<1> QED
  BY <1>3

\* Less in every place is less in all.
LEMMA AddsLess ==
  ASSUME NEW S, IsFiniteSet(S), NEW f \in [S -> Nat], NEW g, Adds(g, S, f),
         NEW e \in [S -> Nat], NEW h, Adds(h, S, e), NEW R \in SUBSET S, \A x \in R : e[x] <= f[x]
  PROVE  h[R] <= g[R]
<1> DEFINE N == {n \in Nat : \A T \in UpTo(S, n) : T \subseteq R => h[T] <= g[T]}
<1>0. \A T \in SUBSET S : /\ g[T] \in Nat /\ \A x \in T : g[T] = f[x] + g[T \ {x}]
                          /\ h[T] \in Nat /\ \A x \in T : h[T] = e[x] + h[T \ {x}]
  BY AddsAny
<1>1. ASSUME NEW n \in Nat, n # 0 => n - 1 \in N PROVE n \in N
  <2> SUFFICES ASSUME NEW T \in UpTo(S, n), T \subseteq R PROVE h[T] <= g[T]
    OBVIOUS
  <2>0. T \in SUBSET S
    BY DEF UpTo
  <2>1. CASE T = {}
    <3>1. g[T] = 0 /\ h[T] = 0
      BY <2>0, <2>1 DEF Adds
    <3> QED
      BY <3>1
  <2>2. CASE T # {}
    <3>1. PICK x : x \in T
      BY <2>2
    <3>2. n # 0 /\ T \ {x} \in UpTo(S, n - 1)
      BY <3>1, OneLess
    <3>3. h[T \ {x}] <= g[T \ {x}]
      BY <1>1, <3>2
    <3>4. g[T] = f[x] + g[T \ {x}] /\ h[T] = e[x] + h[T \ {x}] /\ g[T \ {x}] \in Nat /\ h[T \ {x}] \in Nat
      BY <1>0, <2>0, <3>1
    <3>5. e[x] \in Nat /\ f[x] \in Nat /\ e[x] <= f[x]
      BY <2>0, <3>1
    <3> QED
      BY <3>3, <3>4, <3>5
  <2> QED
    BY <2>1, <2>2
<1>2. N = Nat
  <2>1. N \in SUBSET Nat /\ \A n \in Nat : (n # 0 => n - 1 \in N) => n \in N
    BY <1>1
  <2> HIDE DEF N
  <2> QED
    BY <2>1, Climbs
<1>3. IsFiniteSet(R) /\ Cardinality(R) \in Nat
  BY FS_Subset, FS_CardinalityType
<1>4. R \in UpTo(S, Cardinality(R))
  BY <1>3 DEF UpTo
<1> QED
  BY <1>2, <1>3, <1>4

-----------------------------------------------------------------------------
(* What there is of a kind.                                                 *)

Places == Player \X InvSlot

\* What there is of it in a place.
Held(item, kind) == IF item.kind = kind THEN item.qty ELSE 0
Amount(iv, kind) == [ps \in Places |-> Held(iv[ps[1]][ps[2]], kind)]

\* There are finitely many places.
LEMMA PlacesFinite ==
  ASSUME IsFiniteSet(Player)
  PROVE  IsFiniteSet(Places)
<1>1. 0 \in Int /\ Capacity \in Int
  BY TradeAssumption
<1>2. IsFiniteSet(InvSlot)
  BY <1>1, FS_Interval DEF InvSlot
<1> QED
  BY <1>2, FS_Product DEF Places

\* An amount is a number.
LEMMA AmountType ==
  ASSUME NEW iv \in [Player -> Inventory], NEW kind
  PROVE  /\ Amount(iv, kind) \in [Places -> Nat]
         /\ \A p \in Player, s \in InvSlot :
              /\ Amount(iv, kind)[<<p, s>>] = Held(iv[p][s], kind)
              /\ Held(iv[p][s], kind) \in Nat
<1>1. \A p \in Player, s \in InvSlot : Held(iv[p][s], kind) \in Nat
  BY DEF Inventory, Item, Held
<1>2. \A ps \in Places : ps[1] \in Player /\ ps[2] \in InvSlot
  BY DEF Places
<1> QED
  BY <1>1, <1>2 DEF Amount, Places

\* The total is the sum of the amounts.
LEMMA TotalIs ==
  ASSUME IsFiniteSet(Player), NEW iv \in [Player -> Inventory], NEW kind
  PROVE  \E g : Adds(g, Places, Amount(iv, kind)) /\ Total(iv, kind) = g[Places]
<1>1. PICK f : f = Amount(iv, kind)
  OBVIOUS
<1>2. PICK S : S = Player \X InvSlot
  OBVIOUS
<1>3. IsFiniteSet(S) /\ f \in [S -> Nat]
  BY <1>1, <1>2, PlacesFinite, AmountType DEF Places
<1>4. PICK g \in [SUBSET S -> Nat] : Adds(g, S, f)
  BY <1>3, AddsExists
<1> DEFINE Amt(ps) == IF iv[ps[1]][ps[2]].kind = kind THEN iv[ps[1]][ps[2]].qty ELSE 0
<1>5. ASSUME NEW s \in SUBSET S, s # {} PROVE f[Taken(s)] = Amt(Taken(s))
  <2>1. Taken(s) \in S
    BY <1>5 DEF Taken
  <2> QED
    BY <1>1, <1>2, <2>1 DEF Amount, Places, Held
<1>6. g = [s \in SUBSET S |-> IF s = {} THEN 0 ELSE Amt(Taken(s)) + g[s \ {Taken(s)}]]
  <2> HIDE DEF Amt
  <2> QED
    BY <1>4, <1>5 DEF Adds
<1> DEFINE h == CHOOSE k : k = [s \in SUBSET S |-> IF s = {} THEN 0 ELSE Amt(Taken(s)) + k[s \ {Taken(s)}]]
<1>7. h = [s \in SUBSET S |-> IF s = {} THEN 0 ELSE Amt(Taken(s)) + h[s \ {Taken(s)}]]
  <2> HIDE DEF Amt
  <2> QED
    BY <1>6
<1>8. Total(iv, kind) = h[S]
  BY <1>2 DEF Total, MapThenSumSet, MapThenFoldSet, Taken
<1> HIDE DEF h, Amt
<1>9. Adds(h, S, f)
  BY <1>5, <1>7 DEF Adds
<1> QED
  BY <1>1, <1>2, <1>8, <1>9 DEF Places

\* The total is a number, and no less than what is in two places.
LEMMA TotalTwo ==
  ASSUME IsFiniteSet(Player), NEW iv \in [Player -> Inventory], NEW kind,
         NEW p \in Player, NEW q \in Player, p # q, NEW s \in InvSlot, NEW t \in InvSlot
  PROVE  /\ Total(iv, kind) \in Nat
         /\ Held(iv[p][s], kind) + Held(iv[q][t], kind) <= Total(iv, kind)
<1>1. PICK f : f = Amount(iv, kind)
  OBVIOUS
<1>2. PICK g : Adds(g, Places, f) /\ Total(iv, kind) = g[Places]
  BY <1>1, TotalIs
<1>3. \A T \in SUBSET Places : g[T] \in Nat /\ \A x \in T : g[T] = f[x] + g[T \ {x}]
  <2>1. f \in [Places -> Nat] /\ IsFiniteSet(Places)
    BY <1>1, AmountType, PlacesFinite
  <2> QED
    BY <1>2, <2>1, AddsAny
<1>4. PICK x \in Places, y \in Places : x = <<p, s>> /\ y = <<q, t>>
  BY DEF Places
<1>5. x # y
  BY <1>4
<1>6. PICK a, b, c : a = f[x] /\ b = f[y] /\ c = g[(Places \ {x}) \ {y}]
  OBVIOUS
<1>7. g[Places] = a + g[Places \ {x}] /\ g[Places \ {x}] = b + c /\ c \in Nat /\ g[Places] \in Nat
  BY <1>3, <1>5, <1>6
<1>8. a = Held(iv[p][s], kind) /\ b = Held(iv[q][t], kind) /\ a \in Nat /\ b \in Nat
  BY <1>1, <1>4, <1>6, AmountType
<1> QED
  BY <1>2, <1>7, <1>8

\* Less in every place is less in all.
LEMMA TotalLess ==
  ASSUME IsFiniteSet(Player), NEW iv \in [Player -> Inventory], NEW jv \in [Player -> Inventory], NEW kind,
         \A p \in Player, s \in InvSlot : Held(jv[p][s], kind) <= Held(iv[p][s], kind)
  PROVE  Total(jv, kind) \in Int /\ Total(iv, kind) \in Int /\ Total(jv, kind) <= Total(iv, kind)
<1>1. PICK f, e : f = Amount(iv, kind) /\ e = Amount(jv, kind)
  OBVIOUS
<1>2. f \in [Places -> Nat] /\ e \in [Places -> Nat]
  BY <1>1, AmountType
<1>3. PICK g : Adds(g, Places, f) /\ Total(iv, kind) = g[Places]
  BY <1>1, TotalIs
<1>4. PICK h : Adds(h, Places, e) /\ Total(jv, kind) = h[Places]
  BY <1>1, TotalIs
<1>5. \A x \in Places : e[x] <= f[x]
  BY <1>1 DEF Amount, Places
<1>6. h[Places] <= g[Places]
  BY <1>2, <1>3, <1>4, <1>5, PlacesFinite, AddsLess
<1>7. h[Places] \in Nat /\ g[Places] \in Nat
  BY <1>2, <1>3, <1>4, PlacesFinite, AddsAny
<1> QED
  BY <1>3, <1>4, <1>6, <1>7

\* The same in every place is the same in all.
LEMMA TotalSame ==
  ASSUME IsFiniteSet(Player), NEW iv \in [Player -> Inventory], NEW jv \in [Player -> Inventory], NEW kind,
         \A p \in Player, s \in InvSlot : Held(jv[p][s], kind) = Held(iv[p][s], kind)
  PROVE  Total(jv, kind) = Total(iv, kind)
<1>1. \A p \in Player, s \in InvSlot : Held(jv[p][s], kind) \in Nat /\ Held(iv[p][s], kind) \in Nat
  BY AmountType
<1>2. \A p \in Player, s \in InvSlot : Held(jv[p][s], kind) <= Held(iv[p][s], kind)
  BY <1>1
<1>3. \A p \in Player, s \in InvSlot : Held(iv[p][s], kind) <= Held(jv[p][s], kind)
  BY <1>1
<1>4. Total(jv, kind) \in Int /\ Total(iv, kind) \in Int /\ Total(jv, kind) <= Total(iv, kind)
  BY <1>2, TotalLess
<1>5. Total(iv, kind) <= Total(jv, kind)
  BY <1>3, TotalLess
<1> QED
  BY <1>4, <1>5

\* Any two places may be taken first.
LEMMA TwoFirst ==
  ASSUME IsFiniteSet(Player), NEW f \in [Places -> Nat], NEW g, Adds(g, Places, f),
         NEW x \in Places, NEW y \in Places, x # y
  PROVE  g[Places] = f[x] + (f[y] + g[(Places \ {x}) \ {y}])
<1>1. IsFiniteSet(Places)
  BY PlacesFinite
<1>2. \A T \in SUBSET Places : g[T] \in Nat /\ \A z \in T : g[T] = f[z] + g[T \ {z}]
  BY <1>1, AddsAny
<1>3. y \in Places \ {x} /\ Places \ {x} \in SUBSET Places /\ Places \in SUBSET Places
  OBVIOUS
<1>4. g[Places] = f[x] + g[Places \ {x}]
  BY <1>2, <1>3
<1>5. g[Places \ {x}] = f[y] + g[(Places \ {x}) \ {y}]
  BY <1>2, <1>3
<1> QED
  BY <1>4, <1>5

\* n of a kind move from a place to another.
Moved(iv, jv, kind, p, s, q, t, n) ==
  /\ Held(iv[p][s], kind) = Held(jv[p][s], kind) + n
  /\ Held(jv[q][t], kind) = Held(iv[q][t], kind) + n
  /\ \A r \in Player, u \in InvSlot : ~(r = p /\ u = s) /\ ~(r = q /\ u = t)
       => Held(jv[r][u], kind) = Held(iv[r][u], kind)

\* What one place loses another gains.
LEMMA TotalMoves ==
  ASSUME IsFiniteSet(Player), NEW iv \in [Player -> Inventory], NEW jv \in [Player -> Inventory], NEW kind,
         NEW p \in Player, NEW q \in Player, p # q, NEW s \in InvSlot, NEW t \in InvSlot, NEW n \in Nat,
         Moved(iv, jv, kind, p, s, q, t, n)
  PROVE  Total(jv, kind) = Total(iv, kind)
<1>1. PICK f, e : f = Amount(iv, kind) /\ e = Amount(jv, kind)
  OBVIOUS
<1>2. f \in [Places -> Nat] /\ e \in [Places -> Nat]
  BY <1>1, AmountType
<1>3. PICK g : Adds(g, Places, f) /\ Total(iv, kind) = g[Places]
  BY <1>1, TotalIs
<1>4. PICK h : Adds(h, Places, e) /\ Total(jv, kind) = h[Places]
  BY <1>1, TotalIs
<1>5. PICK x \in Places, y \in Places : x = <<p, s>> /\ y = <<q, t>>
  BY DEF Places
<1>6. x # y
  BY <1>5
<1>7. PICK R : R = (Places \ {x}) \ {y}
  OBVIOUS
<1>8. R \in SUBSET Places /\ \A z \in R : e[z] = f[z]
  <2>1. ASSUME NEW z \in R PROVE e[z] = f[z]
    <3>1. PICK r \in Player, u \in InvSlot : z = <<r, u>>
      BY <1>7 DEF Places
    <3>2. ~(r = p /\ u = s) /\ ~(r = q /\ u = t)
      BY <1>5, <1>7, <3>1
    <3> QED
      BY <1>1, <3>1, <3>2, AmountType DEF Moved
  <2> QED
    BY <1>7, <2>1
<1>9. h[R] = g[R] /\ h[R] \in Nat
  <2>1. \A z \in R : e[z] <= f[z] /\ f[z] <= e[z]
    BY <1>2, <1>8
  <2>2. h[R] <= g[R] /\ g[R] <= h[R]
    BY <1>2, <1>3, <1>4, <1>8, <2>1, PlacesFinite, AddsLess
  <2>3. h[R] \in Nat /\ g[R] \in Nat
    BY <1>2, <1>3, <1>4, <1>8, PlacesFinite, AddsAny
  <2> QED
    BY <2>2, <2>3
<1>10. g[Places] = f[x] + (f[y] + g[R])
  BY <1>2, <1>3, <1>6, <1>7, TwoFirst
<1>11. h[Places] = e[x] + (e[y] + h[R])
  <2>1. e \in [Places -> Nat] /\ Adds(h, Places, e)
    BY <1>2, <1>4
  <2>2. h[Places] = e[x] + (e[y] + h[(Places \ {x}) \ {y}])
    BY <1>6, <2>1, TwoFirst
  <2> QED
    BY <1>7, <2>2
<1>12. PICK a, b, c, d, m : a = f[x] /\ b = f[y] /\ c = e[x] /\ d = e[y] /\ m = h[R]
  OBVIOUS
<1>13. a \in Nat /\ b \in Nat /\ c \in Nat /\ d \in Nat /\ m \in Nat /\ a = c + n /\ d = b + n
  BY <1>1, <1>2, <1>5, <1>9, <1>12, AmountType DEF Moved
<1>14. g[Places] = a + (b + m) /\ h[Places] = c + (d + m)
  BY <1>9, <1>10, <1>11, <1>12
<1> QED
  BY <1>3, <1>4, <1>13, <1>14

-----------------------------------------------------------------------------
(* What an exchange does to the two inventories.                            *)

\* What is given away goes, and nothing else changes.
LEMMA Given ==
  ASSUME NEW in, Legal(in), NEW s \in InvSlot, NEW out,
         out = UpdateItem(SetReserve(in, s, 0), s, in[s].res)
  PROVE  /\ \A u \in InvSlot : u # s => out[u] = in[u]
         /\ out[s].res = 0
         /\ \A kind \in Kind : Held(in[s], kind)
              = Held(out[s], kind) + (IF in[s].kind = kind THEN in[s].res ELSE 0)
         /\ FreeSlots(in) \subseteq FreeSlots(out)
         /\ \A kind \in Kind : Holds(out, kind) => Holds(in, kind)
<1> USE TradeAssumption
<1>1. in[s] \in Item /\ in[s].res <= in[s].qty /\ in \in Inventory
  BY DEF Legal, Inventory
<1>2. PICK mid : mid = SetReserve(in, s, 0)
  OBVIOUS
<1>3. PICK i : i = [in[s] EXCEPT !.res = 0]
  OBVIOUS
<1>4. i \in Item /\ i.kind = in[s].kind /\ i.qty = in[s].qty /\ i.res = 0
  BY <1>1, <1>3 DEF Item
<1>5. mid \in Inventory /\ mid[s] = i /\ \A u \in InvSlot : u # s => mid[u] = in[u]
  BY <1>1, <1>2, <1>3, <1>4 DEF SetReserve, Inventory
<1>6. PICK n : n = in[s].res
  OBVIOUS
<1>7. n \in Nat /\ n <= i.qty /\ in[s].qty \in Nat
  BY <1>1, <1>4, <1>6 DEF Item
<1>8. NoItem.kind = None /\ NoItem.qty = 0 /\ NoItem.res = 0 /\ None \notin Kind
  BY DEF NoItem
<1>9. PICK j : j = out[s]
  OBVIOUS
<1>10. /\ \A u \in InvSlot : u # s => out[u] = in[u]
       /\ j.res = 0
       /\ \/ j.kind = in[s].kind /\ in[s].qty = j.qty + n /\ j.qty \in Nat
          \/ j = NoItem /\ n = in[s].qty /\ s # 0
       /\ in[s] = NoItem => j = NoItem
  <2>1. out = UpdateItem(mid, s, n)
    BY <1>2, <1>6
  <2>2. CASE mid[s] = NoItem
    <3>1. out = mid
      <4>1. out = mid \/ out = [mid EXCEPT ![s] = NoItem]
        BY <2>1, <2>2 DEF UpdateItem
      <4>2. [mid EXCEPT ![s] = NoItem] = mid
        BY <1>5, <2>2 DEF Inventory
      <4> QED
        BY <4>1, <4>2
    <3>2. i.qty = 0 /\ n = 0 /\ in[s].qty = 0
      BY <1>4, <1>5, <1>7, <1>8, <2>2
    <3> QED
      BY <1>4, <1>5, <1>9, <2>2, <3>1, <3>2
  <2>3. CASE mid[s] # NoItem
    <3>1. ~(mid[s].qty - mid[s].res < n) /\ in[s] # NoItem
      <4>1. in[s] = NoItem => i = NoItem
        BY <1>3 DEF NoItem
      <4> QED
        BY <1>4, <1>5, <1>7, <2>3, <4>1
    <3>2. CASE mid[s].qty = n /\ s # 0
      <4>1. out = [mid EXCEPT ![s] = NoItem]
        BY <2>1, <2>3, <3>1, <3>2 DEF UpdateItem
      <4>2. j = NoItem /\ \A u \in InvSlot : u # s => out[u] = in[u]
        BY <1>5, <1>9, <4>1 DEF Inventory
      <4> QED
        BY <1>4, <1>5, <1>8, <3>2, <4>2
    <3>3. CASE ~(mid[s].qty = n /\ s # 0)
      <4>1. out = [mid EXCEPT ![s].qty = @ - n]
        BY <2>1, <2>3, <3>1, <3>3 DEF UpdateItem
      <4>2. out = [mid EXCEPT ![s] = [i EXCEPT !.qty = @ - n]]
        BY <1>5, <4>1 DEF Inventory
      <4>3. j = [i EXCEPT !.qty = @ - n] /\ \A u \in InvSlot : u # s => out[u] = in[u]
        BY <1>5, <1>9, <4>2 DEF Inventory
      <4>4. j.kind = i.kind /\ j.res = 0 /\ j.qty = i.qty - n
        BY <1>4, <4>3 DEF Item
      <4> QED
        BY <1>4, <1>7, <3>1, <4>3, <4>4
    <3> QED
      BY <3>2, <3>3
  <2> QED
    BY <2>2, <2>3
<1>11. ASSUME NEW kind \in Kind
       PROVE  Held(in[s], kind) = Held(j, kind) + (IF in[s].kind = kind THEN n ELSE 0)
  BY <1>7, <1>8, <1>10 DEF Held
<1>12. FreeSlots(in) \subseteq FreeSlots(out)
  BY <1>9, <1>10 DEF FreeSlots
<1>13. ASSUME NEW kind \in Kind, Holds(out, kind) PROVE Holds(in, kind)
  <2>1. PICK u \in InvSlot : out[u].kind = kind /\ (u = 0 => out[u].qty > 0)
    BY <1>13 DEF Holds
  <2>2. CASE u # s
    BY <1>10, <2>1, <2>2 DEF Holds
  <2>3. CASE u = s
    <3>1. j.kind = in[s].kind /\ in[s].qty = j.qty + n /\ j.qty \in Nat
      BY <1>8, <1>9, <1>10, <2>1, <2>3
    <3>2. j.qty > 0 => in[s].qty > 0
      BY <1>7, <3>1
    <3> QED
      BY <1>9, <2>1, <2>3, <3>1, <3>2 DEF Holds
  <2> QED
    BY <2>2, <2>3
<1> QED
  BY <1>6, <1>9, <1>10, <1>11, <1>12, <1>13

\* What is added is in one place, if there is room for it.
LEMMA Gained ==
  ASSUME NEW in, Legal(in), NEW kind \in Kind \cup {None}, NEW n \in Nat, n # 0,
         FreeSlots(in) # {}, kind \in Rare => ~Holds(in, kind),
         kind = Gil => in[0].qty + n <= GilCap,
         NEW out, out = AddItem(in, kind, n)
  PROVE  \E t \in InvSlot :
           /\ \A u \in InvSlot : u # t => out[u] = in[u]
           /\ \A k \in Kind : Held(out[t], k) = Held(in[t], k) + (IF k = kind THEN n ELSE 0)
<1> USE TradeAssumption
<1>1. in \in Inventory /\ 0 \in InvSlot /\ in[0] \in Item /\ in[0].kind = Gil
  BY DEF Legal, Inventory, InvSlot
<1>2. NoItem.kind = None /\ NoItem.qty = 0 /\ None \notin Kind
  BY DEF NoItem
<1>3. CASE kind = Gil
  <2>1. out = [in EXCEPT ![0].qty = AtMost(@ + n, GilCap)]
    BY <1>3 DEF AddItem
  <2>2. in[0].qty \in Nat /\ in[0].qty + n <= GilCap
    BY <1>1, <1>3 DEF Item
  <2>3. AtMost(in[0].qty + n, GilCap) = in[0].qty + n
    BY <2>2 DEF AtMost
  <2>4. PICK i : i = [in[0] EXCEPT !.qty = in[0].qty + n]
    OBVIOUS
  <2>5. i.kind = Gil /\ i.qty = in[0].qty + n
    BY <1>1, <2>4 DEF Item
  <2>6. out = [in EXCEPT ![0] = i]
    BY <1>1, <2>1, <2>3, <2>4 DEF Inventory
  <2>7. out[0] = i /\ \A u \in InvSlot : u # 0 => out[u] = in[u]
    BY <1>1, <2>6 DEF Inventory
  <2>8. \A k \in Kind : Held(i, k) = Held(in[0], k) + (IF k = kind THEN n ELSE 0)
    BY <1>1, <1>3, <2>2, <2>5 DEF Held
  <2> QED
    BY <1>1, <2>7, <2>8
<1>4. CASE kind # Gil
  <2>1. out = [in EXCEPT ![First(FreeSlots(in))] = [kind |-> kind, qty |-> n, res |-> 0]]
    BY <1>4 DEF AddItem
  <2>2. PICK t : t = First(FreeSlots(in))
    OBVIOUS
  <2>3. t \in FreeSlots(in)
    BY <2>2, FirstIn DEF FreeSlots
  <2>4. t \in InvSlot /\ in[t] = NoItem
    BY <2>3 DEF FreeSlots
  <2>5. PICK i : i = [kind |-> kind, qty |-> n, res |-> 0]
    OBVIOUS
  <2>6. i.kind = kind /\ i.qty = n
    BY <2>5
  <2>7. out = [in EXCEPT ![t] = i]
    BY <2>1, <2>2, <2>5
  <2>8. out[t] = i /\ \A u \in InvSlot : u # t => out[u] = in[u]
    BY <1>1, <2>4, <2>7 DEF Inventory
  <2>9. \A k \in Kind : Held(i, k) = Held(in[t], k) + (IF k = kind THEN n ELSE 0)
    BY <1>2, <2>4, <2>6 DEF Held
  <2> QED
    BY <2>4, <2>8, <2>9
<1> QED
  BY <1>3, <1>4

\* What is added takes one free slot at most, and none of it is reserved.
LEMMA AddedTo ==
  ASSUME NEW in, Legal(in), NEW kind \in Kind \cup {None}, NEW n \in Nat,
         NEW out, out = AddItem(in, kind, n)
  PROVE  /\ \A u \in InvSlot : /\ out[u].res = in[u].res
                               /\ out[u].res > 0 => out[u].kind = in[u].kind
         /\ \A k \in Kind : Holds(out, k) => Holds(in, k) \/ (k = kind /\ n # 0)
         /\ \E t : FreeSlots(in) \ {t} \subseteq FreeSlots(out)
<1> USE TradeAssumption
<1>1. in \in Inventory /\ 0 \in InvSlot /\ in[0] \in Item /\ in[0].kind = Gil
  BY DEF Legal, Inventory, InvSlot
<1>2. NoItem.res = 0
  BY DEF NoItem
<1>3. CASE out = in
  BY <1>3
<1>4. ASSUME NEW t \in InvSlot, \A u \in InvSlot : u # t => out[u] = in[u],
             NEW i, out[t] = i, i.res = in[t].res, i.res > 0 => i.kind = in[t].kind,
             i.kind = kind /\ n # 0
      PROVE  /\ \A u \in InvSlot : /\ out[u].res = in[u].res
                                   /\ out[u].res > 0 => out[u].kind = in[u].kind
             /\ \A k \in Kind : Holds(out, k) => Holds(in, k) \/ (k = kind /\ n # 0)
             /\ \E x : FreeSlots(in) \ {x} \subseteq FreeSlots(out)
  <2>1. \A u \in InvSlot : out[u].res = in[u].res /\ (out[u].res > 0 => out[u].kind = in[u].kind)
    BY <1>4
  <2>2. \A k \in Kind : Holds(out, k) => Holds(in, k) \/ (k = kind /\ n # 0)
    BY <1>4 DEF Holds
  <2>3. FreeSlots(in) \ {t} \subseteq FreeSlots(out)
    BY <1>4 DEF FreeSlots
  <2> QED
    BY <2>1, <2>2, <2>3
<1>5. CASE kind = Gil /\ out = [in EXCEPT ![0].qty = AtMost(@ + n, GilCap)]
  <2>1. in[0].qty \in Nat /\ in[0].qty <= GilCap
    BY <1>1 DEF Item, Legal
  <2>2. PICK i : i = [in[0] EXCEPT !.qty = AtMost(in[0].qty + n, GilCap)]
    OBVIOUS
  <2>3. i.kind = Gil /\ i.res = in[0].res
    BY <1>1, <2>2 DEF Item
  <2>4. out = [in EXCEPT ![0] = i]
    BY <1>1, <1>5, <2>2 DEF Inventory
  <2>5. out[0] = i /\ \A u \in InvSlot : u # 0 => out[u] = in[u]
    BY <1>1, <2>4 DEF Inventory
  <2>6. CASE n # 0
    BY <1>1, <1>4, <1>5, <2>3, <2>5, <2>6
  <2>7. CASE n = 0
    <3>1. AtMost(in[0].qty + n, GilCap) = in[0].qty
      BY <2>1, <2>7 DEF AtMost
    <3>2. out = in
      BY <1>1, <1>5, <3>1 DEF Inventory, Item
    <3> QED
      BY <1>3, <3>2
  <2> QED
    BY <2>6, <2>7
<1>6. CASE FreeSlots(in) # {} /\ n # 0
           /\ out = [in EXCEPT ![First(FreeSlots(in))] = [kind |-> kind, qty |-> n, res |-> 0]]
  <2>1. PICK t : t = First(FreeSlots(in))
    OBVIOUS
  <2>2. t \in FreeSlots(in)
    BY <1>6, <2>1, FirstIn DEF FreeSlots
  <2>3. t \in InvSlot /\ in[t] = NoItem
    BY <2>2 DEF FreeSlots
  <2>4. PICK i : i = [kind |-> kind, qty |-> n, res |-> 0]
    OBVIOUS
  <2>5. i.kind = kind /\ i.res = 0
    BY <2>4
  <2>6. out = [in EXCEPT ![t] = i]
    BY <1>6, <2>1, <2>4
  <2>7. out[t] = i /\ \A u \in InvSlot : u # t => out[u] = in[u]
    BY <1>1, <2>3, <2>6 DEF Inventory
  <2>8. i.res = in[t].res /\ (i.res > 0 => i.kind = in[t].kind)
    BY <1>2, <2>3, <2>5
  <2> QED
    BY <1>4, <1>6, <2>3, <2>5, <2>7, <2>8
<1>7. out = in \/ (kind = Gil /\ out = [in EXCEPT ![0].qty = AtMost(@ + n, GilCap)])
      \/ (FreeSlots(in) # {} /\ n # 0
          /\ out = [in EXCEPT ![First(FreeSlots(in))] = [kind |-> kind, qty |-> n, res |-> 0]])
  BY DEF AddItem
<1> QED
  BY <1>3, <1>5, <1>6, <1>7

\* Nothing is added of an item of which there is none.
LEMMA AddNone ==
  ASSUME NEW in, Legal(in), NEW kind
  PROVE  AddItem(in, kind, 0) = in
<1> USE TradeAssumption
<1>1. in \in Inventory /\ 0 \in InvSlot /\ in[0] \in Item /\ in[0].qty <= GilCap
  BY DEF Legal, Inventory, InvSlot
<1>2. in[0].qty \in Nat
  BY <1>1 DEF Item
<1>3. AtMost(in[0].qty + 0, GilCap) = in[0].qty
  BY <1>1, <1>2 DEF AtMost
<1>4. [in EXCEPT ![0].qty = AtMost(@ + 0, GilCap)] = in
  BY <1>1, <1>3 DEF Inventory, Item
<1>5. AddItem(in, kind, 0) = in \/ AddItem(in, kind, 0) = [in EXCEPT ![0].qty = AtMost(@ + 0, GilCap)]
  BY DEF AddItem
<1> QED
  BY <1>4, <1>5

\* There is an item in slot s of p to cross to q, and room for it.
CanCross(iv, p, q, s) ==
  /\ iv[p][s].res # 0 /\ Total(iv, Gil) <= GilCap /\ FreeSlots(iv[q]) # {}
  /\ iv[p][s].kind \in Rare => ~Holds(iv[q], iv[p][s].kind)

\* It does.
Crossed(iv, jv, p, q, s) ==
  jv = [iv EXCEPT ![q] = AddItem(@, iv[p][s].kind, iv[p][s].res),
                  ![p] = UpdateItem(SetReserve(@, s, 0), s, iv[p][s].res)]

\* One item crosses: what there is of each kind stays the same.
LEMMA Crosses ==
  ASSUME IsFiniteSet(Player), NEW iv, Lawful(iv), NEW p \in Player, NEW q \in Player, p # q,
         NEW s \in InvSlot, CanCross(iv, p, q, s), NEW jv, Lawful(jv), Crossed(iv, jv, p, q, s)
  PROVE  \A kind \in Kind : Total(jv, kind) = Total(iv, kind)
<1> USE TradeAssumption
<1>1. /\ Legal(iv[p]) /\ Legal(iv[q]) /\ iv \in [Player -> Inventory] /\ jv \in [Player -> Inventory]
      /\ 0 \in InvSlot
  BY DEF Lawful, InvSlot
<1>2. PICK item, n : item = iv[p][s] /\ n = item.res
  OBVIOUS
<1>3. item \in Item /\ n \in Nat /\ n # 0 /\ n <= item.qty /\ item.kind \in Kind \cup {None}
  BY <1>1, <1>2 DEF Legal, Inventory, Item, CanCross
<1>4. /\ jv[q] = AddItem(iv[q], item.kind, n)
      /\ jv[p] = UpdateItem(SetReserve(iv[p], s, 0), s, n)
      /\ \A r \in Player : r # p /\ r # q => jv[r] = iv[r]
  BY <1>1, <1>2 DEF Crossed
<1>5. item.kind = Gil => iv[q][0].qty + n <= GilCap
  <2> SUFFICES ASSUME item.kind = Gil PROVE iv[q][0].qty + n <= GilCap
    OBVIOUS
  <2>1. Held(item, Gil) = item.qty /\ Held(iv[q][0], Gil) = iv[q][0].qty
    BY <1>1 DEF Held, Legal
  <2>2. iv[q][0].qty \in Nat /\ item.qty \in Nat
    BY <1>1, <1>3 DEF Inventory, Item
  <2>3. Total(iv, Gil) \in Nat /\ Held(item, Gil) + Held(iv[q][0], Gil) <= Total(iv, Gil)
    BY <1>1, <1>2, TotalTwo
  <2> QED
    BY <1>3, <2>1, <2>2, <2>3 DEF CanCross
<1>e. PICK in, out, have : in = iv[q] /\ out = jv[q] /\ have = item.kind
  OBVIOUS
<1>6. PICK t \in InvSlot :
        /\ \A u \in InvSlot : u # t => out[u] = in[u]
        /\ \A k \in Kind : Held(out[t], k) = Held(in[t], k) + (IF k = have THEN n ELSE 0)
  <2>1. FreeSlots(in) # {} /\ Legal(in) /\ (have \in Rare => ~Holds(in, have))
    BY <1>1, <1>2, <1>e DEF CanCross
  <2>2. out = AddItem(in, have, n) /\ (have = Gil => in[0].qty + n <= GilCap)
    BY <1>4, <1>5, <1>e
  <2>3. have \in Kind \cup {None} /\ n \in Nat /\ n # 0
    BY <1>3, <1>e
  <2> QED
    BY <2>1, <2>2, <2>3, Gained
<1>7. /\ \A u \in InvSlot : u # s => jv[p][u] = iv[p][u]
      /\ \A k \in Kind : Held(iv[p][s], k) = Held(jv[p][s], k) + (IF item.kind = k THEN n ELSE 0)
  BY <1>1, <1>2, <1>4, Given
<1> SUFFICES ASSUME NEW kind \in Kind PROVE Total(jv, kind) = Total(iv, kind)
  OBVIOUS
<1>8. \A r \in Player, u \in InvSlot : ~(r = p /\ u = s) /\ ~(r = q /\ u = t)
        => Held(jv[r][u], kind) = Held(iv[r][u], kind)
  BY <1>4, <1>6, <1>7, <1>e
<1>9. iv \in [Player -> Inventory] /\ jv \in [Player -> Inventory]
  BY <1>1
<1>10. CASE kind = item.kind
  <2>1. /\ Held(iv[p][s], kind) = Held(jv[p][s], kind) + n
        /\ Held(jv[q][t], kind) = Held(iv[q][t], kind) + n
    BY <1>6, <1>7, <1>10, <1>e
  <2>2. Moved(iv, jv, kind, p, s, q, t, n) /\ n \in Nat
    BY <1>3, <1>8, <2>1 DEF Moved
  <2> QED
    BY <1>9, <2>2, TotalMoves
<1>11. CASE kind # item.kind
  <2>1. /\ Held(iv[p][s], kind) = Held(jv[p][s], kind) + 0
        /\ Held(jv[q][t], kind) = Held(iv[q][t], kind) + 0
    BY <1>6, <1>7, <1>11, <1>e
  <2>2. Moved(iv, jv, kind, p, s, q, t, 0) /\ 0 \in Nat
    BY <1>8, <2>1 DEF Moved
  <2> QED
    BY <1>9, <2>2, TotalMoves
<1> QED
  BY <1>10, <1>11

-----------------------------------------------------------------------------
(* Room for what crosses.                                                   *)

\* The counter of a container is no less than what it holds, and has not wrapped around.
Counted(b, u) ==
  /\ Cardinality(Filled(b)) <= b.count
  /\ b.count <= (IF u = 0 THEN MaxCount ELSE MaxCount + 1)
Counters == \A p \in Player : Counted(box[p], using[p])

\* There is room with q for what p offers.
PassesTo(p, q) ==
  /\ Cardinality(Filled(box[p])) <= Cardinality(FreeSlots(inv[q]))
  /\ \A k \in Filled(box[p]) : inv[p][box[p].slot[k]].res > 0 /\ inv[p][box[p].slot[k]].kind \in Rare
                                 => ~Holds(inv[q], inv[p][box[p].slot[k]].kind)

\* So there is in an exchange for what has yet to cross.
DealFits == deal # NoDeal => PassesTo(deal.from, deal.to) /\ (~deal.back => PassesTo(deal.to, deal.from))

\* All the currency is no more than one player can have.
GilFits == Total(inv, Gil) <= GilCap

\* The slots of a container and of an inventory are finitely many.
LEMMA SlotsFinite ==
  /\ \A b : IsFiniteSet(Filled(b)) /\ Cardinality(Filled(b)) \in Nat
  /\ \A in : IsFiniteSet(FreeSlots(in)) /\ Cardinality(FreeSlots(in)) \in Nat
<1>1. 0 \in Int /\ Capacity \in Int /\ TradeSlots - 1 \in Int
  BY TradeAssumption
<1>2. IsFiniteSet(InvSlot) /\ IsFiniteSet(BoxSlot)
  BY <1>1, FS_Interval DEF InvSlot, BoxSlot
<1>3. ASSUME NEW b PROVE IsFiniteSet(Filled(b)) /\ Cardinality(Filled(b)) \in Nat
  <2>1. Filled(b) \subseteq BoxSlot
    BY DEF Filled
  <2> QED
    BY <1>2, <2>1, FS_Subset, FS_CardinalityType
<1>4. ASSUME NEW in PROVE IsFiniteSet(FreeSlots(in)) /\ Cardinality(FreeSlots(in)) \in Nat
  <2>1. FreeSlots(in) \subseteq InvSlot
    BY DEF FreeSlots
  <2> QED
    BY <1>2, <2>1, FS_Subset, FS_CardinalityType
<1> QED
  BY <1>3, <1>4

\* A set of no more elements, but for one.
LEMMA AllButOne ==
  ASSUME NEW S, IsFiniteSet(S), NEW T, IsFiniteSet(T), NEW t, S \ {t} \subseteq T
  PROVE  /\ Cardinality(S) <= Cardinality(T) + 1
         /\ S \subseteq T => Cardinality(S) <= Cardinality(T)
         /\ Cardinality(S) \in Nat /\ Cardinality(T) \in Nat
         /\ t \in S => Cardinality(S \ {t}) = Cardinality(S) - 1
<1>1. Cardinality(S) \in Nat /\ Cardinality(T) \in Nat
  BY FS_CardinalityType
<1>2. S \subseteq T => Cardinality(S) <= Cardinality(T)
  BY FS_Subset
<1>3. t \in S => IsFiniteSet(S \ {t}) /\ Cardinality(S \ {t}) = Cardinality(S) - 1
  BY FS_RemoveElement
<1>4. Cardinality(S \ {t}) <= Cardinality(T)
  BY FS_Subset
<1>5. CASE t \in S
  BY <1>1, <1>2, <1>3, <1>4, <1>5
<1>6. CASE t \notin S
  <2>1. S \subseteq T
    BY <1>6
  <2> QED
    BY <1>1, <1>2, <1>6, <2>1
<1> QED
  BY <1>5, <1>6

\* Emptying a slot and putting an item into one.
LEMMA CountedBox ==
  ASSUME MaxCount + 1 < CountSize, NEW b \in Box, NEW u \in InvSlot, Counted(b, u), NEW k \in BoxSlot
  PROVE  /\ Counted(EmptyBox, 0) /\ Counted(EmptyBox, u)
         /\ Counted(ClearSlot(b, k), u) /\ ClearSlot(b, k).count = b.count
         /\ \A s \in InvSlot, w \in InvSlot :
              b.count < MaxCount \/ (b.count <= MaxCount /\ w # 0) => Counted(SetItem(b, k, s), w)
<1> USE TradeAssumption
<1>1. b.count \in Nat /\ MaxCount \in Nat
  BY DEF Box
<1>2. Filled(EmptyBox) = {} /\ EmptyBox.count = 0
  BY DEF Filled, EmptyBox
<1>3. Counted(EmptyBox, 0) /\ Counted(EmptyBox, u)
  BY <1>1, <1>2, FS_EmptySet DEF Counted
<1>4. Counted(ClearSlot(b, k), u) /\ ClearSlot(b, k).count = b.count
  <2>1. ClearSlot(b, k).count = b.count
    BY DEF ClearSlot, Box
  <2>2. Filled(ClearSlot(b, k)) \subseteq Filled(b)
    BY DEF Filled, ClearSlot, Box
  <2>3. PICK c : c = ClearSlot(b, k)
    OBVIOUS
  <2>4. Filled(c) \ {k} \subseteq Filled(b) /\ IsFiniteSet(Filled(c)) /\ IsFiniteSet(Filled(b))
    BY <2>2, <2>3, SlotsFinite
  <2>5. Cardinality(Filled(c)) \in Nat /\ Cardinality(Filled(b)) \in Nat
        /\ Cardinality(Filled(c)) <= Cardinality(Filled(b))
    BY <2>2, <2>3, <2>4, AllButOne
  <2> QED
    BY <1>1, <2>1, <2>3, <2>5 DEF Counted
<1>5. ASSUME NEW s \in InvSlot, NEW w \in InvSlot,
             b.count < MaxCount \/ (b.count <= MaxCount /\ w # 0)
      PROVE  Counted(SetItem(b, k, s), w)
  <2>1. PICK c : c = SetItem(b, k, s)
    OBVIOUS
  <2>2. CASE b.lock
    BY <1>1, <1>5, <2>2 DEF Counted, SetItem
  <2>3. CASE ~b.lock
    <3>1. /\ \A j \in BoxSlot : c.slot[j] = IF j = k THEN s ELSE b.slot[j]
          /\ c.count = IF b.slot[k] = Nothing THEN (b.count + 1) % CountSize ELSE b.count
      BY <2>1, <2>3 DEF SetItem, Box
    <3>2. (b.count + 1) % CountSize = b.count + 1
      BY <1>1, <1>5
    <3>3. Filled(c) \ {k} \subseteq Filled(b) /\ (b.slot[k] # Nothing => Filled(c) \subseteq Filled(b))
      BY <3>1 DEF Filled
    <3>4. IsFiniteSet(Filled(c)) /\ IsFiniteSet(Filled(b))
      BY SlotsFinite
    <3>5. /\ Cardinality(Filled(c)) \in Nat /\ Cardinality(Filled(b)) \in Nat
          /\ Cardinality(Filled(c)) <= Cardinality(Filled(b)) + 1
          /\ b.slot[k] # Nothing => Cardinality(Filled(c)) <= Cardinality(Filled(b))
      BY <3>3, <3>4, AllButOne
    <3>6. Cardinality(Filled(b)) <= b.count
      BY DEF Counted
    <3>7. Cardinality(Filled(c)) <= c.count /\ c.count <= b.count + 1
      BY <1>1, <3>1, <3>2, <3>5, <3>6
    <3>8. c.count \in Nat
      BY <1>1, <3>1, <3>2
    <3>9. c.count <= (IF w = 0 THEN MaxCount ELSE MaxCount + 1)
      BY <1>1, <1>5, <3>7, <3>8
    <3> QED
      BY <2>1, <3>7, <3>9 DEF Counted
  <2> QED
    BY <2>2, <2>3
<1> QED
  BY <1>3, <1>4, <1>5

-----------------------------------------------------------------------------
(* Every step keeps the counters.                                           *)

\* Containers that are emptied or keep what they hold stay counted.
LEMMA QuietCounters ==
  ASSUME MaxCount + 1 < CountSize, TradeTypes, Counters, using' = using,
         \A r \in Player : \/ box'[r] = EmptyBox
                           \/ box'[r].slot = box[r].slot /\ box'[r].count = box[r].count
  PROVE  Counters'
<1> SUFFICES ASSUME NEW r \in Player PROVE Counted(box'[r], using'[r])
  BY DEF Counters
<1>1. box[r] \in Box /\ using[r] \in InvSlot /\ Counted(box[r], using[r]) /\ 0 \in BoxSlot
  BY TradeAssumption DEF TradeTypes, Counters, BoxSlot
<1>2. CASE box'[r] = EmptyBox
  BY <1>1, <1>2, CountedBox
<1>3. CASE box'[r].slot = box[r].slot /\ box'[r].count = box[r].count
  BY <1>1, <1>3 DEF Counted, Filled
<1> QED
  BY <1>2, <1>3

\* One container changes, others keep what they hold.
LEMMA OneCounter ==
  ASSUME Counters, NEW p \in Player, Counted(box'[p], using'[p]),
         \A r \in Player : r # p => /\ using'[r] = using[r]
                                    /\ box'[r].slot = box[r].slot /\ box'[r].count = box[r].count
  PROVE  Counters'
BY DEF Counters, Counted, Filled

\* An item is put into a slot or taken back.
LEMMA ListCounters ==
  ASSUME MaxCount + 1 < CountSize, TradeTypes, Counters, NEW p \in Player, NEW k \in BoxSlot,
         NEW s \in InvSlot, NEW n, TradeList(p, k, s, n), using' = using, box[p].count < MaxCount
  PROVE  Counters'
<1> DEFINE q    == pend[p]
           box1 == IF box[p].slot[k] = Nothing THEN box[p] ELSE ClearSlot(box[p], k)
           set  == SetItem(box1, k, s)
           u    == using[p]
<1>1. box[p] \in Box /\ u \in InvSlot /\ Counted(box[p], u)
  BY DEF TradeTypes, Counters
<1>2. box1 \in Box /\ Counted(box1, u) /\ box1.count = box[p].count
  BY <1>1, BoxTypes, CountedBox
<1>3. \/ UNCHANGED box
      \/ box' = [box EXCEPT ![p] = box1]
      \/ /\ Mutual(p)
         /\ box' = [box EXCEPT ![p] = [set EXCEPT !.lock = FALSE], ![q].lock = FALSE]
      \/ /\ Mutual(p)
         /\ box' = [box EXCEPT ![p] = [box1 EXCEPT !.lock = FALSE], ![q].lock = FALSE]
  BY ZenonT(30) DEF TradeList, box1
<1>4. Mutual(p) => q \in Player /\ q # p
  BY DEF Mutual, Found, TradeTypes, NotOneself
<1> HIDE DEF box1
<1>5. set \in Box /\ Counted(set, u)
  <2>1. set \in Box
    BY <1>2, BoxTypes
  <2>2. box1.count < MaxCount
    BY <1>2
  <2>3. u \in InvSlot
    BY <1>1
  <2> HIDE DEF u
  <2> QED
    BY <1>2, <2>1, <2>2, <2>3, CountedBox
<1>6. ASSUME NEW b \in Box, Counted(b, u),
             \/ box' = [box EXCEPT ![p] = b]
             \/ Mutual(p) /\ box' = [box EXCEPT ![p] = [b EXCEPT !.lock = FALSE], ![q].lock = FALSE]
      PROVE  Counters'
  <2> DEFINE free  == [b EXCEPT !.lock = FALSE]
             other == [box[q] EXCEPT !.lock = FALSE]
  <2>1. /\ free.slot = b.slot /\ free.count = b.count
        /\ Mutual(p) => other.slot = box[q].slot /\ other.count = box[q].count
    BY <1>4 DEF TradeTypes, Box
  <2>2. box' = [box EXCEPT ![p] = b] \/ (Mutual(p) /\ box' = [box EXCEPT ![p] = free, ![q] = other])
    BY <1>4, <1>6 DEF TradeTypes
  <2> HIDE DEF free, other, q
  <2>3. /\ box'[p].slot = b.slot /\ box'[p].count = b.count
        /\ \A r \in Player : r # p => box'[r].slot = box[r].slot /\ box'[r].count = box[r].count
    BY <1>4, <2>1, <2>2 DEF TradeTypes
  <2>4. Counted(box'[p], using'[p])
    BY <1>6, <2>3 DEF Counted, Filled
  <2> QED
    BY <2>3, <2>4, OneCounter
<1>7. CASE UNCHANGED box
  BY <1>7, QuietCounters
<1> QED
  BY <1>2, <1>3, <1>5, <1>6, <1>7

\* Every step keeps the counters.
LEMMA CountersNext ==
  ASSUME MaxCount + 1 < CountSize, TradeTypes, DealTypes, Counters, [Next]_vars
  PROVE  Counters'
<1>1. ASSUME NEW P, Clean(P), using' = using PROVE Counters'
  BY <1>1, QuietCounters DEF Clean
<1>2. ASSUME UNCHANGED <<box, using>> PROVE Counters'
  BY <1>2, QuietCounters
<1>3. ASSUME NEW p \in Player, Step(p) PROVE Counters'
  <2>0. box[p] \in Box /\ using[p] \in InvSlot /\ Counted(box[p], using[p]) /\ 0 \in BoxSlot /\ 0 \in InvSlot
    BY TradeAssumption DEF TradeTypes, Counters, BoxSlot, InvSlot
  <2>1. ASSUME Read(p) \/ Age(p) \/ EnterZone(p) \/ (\E q \in Player : TradeReq(p, q))
               \/ \E s \in InvSlot : \E n \in 1 .. inv[p][s].qty : Discard(p, s, n)
        PROVE  Counters'
    BY <1>2, <2>1 DEF Read, Age, EnterZone, TradeReq, Discard
  <2>2. CASE TradeStart(p)
    <3>1. using' = using
      BY <2>2 DEF TradeStart
    <3>2. box' = box \/ (Mutual(p) /\ box' = [box EXCEPT ![p] = SetType(@, "trade"), ![pend[p]] = SetType(@, "trade")])
      BY <2>2, ZenonT(30) DEF TradeStart, Ignored
    <3>3. Mutual(p) => pend[p] \in Player /\ pend[p] # p
      BY DEF Mutual, Found, TradeTypes, NotOneself
    <3>4. \A r \in Player : SetType(box[r], "trade").slot = box[r].slot /\ SetType(box[r], "trade").count = box[r].count
      BY DEF SetType, TradeTypes, Box
    <3>5. \A r \in Player : box'[r] = box[r] \/ box'[r] = SetType(box[r], "trade")
      BY <3>2, <3>3 DEF TradeTypes
    <3> QED
      BY <3>1, <3>4, <3>5, QuietCounters
  <2>3. CASE TradeCancell(p)
    <3>1. using' = using /\ (box' = box \/ \E P : Clean(P))
      BY <2>3, ZenonT(30) DEF TradeCancell
    <3> QED
      BY <1>1, <1>2, <3>1
  <2>4. CASE TradeMake(p)
    <3>1. using' = using /\ (box' = box \/ box' = [box EXCEPT ![p].lock = TRUE] \/ \E P : Clean(P))
      BY <2>4, ZenonT(30) DEF TradeMake, Ignored
    <3>2. [box[p] EXCEPT !.lock = TRUE].slot = box[p].slot /\ [box[p] EXCEPT !.lock = TRUE].count = box[p].count
      BY <2>0 DEF Box
    <3>3. box' = [box EXCEPT ![p].lock = TRUE]
            => \A r \in Player : box'[r].slot = box[r].slot /\ box'[r].count = box[r].count
      BY <3>2 DEF TradeTypes
    <3> QED
      BY <1>1, <1>2, <3>1, <3>3, QuietCounters
  <2>5. ASSUME NEW k \in BoxSlot, NEW s \in InvSlot, NEW n \in 1 .. inv[p][s].qty, Put(p, k, s, n)
        PROVE  Counters'
    <3>1. TradeList(p, k, s, n) /\ using' = using /\ box[p].count < MaxCount
      BY <2>5 DEF Put
    <3> QED
      BY <3>1, ListCounters
  <2>6. ASSUME NEW k \in BoxSlot, Withdraw(p, k) PROVE Counters'
    <3>1. box[p].slot[k] \in InvSlot
      BY <2>6 DEF Withdraw, Offer, TradeTypes, Box
    <3>2. TradeList(p, k, box[p].slot[k], 0) /\ using' = using /\ box[p].count < MaxCount
      BY <2>6 DEF Withdraw
    <3> QED
      BY <3>1, <3>2, ListCounters
  <2>7. ASSUME NEW s \in InvSlot, UseItem(p, s) PROVE Counters'
    <3> DEFINE b == SetType(box[p], "use")
    <3>1. /\ inv[p][s].kind \in Usable /\ using[p] = 0
          /\ using' = [using EXCEPT ![p] = s] /\ box' = [box EXCEPT ![p] = SetItem(b, 0, s)]
      BY <2>7 DEF UseItem
    <3>2. s # 0
      BY <3>1, TradeAssumption DEF TradeTypes, Lawful, Legal
    <3>3. b \in Box /\ b.slot = box[p].slot /\ b.count = box[p].count
      BY <2>0, BoxTypes DEF SetType, Box
    <3> HIDE DEF b
    <3>4. Counted(b, 0) /\ b.count <= MaxCount
      BY <2>0, <3>1, <3>3 DEF Counted, Filled
    <3>5. Counted(SetItem(b, 0, s), s)
      BY <2>0, <3>2, <3>3, <3>4, CountedBox
    <3>6. /\ Counted(box'[p], using'[p])
          /\ \A r \in Player : r # p => using'[r] = using[r] /\ box'[r] = box[r]
      BY <3>1, <3>5 DEF TradeTypes
    <3> QED
      BY <3>6, OneCounter
  <2>10. CASE FinishItem(p)
    BY <1>2, <2>10 DEF FinishItem
  <2>8. CASE Cleanup(p) \/ LeaveZone(p)
    <3>1. box' = [box EXCEPT ![p] = EmptyBox] /\ using' = [using EXCEPT ![p] = 0]
      BY <2>8 DEF Cleanup, Clean, LeaveZone, TradeTypes
    <3>2. Counted(EmptyBox, 0)
      BY <2>0, CountedBox
    <3>3. /\ Counted(box'[p], using'[p])
          /\ \A r \in Player : r # p => using'[r] = using[r] /\ box'[r] = box[r]
      BY <3>1, <3>2 DEF TradeTypes
    <3> QED
      BY <3>3, OneCounter
  <2>9. CASE CombineAsk(p)
    <3>1. using' = using /\ (box' = box \/ \E P : Clean(P))
      BY <2>9, ZenonT(30) DEF CombineAsk
    <3> QED
      BY <1>1, <1>2, <3>1
  <2> QED
    BY <1>3, <2>1, <2>2, <2>3, <2>4, <2>5, <2>6, <2>7, <2>8, <2>9, <2>10 DEF Step
<1>4. CASE DoTrade
  <2>1. using' = using /\ deal # NoDeal /\ deal.k < TradeSlots
    BY <1>4 DEF DoTrade
  <2>2. deal.from \in Player /\ deal.k \in BoxSlot
    BY <2>1, TradeAssumption DEF DealTypes, DealOK, BoxSlot
  <2>3. box' = box \/ box' = [box EXCEPT ![deal.from] = ClearSlot(@, deal.k)]
    BY <1>4 DEF DoTrade
  <2>4. PICK p \in Player : p = deal.from
    BY <2>2
  <2>5. Counted(ClearSlot(box[p], deal.k), using[p])
    BY <2>2, CountedBox DEF TradeTypes, Counters
  <2>6. CASE box' = [box EXCEPT ![deal.from] = ClearSlot(@, deal.k)]
    <3>1. /\ Counted(box'[p], using'[p])
          /\ \A r \in Player : r # p => using'[r] = using[r] /\ box'[r] = box[r]
      BY <2>1, <2>4, <2>5, <2>6 DEF TradeTypes
    <3> QED
      BY <3>1, OneCounter
  <2> QED
    BY <1>2, <2>1, <2>3, <2>6
<1>5. CASE TradeEnd
  BY <1>1, <1>5 DEF TradeEnd
<1>6. CASE UNCHANGED vars
  BY <1>2, <1>6 DEF vars
<1> QED
  BY <1>3, <1>4, <1>5, <1>6 DEF Next

-----------------------------------------------------------------------------
(* No step makes currency, and the end of an exchange keeps all.            *)

\* One inventory has the same items as another, or no more currency.
Alike(out, in) == \A u \in InvSlot : out[u].kind = in[u].kind /\ out[u].qty = in[u].qty
Poorer(out, in) == \A u \in InvSlot : Held(out[u], Gil) <= Held(in[u], Gil)

\* Nobody has more currency than before.
NoneGained == \A r \in Player : Poorer(inv'[r], inv[r])

\* Who has the same items is no richer.
LEMMA AlikePoorer ==
  ASSUME NEW in \in Inventory, NEW out, Alike(out, in)
  PROVE  Poorer(out, in) /\ \A u \in InvSlot : \A kind : Held(out[u], kind) = Held(in[u], kind)
<1>1. ASSUME NEW u \in InvSlot, NEW kind PROVE Held(out[u], kind) = Held(in[u], kind)
  BY DEF Alike, Held
<1>2. ASSUME NEW u \in InvSlot PROVE Held(in[u], Gil) \in Nat
  BY DEF Inventory, Item, Held
<1>3. Poorer(out, in)
  BY <1>1, <1>2 DEF Poorer
<1> QED
  BY <1>1, <1>3

\* A reservation is no change of what is held.
LEMMA SetReserveAlike ==
  ASSUME NEW in \in Inventory, NEW s \in InvSlot, NEW n \in Nat
  PROVE  SetReserve(in, s, n) \in Inventory /\ Alike(SetReserve(in, s, n), in)
<1>1. PICK i, out : i = [in[s] EXCEPT !.res = n] /\ out = SetReserve(in, s, n)
  OBVIOUS
<1>2. in[s] \in Item
  BY DEF Inventory
<1>3. i \in Item /\ i.kind = in[s].kind /\ i.qty = in[s].qty
  BY <1>1, <1>2 DEF Item
<1>4. out \in Inventory /\ out[s] = i /\ \A u \in InvSlot : u # s => out[u] = in[u]
  BY <1>1, <1>3 DEF SetReserve, Inventory
<1> QED
  BY <1>1, <1>3, <1>4 DEF Alike

\* Neither is the end of one.
LEMMA UnreservedAlike ==
  ASSUME NEW in \in Inventory, NEW b
  PROVE  Alike(Unreserved(in, b), in)
<1>1. ASSUME NEW u \in InvSlot
      PROVE  /\ [in[u] EXCEPT !.res = 0].kind = in[u].kind
             /\ [in[u] EXCEPT !.res = 0].qty = in[u].qty
  <2>1. in[u] \in Item
    BY DEF Inventory
  <2> QED
    BY <2>1 DEF Item
<1> QED
  BY <1>1 DEF Unreserved, Alike

\* A loss leaves no more.
LEMMA UpdateItemPoorer ==
  ASSUME NEW in \in Inventory, NEW s \in InvSlot, NEW n \in Nat
  PROVE  Poorer(UpdateItem(in, s, n), in)
<1> USE TradeAssumption
<1>1. in[s] \in Item /\ \A u \in InvSlot : Held(in[u], Gil) \in Nat
  BY DEF Inventory, Item, Held
<1>2. PICK out : out = UpdateItem(in, s, n)
  OBVIOUS
<1>3. CASE out = in
  BY <1>1, <1>2, <1>3 DEF Poorer
<1>4. CASE out = [in EXCEPT ![s] = NoItem]
  <2>1. out[s] = NoItem /\ \A u \in InvSlot : u # s => out[u] = in[u]
    BY <1>4 DEF Inventory
  <2>2. Held(NoItem, Gil) = 0
    BY DEF Held, NoItem
  <2> QED
    BY <1>1, <1>2, <2>1, <2>2 DEF Poorer
<1>5. CASE out = [in EXCEPT ![s].qty = @ - n]
  <2>1. PICK i : i = [in[s] EXCEPT !.qty = in[s].qty - n]
    OBVIOUS
  <2>2. i.kind = in[s].kind /\ i.qty = in[s].qty - n /\ in[s].qty \in Nat
    BY <1>1, <2>1 DEF Item
  <2>3. out[s] = i /\ \A u \in InvSlot : u # s => out[u] = in[u]
    BY <1>5, <2>1 DEF Inventory
  <2>4. Held(i, Gil) <= Held(in[s], Gil)
    BY <2>2 DEF Held
  <2> QED
    BY <1>1, <1>2, <2>3, <2>4 DEF Poorer
<1> QED
  BY <1>2, <1>3, <1>4, <1>5 DEF UpdateItem

\* Containers that are cleaned leave everybody the same items.
LEMMA CleanAlike ==
  ASSUME TradeTypes, NEW P, Clean(P)
  PROVE  NoneGained /\ \A r \in Player : Alike(inv'[r], inv[r])
<1>1. ASSUME NEW r \in Player PROVE Alike(inv'[r], inv[r]) /\ Poorer(inv'[r], inv[r])
  <2>1. inv[r] \in Inventory /\ (inv'[r] = inv[r] \/ inv'[r] = Unreserved(inv[r], box[r]))
    BY DEF Clean, TradeTypes, Lawful
  <2>2. Alike(inv[r], inv[r])
    BY DEF Alike
  <2>3. Alike(inv'[r], inv[r])
    BY <2>1, <2>2, UnreservedAlike
  <2> QED
    BY <2>1, <2>3, AlikePoorer
<1> QED
  BY <1>1 DEF NoneGained

\* One inventory changes, and there is no more currency in it.
LEMMA OnePoorer ==
  ASSUME TradeTypes, NEW p \in Player, NEW out, inv' = [inv EXCEPT ![p] = out], Poorer(out, inv[p])
  PROVE  NoneGained
<1>1. ASSUME NEW r \in Player PROVE Poorer(inv'[r], inv[r])
  <2>1. inv \in [Player -> Inventory]
    BY DEF TradeTypes, Lawful
  <2>2. Alike(inv[r], inv[r])
    BY DEF Alike
  <2>3. Poorer(inv[r], inv[r])
    BY <2>1, <2>2, AlikePoorer
  <2>4. inv'[r] = IF r = p THEN out ELSE inv[r]
    BY <2>1
  <2> QED
    BY <2>3, <2>4
<1> QED
  BY <1>1 DEF NoneGained

\* Offers leave everybody the same items.
LEMMA ListPoorer ==
  ASSUME TradeTypes, NEW p \in Player, NEW k \in BoxSlot, NEW s \in InvSlot, NEW n \in Nat,
         TradeList(p, k, s, n)
  PROVE  NoneGained
<1> DEFINE old  == box[p].slot[k]
           in1  == IF old = Nothing THEN inv[p] ELSE SetReserve(inv[p], old, 0)
           item == in1[s]
           res  == IF n = 0 THEN 0 ELSE item.res + n
<1>1. inv[p] \in Inventory /\ inv \in [Player -> Inventory] /\ old \in InvSlot \cup {Nothing}
  BY DEF TradeTypes, Lawful, Box
<1>2. in1 \in Inventory /\ Alike(in1, inv[p])
  <2>1. ASSUME old \in InvSlot
        PROVE  SetReserve(inv[p], old, 0) \in Inventory /\ Alike(SetReserve(inv[p], old, 0), inv[p])
    <3> HIDE DEF old
    <3> QED
      BY <1>1, <2>1, SetReserveAlike
  <2>2. Alike(inv[p], inv[p])
    BY DEF Alike
  <2> QED
    BY <1>1, <2>1, <2>2
<1> HIDE DEF in1
<1>3. res \in Nat
  <2>1. item \in Item
    BY <1>2 DEF Inventory
  <2> QED
    BY <2>1 DEF Item
<1>4. \/ inv' = inv
      \/ inv' = [inv EXCEPT ![p] = in1]
      \/ inv' = [inv EXCEPT ![p] = SetReserve(in1, s, res)]
      \/ inv' = [inv EXCEPT ![p] = SetReserve(in1, s, 0)]
  BY ZenonT(30) DEF TradeList, in1
<1>5. ASSUME NEW m \in Nat PROVE Alike(SetReserve(in1, s, m), inv[p])
  <2>1. Alike(SetReserve(in1, s, m), in1)
    BY <1>2, SetReserveAlike
  <2> QED
    BY <1>2, <2>1 DEF Alike
<1> HIDE DEF res
<1>6. PICK out : inv' = [inv EXCEPT ![p] = out] /\ Alike(out, inv[p])
  <2>1. inv = [inv EXCEPT ![p] = inv[p]] /\ Alike(inv[p], inv[p])
    BY <1>1 DEF Alike
  <2> QED
    BY <1>2, <1>3, <1>4, <1>5, <2>1
<1>7. Poorer(out, inv[p])
  BY <1>1, <1>6, AlikePoorer
<1> QED
  BY <1>6, <1>7, OnePoorer

\* Outside of an exchange nobody gets currency.
LEMMA NoneMade ==
  ASSUME TradeTypes, NEW p \in Player, Step(p)
  PROVE  NoneGained
<1>0. inv[p] \in Inventory /\ Legal(inv[p]) /\ using[p] \in InvSlot
  BY DEF TradeTypes, Lawful
<1>1. ASSUME inv' = inv PROVE NoneGained
  <2>1. inv' = [inv EXCEPT ![p] = inv[p]] /\ Alike(inv[p], inv[p])
    BY <1>1 DEF Alike, TradeTypes, Lawful
  <2> QED
    BY <1>0, <2>1, AlikePoorer, OnePoorer
<1>2. ASSUME Read(p) \/ Age(p) \/ EnterZone(p) \/ TradeStart(p) \/ (\E q \in Player : TradeReq(p, q))
             \/ (\E s \in InvSlot : UseItem(p, s))
      PROVE  NoneGained
  <2>1. TradeStart(p) => inv' = inv
    BY ZenonT(30) DEF TradeStart, Ignored
  <2> QED
    BY <1>1, <1>2, <2>1 DEF Read, Age, EnterZone, TradeReq, UseItem
<1>3. CASE TradeCancell(p) \/ TradeMake(p) \/ CombineAsk(p)
  <2>1. inv' = inv \/ \E P : Clean(P)
    BY <1>3, ZenonT(30) DEF TradeCancell, TradeMake, CombineAsk, Ignored
  <2> QED
    BY <1>1, <2>1, CleanAlike
<1>4. ASSUME NEW k \in BoxSlot, NEW s \in InvSlot, NEW n \in 1 .. inv[p][s].qty, Put(p, k, s, n)
      PROVE  NoneGained
  <2>1. n \in Nat /\ TradeList(p, k, s, n)
    BY <1>4 DEF Put
  <2> QED
    BY <2>1, ListPoorer
<1>5. ASSUME NEW k \in BoxSlot, Withdraw(p, k) PROVE NoneGained
  <2>1. box[p].slot[k] \in InvSlot
    BY <1>5 DEF Withdraw, Offer, TradeTypes, Box
  <2>2. TradeList(p, k, box[p].slot[k], 0) /\ 0 \in Nat
    BY <1>5 DEF Withdraw
  <2> QED
    BY <2>1, <2>2, ListPoorer
<1>6. CASE FinishItem(p)
  <2>1. inv' = [inv EXCEPT ![p] = UpdateItem(inv[p], using[p], 1)] /\ 1 \in Nat
    BY <1>6 DEF FinishItem
  <2>2. Poorer(UpdateItem(inv[p], using[p], 1), inv[p])
    BY <1>0, <2>1, UpdateItemPoorer
  <2> QED
    BY <2>1, <2>2, OnePoorer
<1>9. CASE Cleanup(p)
  BY <1>9, CleanAlike DEF Cleanup
<1>7. ASSUME NEW s \in InvSlot, NEW n \in 1 .. inv[p][s].qty, Discard(p, s, n) PROVE NoneGained
  <2>1. inv' = [inv EXCEPT ![p] = UpdateItem(inv[p], s, n)] /\ n \in Nat
    BY <1>7 DEF Discard
  <2>2. Poorer(UpdateItem(inv[p], s, n), inv[p])
    BY <1>0, <2>1, UpdateItemPoorer
  <2> QED
    BY <2>1, <2>2, OnePoorer
<1>8. CASE LeaveZone(p)
  <2>1. PICK out : out = [s \in InvSlot |-> [inv[p][s] EXCEPT !.res = 0]]
    OBVIOUS
  <2>2. ASSUME NEW u \in InvSlot PROVE out[u].kind = inv[p][u].kind /\ out[u].qty = inv[p][u].qty
    <3>1. inv[p][u] \in Item
      BY <1>0 DEF Inventory
    <3> QED
      BY <2>1, <3>1 DEF Item
  <2>3. Poorer(out, inv[p])
    BY <1>0, <2>2, AlikePoorer DEF Alike
  <2>4. inv' = [inv EXCEPT ![p] = out]
    BY <1>8, <2>1 DEF LeaveZone
  <2> QED
    BY <2>3, <2>4, OnePoorer
<1> QED
  BY <1>2, <1>3, <1>4, <1>5, <1>6, <1>7, <1>8, <1>9 DEF Step

-----------------------------------------------------------------------------
(* The exchange.                                                            *)

\* An item crosses from one to the other, and what has yet to cross still finds room.
LEMMA DoTradeFits ==
  ASSUME TradeTypes, DealTypes, DealFits, DoTrade
  PROVE  DealFits'
<1>1. PICK p \in Player, q \in Player : p = deal.from /\ q = deal.to
  BY DEF DoTrade, DealTypes, DealOK
<1>2. deal # NoDeal /\ p # q /\ deal.k \in BoxSlot /\ deal.k < TradeSlots
  BY <1>1, TradeAssumption DEF DoTrade, DealTypes, DealOK, BoxSlot
<1>3. PassesTo(p, q) /\ (~deal.back => PassesTo(q, p))
  BY <1>1, <1>2 DEF DealFits
<1>4. /\ box[p] \in Box /\ box[q] \in Box /\ Legal(inv[p]) /\ Legal(inv[q])
      /\ inv \in [Player -> Inventory] /\ box \in [Player -> Box]
  BY DEF TradeTypes, Lawful
<1>5. PICK k : k = deal.k
  OBVIOUS
<1>6. \/ deal' = [deal EXCEPT !.k = @ + 1] \/ deal' = [deal EXCEPT !.k = TradeSlots]
      \/ ~deal.back /\ deal' = [from |-> q, to |-> p, k |-> 0, back |-> TRUE]
  BY <1>1 DEF DoTrade
<1>7. \/ deal'.from = p /\ deal'.to = q /\ deal'.back = deal.back
      \/ ~deal.back /\ deal'.from = q /\ deal'.to = p /\ deal'.back
  <2>1. \A m : /\ [deal EXCEPT !.k = m].from = deal.from /\ [deal EXCEPT !.k = m].to = deal.to
               /\ [deal EXCEPT !.k = m].back = deal.back
    BY DEF DealTypes
  <2>2. CASE deal' = [from |-> q, to |-> p, k |-> 0, back |-> TRUE] /\ ~deal.back
    BY <2>2
  <2> QED
    BY <1>1, <1>6, <2>1, <2>2
<1>8. SUFFICES PassesTo(p, q)' /\ (~deal.back => PassesTo(q, p)')
  BY <1>7 DEF DealFits, PassesTo
<1>9. CASE box[p].slot[k] = Nothing
  BY <1>1, <1>3, <1>5, <1>9 DEF DoTrade, PassesTo
<1>10. CASE box[p].slot[k] # Nothing
  <2>1. PICK s \in InvSlot : s = box[p].slot[k]
    BY <1>2, <1>4, <1>5, <1>10 DEF Box
  <2>2. PICK item, n : item = inv[p][s] /\ n = item.res
    OBVIOUS
  <2>3. item \in Item /\ n \in Nat /\ item.kind \in Kind \cup {None}
    BY <1>4, <2>2 DEF Legal, Inventory, Item
  <2>4. /\ inv' = [inv EXCEPT ![q] = AddItem(@, item.kind, n), ![p] = UpdateItem(SetReserve(@, s, 0), s, n)]
        /\ box' = [box EXCEPT ![p] = ClearSlot(@, k)]
    BY <1>1, <1>5, <1>10, <2>1, <2>2 DEF DoTrade
  <2>5. PICK in, out, jn, jout : in = inv[p] /\ out = inv'[p] /\ jn = inv[q] /\ jout = inv'[q]
    OBVIOUS
  <2>6. /\ jout = AddItem(jn, item.kind, n) /\ out = UpdateItem(SetReserve(in, s, 0), s, in[s].res)
        /\ box'[p] = ClearSlot(box[p], k) /\ box'[q] = box[q]
    BY <1>2, <1>4, <2>2, <2>4, <2>5
  <2>7. PICK b, c : b = box[p] /\ c = ClearSlot(box[p], k)
    OBVIOUS
  <2>8. /\ \A j \in BoxSlot : c.slot[j] = IF j = k THEN Nothing ELSE b.slot[j]
        /\ Filled(c) = Filled(b) \ {k} /\ k \in Filled(b)
    <3>1. \A j \in BoxSlot : c.slot[j] = IF j = k THEN Nothing ELSE b.slot[j]
      BY <1>4, <2>7 DEF ClearSlot, Box
    <3> QED
      BY <1>2, <1>5, <1>10, <2>7, <3>1 DEF Filled
  <2>9. /\ \A u \in InvSlot : u # s => out[u] = in[u]
        /\ out[s].res = 0
        /\ FreeSlots(in) \subseteq FreeSlots(out)
        /\ \A kind \in Kind : Holds(out, kind) => Holds(in, kind)
    <3>1. Legal(in)
      BY <1>4, <2>5
    <3> QED
      BY <2>6, <3>1, Given
  <2>10. Cardinality(Filled(b)) <= Cardinality(FreeSlots(jn)) /\ (item.res > 0 /\ item.kind \in Rare => ~Holds(jn, item.kind))
    BY <1>3, <2>1, <2>2, <2>5, <2>7, <2>8 DEF PassesTo
  <2>11. /\ Cardinality(Filled(b)) \in Nat /\ Cardinality(Filled(c)) = Cardinality(Filled(b)) - 1
         /\ Cardinality(FreeSlots(jn)) \in Nat /\ Cardinality(FreeSlots(jout)) \in Nat
    <3>1. IsFiniteSet(Filled(b)) /\ Cardinality(Filled(b)) \in Nat
      BY SlotsFinite
    <3>2. Filled(b) \ {k} \subseteq Filled(b)
      OBVIOUS
    <3>3. Cardinality(Filled(b) \ {k}) = Cardinality(Filled(b)) - 1
      BY <2>8, <3>1, <3>2, AllButOne
    <3> QED
      BY <2>8, <3>1, <3>3, SlotsFinite
  <2>12. FreeSlots(jn) # {}
    <3>1. IsFiniteSet(Filled(b)) /\ Filled(b) # {}
      BY <2>8, SlotsFinite
    <3>2. Cardinality(Filled(b)) # 0
      BY <3>1, FS_EmptySet
    <3> QED
      BY <2>10, <2>11, <3>2, FS_EmptySet
  <2>13. /\ \A u \in InvSlot : /\ jout[u].res = jn[u].res
                               /\ jout[u].res > 0 => jout[u].kind = jn[u].kind
         /\ \A kind \in Kind : Holds(jout, kind) => Holds(jn, kind) \/ (kind = item.kind /\ n # 0)
         /\ \E t : FreeSlots(jn) \ {t} \subseteq FreeSlots(jout)
    <3>1. Legal(jn)
      BY <1>4, <2>5
    <3>2. PICK kn : kn = item.kind
      OBVIOUS
    <3> QED
      BY <2>3, <2>6, <3>1, <3>2, AddedTo
  <2>14. Cardinality(Filled(c)) <= Cardinality(FreeSlots(jout))
    <3>1. PICK t : FreeSlots(jn) \ {t} \subseteq FreeSlots(jout)
      BY <2>13
    <3>2. IsFiniteSet(FreeSlots(jn)) /\ IsFiniteSet(FreeSlots(jout))
      BY SlotsFinite
    <3>3. Cardinality(FreeSlots(jn)) <= Cardinality(FreeSlots(jout)) + 1
      BY <3>1, <3>2, AllButOne
    <3> QED
      BY <2>10, <2>11, <3>3
  <2>15. ASSUME NEW j \in Filled(c), out[c.slot[j]].res > 0, out[c.slot[j]].kind \in Rare,
                Holds(jout, out[c.slot[j]].kind)
         PROVE  FALSE
    <3>1. PICK u : u = c.slot[j]
      OBVIOUS
    <3>2. j \in Filled(b) /\ j # k /\ u = b.slot[j] /\ u \in InvSlot
      BY <1>4, <2>7, <2>8, <3>1 DEF Filled, Box
    <3>3. u # s /\ out[u] = in[u]
      BY <2>9, <2>15, <3>1, <3>2
    <3>4. ~Holds(jn, in[u].kind)
      BY <1>3, <2>5, <2>7, <2>15, <3>1, <3>2, <3>3 DEF PassesTo
    <3>5. in[u].kind \in Kind
      BY <2>15, <3>1, <3>3, TradeAssumption
    <3>6. in[u].kind = item.kind
      BY <2>13, <2>15, <3>1, <3>3, <3>4, <3>5
    <3> QED
      BY <1>4, <2>2, <2>5, <2>15, <3>1, <3>2, <3>3, <3>6 DEF Legal
  <2>16. PassesTo(p, q)'
    BY <2>5, <2>6, <2>7, <2>14, <2>15 DEF PassesTo
  <2>17. ASSUME ~deal.back PROVE PassesTo(q, p)'
    <3>1. PICK d : d = box[q]
      OBVIOUS
    <3>2. Cardinality(Filled(d)) <= Cardinality(FreeSlots(in))
      BY <1>3, <2>5, <2>17, <3>1 DEF PassesTo
    <3>3. Cardinality(FreeSlots(in)) <= Cardinality(FreeSlots(out))
      <4>1. IsFiniteSet(FreeSlots(in)) /\ IsFiniteSet(FreeSlots(out)) /\ FreeSlots(in) \ {0} \subseteq FreeSlots(out)
        BY <2>9, SlotsFinite
      <4> QED
        BY <2>9, <4>1, AllButOne
    <3>4. Cardinality(Filled(d)) <= Cardinality(FreeSlots(out))
      BY <3>2, <3>3, SlotsFinite
    <3>5. ASSUME NEW j \in Filled(d), jout[d.slot[j]].res > 0, jout[d.slot[j]].kind \in Rare,
                 Holds(out, jout[d.slot[j]].kind)
          PROVE  FALSE
      <4>1. PICK u : u = d.slot[j]
        OBVIOUS
      <4>2. u \in InvSlot
        BY <1>4, <3>1, <4>1 DEF Filled, Box
      <4>3. jout[u].kind = jn[u].kind /\ jn[u].res > 0 /\ jn[u].kind \in Kind
        BY <2>13, <3>5, <4>1, <4>2, TradeAssumption
      <4>4. Holds(in, jn[u].kind)
        BY <2>9, <3>5, <4>1, <4>3
      <4> QED
        BY <1>3, <2>5, <2>17, <3>1, <3>5, <4>1, <4>3, <4>4 DEF PassesTo
    <3> QED
      BY <2>5, <2>6, <3>1, <3>4, <3>5 DEF PassesTo
  <2> QED
    BY <2>16, <2>17
<1> QED
  BY <1>9, <1>10

\* In an exchange what there is of each kind stays the same.
LEMMA DealKeepsAll ==
  ASSUME IsFiniteSet(Player), TradeTypes, Lawful(inv'), DealTypes, DealFits, GilFits, deal # NoDeal, [Next]_vars
  PROVE  \A kind \in Kind : Total(inv', kind) = Total(inv, kind)
<1>1. inv \in [Player -> Inventory] /\ inv' \in [Player -> Inventory]
  BY DEF TradeTypes, Lawful
<1>2. CASE inv' = inv
  BY <1>2
<1>3. CASE TradeEnd
  <2>1. \A r \in Player : Alike(inv'[r], inv[r])
    BY <1>3, CleanAlike DEF TradeEnd
  <2>2. \A r \in Player : inv[r] \in Inventory
    BY <1>1
  <2>3. \A r \in Player, u \in InvSlot : \A kind : Held(inv'[r][u], kind) = Held(inv[r][u], kind)
    BY <2>1, <2>2, AlikePoorer
  <2> QED
    BY <1>1, <2>3, TotalSame
<1>4. CASE DoTrade /\ inv' # inv
  <2>1. PICK p \in Player, q \in Player : p = deal.from /\ q = deal.to /\ p # q
    BY DEF DealTypes, DealOK
  <2>2. PICK k : k = deal.k
    OBVIOUS
  <2>3. k \in BoxSlot
    BY <1>4, <2>2, TradeAssumption DEF DoTrade, DealTypes, BoxSlot
  <2>4. box[p].slot[k] # Nothing
    BY <1>4, <2>1, <2>2 DEF DoTrade
  <2>5. PICK s \in InvSlot : s = box[p].slot[k]
    BY <2>3, <2>4 DEF TradeTypes, Box
  <2>6. PICK iv, jv : iv = inv /\ jv = inv'
    OBVIOUS
  <2>7. Crossed(iv, jv, p, q, s)
    BY <1>4, <2>1, <2>2, <2>4, <2>5, <2>6 DEF DoTrade, Crossed
  <2>8. Lawful(iv) /\ Lawful(jv) /\ Total(iv, Gil) <= GilCap /\ Legal(iv[p])
    BY <2>6 DEF TradeTypes, GilFits, Lawful
  <2>9. PassesTo(p, q) /\ k \in Filled(box[p])
    BY <2>1, <2>3, <2>4 DEF DealFits, Filled
  <2>10. FreeSlots(iv[q]) # {}
    <3>1. Cardinality(Filled(box[p])) # 0 /\ Cardinality(Filled(box[p])) \in Nat
      BY <2>9, SlotsFinite, FS_EmptySet
    <3>2. Cardinality(FreeSlots(iv[q])) \in Nat /\ Cardinality(Filled(box[p])) <= Cardinality(FreeSlots(iv[q]))
      BY <2>6, <2>9, SlotsFinite DEF PassesTo
    <3> QED
      BY <3>1, <3>2, FS_EmptySet
  <2>11. CASE iv[p][s].res # 0
    <3>1. iv[p][s].res > 0
      BY <2>8, <2>11 DEF Legal, Inventory, Item
    <3>2. iv[p][s].kind \in Rare => ~Holds(iv[q], iv[p][s].kind)
      BY <2>5, <2>6, <2>9, <3>1 DEF PassesTo
    <3>3. CanCross(iv, p, q, s)
      BY <2>8, <2>10, <2>11, <3>2 DEF CanCross
    <3>4. \A kind \in Kind : Total(jv, kind) = Total(iv, kind)
      BY <2>1, <2>7, <2>8, <3>3, Crosses
    <3> QED
      BY <2>6, <3>4
  <2>12. CASE iv[p][s].res = 0
    <3>1. AddItem(iv[q], iv[p][s].kind, 0) = iv[q]
      BY <2>8, AddNone DEF Lawful
    <3>2. PICK in, out : in = iv[p] /\ out = UpdateItem(SetReserve(in, s, 0), s, in[s].res)
      OBVIOUS
    <3>3. jv[p] = out /\ \A r \in Player : r # p => jv[r] = iv[r]
      BY <1>1, <2>1, <2>6, <2>7, <2>12, <3>1, <3>2 DEF Crossed
    <3>4. /\ \A u \in InvSlot : u # s => out[u] = in[u]
          /\ \A kind \in Kind : Held(in[s], kind) = Held(out[s], kind) + (IF in[s].kind = kind THEN in[s].res ELSE 0)
      BY <2>8, <3>2, Given
    <3>5. ASSUME NEW kind \in Kind, NEW r \in Player, NEW u \in InvSlot
          PROVE  Held(jv[r][u], kind) = Held(iv[r][u], kind)
      <4>1. CASE r # p \/ u # s
        BY <3>2, <3>3, <3>4, <4>1
      <4>2. CASE r = p /\ u = s
        <5>1. PICK h, i : h = Held(out[s], kind) /\ i = Held(in[s], kind)
          OBVIOUS
        <5>2. i = h + 0
          BY <2>12, <3>2, <3>4, <5>1
        <5>3. h \in Nat
          <6>1. jv \in [Player -> Inventory]
            BY <1>1, <2>6
          <6> QED
            BY <3>3, <5>1, <6>1, AmountType
        <5> QED
          BY <3>2, <3>3, <4>2, <5>1, <5>2, <5>3
      <4> QED
        BY <4>1, <4>2
    <3>6. ASSUME NEW kind \in Kind PROVE Total(jv, kind) = Total(iv, kind)
      BY <1>1, <2>6, <3>5, TotalSame
    <3> QED
      BY <2>6, <3>6
  <2> QED
    BY <2>11, <2>12
<1>5. ASSUME NEW p \in Player PROVE ~Step(p)
  BY ZenonT(60) DEF Step, Read, Age, TradeStart, TradeCancell, TradeMake, TradeReq, Put, Withdraw, UseItem,
     FinishItem, Cleanup, CombineAsk, Discard, LeaveZone, EnterZone, Acts, Outside
<1> QED
  BY <1>2, <1>3, <1>4, <1>5 DEF Next, vars

\* A confirmation begins an exchange only if there is room on both sides.
LEMMA FitsNext ==
  ASSUME TradeTypes, DealTypes, Counters, DealFits, [Next]_vars
  PROVE  DealFits'
<1>1. ASSUME NEW p \in Player, TradeMake(p) PROVE DealFits'
  <2>1. deal = NoDeal
    BY <1>1 DEF TradeMake, Acts
  <2>2. CASE deal' = deal
    BY <2>1, <2>2 DEF DealFits
  <2>3. CASE deal' # deal
    <3>1. PICK q : q = pend[p]
      OBVIOUS
    <3>2. /\ Mutual(p) /\ CanTrade(p, q) /\ CanTrade(q, p) /\ inv' = inv
          /\ box' = [box EXCEPT ![p].lock = TRUE]
          /\ deal' = [from |-> p, to |-> q, k |-> 0, back |-> FALSE]
      BY <1>1, <2>3, <3>1, ZenonT(30) DEF TradeMake, Ignored
    <3>3. q \in Player /\ q # p
      BY <3>1, <3>2 DEF Mutual, Found, TradeTypes, NotOneself
    <3>4. [box[p] EXCEPT !.lock = TRUE].slot = box[p].slot
      BY DEF TradeTypes, Box
    <3>5. box'[p].slot = box[p].slot /\ box'[q].slot = box[q].slot
      BY <3>2, <3>3, <3>4 DEF TradeTypes
    <3>6. ASSUME NEW x \in Player, NEW y \in Player, CanTrade(x, y), box'[x].slot = box[x].slot
          PROVE  PassesTo(x, y)'
      <4>1. Filled(box'[x]) = Filled(box[x])
        BY <3>6 DEF Filled
      <4>2. /\ Cardinality(Filled(box[x])) \in Nat /\ Cardinality(FreeSlots(inv[y])) \in Nat
            /\ box[x].count \in Nat /\ Cardinality(Filled(box[x])) <= box[x].count
        BY SlotsFinite, TradeAssumption DEF TradeTypes, Box, Counters, Counted
      <4>3. Cardinality(FreeSlots(inv[y])) >= box[x].count
        BY <3>6 DEF CanTrade
      <4>4. Cardinality(Filled(box[x])) <= Cardinality(FreeSlots(inv[y]))
        BY <4>2, <4>3
      <4> QED
        BY <3>2, <3>6, <4>1, <4>4 DEF PassesTo, CanTrade
    <3>7. PassesTo(p, q)' /\ PassesTo(q, p)'
      BY <3>2, <3>3, <3>5, <3>6
    <3>8. deal'.from = p /\ deal'.to = q
      BY <3>2
    <3> QED
      BY <3>7, <3>8 DEF DealFits, PassesTo
  <2> QED
    BY <2>2, <2>3
<1>2. ASSUME NEW p \in Player, Step(p), ~TradeMake(p) PROVE DealFits'
  <2>1. deal = NoDeal /\ deal' = deal
    BY <1>2, ZenonT(60) DEF Step, Read, Age, TradeStart, TradeCancell, TradeReq, Put, Withdraw, UseItem,
       FinishItem, Cleanup, CombineAsk, Discard, LeaveZone, EnterZone, Acts, Outside
  <2> QED
    BY <2>1 DEF DealFits
<1>3. CASE TradeEnd
  BY <1>3 DEF TradeEnd, DealFits
<1>4. CASE UNCHANGED vars
  BY <1>4 DEF vars, DealFits, PassesTo
<1> QED
  BY <1>1, <1>2, <1>3, <1>4, DoTradeFits DEF Next

\* No step makes more currency than one player can have.
LEMMA GilNext ==
  ASSUME IsFiniteSet(Player), TradeTypes, Lawful(inv'), DealTypes, DealFits, GilFits, [Next]_vars
  PROVE  GilFits'
<1>1. inv \in [Player -> Inventory] /\ inv' \in [Player -> Inventory]
  BY DEF TradeTypes, Lawful
<1>2. CASE deal # NoDeal
  <2>1. Total(inv', Gil) = Total(inv, Gil)
    BY <1>2, DealKeepsAll, TradeAssumption
  <2> QED
    BY <2>1 DEF GilFits
<1>3. ASSUME NEW p \in Player, Step(p) PROVE GilFits'
  <2>1. NoneGained
    BY <1>3, NoneMade
  <2>2. PICK iv, jv : iv = inv /\ jv = inv'
    OBVIOUS
  <2>3. /\ iv \in [Player -> Inventory] /\ jv \in [Player -> Inventory]
        /\ \A r \in Player, u \in InvSlot : Held(jv[r][u], Gil) <= Held(iv[r][u], Gil)
    BY <1>1, <2>1, <2>2 DEF NoneGained, Poorer
  <2>4. Total(jv, Gil) \in Int /\ Total(iv, Gil) \in Int /\ Total(jv, Gil) <= Total(iv, Gil)
    BY <2>3, TotalLess
  <2>5. Total(iv, Gil) <= GilCap /\ GilCap \in Int
    BY <2>2, TradeAssumption DEF GilFits
  <2>6. Total(jv, Gil) <= GilCap
    BY <2>4, <2>5
  <2> QED
    BY <2>2, <2>6 DEF GilFits
<1>4. CASE UNCHANGED vars
  BY <1>4 DEF vars, GilFits
<1>5. DoTrade \/ TradeEnd => deal # NoDeal
  BY TradeAssumption DEF DoTrade, TradeEnd, NoDeal
<1> QED
  BY <1>2, <1>3, <1>4, <1>5 DEF Next

-----------------------------------------------------------------------------
\* The inductive strengthening of Kept.
KeptInv == TradeInv /\ Counters /\ DealFits /\ GilFits

\* Every step keeps it.
LEMMA KeptNext ==
  ASSUME IsFiniteSet(Player), MaxCount + 1 < CountSize
  PROVE  KeptInv /\ [Next]_vars => KeptInv'
<1> SUFFICES ASSUME TradeInv, Counters, DealFits, GilFits, [Next]_vars PROVE KeptInv'
  BY DEF KeptInv
<1>1. TradeInv' /\ TradeTypes /\ DealTypes
  BY NextTypes, SplitTrade
<1>2. Lawful(inv')
  BY <1>1, SplitTradeNext DEF TradeTypes
<1>3. Counters' /\ DealFits' /\ GilFits'
  BY <1>1, <1>2, CountersNext, FitsNext, GilNext
<1> QED
  BY <1>1, <1>3 DEF KeptInv

\* The first states satisfy it if there is not too much currency.
LEMMA KeptInit == Init /\ GilFits => KeptInv
<1> SUFFICES ASSUME Init, GilFits PROVE Counters /\ DealFits
  BY InitTypes DEF KeptInv
<1>1. Filled(EmptyBox) = {} /\ EmptyBox.count = 0
  BY DEF Filled, EmptyBox
<1>2. Counted(EmptyBox, 0)
  BY <1>1, FS_EmptySet, TradeAssumption DEF Counted
<1>3. Counters
  BY <1>2 DEF Init, Counters
<1>4. DealFits
  BY DEF Init, DealFits
<1> QED
  BY <1>3, <1>4

\* The exchange makes and loses nothing, whatever the two offer: what is refused by an inventory
\* would be lost, and nothing is.  This is so among finitely many players who do not change their
\* offers so often that the counter wraps around, and whose currency one of them could have alone.
THEOREM ExchangeKeeps ==
  ASSUME IsFiniteSet(Player), MaxCount + 1 < CountSize
  PROVE  Spec /\ GilFits => Kept
<1>1. KeptInv /\ [Next]_vars => [deal # NoDeal => \A kind \in Kind : Total(inv', kind) = Total(inv, kind)]_vars
  <2> SUFFICES ASSUME TradeInv, Counters, DealFits, GilFits, [Next]_vars, deal # NoDeal
               PROVE  \A kind \in Kind : Total(inv', kind) = Total(inv, kind)
    BY DEF KeptInv
  <2>1. TradeTypes /\ DealTypes /\ TradeInv'
    BY SplitTrade, NextTypes
  <2>2. Lawful(inv')
    BY <2>1, SplitTradeNext DEF TradeTypes
  <2> QED
    BY <2>1, <2>2, DealKeepsAll
<1>2. KeptInv /\ [Next]_vars => KeptInv'
  BY KeptNext
<1> QED
  BY <1>1, <1>2, KeptInit, PTL DEF Spec, Kept
=============================================================================
