----------------------------- MODULE PlayerTrade -----------------------------
(***************************************************************************)
(* The trade of two players in one map process: the packets 0x032 (ask),   *)
(* 0x033 (accept, cancel, confirm) and 0x034 (put an item), the universal  *)
(* container of each player, the reservations on items, and what else uses *)
(* or disturbs them: using an item, synthesis, discarding, leaving.        *)
(*                                                                         *)
(* A client acts on what it last read.  A packet it sent earlier and that  *)
(* is handled now is the same as one sent now by a client that has not     *)
(* read its news, so packets are handled when they are sent.               *)
(***************************************************************************)
EXTENDS Integers, FiniteSets, FiniteSetsExt

CONSTANTS
  Player,
  None,
  Kind,        \* of items, by their identifier
  Gil,         \* the currency: always in slot 0, even when there is none
  Rare,        \* a character holds one at most
  Exclusive,   \* cannot be traded
  Shell,       \* linkshells: must be worn to be traded
  Usable,
  Play,        \* the situations looked at, see Situation
  Capacity,    \* m_size of the inventory
  TradeSlots,  \* of a container that trade uses: 9
  GilCap,      \* stack size of the currency
  CountSize,   \* values of the uint8 counter: 256
  MaxCount     \* bound: a client that changed its mind this often stops

ASSUME TradeAssumption ==
  /\ Player # {} /\ None \notin Player \cup Kind
  /\ Gil \in Kind /\ Rare \subseteq Kind /\ Exclusive \subseteq Kind
  /\ Shell \subseteq Kind /\ Usable \subseteq Kind \ {Gil} /\ Gil \notin Rare
  /\ Capacity \in Nat /\ TradeSlots \in Nat \ {0} /\ GilCap \in Nat
  /\ CountSize \in Nat \ {0} /\ MaxCount \in Nat

VARIABLES
  play,    \* the situation of this behaviour
  here,    \* the player is in the zone
  inv,     \* by slot: the item, its quantity and what of it is reserved
  box,     \* CUContainer: type, m_lock, m_count and the slots of the inventory it points at
  pend,    \* TradePending
  fresh,   \* lastTradeInvite is less than a minute ago
  using,   \* slot of the item being used (CItemState), 0 if none
  spent,   \* it is consumed, the animation goes on
  deal,    \* an exchange under way: DoTrade in both directions
  client,  \* external: the window of each client
  news     \* external: what the client has not read yet
vars == <<play, here, inv, box, pend, fresh, using, spent, deal, client, news>>

InvSlot   == 0 .. Capacity
BoxSlot   == 0 .. TradeSlots - 1

NoItem    == [kind |-> None, qty |-> 0, res |-> 0]

\* What a character may hold: its currency in slot 0, no rare item twice, nothing reserved.
Pouch == {in \in [InvSlot -> [kind : Kind \cup {None}, qty : Nat, res : {0}]] :
  /\ in[0].kind = Gil /\ in[0].qty <= GilCap
  /\ \A s \in InvSlot : in[s].kind = None => in[s] = NoItem
  /\ \A s, t \in InvSlot : in[s].kind = in[t].kind /\ in[s].kind \in Rare => s = t}

\* Who is in the zone, what they hold, the container slots that they use, whether they
\* withdraw items, leave the zone, are busy with items and syntheses, whether a request may
\* cross another or overtake a cancellation, and the players whose identifier happens to be
\* their index in the zone.
Situation == [players : SUBSET Player, pouch : [Player -> Pouch], uses : SUBSET BoxSlot,
              withdraws : BOOLEAN, leaves : BOOLEAN, busy : BOOLEAN,
              hasty : BOOLEAN, same : SUBSET Player]
ASSUME PlayAssumption == Play \subseteq Situation

NoOffer   == [kind |-> None, qty |-> 0]
Nothing   == Capacity + 1        \* nullptr in a slot of a container
EmptyBox  == [type |-> "empty", lock |-> FALSE, count |-> 0, slot |-> [k \in BoxSlot |-> Nothing]]
NoDeal    == [from |-> None, to |-> None, k |-> 0, back |-> FALSE]

-----------------------------------------------------------------------------
(* Inventory: charutils::AddItem, UpdateItem, HasItem.                      *)

FreeSlots(in) == {s \in InvSlot \ {0} : in[s] = NoItem}
\* Mutant: the last slot is not searched.
HoldsButLast(in, kind) == \E s \in 0 .. Capacity - 1 : in[s].kind = kind /\ (s = 0 => in[s].qty > 0)

Holds(in, kind) == \E s \in InvSlot : in[s].kind = kind /\ (s = 0 => in[s].qty > 0)

First(S) == CHOOSE s \in S : \A t \in S : s <= t
AtMost(n, cap) == IF n > cap THEN cap ELSE n

\* What is refused is lost: the caller does not look at the result.
AddItem(in, kind, n) ==
  IF FreeSlots(in) = {} \/ n = 0 \/ (kind \in Rare /\ Holds(in, kind)) THEN in
  ELSE IF kind = Gil THEN [in EXCEPT ![0].qty = AtMost(@ + n, GilCap)]
  ELSE [in EXCEPT ![First(FreeSlots(in))] = [kind |-> kind, qty |-> n, res |-> 0]]

UpdateItem(in, s, n) ==
  IF in[s] = NoItem \/ in[s].qty - in[s].res < n THEN in
  ELSE IF in[s].qty = n /\ s # 0 THEN [in EXCEPT ![s] = NoItem]
  ELSE [in EXCEPT ![s].qty = @ - n]

\* Mutant: one less.
SetReserveLess(in, s, n) == [in EXCEPT ![s].res = n - 1]

SetReserve(in, s, n) == [in EXCEPT ![s].res = n]

-----------------------------------------------------------------------------
(* The container.                                                           *)

Pointed(b) == {b.slot[k] : k \in BoxSlot} \ {Nothing}
Filled(b)  == {k \in BoxSlot : b.slot[k] # Nothing}

\* CUContainer::SetItem with an item.
SetItem(b, k, s) ==
  IF b.lock THEN b
  ELSE [b EXCEPT !.slot = [@ EXCEPT ![k] = s],
                 !.count = IF b.slot[k] = Nothing THEN (@ + 1) % CountSize ELSE @]

\* CUContainer::ClearSlot: neither the lock nor the counter is looked at.
ClearSlot(b, k) == [b EXCEPT !.slot = [@ EXCEPT ![k] = Nothing]]

SetType(b, type) == IF b.type = "empty" THEN [b EXCEPT !.type = type] ELSE b

\* The inventory of a player whose container is cleaned.
Unreserved(in, b) ==
  IF b.type = "trade" THEN [s \in InvSlot |-> IF s \in Pointed(b) THEN [in[s] EXCEPT !.res = 0] ELSE in[s]]
  ELSE in

\* Mutant: a container that holds nothing is left alone.
CleanFilled(P) ==
  /\ box' = [p \in Player |-> IF p \in P /\ box[p].count > 0 THEN EmptyBox ELSE box[p]]
  /\ inv' = [p \in Player |-> IF p \in P THEN Unreserved(inv[p], box[p]) ELSE inv[p]]

Clean(P) ==
  /\ box' = [p \in Player |-> IF p \in P THEN EmptyBox ELSE box[p]]
  /\ inv' = [p \in Player |-> IF p \in P THEN Unreserved(inv[p], box[p]) ELSE inv[p]]

CleanTradeTargets(P) == pend' = [p \in Player |-> IF p \in P THEN None ELSE pend[p]]

\* TradePending.resolve
Found(p) == pend[p] # None /\ here[pend[p]]
\* Mutant: the other side is not asked.
MutualNot(p) == Found(p)
Mutual(p) == Found(p) /\ pend[pend[p]] = p
\* A packet of a player that is there; a handler ends before the next one.
Acts(p) == here[p] /\ deal = NoDeal

Trading(p) == box[p].type = "trade"
\* Mutant: only the use of an item counts.
TypeEmptyUse(p) == box[p].type # "use"
TypeEmpty(p) == box[p].type = "empty"

Offer(p) == [k \in BoxSlot |->
  LET s == box[p].slot[k] IN
  IF s = Nothing \/ inv[p][s].res = 0 THEN NoOffer ELSE [kind |-> inv[p][s].kind, qty |-> inv[p][s].res]]

-----------------------------------------------------------------------------
(* Packets to the clients, read all at once: a datagram carries the list.   *)

Tell(P, win) == news' = [p \in Player |-> IF p \in P THEN win ELSE news[p]]

\* 0x023: the other side changed a slot, which also takes back the confirmation.
TellChange(q) == news' = [news EXCEPT ![q] = IF @ = "same" THEN "changed" ELSE @]

ClientDoes(p, win) == client' = [client EXCEPT ![p] = win]

Read(p) ==
  /\ Acts(p) /\ news[p] # "same"
  /\ client' = [client EXCEPT ![p] =
       CASE news[p] \in {"closed", "asked"}       -> news[p]
         [] news[p] = "open" /\ @ = "waiting"     -> "open"
         [] news[p] = "changed" /\ @ = "ok"       -> "open"
         [] OTHER                                 -> @]
  /\ news' = [news EXCEPT ![p] = "same"]
  /\ UNCHANGED <<play, here, inv, box, pend, fresh, using, spent, deal>>

AllRead == \A p \in Player : here[p] => news[p] = "same"

-----------------------------------------------------------------------------
(* 0x032: p asks q for a trade.                                             *)

TradeReq(p, q) ==
  /\ Acts(p) /\ here[q] /\ p # q /\ client[p] = "closed"
  /\ IF play.hasty THEN news[p] \in {"same", "asked"} ELSE news[p] = "same" /\ news[q] # "closed"
  /\ ClientDoes(p, "waiting")
  /\ \/ \* prison, synthesis, /blockaid, or the container or the last invitation of q
        /\ Tell({p}, "closed")
        /\ UNCHANGED <<pend, fresh>>
     \/ pend[q] = p /\ UNCHANGED <<pend, fresh, news>>
     \/ /\ pend[q] # p /\ TypeEmpty(q) /\ (pend[q] = None \/ ~fresh[q])
        /\ IF pend[p] \in play.same /\ here[pend[p]]
           THEN CleanTradeTargets({p, pend[p]}) /\ Tell({p, pend[p]}, "closed") /\ UNCHANGED fresh
           ELSE /\ pend' = [pend EXCEPT ![p] = q, ![q] = p]
                /\ fresh' = [fresh EXCEPT ![p] = TRUE, ![q] = TRUE]
                /\ Tell({q}, "asked")
  /\ UNCHANGED <<play, here, inv, box, using, spent, deal>>

\* A minute is long against the reading of a datagram.
Age(p) ==
  /\ deal = NoDeal /\ fresh[p] /\ AllRead
  /\ fresh' = [fresh EXCEPT ![p] = FALSE]
  /\ UNCHANGED <<play, here, inv, box, pend, using, spent, deal, client, news>>

-----------------------------------------------------------------------------
(* 0x033.                                                                   *)

\* A packet that finds no trade target changes nothing on the server.
Ignored == UNCHANGED <<inv, box, pend, news>>

TradeStart(p) ==
  /\ Acts(p) /\ client[p] = "asked"
  /\ ClientDoes(p, "waiting")
  /\ IF ~Mutual(p) THEN Ignored
     ELSE LET q == pend[p] IN
       \/ /\ TypeEmpty(p) /\ TypeEmpty(q)
          /\ box' = [box EXCEPT ![p] = SetType(@, "trade"), ![q] = SetType(@, "trade")]
          /\ Tell({p, q}, "open")
          /\ UNCHANGED <<inv, pend>>
       \/ \* a container in use, too far apart, or not in the same residence
          CleanTradeTargets({p, q}) /\ UNCHANGED <<inv, box, news>>
  /\ UNCHANGED <<play, here, fresh, using, spent, deal>>

TradeCancell(p) ==
  /\ Acts(p) /\ client[p] # "closed"
  /\ ClientDoes(p, "closed")
  /\ IF ~Mutual(p) THEN news' = [news EXCEPT ![p] = "same"] /\ UNCHANGED <<inv, box, pend>>
     ELSE LET q == pend[p] IN
       /\ Clean({r \in {p, q} : Trading(r)})
       /\ CleanTradeTargets({p, q})
       /\ news' = [news EXCEPT ![p] = "same", ![q] = "closed"]
  /\ UNCHANGED <<play, here, fresh, using, spent, deal>>

\* Mutant: one slot too few.
CanTradeTight(p, q) ==
  /\ Cardinality(FreeSlots(inv[q])) + 1 >= box[p].count
  /\ \A k \in Filled(box[p]) : inv[p][box[p].slot[k]].kind \in Rare
                                 => ~Holds(inv[q], inv[p][box[p].slot[k]].kind)

CanTrade(p, q) ==
  /\ Cardinality(FreeSlots(inv[q])) >= box[p].count
  /\ \A k \in Filled(box[p]) : inv[p][box[p].slot[k]].kind \in Rare
                                 => ~Holds(inv[q], inv[p][box[p].slot[k]].kind)

TradeMake(p) ==
  /\ Acts(p) /\ client[p] = "open"
  /\ ClientDoes(p, "ok")
  /\ IF ~Mutual(p) THEN Ignored /\ UNCHANGED deal
     ELSE LET q == pend[p] IN
       \/ /\ ~box[q].lock
          /\ box' = [box EXCEPT ![p].lock = TRUE]
                  /\ UNCHANGED <<inv, pend, news, deal>>
       \/ /\ box[q].lock /\ CanTrade(p, q) /\ CanTrade(q, p)
          /\ box' = [box EXCEPT ![p].lock = TRUE]
                  /\ deal' = [from |-> p, to |-> q, k |-> 0, back |-> FALSE]
          /\ UNCHANGED <<inv, pend, news>>
       \/ /\ box[q].lock /\ ~(CanTrade(p, q) /\ CanTrade(q, p))
          /\ Clean({p, q}) /\ CleanTradeTargets({p, q}) /\ Tell({p, q}, "closed")
          /\ UNCHANGED deal
  /\ UNCHANGED <<play, here, fresh, using, spent>>

(* charutils::DoTrade, one slot of a container at a time, from the player   *)
(* that confirmed last to the other and then back.  Nothing comes between.  *)
DoTrade ==
  LET p == deal.from
      q == deal.to
      s == box[p].slot[deal.k]
      item == inv[p][s]
  IN
  /\ deal # NoDeal /\ deal.k < TradeSlots
  /\ IF s = Nothing THEN UNCHANGED <<inv, box>>
     ELSE /\ inv' = [inv EXCEPT ![q] = AddItem(@, item.kind, item.res),
                                ![p] = UpdateItem(SetReserve(@, s, 0), s, item.res)]
          /\ box' = [box EXCEPT ![p] = ClearSlot(@, deal.k)]
  /\ deal' = IF deal.k + 1 < TradeSlots THEN [deal EXCEPT !.k = @ + 1]
             ELSE IF deal.back THEN [deal EXCEPT !.k = TradeSlots]
             ELSE [from |-> q, to |-> p, k |-> 0, back |-> TRUE]
  /\ UNCHANGED <<play, here, pend, fresh, using, spent, client, news>>

\* The end of 0x033 after both directions.
TradeEnd ==
  /\ deal.k = TradeSlots
  /\ LET P == {deal.from, deal.to} IN
       Clean(P) /\ CleanTradeTargets(P) /\ Tell(P, "closed")
  /\ deal' = NoDeal
  /\ UNCHANGED <<play, here, fresh, using, spent, client>>

-----------------------------------------------------------------------------
(* 0x034: p puts n of the item in slot s into slot k; none to withdraw it.  *)

\* The item is locked while it is being used, until it is consumed.
Locked(p, s) == s # 0 /\ s = using[p] /\ ~spent[p]

\* Mutant: what is reserved already is not counted.
OfferableAgain(item, n) == item.kind \notin Exclusive /\ n <= item.qty

Offerable(item, n) == item.kind \notin Exclusive /\ n + item.res <= item.qty

TradeList(p, k, s, n) ==
  LET q     == pend[p]
      old   == box[p].slot[k]
      in1   == IF old = Nothing THEN inv[p] ELSE SetReserve(inv[p], old, 0)
      box1  == IF old = Nothing THEN box[p] ELSE ClearSlot(box[p], k)
      item  == in1[s]
      res   == IF n = 0 THEN 0 ELSE item.res + n
  IN
  IF ~Mutual(p) THEN UNCHANGED <<inv, box, news>>
  ELSE IF item = NoItem \/ ~Offerable(item, n) \/ Locked(p, s)
  THEN /\ inv' = [inv EXCEPT ![p] = in1]
       /\ box' = [box EXCEPT ![p] = box1]
       /\ UNCHANGED news
  ELSE \/ /\ inv' = [inv EXCEPT ![p] = SetReserve(in1, s, res)]
          /\ box' = [box EXCEPT ![p] = [SetItem(box1, k, s) EXCEPT !.lock = FALSE], ![q].lock = FALSE]
          /\ TellChange(q)
       \/ \* a linkshell that is not worn; the slot has been emptied
          /\ item.kind \in Shell
          /\ inv' = [inv EXCEPT ![p] = SetReserve(in1, s, 0)]
          /\ box' = [box EXCEPT ![p] = [box1 EXCEPT !.lock = FALSE], ![q].lock = FALSE]
          /\ TellChange(q)

\* The client puts an item into a slot that it shows empty.
Put(p, k, s, n) ==
  /\ Acts(p) /\ client[p] = "open" /\ box[p].count < MaxCount /\ k \in play.uses
  /\ Offer(p)[k] = NoOffer /\ \A j \in BoxSlot : box[p].slot[j] = s => j = k \/ Offer(p)[j] = NoOffer
  /\ n \in 1 .. inv[p][s].qty
  /\ TradeList(p, k, s, n)
  /\ UNCHANGED <<play, here, pend, fresh, using, spent, deal, client>>

\* The client takes an item back that it shows in a slot.
Withdraw(p, k) ==
  /\ play.withdraws /\ Acts(p) /\ client[p] = "open" /\ box[p].count < MaxCount
  /\ Offer(p)[k] # NoOffer
  /\ TradeList(p, k, box[p].slot[k], 0)
  /\ UNCHANGED <<play, here, pend, fresh, using, spent, deal, client>>

-----------------------------------------------------------------------------
(* What else touches the container and the reservations.                    *)

Outside(p) == Acts(p) /\ client[p] \in {"closed", "waiting"}

\* 0x037 and CItemState::init
UseItem(p, s) ==
  /\ play.busy /\ Outside(p) /\ inv[p][s].kind \in Usable
  /\ inv[p][s].res = 0 /\ box[p].type # "use" /\ using[p] = 0
  /\ using' = [using EXCEPT ![p] = s]
  /\ box' = [box EXCEPT ![p] = SetItem(SetType(@, "use"), 0, s)]
  /\ UNCHANGED <<play, here, inv, pend, fresh, spent, deal, client, news>>

\* The end of the cast: one is consumed, what is left can be traded.  The container is left as it is.
FinishItem(p) ==
  /\ Acts(p) /\ using[p] # 0 /\ ~spent[p]
  /\ inv' = [inv EXCEPT ![p] = UpdateItem(@, using[p], 1)]
  /\ spent' = [spent EXCEPT ![p] = TRUE]
  /\ UNCHANGED <<play, here, box, pend, fresh, using, deal, client, news>>

\* Mutant: the container is left as it was.
CleanupLeaves(p) ==
  /\ Acts(p) /\ using[p] # 0
  /\ inv' = [inv EXCEPT ![p] = Unreserved(@, box[p])]
  /\ using' = [using EXCEPT ![p] = 0]
  /\ spent' = [spent EXCEPT ![p] = FALSE]
  /\ UNCHANGED <<play, here, box, pend, fresh, deal, client, news>>

\* CItemState::Cleanup, when the animation is over or the use was interrupted or failed.
Cleanup(p) ==
  /\ Acts(p) /\ using[p] # 0
  /\ Clean({p})
  /\ using' = [using EXCEPT ![p] = 0]
  /\ spent' = [spent EXCEPT ![p] = FALSE]
  /\ UNCHANGED <<play, here, pend, fresh, deal, client, news>>

\* 0x096: a synthesis calls off the trade.  What it does to items is Discard.
CombineAsk(p) ==
  LET found  == Found(p)
      Others == IF found THEN {pend[p]} ELSE {} IN
  /\ play.busy /\ Outside(p)
  /\ IF TypeEmpty(p)
     THEN /\ CleanTradeTargets(IF found THEN {p, pend[p]} ELSE {})
          /\ UNCHANGED <<inv, box, news>>
     ELSE /\ CleanTradeTargets({p} \cup Others)
          /\ Clean({p} \cup Others)
          /\ Tell(IF found THEN {p, pend[p]} ELSE {}, "closed")
  /\ UNCHANGED <<play, here, fresh, using, spent, deal, client>>

\* 0x028
Discard(p, s, n) ==
  /\ Outside(p) /\ s # 0 /\ ~Locked(p, s) /\ inv[p][s] # NoItem
  /\ n <= inv[p][s].qty - inv[p][s].res
  /\ inv' = [inv EXCEPT ![p] = UpdateItem(@, s, n)]
  /\ UNCHANGED <<play, here, box, pend, fresh, using, spent, deal, client, news>>

\* charutils::removeCharFromZone; the entity goes, its items are saved.
LeaveZone(p) ==
  /\ play.leaves /\ Acts(p)
  /\ here' = [here EXCEPT ![p] = FALSE]
  /\ pend' = [pend EXCEPT ![p] = None]
  /\ inv' = [inv EXCEPT ![p] = [s \in InvSlot |-> [@[s] EXCEPT !.res = 0]]]
  /\ box' = [box EXCEPT ![p] = EmptyBox]
  /\ using' = [using EXCEPT ![p] = 0]
  /\ spent' = [spent EXCEPT ![p] = FALSE]
  /\ fresh' = [fresh EXCEPT ![p] = FALSE]
  /\ client' = [client EXCEPT ![p] = "closed"]
  /\ news' = [news EXCEPT ![p] = "same"]
  /\ UNCHANGED <<play, deal>>

EnterZone(p) ==
  /\ deal = NoDeal /\ ~here[p] /\ p \in play.players
  /\ here' = [here EXCEPT ![p] = TRUE]
  /\ UNCHANGED <<play, inv, box, pend, fresh, using, spent, deal, client, news>>

-----------------------------------------------------------------------------
Init ==
  /\ play \in Play
  /\ here = [p \in Player |-> p \in play.players]
  /\ inv = play.pouch
  /\ box = [p \in Player |-> EmptyBox]
  /\ pend = [p \in Player |-> None]
  /\ fresh = [p \in Player |-> FALSE]
  /\ using = [p \in Player |-> 0]
  /\ spent = [p \in Player |-> FALSE]
  /\ deal = NoDeal
  /\ client = [p \in Player |-> "closed"]
  /\ news = [p \in Player |-> "same"]

Step(p) ==
  \/ Read(p) \/ Age(p) \/ TradeStart(p) \/ TradeCancell(p) \/ TradeMake(p)
  \/ \E q \in Player : TradeReq(p, q)
  \/ \E k \in BoxSlot, s \in InvSlot : \E n \in 1 .. inv[p][s].qty : Put(p, k, s, n)
  \/ \E k \in BoxSlot : Withdraw(p, k)
  \/ \E s \in InvSlot : UseItem(p, s)
  \/ FinishItem(p) \/ Cleanup(p) \/ CombineAsk(p)
  \/ \E s \in InvSlot : \E n \in 1 .. inv[p][s].qty : Discard(p, s, n)
  \/ LeaveZone(p) \/ EnterZone(p)

Next ==
  \/ DoTrade \/ TradeEnd
  \/ \E p \in Player : Step(p)

Spec == Init /\ [][Next]_vars

-----------------------------------------------------------------------------
TypeOK ==
  /\ play \in Play
  /\ here \in [Player -> BOOLEAN] /\ fresh \in [Player -> BOOLEAN]
  /\ pend \in [Player -> Player \cup {None}]
  /\ using \in [Player -> InvSlot] /\ spent \in [Player -> BOOLEAN]
  /\ box \in [Player -> [type : {"empty", "trade", "use"}, lock : BOOLEAN, count : 0 .. CountSize - 1,
                         slot : [BoxSlot -> InvSlot \cup {Nothing}]]]
  /\ inv \in [Player -> [InvSlot -> [kind : Kind \cup {None}, qty : Nat, res : Nat]]]
  /\ deal \in [from : Player \cup {None}, to : Player \cup {None}, k : 0 .. TradeSlots, back : BOOLEAN]
  /\ client \in [Player -> {"closed", "waiting", "asked", "open", "ok"}]
  /\ news \in [Player -> {"same", "changed", "closed", "asked", "open"}]

\* A slot of a container points at an item that is there.
SlotsHoldItems == \A p \in Player : \A s \in Pointed(box[p]) : inv[p][s] # NoItem

\* If nobody takes an item back, a slot points at an item that is there, or at the one that its
\* owner is using: when it is consumed the container is not cleaned until the animation is over.
NoDangling == ~play.withdraws => \A p \in Player : \A s \in Pointed(box[p]) :
  inv[p][s] # NoItem \/ (s = using[p] /\ spent[p])

\* No more is reserved than there is.
Backed == \A p \in Player : \A s \in InvSlot : inv[p][s].res <= inv[p][s].qty

\* A rare item is held once.
RareOnce == \A p \in Player : \A s, t \in InvSlot :
  inv[p][s].kind = inv[p][t].kind /\ inv[p][s].kind \in Rare => s = t

\* Nobody leaves or crafts, and the target that a request replaces is not looked up by a number
\* that is another player's.
Undisturbed == ~play.leaves /\ ~play.busy /\ play.same = {}

\* Requests cross only between two players, undisturbed: an acceptance names nobody, it is of
\* whatever request the server holds by then.
Orderly == play.hasty => Undisturbed /\ \A p, q, r \in play.players : p = q \/ q = r \/ p = r

\* Then who is in a trade is in it with somebody who is in it with them.
Partners == Orderly /\ Undisturbed => \A p \in Player : Trading(p) => Mutual(p) /\ Trading(pend[p])

\* And a client whose window is closed is in no trade on the server.
ClosedMeansReleased == Orderly /\ Undisturbed => \A p \in Player :
  here[p] /\ client[p] = "closed" /\ news[p] = "same" => ~Trading(p)

\* Requests that are in order open a trade between two players of whom one asked and the other accepted.
NobodyDraggedIn == [][Orderly => \A p \in Player : ~Trading(p) /\ Trading(p)' => client'[p] = "waiting"]_vars

Total(iv, kind) ==
  MapThenSumSet(LAMBDA ps : IF iv[ps[1]][ps[2]].kind = kind THEN iv[ps[1]][ps[2]].qty ELSE 0,
                Player \X InvSlot)

\* The exchange moves items, it neither makes nor loses any.
Kept == [][deal # NoDeal => \A kind \in Kind : Total(inv', kind) = Total(inv, kind)]_vars
=============================================================================
