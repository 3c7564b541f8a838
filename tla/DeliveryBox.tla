----------------------------- MODULE DeliveryBox -----------------------------
(***************************************************************************)
(* The delivery box: rows of the table delivery_box that a sender and a    *)
(* receiver, each on a map server of its own, change by single statements  *)
(* and short transactions, and the container in which each server keeps    *)
(* what it has read.                                                       *)
(*                                                                         *)
(* A handler that leaves a decision between two statements takes two       *)
(* steps, and the handlers of others may come between.  Quantities do not  *)
(* matter: an item is a stack that is sent as a whole, and the statements  *)
(* that search by kind and quantity cannot tell two alike apart.           *)
(***************************************************************************)
EXTENDS Integers, FiniteSets, FiniteSetsExt

CONSTANTS
  Player, None,
  Item,          \* stacks, told apart as the statements do: by their kind and quantity
  Coin,          \* one unit of the currency, which takes no place in the inventory
  Belongings,    \* what each player holds at first
  Room,          \* of an inventory
  Visible,       \* slots of a box that are shown: 8
  MaxInflight,   \* DELIVERY_BOX_MAX_INFLIGHT
  MaxSlot,       \* bound: last slot of a queue
  Interrupted    \* handlers between whose statements those of others come

ASSUME BoxAssumption ==
  /\ None \notin Player \cup Item /\ Coin \in Item
  /\ Belongings \in [Player -> [Item -> Nat]]
  /\ Room \in Nat /\ Visible \in Nat \ {0} /\ MaxInflight \in Nat
  /\ MaxSlot \in Nat /\ Visible <= MaxSlot

ASSUME PlayersAssumption == IsFiniteSet(Player)

VARIABLES
  bag,     \* inventories
  out,     \* rows with box = 2, by charid and slot; `to` is the column senderid
  inn,     \* rows with box = 1
  view,    \* the universal container: what each player's server has read
  pc,      \* the handler of a player that is between two statements
  gone     \* history: what each player threw away
boxVars == <<bag, out, inn, view, pc, gone>>

Cell   == 0 .. Visible - 1
Queued == Visible .. MaxSlot
NoOut  == [item |-> None, to |-> None, sent |-> FALSE, received |-> FALSE]
NoIn   == [item |-> None, from |-> None]
NoCell == [item |-> None, sent |-> FALSE]
Closed == [type |-> "none", cell |-> [k \in Cell |-> NoCell]]
Idle   == [op |-> "idle", k |-> 0, item |-> None, who |-> None, slot |-> 0]

\* p is not doing anything, and no handler of another player must end first.
MayAct(p) == pc[p] = Idle /\ \A q \in Player : pc[q].op \in Interrupted \cup {"idle"}
\* The handler of p goes on.
GoesOn(p, op) == pc[p].op = op /\ \A q \in Player \ {p} : pc[q].op \in Interrupted \cup {"idle"}

Showing(p, type) == view[p].type = type
CellOf(p, k)     == view[p].cell[k]
SetCell(p, k, c) == view' = [view EXCEPT ![p].cell = [@ EXCEPT ![k] = c]]

\* charutils::AddItem, UpdateItem
Used(b)     == MapThenSumSet(LAMBDA i : b[i], Item \ {Coin})
\* Mutant: an item that is gone may be laid.
HasAlways(p, i) == TRUE
Has(p, i)     == bag[p][i] > 0
HasRoom(p, i) == i = Coin \/ Used(bag[p]) < Room
More(b, i, n) == [b EXCEPT ![i] = @ + n]
Give(p, i)  == bag' = [bag EXCEPT ![p] = More(@, i, 1)]
Take(p, i)  == bag' = [bag EXCEPT ![p] = More(@, i, -1)]

-----------------------------------------------------------------------------
(* The table.                                                               *)

\* Mutant: the queue starts among the cells.
NextSlotLow(rows) ==
  LET Taken == {s \in 0 .. MaxSlot : rows[s] # NoIn} IN
  IF Taken = {} THEN 0 ELSE Max(Taken) + 1

\* The trigger delivery_box_insert.
NextSlot(rows) ==
  LET Taken == {s \in 0 .. MaxSlot : rows[s] # NoIn} IN
  IF Taken = {} \/ Max(Taken) < Visible THEN Visible ELSE Max(Taken) + 1

Post(rows, item, from) == [rows EXCEPT ![NextSlot(rows)] = [item |-> item, from |-> from]]
Fits(q) == NextSlot(inn[q]) <= MaxSlot      \* the bound

Waiting(q) == {s \in Queued : inn[q][s] # NoIn}
\* Mutant: one more.
AtCapacityLate(q) == Cardinality(Waiting(q)) > MaxInflight
AtCapacity(q) == Cardinality(Waiting(q)) >= MaxInflight

-----------------------------------------------------------------------------
(* Opening and closing.                                                     *)

\* A client that opens a box asks for its contents at once.
Opens(p, type, cells) ==
  /\ MayAct(p) /\ view[p] = Closed
  /\ view' = [view EXCEPT ![p] = [type |-> type, cell |-> cells]]
  /\ UNCHANGED <<bag, out, inn, pc, gone>>

OpenSendBox(p) == Opens(p, "send", [k \in Cell |-> [item |-> out[p][k].item, sent |-> out[p][k].sent]])
OpenRecvBox(p) == Opens(p, "recv", [k \in Cell |-> [item |-> inn[p][k].item, sent |-> FALSE]])

\* Also what is left of the container when the player leaves.
CloseMailWindow(p) ==
  /\ MayAct(p) /\ view[p] # Closed
  /\ view' = [view EXCEPT ![p] = Closed]
  /\ UNCHANGED <<bag, out, inn, pc, gone>>

-----------------------------------------------------------------------------
(* The outgoing box.                                                        *)

\* INSERT into the own box, whose slot is a key, and charutils::UpdateItem.
AddItemsToBeSent(p, k, i, q) ==
  /\ MayAct(p) /\ Showing(p, "send") /\ CellOf(p, k) = NoCell
  /\ Has(p, i) /\ q # p /\ out[p][k] = NoOut
  /\ out' = [out EXCEPT ![p] = [@ EXCEPT ![k] = [NoOut EXCEPT !.item = i, !.to = q]]]
  /\ Take(p, i)
  /\ SetCell(p, k, [item |-> i, sent |-> FALSE])
  /\ UNCHANGED <<inn, pc, gone>>

\* The capacity is looked at before the transaction.
SendConfirmation(p, k) ==
  /\ MayAct(p) /\ Showing(p, "send") /\ CellOf(p, k) # NoCell /\ ~CellOf(p, k).sent
  /\ out[p][k] # NoOut /\ ~AtCapacity(out[p][k].to)
  /\ pc' = [pc EXCEPT ![p] = [Idle EXCEPT !.op = "send", !.k = k, !.item = CellOf(p, k).item]]
  /\ UNCHANGED <<bag, out, inn, view, gone>>

\* Mutant: the own row is not marked.
FinishSendTwice(p) ==
  LET k == pc[p].k
      q == out[p][k].to IN
  /\ GoesOn(p, "send") /\ Fits(q)
  /\ inn' = [inn EXCEPT ![q] = Post(@, pc[p].item, p)]
  /\ pc' = [pc EXCEPT ![p] = Idle]
  /\ UNCHANGED <<bag, out, view, gone>>

\* One transaction: the own row is marked, a row of the receiver inserted.
FinishSend(p) ==
  LET k == pc[p].k
      q == out[p][k].to IN
  /\ GoesOn(p, "send") /\ Fits(q)
  /\ IF out[p][k].sent THEN UNCHANGED <<out, inn, view>>
     ELSE /\ out' = [out EXCEPT ![p] = [@ EXCEPT ![k].sent = TRUE]]
          /\ inn' = [inn EXCEPT ![q] = Post(@, pc[p].item, p)]
          /\ SetCell(p, k, [CellOf(p, k) EXCEPT !.sent = TRUE])
  /\ pc' = [pc EXCEPT ![p] = Idle]
  /\ UNCHANGED <<bag, gone>>

\* The receiver's row of a parcel of p that is like i, by its kind and quantity.
Counterparts(rows, p, i) == {s \in Queued : rows[s].from = p /\ rows[s].item = i}
\* Mutant: whether it was taken into the box is not looked at.
CancellableLate(row) == row.sent
\* UPDATE ... WHERE sent = 1 AND received = 0
Cancellable(row) == row.sent /\ ~row.received

\* Without success the own row is deleted as an orphan.
CancelSendingItem(p, k) ==
  LET row  == out[p][k]
      item == CellOf(p, k).item IN
  /\ MayAct(p) /\ Showing(p, "send") /\ CellOf(p, k).sent
  /\ IF Cancellable(row)
     THEN LET S == Counterparts(inn[row.to], p, item) IN
          /\ out' = [out EXCEPT ![p] = [@ EXCEPT ![k].sent = FALSE]]
          /\ inn' = IF S = {} THEN inn ELSE [inn EXCEPT ![row.to] = [@ EXCEPT ![Min(S)] = NoIn]]
          /\ SetCell(p, k, [CellOf(p, k) EXCEPT !.sent = FALSE])
     ELSE /\ out' = [out EXCEPT ![p] = [@ EXCEPT ![k] = IF row.item = item THEN NoOut ELSE row]]
          /\ UNCHANGED <<inn, view>>
  /\ UNCHANGED <<bag, pc, gone>>

\* The first row marked as received, if the server knows that it was sent.
RemoveDeliveredItemFromSendingBox(p) ==
  LET S == {k \in Cell : out[p][k].received} IN
  /\ MayAct(p) /\ Showing(p, "send") /\ S # {}
  /\ CellOf(p, Min(S)).sent
  /\ out' = [out EXCEPT ![p] = [@ EXCEPT ![Min(S)] = NoOut]]
  /\ SetCell(p, Min(S), NoCell)
  /\ UNCHANGED <<bag, inn, pc, gone>>

-----------------------------------------------------------------------------
(* The incoming box.                                                        *)

\* The head of the queue as the snapshot of the transaction shows it.
SendNewItems(p, k) ==
  LET head == Min(Waiting(p)) IN
  /\ MayAct(p) /\ Showing(p, "recv") /\ CellOf(p, k) = NoCell /\ Waiting(p) # {}
  /\ pc' = [pc EXCEPT ![p] = [op |-> "recv", k |-> k, item |-> inn[p][head].item,
                              who |-> inn[p][head].from, slot |-> head]]
  /\ UNCHANGED <<bag, out, inn, view, gone>>

\* UPDATE ... SET received = 1, of one row of the sender that is like the item.
Marked(rows, p, i) ==
  LET S == {k \in Cell : rows[k].to = p /\ rows[k].sent /\ ~rows[k].received /\ rows[k].item = i} IN
  IF S = {} THEN rows ELSE [rows EXCEPT ![Min(S)].received = TRUE]

\* The row goes to the cell, those behind it move up by one.
Opened(rows, s, k) ==
  LET m == [rows EXCEPT ![k] = IF rows[s] = NoIn THEN @ ELSE rows[s], ![s] = NoIn] IN
  [t \in 0 .. MaxSlot |-> IF t < s THEN m[t] ELSE IF t < MaxSlot THEN m[t + 1] ELSE NoIn]

\* The updates of the transaction, on the rows as they are now; a second row in the cell
\* would violate the key and roll it back.
FinishRecv(p) ==
  LET r == pc[p] IN
  /\ GoesOn(p, "recv")
  /\ IF inn[p][r.slot] # NoIn /\ inn[p][r.k] # NoIn THEN UNCHANGED <<out, inn, view>>
     ELSE /\ out' = IF r.who = None THEN out ELSE [out EXCEPT ![r.who] = Marked(@, p, r.item)]
          /\ inn' = [inn EXCEPT ![p] = Opened(@, r.slot, r.k)]
          /\ SetCell(p, r.k, [item |-> r.item, sent |-> FALSE])
  /\ pc' = [pc EXCEPT ![p] = Idle]
  /\ UNCHANGED <<bag, gone>>

\* To whom the row names; what came from the auction house has no sender.
ReturnToSender(p, k) ==
  /\ MayAct(p) /\ Showing(p, "recv") /\ CellOf(p, k) # NoCell
  /\ inn[p][k].from # None /\ ~AtCapacity(inn[p][k].from)
  /\ pc' = [pc EXCEPT ![p] = [op |-> "return", k |-> k, item |-> CellOf(p, k).item,
                              who |-> inn[p][k].from, slot |-> 0]]
  /\ UNCHANGED <<bag, out, inn, view, gone>>

FinishReturn(p) ==
  LET r == pc[p] IN
  /\ GoesOn(p, "return") /\ Fits(r.who)
  /\ inn' = [inn EXCEPT ![p] = [@ EXCEPT ![r.k] = NoIn], ![r.who] = Post(@, r.item, p)]
  /\ SetCell(p, r.k, NoCell)
  /\ pc' = [pc EXCEPT ![p] = Idle]
  /\ UNCHANGED <<bag, out, gone>>

\* DELETE ... WHERE sent = 0
TakesBack(row) == row # NoOut /\ ~row.sent

\* From either box.  The client asks for what it shows as not sent; the item given is the
\* one in the container.
TakeItemFromCell(p, k) ==
  LET c == CellOf(p, k) IN
  /\ MayAct(p) /\ c # NoCell /\ HasRoom(p, c.item)
  /\ \/ /\ view[p].type = "send" /\ ~c.sent /\ TakesBack(out[p][k])
        /\ out' = [out EXCEPT ![p] = [@ EXCEPT ![k] = NoOut]] /\ UNCHANGED inn
     \/ /\ view[p].type = "recv" /\ inn[p][k] # NoIn
        /\ inn' = [inn EXCEPT ![p] = [@ EXCEPT ![k] = NoIn]] /\ UNCHANGED out
  /\ Give(p, c.item)
  /\ SetCell(p, k, NoCell)
  /\ UNCHANGED <<pc, gone>>

RemoveItemFromCell(p, k) ==
  /\ MayAct(p) /\ Showing(p, "recv") /\ CellOf(p, k) # NoCell /\ inn[p][k] # NoIn
  /\ inn' = [inn EXCEPT ![p] = [@ EXCEPT ![k] = NoIn]]
  /\ gone' = [gone EXCEPT ![p] = More(@, inn[p][k].item, 1)]
  /\ SetCell(p, k, NoCell)
  /\ UNCHANGED <<bag, out, pc>>

-----------------------------------------------------------------------------
BoxInit ==
  /\ bag = Belongings
  /\ out = [p \in Player |-> [k \in Cell |-> NoOut]]
  /\ inn = [p \in Player |-> [s \in 0 .. MaxSlot |-> NoIn]]
  /\ view = [p \in Player |-> Closed]
  /\ pc = [p \in Player |-> Idle]
  /\ gone = [p \in Player |-> [i \in Item |-> 0]]

BoxStep(p) ==
  \/ OpenSendBox(p) \/ OpenRecvBox(p) \/ CloseMailWindow(p)
  \/ \E k \in Cell, i \in Item, q \in Player : AddItemsToBeSent(p, k, i, q)
  \/ \E k \in Cell : SendConfirmation(p, k) \/ CancelSendingItem(p, k)
  \/ \E k \in Cell : SendNewItems(p, k) \/ ReturnToSender(p, k)
  \/ \E k \in Cell : TakeItemFromCell(p, k) \/ RemoveItemFromCell(p, k)
  \/ RemoveDeliveredItemFromSendingBox(p)
  \/ FinishSend(p) \/ FinishRecv(p) \/ FinishReturn(p)

-----------------------------------------------------------------------------
BoxTypeOK ==
  /\ bag \in [Player -> [Item -> Nat]] /\ gone \in [Player -> [Item -> Nat]]
  /\ out \in [Player -> [Cell -> [item : Item \cup {None}, to : Player \cup {None},
                                  sent : BOOLEAN, received : BOOLEAN]]]
  /\ inn \in [Player -> [0 .. MaxSlot -> [item : Item \cup {None}, from : Player \cup {None}]]]
  /\ view \in [Player -> [type : {"none", "send", "recv"}, cell : [Cell -> [item : Item \cup {None}, sent : BOOLEAN]]]]
  /\ pc \in [Player -> [op : {"idle", "send", "recv", "return"}, k : Cell,
                        item : Item \cup {None}, who : Player \cup {None}, slot : 0 .. MaxSlot]]

Outstanding(p, q, i) ==
  {k \in Cell : out[p][k].to = q /\ Cancellable(out[p][k]) /\ out[p][k].item = i}

\* A parcel that its sender may still cancel is in the queue of its receiver, so that
\* cancelling never gives back what the receiver can also open.
StillThere == \A p, q \in Player : \A i \in Item :
  Cardinality(Outstanding(p, q, i)) <= Cardinality(Counterparts(inn[q], p, i))

\* What an open box shows is what its rows hold.
ShowsRows == \A p \in Player, k \in Cell :
  Showing(p, "recv") /\ ~(pc[p].op = "recv" /\ pc[p].k = k)
    => CellOf(p, k).item = inn[p][k].item

\* The senders may overrun the limit by one each, and no further.
NearlyBounded == \A q \in Player :
  Cardinality({s \in Waiting(q) : inn[q][s].from # None}) <= MaxInflight + Cardinality(Player) - 2
=============================================================================
