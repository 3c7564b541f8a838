------------------------- MODULE DeliveryBoxProofs -------------------------
(***************************************************************************)
(* For any players, items, capacities and interleavings of the delivery    *)
(* box with the auction house: the rows, the containers and the sales keep *)
(* their types, and the senders overrun the limit of a queue by no more    *)
(* than one each.  Where the statements that open a parcel are not         *)
(* interrupted, an open box also shows its rows, and what may be called    *)
(* back is still to be opened; and where those of the search server that   *)
(* send an unsold item back are not either, delivery box and auction house *)
(* implement Parcels: every item is in one place and takes known ways.     *)
(***************************************************************************)
EXTENDS AuctionHouse, FiniteSetTheorems, WellFoundedInduction, TLAPS

Slots   == 0 .. MaxSlot
Someone == Player \cup {None}

\* The rows of the outgoing box of p: nobody sends to themselves.
OutRow(p) ==
  {NoOut} \cup {r \in [item : Item, to : Player, sent : BOOLEAN, received : BOOLEAN] : r.to # p}

\* The rows of the incoming box of q.
InRow(q) == {NoIn} \cup {r \in [item : Item, from : Someone] : r.from # q}

\* What a cell of the container shows.
Shown == {NoCell} \cup [item : Item, sent : BOOLEAN]

View    == [type : {"none", "send", "recv"}, cell : [Cell -> Shown]]
Handler == [op : {"idle", "send", "recv", "return"}, k : Cell,
            item : Item \cup {None}, who : Someone, slot : Slots]

OutOK(o) == o = [p \in Player |-> o[p]] /\ \A p \in Player : o[p] \in [Cell -> OutRow(p)]
InOK(i)  == i = [p \in Player |-> i[p]] /\ \A p \in Player : i[p] \in [Slots -> InRow(p)]

\* An open outgoing box shows the item of each row there is.
Agrees(p) ==
  view[p].type = "send" =>
    \A k \in Cell : out[p][k] # NoOut => out[p][k].item = view[p].cell[k].item

\* What a handler that is between two statements relies on.
Busy(p) ==
  /\ pc[p].op # "idle" => pc[p].item \in Item
  /\ pc[p].op = "send" =>
       /\ view[p].type = "send" /\ view[p].cell[pc[p].k] # NoCell
       /\ out[p][pc[p].k] # NoOut /\ out[p][pc[p].k].item = pc[p].item
  /\ pc[p].op = "recv" => view[p].type = "recv" /\ pc[p].slot \in Queued /\ pc[p].who # p
  /\ pc[p].op = "return" => view[p].type = "recv" /\ pc[p].who \in Player \ {p}

\* The inductive strengthening of TypeOK.
BoxInv ==
  /\ bag \in [Player -> [Item -> Nat]] /\ gone \in [Player -> [Item -> Nat]]
  /\ view \in [Player -> View] /\ pc \in [Player -> Handler]
  /\ sales \subseteq Sale /\ expiry \in [todo : SUBSET Sale, now : Sale \cup {NoSale}]
  /\ OutOK(out) /\ InOK(inn)
  /\ \A p \in Player : Agrees(p) /\ Busy(p)

-----------------------------------------------------------------------------
(* The operators on rows.                                                   *)

\* A set of numbers that is not empty has a least one.
LEMMA MinIn ==
  ASSUME NEW S \in SUBSET Nat, S # {}
  PROVE  Min(S) \in S /\ \A y \in S : Min(S) <= y
<1>1. PICK x \in S : \A y \in S : ~(<<y, x>> \in OpToRel(<, Nat))
  BY NatLessThanWellFounded, WFMin
<1>2. \A y \in S : ~(y < x)
  BY <1>1 DEF OpToRel
<1>3. \A y \in S : x \in Nat /\ y \in Nat
  BY <1>1
<1>4. \A y \in S : x <= y
  BY <1>2, <1>3
<1> QED
  BY <1>4 DEF Min

\* And one that is bounded has a largest one.
LEMMA MaxIn ==
  ASSUME NEW S \in SUBSET Slots, S # {}
  PROVE  Max(S) \in S /\ \A y \in S : y <= Max(S)
<1> USE BoxAssumption DEF Slots
<1> DEFINE T == {n \in Nat : MaxSlot - n \in S}
<1>0. \A x \in S : x \in Int /\ 0 <= x /\ x <= MaxSlot
  OBVIOUS
<1>1. T \in SUBSET Nat /\ T # {}
  <2>1. PICK x \in S : TRUE
    OBVIOUS
  <2>2. MaxSlot - x \in Nat /\ MaxSlot - (MaxSlot - x) = x
    BY <1>0
  <2> QED
    BY <2>2
<1>2. PICK n \in T : \A m \in T : n <= m
  BY <1>1, MinIn
<1>3. MaxSlot - n \in S
  OBVIOUS
<1>4. \A y \in S : y <= MaxSlot - n
  <2> TAKE y \in S
  <2>1. MaxSlot - y \in Nat /\ MaxSlot - (MaxSlot - y) = y
    BY <1>0
  <2>2. n <= MaxSlot - y
    BY <1>2, <2>1
  <2> QED
    BY <1>0, <2>2
<1>5. \A y \in S : MaxSlot - n >= y
  BY <1>0, <1>4
<1>6. Max(S) \in S /\ \A y \in S : Max(S) >= y
  BY <1>3, <1>5 DEF Max
<1> QED
  BY <1>0, <1>6

\* A parcel is posted to a free slot of the queue.
LEMMA NextIsFree ==
  ASSUME NEW q \in Player, NEW rows \in [Slots -> InRow(q)], NextSlot(rows) <= MaxSlot
  PROVE  NextSlot(rows) \in Queued /\ rows[NextSlot(rows)] = NoIn
<1> USE BoxAssumption
<1> DEFINE Taken == {s \in 0 .. MaxSlot : rows[s] # NoIn}
<1>1. NextSlot(rows) = IF Taken = {} \/ Max(Taken) < Visible THEN Visible ELSE Max(Taken) + 1
  BY DEF NextSlot
<1>2. Taken # {} => Max(Taken) \in Taken /\ \A y \in Taken : y <= Max(Taken)
  BY MaxIn DEF Slots
<1>3. Taken \in SUBSET Nat
  OBVIOUS
<1>4. CASE Taken = {}
  BY <1>1, <1>4 DEF Queued
<1>5. CASE Taken # {} /\ Max(Taken) < Visible
  <2>1. NextSlot(rows) = Visible /\ Visible \notin Taken
    BY <1>1, <1>2, <1>3, <1>5
  <2> QED
    BY <2>1 DEF Queued
<1>6. CASE Taken # {} /\ ~(Max(Taken) < Visible)
  <2>1. NextSlot(rows) = Max(Taken) + 1 /\ Max(Taken) + 1 \notin Taken /\ Max(Taken) \in Nat
    BY <1>1, <1>2, <1>3, <1>6
  <2> QED
    BY <2>1, <1>6 DEF Queued
<1> QED
  BY <1>4, <1>5, <1>6

\* Posting changes nothing else.
LEMMA PostOK ==
  ASSUME NEW q \in Player, NEW rows \in [Slots -> InRow(q)], NextSlot(rows) <= MaxSlot,
         NEW i \in Item, NEW from \in Someone \ {q}
  PROVE  /\ Post(rows, i, from) \in [Slots -> InRow(q)]
         /\ Post(rows, i, from)[NextSlot(rows)] = [item |-> i, from |-> from]
         /\ \A s \in Slots : s # NextSlot(rows) => Post(rows, i, from)[s] = rows[s]
<1>1. NextSlot(rows) \in Slots
  BY NextIsFree, BoxAssumption DEF Queued, Slots
<1>2. [item |-> i, from |-> from] \in InRow(q)
  BY DEF InRow
<1> DEFINE r == [item |-> i, from |-> from]
<1>3. r \in InRow(q)
  BY <1>2
<1> HIDE DEF r
<1>4. Post(rows, i, from) = [rows EXCEPT ![NextSlot(rows)] = r]
  BY DEF Post, r
<1> QED
  BY <1>1, <1>3, <1>4 DEF r

\* Marking a row as received changes nothing else, in one row at most.
LEMMA MarkedOK ==
  ASSUME NEW q \in Player, NEW rows \in [Cell -> OutRow(q)], NEW p, NEW i
  PROVE  /\ Marked(rows, p, i) \in [Cell -> OutRow(q)]
         /\ \A k \in Cell : /\ Marked(rows, p, i)[k].item = rows[k].item
                            /\ Marked(rows, p, i)[k].to = rows[k].to
                            /\ Marked(rows, p, i)[k] = NoOut <=> rows[k] = NoOut
<1> DEFINE S == {k \in Cell : rows[k].to = p /\ rows[k].sent /\ ~rows[k].received /\ rows[k].item = i}
<1>1. CASE S = {}
  BY <1>1 DEF Marked
<1>2. CASE S # {}
  <2>1. Min(S) \in S
    <3>1. S \in SUBSET Nat
      BY BoxAssumption DEF Cell
    <3> QED
      BY <1>2, <3>1, MinIn
  <2>2. PICK m \in Cell : m = Min(S) /\ rows[m].sent
    BY <2>1
  <2> DEFINE r == [rows[m] EXCEPT !.received = TRUE]
  <2>3. rows[m] \in OutRow(q) /\ rows[m] # NoOut
    BY <2>2 DEF NoOut
  <2>4. r \in OutRow(q) /\ r.item = rows[m].item /\ r.to = rows[m].to /\ r # NoOut
    BY <2>3, BoxAssumption DEF OutRow, NoOut
  <2> HIDE DEF r
  <2>5. Marked(rows, p, i) = [rows EXCEPT ![m] = r]
    BY <1>2, <2>2 DEF Marked, r
  <2> QED
    BY <2>3, <2>4, <2>5
<1> QED
  BY <1>1, <1>2

\* Opening a parcel keeps the rows of its receiver what they are.
LEMMA OpenedOK ==
  ASSUME NEW q \in Player, NEW rows \in [Slots -> InRow(q)], NEW s \in Queued, NEW k \in Cell
  PROVE  /\ Opened(rows, s, k) \in [Slots -> InRow(q)]
         /\ \A t \in Cell \ {k} : Opened(rows, s, k)[t] = rows[t]
         /\ Opened(rows, s, k)[k] = IF rows[s] = NoIn THEN rows[k] ELSE rows[s]
         /\ \A t \in Queued : Opened(rows, s, k)[t] =
              IF t < s THEN rows[t] ELSE IF t < MaxSlot THEN rows[t + 1] ELSE NoIn
<1> USE BoxAssumption
<1> DEFINE m == [rows EXCEPT ![k] = IF rows[s] = NoIn THEN @ ELSE rows[s], ![s] = NoIn]
<1>1. Cell \subseteq Slots /\ Queued \subseteq Slots /\ k \in Slots /\ s \in Slots /\ k # s
  BY DEF Cell, Slots, Queued
<1>2. /\ m[s] = NoIn /\ m[k] = IF rows[s] = NoIn THEN rows[k] ELSE rows[s]
      /\ \A t \in Slots \ {s, k} : m[t] = rows[t]
  BY <1>1
<1>3. \A t \in Slots : rows[t] \in InRow(q)
  OBVIOUS
<1>4. NoIn \in InRow(q)
  BY DEF InRow
<1>5. \A t \in Slots : m[t] \in InRow(q)
  BY <1>1, <1>2, <1>3, <1>4
<1> HIDE DEF m
<1>6. Opened(rows, s, k) =
        [t \in 0 .. MaxSlot |-> IF t < s THEN m[t] ELSE IF t < MaxSlot THEN m[t + 1] ELSE NoIn]
  BY DEF Opened, m
<1>7. \A t \in Slots : t < MaxSlot => t + 1 \in Slots
  BY DEF Slots
<1>8. Opened(rows, s, k) \in [Slots -> InRow(q)]
  BY <1>4, <1>5, <1>6, <1>7 DEF Slots
<1>9. \A t \in Cell : Opened(rows, s, k)[t] = m[t]
  BY <1>6 DEF Cell, Queued
<1>10. ASSUME NEW t \in Queued
       PROVE  Opened(rows, s, k)[t] =
                IF t < s THEN rows[t] ELSE IF t < MaxSlot THEN rows[t + 1] ELSE NoIn
  <2>1. t # k /\ t + 1 # k
    BY DEF Queued, Cell
  <2>2. CASE t < s
    <3>1. m[t] = rows[t]
      BY <1>1, <1>2, <2>1, <2>2 DEF Queued, Slots
    <3> QED
      BY <1>6, <2>2, <3>1 DEF Queued, Slots
  <2>3. CASE ~(t < s) /\ t < MaxSlot
    <3>1. m[t + 1] = rows[t + 1]
      BY <1>1, <1>2, <1>7, <2>1, <2>3 DEF Queued, Slots
    <3> QED
      BY <1>6, <2>3, <3>1 DEF Queued, Slots
  <2>4. CASE ~(t < s) /\ ~(t < MaxSlot)
    BY <1>6, <2>4 DEF Queued, Slots
  <2> QED
    BY <2>2, <2>3, <2>4
<1>11. \A t \in Cell \ {k} : m[t] = rows[t]
  BY <1>1, <1>2 DEF Cell, Queued
<1> QED
  BY <1>2, <1>8, <1>9, <1>10, <1>11

-----------------------------------------------------------------------------
(* What a step writes.                                                      *)

\* The rows of one player are replaced.
LEMMA OutWritten ==
  ASSUME OutOK(out), NEW p \in Player, NEW rows \in [Cell -> OutRow(p)],
         out' = [out EXCEPT ![p] = rows]
  PROVE  OutOK(out') /\ out'[p] = rows /\ \A q \in Player \ {p} : out'[q] = out[q]
BY DEF OutOK

\* The same of the incoming box.
LEMMA InWritten ==
  ASSUME InOK(inn), NEW p \in Player, NEW rows \in [Slots -> InRow(p)],
         inn' = [inn EXCEPT ![p] = rows]
  PROVE  InOK(inn') /\ inn'[p] = rows /\ \A q \in Player \ {p} : inn'[q] = inn[q]
BY DEF InOK

\* One cell of the container changes.
LEMMA CellWritten ==
  ASSUME view \in [Player -> View], NEW p \in Player, NEW k \in Cell, NEW c \in Shown, SetCell(p, k, c)
  PROVE  /\ view' \in [Player -> View]
         /\ view'[p].type = view[p].type
         /\ view'[p].cell[k] = c
         /\ \A m \in Cell \ {k} : view'[p].cell[m] = view[p].cell[m]
         /\ \A q \in Player \ {p} : view'[q] = view[q]
<1> DEFINE v == [view[p] EXCEPT !.cell = [@ EXCEPT ![k] = c]]
<1>1. view' = [view EXCEPT ![p] = v]
  BY DEF SetCell
<1>2. view[p] \in View
  OBVIOUS
<1>3. [view[p].cell EXCEPT ![k] = c] \in [Cell -> Shown]
  BY <1>2 DEF View
<1>4. v \in View /\ v.type = view[p].type /\ v.cell = [view[p].cell EXCEPT ![k] = c]
  BY <1>2, <1>3 DEF View
<1> HIDE DEF v
<1>5. view[p].cell \in [Cell -> Shown]
  BY <1>2 DEF View
<1> QED
  BY <1>1, <1>4, <1>5

\* A handler begins or ends.
LEMMA HandlerWritten ==
  ASSUME pc \in [Player -> Handler], NEW p \in Player, NEW r \in Handler, pc' = [pc EXCEPT ![p] = r]
  PROVE  pc' \in [Player -> Handler] /\ pc'[p] = r /\ \A q \in Player \ {p} : pc'[q] = pc[q]
OBVIOUS

\* An item more, of a kind there may be or not.
LEMMA MoreOK ==
  ASSUME NEW b \in [Item -> Nat], NEW i
  PROVE  /\ More(b, i, 1) \in [Item -> Nat]
         /\ i \in Item => More(b, i, 1)[i] = b[i] + 1
         /\ \A j \in Item \ {i} : More(b, i, 1)[j] = b[j]
<1>1. CASE i \in Item
  BY <1>1 DEF More
<1>2. CASE i \notin Item
  <2>1. More(b, i, 1) = b
    BY <1>2 DEF More
  <2> QED
    BY <1>2, <2>1
<1> QED
  BY <1>1, <1>2

\* An item less, if there is one.
LEMMA LessOK ==
  ASSUME NEW b \in [Item -> Nat], NEW i \in Item, b[i] > 0
  PROVE  /\ More(b, i, -1) \in [Item -> Nat]
         /\ More(b, i, -1)[i] = b[i] - 1
         /\ \A j \in Item \ {i} : More(b, i, -1)[j] = b[j]
BY DEF More

\* Such changes to one inventory.
LEMMA BagWritten ==
  ASSUME bag \in [Player -> [Item -> Nat]], NEW p \in Player
  PROVE  /\ \A i : Give(p, i) => bag' \in [Player -> [Item -> Nat]]
         /\ \A i \in Item : Has(p, i) /\ Take(p, i) => bag' \in [Player -> [Item -> Nat]]
<1>1. bag[p] \in [Item -> Nat]
  OBVIOUS
<1>2. ASSUME NEW i, Give(p, i) PROVE bag' \in [Player -> [Item -> Nat]]
  BY <1>1, <1>2, MoreOK DEF Give
<1>3. ASSUME NEW i \in Item, Has(p, i), Take(p, i) PROVE bag' \in [Player -> [Item -> Nat]]
  BY <1>1, <1>3, LessOK DEF Take, Has
<1> QED
  BY <1>2, <1>3

\* What a step does not touch of a player stays in order.
LEMMA Untouched ==
  ASSUME NEW q \in Player, Agrees(q), Busy(q),
         view'[q] = view[q], out'[q] = out[q], pc'[q] = pc[q]
  PROVE  Agrees(q)' /\ Busy(q)'
BY DEF Agrees, Busy

\* Who is idle relies on nothing.
LEMMA IdleIsFree ==
  ASSUME NEW p \in Player, pc'[p] = Idle
  PROVE  Busy(p)'
BY DEF Busy, Idle

\* The idle handler, and that of a player who may act.
LEMMA IdleHandler == Idle \in Handler /\ \A p \in Player : MayAct(p) => pc[p] = Idle
BY BoxAssumption DEF Idle, Handler, Cell, Slots, Someone, MayAct

-----------------------------------------------------------------------------
(* The steps of the delivery box.                                           *)

\* A box is opened or closed.
LEMMA ViewInv ==
  ASSUME BoxInv, NEW p \in Player, OpenSendBox(p) \/ OpenRecvBox(p) \/ CloseMailWindow(p),
         UNCHANGED <<sales, expiry>>
  PROVE  BoxInv'
<1> USE BoxAssumption
<1>0. /\ MayAct(p) /\ UNCHANGED <<bag, out, inn, pc, gone, sales, expiry>>
  BY DEF OpenSendBox, OpenRecvBox, CloseMailWindow, Opens
<1>1. pc'[p] = Idle
  BY <1>0, IdleHandler
<1>2. \A k \in Cell : out[p][k] \in OutRow(p) /\ inn[p][k] \in InRow(p)
  <2>1. out[p] \in [Cell -> OutRow(p)] /\ inn[p] \in [Slots -> InRow(p)]
    BY DEF BoxInv, OutOK, InOK
  <2>2. Cell \subseteq Slots
    BY DEF Cell, Slots
  <2> QED
    BY <2>1, <2>2
<1>3. ASSUME NEW k \in Cell
      PROVE  /\ [item |-> out[p][k].item, sent |-> out[p][k].sent] \in Shown
             /\ [item |-> inn[p][k].item, sent |-> FALSE] \in Shown
  <2>1. out[p][k] = NoOut \/ out[p][k] \in [item : Item, to : Player, sent : BOOLEAN, received : BOOLEAN]
    BY <1>2 DEF OutRow
  <2>2. ASSUME out[p][k] = NoOut
        PROVE  [item |-> out[p][k].item, sent |-> out[p][k].sent] \in Shown
    <3>1. out[p][k].item = None /\ out[p][k].sent = FALSE
      BY <2>2 DEF NoOut
    <3> QED
      BY <3>1 DEF Shown, NoCell
  <2>3. ASSUME out[p][k] \in [item : Item, to : Player, sent : BOOLEAN, received : BOOLEAN]
        PROVE  [item |-> out[p][k].item, sent |-> out[p][k].sent] \in Shown
    <3>1. out[p][k].item \in Item /\ out[p][k].sent \in BOOLEAN
      BY <2>3
    <3> QED
      BY <3>1 DEF Shown
  <2>4. [item |-> inn[p][k].item, sent |-> FALSE] \in Shown
    <3>1. inn[p][k].item \in Item \cup {None}
      BY <1>2 DEF InRow, NoIn
    <3> QED
      BY <3>1 DEF Shown, NoCell
  <2> QED
    BY <2>1, <2>2, <2>3, <2>4
<1>4. PICK v \in View : view' = [view EXCEPT ![p] = v] /\ (v.type = "send" => \A k \in Cell : v.cell[k].item = out[p][k].item)
  <2>1. CASE OpenSendBox(p)
    <3> DEFINE cells == [k \in Cell |-> [item |-> out[p][k].item, sent |-> out[p][k].sent]]
               v == [type |-> "send", cell |-> cells]
    <3>1. cells \in [Cell -> Shown] /\ \A k \in Cell : cells[k].item = out[p][k].item
      BY <1>3
    <3>2. view' = [view EXCEPT ![p] = v]
      BY <2>1 DEF OpenSendBox, Opens
    <3> HIDE DEF cells
    <3>3. v \in View
      BY <3>1 DEF View
    <3> QED
      BY <3>1, <3>2, <3>3
  <2>2. CASE OpenRecvBox(p)
    <3> DEFINE cells == [k \in Cell |-> [item |-> inn[p][k].item, sent |-> FALSE]]
               v == [type |-> "recv", cell |-> cells]
    <3>1. cells \in [Cell -> Shown]
      BY <1>3
    <3>2. view' = [view EXCEPT ![p] = v]
      BY <2>2 DEF OpenRecvBox, Opens
    <3> HIDE DEF cells
    <3>3. v \in View
      BY <3>1 DEF View
    <3> QED
      BY <3>2, <3>3
  <2>3. CASE CloseMailWindow(p)
    <3>1. Closed \in View /\ Closed.type # "send"
      BY DEF Closed, View, Shown
    <3> QED
      BY <2>3, <3>1 DEF CloseMailWindow
  <2> QED
    BY <2>1, <2>2, <2>3
<1>5. view' \in [Player -> View] /\ view'[p] = v /\ \A q \in Player \ {p} : view'[q] = view[q]
  BY <1>4 DEF BoxInv
<1>6. Agrees(p)' /\ Busy(p)'
  BY <1>0, <1>1, <1>4, <1>5, IdleIsFree DEF Agrees
<1>7. ASSUME NEW q \in Player \ {p} PROVE Agrees(q)' /\ Busy(q)'
  BY <1>0, <1>5, Untouched DEF BoxInv
<1> QED
  BY <1>0, <1>5, <1>6, <1>7 DEF BoxInv

\* An item is laid into the outgoing box.
LEMMA LayInv ==
  ASSUME BoxInv, NEW p \in Player, NEW k \in Cell, NEW i \in Item, NEW q \in Player,
         AddItemsToBeSent(p, k, i, q), UNCHANGED <<sales, expiry>>
  PROVE  BoxInv'
<1> USE BoxAssumption
<1>0. /\ MayAct(p) /\ Has(p, i) /\ Take(p, i) /\ q # p
      /\ UNCHANGED <<inn, pc, gone, sales, expiry>>
  BY DEF AddItemsToBeSent
<1>1. pc'[p] = Idle
  BY <1>0, IdleHandler
<1>2. bag' \in [Player -> [Item -> Nat]]
  BY <1>0, BagWritten DEF BoxInv
<1> DEFINE r == [NoOut EXCEPT !.item = i, !.to = q]
           c == [item |-> i, sent |-> FALSE]
<1>3. r \in OutRow(p) /\ r.item = i /\ c \in Shown /\ c.item = i
  BY <1>0 DEF OutRow, NoOut, Shown
<1>4. out' = [out EXCEPT ![p] = [out[p] EXCEPT ![k] = r]] /\ SetCell(p, k, c)
  BY DEF AddItemsToBeSent
<1> HIDE DEF r, c
<1>5. out[p] \in [Cell -> OutRow(p)]
  BY DEF BoxInv, OutOK
<1>6. [out[p] EXCEPT ![k] = r] \in [Cell -> OutRow(p)]
  BY <1>3, <1>5
<1>7. OutOK(out') /\ out'[p] = [out[p] EXCEPT ![k] = r] /\ \A x \in Player \ {p} : out'[x] = out[x]
  BY <1>4, <1>6, OutWritten DEF BoxInv
<1>8. /\ view' \in [Player -> View] /\ view'[p].type = view[p].type /\ view'[p].cell[k] = c
      /\ \A m \in Cell \ {k} : view'[p].cell[m] = view[p].cell[m]
      /\ \A x \in Player \ {p} : view'[x] = view[x]
  BY <1>3, <1>4, CellWritten DEF BoxInv
<1>9. Agrees(p)'
  <2>1. ASSUME NEW m \in Cell, view[p].type = "send", out'[p][m] # NoOut
        PROVE  out'[p][m].item = view'[p].cell[m].item
    <3>1. CASE m = k
      BY <1>3, <1>5, <1>7, <1>8, <3>1
    <3>2. CASE m # k
      BY <1>5, <1>7, <1>8, <2>1, <3>2 DEF BoxInv, Agrees
    <3> QED
      BY <3>1, <3>2
  <2> QED
    BY <1>8, <2>1 DEF Agrees
<1>10. ASSUME NEW x \in Player \ {p} PROVE Agrees(x)' /\ Busy(x)'
  BY <1>0, <1>7, <1>8, Untouched DEF BoxInv
<1>11. Busy(p)'
  BY <1>1, IdleIsFree
<1> QED
  BY <1>0, <1>2, <1>7, <1>8, <1>9, <1>10, <1>11 DEF BoxInv

\* A handler begins: it looks at the rows and has not changed anything.
LEMMA BeginInv ==
  ASSUME BoxInv, NEW p \in Player, NEW r \in Handler, r.op # "idle", r.item \in Item,
         pc' = [pc EXCEPT ![p] = r], UNCHANGED <<bag, out, inn, view, gone, sales, expiry>>,
         r.op = "send" => /\ view[p].type = "send" /\ view[p].cell[r.k] # NoCell
                          /\ out[p][r.k] # NoOut /\ out[p][r.k].item = r.item,
         r.op = "recv" => view[p].type = "recv" /\ r.slot \in Queued /\ r.who # p,
         r.op = "return" => view[p].type = "recv" /\ r.who \in Player \ {p}
  PROVE  BoxInv'
<1>1. pc' \in [Player -> Handler] /\ pc'[p] = r /\ \A q \in Player \ {p} : pc'[q] = pc[q]
  BY HandlerWritten DEF BoxInv
<1>2. Agrees(p)' /\ Busy(p)'
  BY <1>1 DEF BoxInv, Agrees, Busy
<1>3. ASSUME NEW q \in Player \ {p} PROVE Agrees(q)' /\ Busy(q)'
  BY <1>1, Untouched DEF BoxInv
<1> QED
  BY <1>1, <1>2, <1>3 DEF BoxInv

\* The first halves of sending, opening and returning.
LEMMA FirstHalfInv ==
  ASSUME BoxInv, NEW p \in Player, NEW k \in Cell,
         SendConfirmation(p, k) \/ SendNewItems(p, k) \/ ReturnToSender(p, k),
         UNCHANGED <<sales, expiry>>
  PROVE  BoxInv'
<1> USE BoxAssumption
<1>1. view[p].cell \in [Cell -> Shown]
  BY DEF BoxInv, View
<1>2. Cell \subseteq Slots /\ 0 \in Slots
  BY DEF Cell, Slots
<1>3. out[p] \in [Cell -> OutRow(p)] /\ inn[p] \in [Slots -> InRow(p)]
  BY DEF BoxInv, OutOK, InOK
<1>4. view[p].cell[k] # NoCell => view[p].cell[k].item \in Item
  BY <1>1 DEF Shown
<1>5. \A s \in Slots : inn[p][s].from \in Someone /\ inn[p][s].from # p
  BY <1>3 DEF InRow, NoIn, Someone
<1>6. CASE SendConfirmation(p, k)
  <2> DEFINE r == [Idle EXCEPT !.op = "send", !.k = k, !.item = CellOf(p, k).item]
  <2>1. /\ view[p].type = "send" /\ view[p].cell[k] # NoCell /\ out[p][k] # NoOut
        /\ pc' = [pc EXCEPT ![p] = r] /\ UNCHANGED <<bag, out, inn, view, gone>>
    BY <1>6 DEF SendConfirmation, Showing, CellOf
  <2>2. r \in Handler /\ r.op = "send" /\ r.k = k /\ r.item = view[p].cell[k].item /\ r.item \in Item
    BY <1>2, <1>4, <2>1 DEF Idle, Handler, CellOf, Someone
  <2>3. out[p][k].item = view[p].cell[k].item
    BY <2>1 DEF BoxInv, Agrees
  <2> HIDE DEF r
  <2> QED
    BY <2>1, <2>2, <2>3, BeginInv
<1>7. CASE SendNewItems(p, k)
  <2> DEFINE head == Min(Waiting(p))
             r == [op |-> "recv", k |-> k, item |-> inn[p][head].item,
                   who |-> inn[p][head].from, slot |-> head]
  <2>1. /\ view[p].type = "recv" /\ Waiting(p) # {}
        /\ pc' = [pc EXCEPT ![p] = r] /\ UNCHANGED <<bag, out, inn, view, gone>>
    BY <1>7 DEF SendNewItems, Showing
  <2>2. Waiting(p) \in SUBSET Nat
    BY DEF Waiting, Queued
  <2>3. head \in Waiting(p)
    BY <2>1, <2>2, MinIn
  <2>4. head \in Queued /\ head \in Slots /\ inn[p][head] # NoIn
    BY <2>3 DEF Waiting, Queued, Slots
  <2> HIDE DEF head
  <2>5. inn[p][head].item \in Item
    BY <1>3, <2>4 DEF InRow
  <2>6. r \in Handler /\ r.op = "recv" /\ r.item \in Item /\ r.slot \in Queued /\ r.who # p
    BY <1>5, <2>4, <2>5 DEF Handler
  <2> HIDE DEF r
  <2> QED
    BY <2>1, <2>6, BeginInv
<1>8. CASE ReturnToSender(p, k)
  <2> DEFINE r == [op |-> "return", k |-> k, item |-> CellOf(p, k).item,
                   who |-> inn[p][k].from, slot |-> 0]
  <2>1. /\ view[p].type = "recv" /\ view[p].cell[k] # NoCell /\ inn[p][k].from # None
        /\ pc' = [pc EXCEPT ![p] = r] /\ UNCHANGED <<bag, out, inn, view, gone>>
    BY <1>8 DEF ReturnToSender, Showing, CellOf
  <2>2. r \in Handler /\ r.op = "return" /\ r.item \in Item /\ r.who \in Player \ {p}
    BY <1>2, <1>4, <1>5, <2>1 DEF Handler, CellOf, Someone
  <2> HIDE DEF r
  <2> QED
    BY <2>1, <2>2, BeginInv
<1> QED
  BY <1>6, <1>7, <1>8

\* A parcel is posted to q, or to nobody.
LEMMA Posting ==
  ASSUME InOK(inn), NEW q \in Player, Fits(q), NEW i \in Item, NEW from \in Someone \ {q},
         inn' = [inn EXCEPT ![q] = Post(inn[q], i, from)]
  PROVE  /\ InOK(inn')
         /\ inn'[q] = Post(inn[q], i, from)
         /\ \A x \in Player \ {q} : inn'[x] = inn[x]
<1>1. inn[q] \in [Slots -> InRow(q)]
  BY DEF InOK
<1>2. Post(inn[q], i, from) \in [Slots -> InRow(q)]
  BY <1>1, PostOK DEF Fits
<1> QED
  BY <1>2, InWritten

\* The parcel of a sender is marked and posted.
LEMMA FinishSendInv ==
  ASSUME BoxInv, NEW p \in Player, FinishSend(p), UNCHANGED <<sales, expiry>>
  PROVE  BoxInv'
<1> USE BoxAssumption
<1> DEFINE k == pc[p].k
           q == out[p][k].to
<1>0. /\ pc[p].op = "send" /\ Fits(q) /\ pc' = [pc EXCEPT ![p] = Idle]
      /\ UNCHANGED <<bag, gone, sales, expiry>>
  BY DEF FinishSend, GoesOn
<1>1. pc' \in [Player -> Handler] /\ pc'[p] = Idle /\ \A x \in Player \ {p} : pc'[x] = pc[x]
  BY <1>0, HandlerWritten, IdleHandler DEF BoxInv
<1>2. k \in Cell /\ pc[p].item \in Item /\ out[p] \in [Cell -> OutRow(p)] /\ view[p].cell \in [Cell -> Shown]
  BY <1>0 DEF BoxInv, Handler, Busy, OutOK, View
<1>3. out[p][k] # NoOut /\ view[p].cell[k] # NoCell
  BY <1>0 DEF BoxInv, Busy
<1>4. out[p][k] \in [item : Item, to : Player, sent : BOOLEAN, received : BOOLEAN] /\ q \in Player \ {p}
  BY <1>2, <1>3 DEF OutRow
<1>5. CASE UNCHANGED <<out, inn, view>>
  <2>1. Agrees(p)' /\ Busy(p)'
    BY <1>1, <1>5, IdleIsFree DEF Agrees, BoxInv
  <2>2. ASSUME NEW x \in Player \ {p} PROVE Agrees(x)' /\ Busy(x)'
    BY <1>1, <1>5, Untouched DEF BoxInv
  <2> QED
    BY <1>0, <1>1, <1>5, <2>1, <2>2 DEF BoxInv
<1>6. CASE ~UNCHANGED <<out, inn, view>>
  <2> DEFINE r == [out[p][k] EXCEPT !.sent = TRUE]
             c == [CellOf(p, k) EXCEPT !.sent = TRUE]
  <2>1. /\ out' = [out EXCEPT ![p] = [out[p] EXCEPT ![k].sent = TRUE]]
        /\ inn' = [inn EXCEPT ![q] = Post(inn[q], pc[p].item, p)]
        /\ SetCell(p, k, c)
    BY <1>6 DEF FinishSend
  <2>2. [out[p] EXCEPT ![k].sent = TRUE] = [out[p] EXCEPT ![k] = r]
    BY <1>2
  <2>3. r \in OutRow(p) /\ r.item = out[p][k].item
    BY <1>4 DEF OutRow
  <2>4. c \in Shown /\ c.item = view[p].cell[k].item
    BY <1>2, <1>3 DEF Shown, CellOf
  <2> HIDE DEF r, c
  <2>5. [out[p] EXCEPT ![k] = r] \in [Cell -> OutRow(p)]
    BY <1>2, <2>3
  <2>6. OutOK(out') /\ out'[p] = [out[p] EXCEPT ![k] = r] /\ \A x \in Player \ {p} : out'[x] = out[x]
    BY <2>1, <2>2, <2>5, OutWritten DEF BoxInv
  <2>7. InOK(inn')
    BY <1>0, <1>2, <1>4, <2>1, Posting DEF BoxInv, Someone
  <2>8. /\ view' \in [Player -> View] /\ view'[p].type = view[p].type /\ view'[p].cell[k] = c
        /\ \A m \in Cell \ {k} : view'[p].cell[m] = view[p].cell[m]
        /\ \A x \in Player \ {p} : view'[x] = view[x]
    BY <1>2, <2>1, <2>4, CellWritten DEF BoxInv
  <2>9. Agrees(p)'
    <3>1. ASSUME NEW m \in Cell, view[p].type = "send", out'[p][m] # NoOut
          PROVE  out'[p][m].item = view'[p].cell[m].item
      <4>1. CASE m = k
        BY <1>2, <1>3, <2>3, <2>4, <2>6, <2>8, <3>1, <4>1 DEF BoxInv, Agrees
      <4>2. CASE m # k
        BY <1>2, <2>6, <2>8, <3>1, <4>2 DEF BoxInv, Agrees
      <4> QED
        BY <4>1, <4>2
    <3> QED
      BY <2>8, <3>1 DEF Agrees
  <2>10. ASSUME NEW x \in Player \ {p} PROVE Agrees(x)' /\ Busy(x)'
    BY <1>1, <2>6, <2>8, Untouched DEF BoxInv
  <2>11. Busy(p)'
    BY <1>1, IdleIsFree
  <2> QED
    BY <1>0, <1>1, <2>6, <2>7, <2>8, <2>9, <2>10, <2>11 DEF BoxInv
<1> QED
  BY <1>5, <1>6

\* The idle p changes a row of the outgoing box, and the cell with it.
LEMMA OwnRowInv ==
  ASSUME BoxInv, NEW p \in Player, NEW k \in Cell, NEW r \in OutRow(p), NEW c \in Shown,
         r # NoOut => r.item = c.item, pc[p] = Idle,
         out' = [out EXCEPT ![p] = [out[p] EXCEPT ![k] = r]], SetCell(p, k, c),
         bag' \in [Player -> [Item -> Nat]], InOK(inn'), UNCHANGED <<pc, gone, sales, expiry>>
  PROVE  BoxInv'
<1>1. out[p] \in [Cell -> OutRow(p)]
  BY DEF BoxInv, OutOK
<1>2. [out[p] EXCEPT ![k] = r] \in [Cell -> OutRow(p)]
  BY <1>1
<1>3. OutOK(out') /\ out'[p] = [out[p] EXCEPT ![k] = r] /\ \A x \in Player \ {p} : out'[x] = out[x]
  BY <1>2, OutWritten DEF BoxInv
<1>4. /\ view' \in [Player -> View] /\ view'[p].type = view[p].type /\ view'[p].cell[k] = c
      /\ \A m \in Cell \ {k} : view'[p].cell[m] = view[p].cell[m]
      /\ \A x \in Player \ {p} : view'[x] = view[x]
  BY CellWritten DEF BoxInv
<1>5. Agrees(p)'
  <2>1. ASSUME NEW m \in Cell, view[p].type = "send", out'[p][m] # NoOut
        PROVE  out'[p][m].item = view'[p].cell[m].item
    <3>1. CASE m = k
      BY <1>1, <1>3, <1>4, <2>1, <3>1
    <3>2. CASE m # k
      <4>1. out'[p][m] = out[p][m] /\ view'[p].cell[m] = view[p].cell[m]
        BY <1>1, <1>3, <1>4, <3>2
      <4>2. Agrees(p)
        BY DEF BoxInv
      <4> QED
        BY <2>1, <4>1, <4>2 DEF Agrees
    <3> QED
      BY <3>1, <3>2
  <2> QED
    BY <1>4, <2>1 DEF Agrees
<1>6. ASSUME NEW x \in Player \ {p} PROVE Agrees(x)' /\ Busy(x)'
  BY <1>3, <1>4, Untouched DEF BoxInv
<1>7. Busy(p)'
  BY IdleIsFree
<1> QED
  BY <1>3, <1>4, <1>5, <1>6, <1>7 DEF BoxInv

\* A row of an incoming box is deleted.
LEMMA RowDeleted ==
  ASSUME InOK(inn), NEW q \in Player, NEW s \in Slots, inn' = [inn EXCEPT ![q] = [inn[q] EXCEPT ![s] = NoIn]]
  PROVE  /\ InOK(inn')
         /\ inn'[q] = [inn[q] EXCEPT ![s] = NoIn]
         /\ \A x \in Player \ {q} : inn'[x] = inn[x]
<1>1. inn[q] \in [Slots -> InRow(q)]
  BY DEF InOK
<1>2. [inn[q] EXCEPT ![s] = NoIn] \in [Slots -> InRow(q)]
  BY <1>1 DEF InRow
<1> QED
  BY <1>2, InWritten

\* Some sets of slots are sets of numbers.
LEMMA SlotNumbers ==
  /\ Cell \subseteq Slots /\ Queued \subseteq Slots /\ Slots \subseteq Nat
  /\ Cell \cap Queued = {}
  /\ \A s \in Slots : s \in Cell \/ s \in Queued
BY BoxAssumption DEF Cell, Queued, Slots

\* A parcel is called back, or an orphan deleted.
LEMMA CancelInv ==
  ASSUME BoxInv, NEW p \in Player, NEW k \in Cell, CancelSendingItem(p, k), UNCHANGED <<sales, expiry>>
  PROVE  BoxInv'
<1> USE BoxAssumption
<1> DEFINE row == out[p][k]
           item == CellOf(p, k).item
<1>0. /\ MayAct(p) /\ view[p].type = "send" /\ CellOf(p, k).sent
      /\ UNCHANGED <<bag, pc, gone, sales, expiry>>
  BY DEF CancelSendingItem, Showing
<1>1. pc[p] = Idle
  BY <1>0, IdleHandler
<1>2. out[p] \in [Cell -> OutRow(p)] /\ view[p].cell \in [Cell -> Shown]
  BY DEF BoxInv, OutOK, View
<1>3. CellOf(p, k) \in [item : Item, sent : BOOLEAN]
  BY <1>0, <1>2 DEF Shown, NoCell, CellOf
<1>4. row # NoOut => row.item = item
  BY <1>0 DEF BoxInv, Agrees, CellOf
<1>5. CASE Cancellable(row)
  <2> DEFINE S == Counterparts(inn[row.to], p, item)
             r == [row EXCEPT !.sent = FALSE]
             c == [CellOf(p, k) EXCEPT !.sent = FALSE]
  <2>1. /\ out' = [out EXCEPT ![p] = [out[p] EXCEPT ![k].sent = FALSE]]
        /\ inn' = IF S = {} THEN inn ELSE [inn EXCEPT ![row.to] = [inn[row.to] EXCEPT ![Min(S)] = NoIn]]
        /\ SetCell(p, k, c)
    BY <1>5 DEF CancelSendingItem
  <2>2. [out[p] EXCEPT ![k].sent = FALSE] = [out[p] EXCEPT ![k] = r]
    BY <1>2
  <2>3. row # NoOut
    BY <1>5 DEF Cancellable, NoOut
  <2>4. row \in [item : Item, to : Player, sent : BOOLEAN, received : BOOLEAN] /\ row.to \in Player \ {p}
    BY <1>2, <2>3 DEF OutRow
  <2>5. r \in OutRow(p) /\ r.item = row.item
    BY <2>4 DEF OutRow
  <2>6. c \in Shown /\ c.item = item
    BY <1>3 DEF Shown
  <2>7. InOK(inn')
    <3>1. CASE S = {}
      BY <2>1, <3>1 DEF BoxInv
    <3>2. CASE S # {}
      <4>1. S \in SUBSET Nat /\ S \subseteq Slots
        BY SlotNumbers DEF Counterparts
      <4>2. Min(S) \in Slots
        BY <3>2, <4>1, MinIn
      <4> HIDE DEF S
      <4> QED
        BY <2>1, <2>4, <3>2, <4>2, RowDeleted DEF BoxInv
    <3> QED
      BY <3>1, <3>2
  <2> HIDE DEF r, c
  <2> QED
    BY <1>0, <1>1, <1>4, <2>1, <2>2, <2>3, <2>5, <2>6, <2>7, OwnRowInv DEF BoxInv
<1>6. CASE ~Cancellable(row)
  <2> DEFINE r == IF row.item = item THEN NoOut ELSE row
  <2>1. out' = [out EXCEPT ![p] = [out[p] EXCEPT ![k] = r]] /\ UNCHANGED <<inn, view>>
    BY <1>6 DEF CancelSendingItem
  <2>2. r \in OutRow(p) /\ (r # NoOut => r = row)
    BY <1>2 DEF OutRow
  <2> HIDE DEF r
  <2>3. [out[p] EXCEPT ![k] = r] \in [Cell -> OutRow(p)]
    BY <1>2, <2>2
  <2>4. OutOK(out') /\ out'[p] = [out[p] EXCEPT ![k] = r] /\ \A x \in Player \ {p} : out'[x] = out[x]
    BY <2>1, <2>3, OutWritten DEF BoxInv
  <2>5. Agrees(p)' /\ Busy(p)'
    BY <1>0, <1>1, <1>2, <2>1, <2>2, <2>4, IdleIsFree DEF BoxInv, Agrees
  <2>6. ASSUME NEW x \in Player \ {p} PROVE Agrees(x)' /\ Busy(x)'
    BY <1>0, <2>1, <2>4, Untouched DEF BoxInv
  <2> QED
    BY <1>0, <2>1, <2>4, <2>5, <2>6 DEF BoxInv
<1> QED
  BY <1>5, <1>6

\* What was received is taken out of the box of its sender.
LEMMA RemoveDeliveredInv ==
  ASSUME BoxInv, NEW p \in Player, RemoveDeliveredItemFromSendingBox(p), UNCHANGED <<sales, expiry>>
  PROVE  BoxInv'
<1> DEFINE S == {k \in Cell : out[p][k].received}
<1>1. /\ MayAct(p) /\ S # {} /\ out' = [out EXCEPT ![p] = [out[p] EXCEPT ![Min(S)] = NoOut]]
      /\ SetCell(p, Min(S), NoCell) /\ UNCHANGED <<bag, inn, pc, gone>>
  BY DEF RemoveDeliveredItemFromSendingBox
<1>2. S \in SUBSET Nat
  BY SlotNumbers
<1>3. Min(S) \in Cell
  BY <1>1, <1>2, MinIn
<1>4. NoOut \in OutRow(p) /\ NoCell \in Shown /\ pc[p] = Idle
  BY <1>1, IdleHandler DEF OutRow, Shown
<1> HIDE DEF S
<1> QED
  BY <1>1, <1>3, <1>4, OwnRowInv DEF BoxInv

\* The cell of an incoming box changes, at the end of a handler or by an idle player.
LEMMA InBoxInv ==
  ASSUME BoxInv, NEW p \in Player, NEW k \in Cell, NEW c \in Shown, SetCell(p, k, c),
         view[p].type # "send", pc'[p] = Idle, pc' \in [Player -> Handler],
         \A q \in Player \ {p} : pc'[q] = pc[q],
         OutOK(out'), \A q \in Player : \A m \in Cell : out'[q][m].item = out[q][m].item,
         \A q \in Player : \A m \in Cell : out'[q][m] = NoOut <=> out[q][m] = NoOut,
         InOK(inn'), bag' \in [Player -> [Item -> Nat]], gone' \in [Player -> [Item -> Nat]],
         UNCHANGED <<sales, expiry>>
  PROVE  BoxInv'
<1>1. /\ view' \in [Player -> View] /\ view'[p].type = view[p].type
      /\ \A x \in Player \ {p} : view'[x] = view[x]
  BY CellWritten DEF BoxInv
<1>2. Agrees(p)' /\ Busy(p)'
  BY <1>1, IdleIsFree DEF Agrees
<1>3. ASSUME NEW x \in Player \ {p} PROVE Agrees(x)'
  <2>1. Agrees(x) /\ view'[x] = view[x]
    BY <1>1 DEF BoxInv
  <2> QED
    BY <2>1 DEF Agrees
<1>4. ASSUME NEW x \in Player \ {p} PROVE Busy(x)'
  <2>1. Busy(x) /\ pc[x].k \in Cell
    BY DEF BoxInv, Handler
  <2> QED
    BY <1>1, <2>1 DEF Busy
<1> QED
  BY <1>1, <1>2, <1>3, <1>4 DEF BoxInv

\* A parcel is opened.
LEMMA FinishRecvInv ==
  ASSUME BoxInv, NEW p \in Player, FinishRecv(p), UNCHANGED <<sales, expiry>>
  PROVE  BoxInv'
<1> DEFINE r == pc[p]
<1>0. /\ r.op = "recv" /\ pc' = [pc EXCEPT ![p] = Idle] /\ UNCHANGED <<bag, gone, sales, expiry>>
  BY DEF FinishRecv, GoesOn
<1>1. pc' \in [Player -> Handler] /\ pc'[p] = Idle /\ \A x \in Player \ {p} : pc'[x] = pc[x]
  BY <1>0, HandlerWritten, IdleHandler DEF BoxInv
<1>2. /\ r.k \in Cell /\ r.item \in Item /\ r.slot \in Queued /\ r.who \in Someone
      /\ view[p].type = "recv" /\ inn[p] \in [Slots -> InRow(p)]
  BY <1>0 DEF BoxInv, Handler, Busy, InOK
<1>3. CASE inn[p][r.slot] # NoIn /\ inn[p][r.k] # NoIn
  <2>1. UNCHANGED <<out, inn, view>>
    BY <1>3 DEF FinishRecv
  <2>2. Agrees(p)' /\ Busy(p)'
    BY <1>1, <2>1, IdleIsFree DEF Agrees, BoxInv
  <2>3. ASSUME NEW x \in Player \ {p} PROVE Agrees(x)' /\ Busy(x)'
    BY <1>1, <2>1, Untouched DEF BoxInv
  <2> QED
    BY <1>0, <1>1, <2>1, <2>2, <2>3 DEF BoxInv
<1>4. CASE ~(inn[p][r.slot] # NoIn /\ inn[p][r.k] # NoIn)
  <2>1. /\ out' = IF r.who = None THEN out ELSE [out EXCEPT ![r.who] = Marked(out[r.who], p, r.item)]
        /\ inn' = [inn EXCEPT ![p] = Opened(inn[p], r.slot, r.k)]
        /\ SetCell(p, r.k, [item |-> r.item, sent |-> FALSE])
    BY <1>4 DEF FinishRecv
  <2>2. Opened(inn[p], r.slot, r.k) \in [Slots -> InRow(p)]
    BY <1>2, OpenedOK
  <2>3. InOK(inn')
    BY <2>1, <2>2, InWritten DEF BoxInv
  <2>4. [item |-> r.item, sent |-> FALSE] \in Shown
    BY <1>2 DEF Shown
  <2>5. /\ OutOK(out')
        /\ \A q \in Player : \A m \in Cell : out'[q][m].item = out[q][m].item
        /\ \A q \in Player : \A m \in Cell : out'[q][m] = NoOut <=> out[q][m] = NoOut
    <3>1. CASE r.who = None
      BY <2>1, <3>1 DEF BoxInv
    <3>2. CASE r.who # None
      <4>1. r.who \in Player
        BY <1>2, <3>2 DEF Someone
      <4> DEFINE w == r.who
                 rows == Marked(out[w], p, r.item)
      <4>2. out[w] \in [Cell -> OutRow(w)]
        BY <4>1 DEF BoxInv, OutOK
      <4>3. /\ rows \in [Cell -> OutRow(w)]
            /\ \A k \in Cell : rows[k].item = out[w][k].item /\ (rows[k] = NoOut <=> out[w][k] = NoOut)
        BY <4>1, <4>2, MarkedOK
      <4>4. out' = [out EXCEPT ![w] = rows]
        BY <2>1, <3>2
      <4> HIDE DEF rows
      <4>5. OutOK(out') /\ out'[w] = rows /\ \A q \in Player \ {w} : out'[q] = out[q]
        BY <4>1, <4>3, <4>4, OutWritten DEF BoxInv
      <4> QED
        BY <4>3, <4>5
    <3> QED
      BY <3>1, <3>2
  <2>6. view[p].type # "send" /\ bag' \in [Player -> [Item -> Nat]] /\ gone' \in [Player -> [Item -> Nat]]
    BY <1>0, <1>2 DEF BoxInv
  <2> QED
    BY <1>0, <1>1, <1>2, <2>1, <2>3, <2>4, <2>5, <2>6, InBoxInv
<1> QED
  BY <1>3, <1>4

\* A parcel is returned.
LEMMA FinishReturnInv ==
  ASSUME BoxInv, NEW p \in Player, FinishReturn(p), UNCHANGED <<sales, expiry>>
  PROVE  /\ BoxInv'
         /\ pc[p].who \in Player \ {p} /\ pc[p].item \in Item /\ pc[p].k \in Cell
         /\ inn'[p] = [inn[p] EXCEPT ![pc[p].k] = NoIn]
         /\ inn'[pc[p].who] = Post(inn[pc[p].who], pc[p].item, p)
         /\ \A x \in Player \ {p, pc[p].who} : inn'[x] = inn[x]
<1> DEFINE r == pc[p]
<1>0. /\ r.op = "return" /\ Fits(r.who) /\ pc' = [pc EXCEPT ![p] = Idle]
      /\ SetCell(p, r.k, NoCell) /\ UNCHANGED <<bag, out, gone, sales, expiry>>
  BY DEF FinishReturn, GoesOn
<1>1. pc' \in [Player -> Handler] /\ pc'[p] = Idle /\ \A x \in Player \ {p} : pc'[x] = pc[x]
  BY <1>0, HandlerWritten, IdleHandler DEF BoxInv
<1>2. r.k \in Cell /\ r.item \in Item /\ view[p].type = "recv" /\ r.who \in Player \ {p}
  BY <1>0 DEF BoxInv, Handler, Busy
<1> DEFINE w == r.who
           mine == [inn[p] EXCEPT ![r.k] = NoIn]
           theirs == Post(inn[w], r.item, p)
<1>3. inn' = [inn EXCEPT ![p] = mine, ![w] = theirs]
  BY <1>2 DEF FinishReturn
<1>4. inn[p] \in [Slots -> InRow(p)] /\ inn[w] \in [Slots -> InRow(w)]
  BY <1>2 DEF BoxInv, InOK
<1>5. mine \in [Slots -> InRow(p)]
  BY <1>4 DEF InRow
<1>6. theirs \in [Slots -> InRow(w)]
  BY <1>0, <1>2, <1>4, PostOK DEF Fits, Someone
<1> HIDE DEF mine, theirs
<1>7. /\ inn' = [x \in Player |-> inn'[x]] /\ inn'[p] = mine /\ inn'[w] = theirs
      /\ \A x \in Player \ {p, w} : inn'[x] = inn[x]
  BY <1>2, <1>3 DEF BoxInv, InOK
<1>8. InOK(inn')
  <2>1. ASSUME NEW x \in Player PROVE inn'[x] \in [Slots -> InRow(x)]
    BY <1>5, <1>6, <1>7 DEF BoxInv, InOK
  <2> QED
    BY <1>7, <2>1 DEF InOK
<1>9. NoCell \in Shown /\ OutOK(out') /\ bag' \in [Player -> [Item -> Nat]] /\ gone' \in [Player -> [Item -> Nat]]
  BY <1>0 DEF BoxInv, Shown
<1>10. BoxInv'
  BY <1>0, <1>1, <1>2, <1>8, <1>9, InBoxInv
<1> QED
  BY <1>2, <1>7, <1>10 DEF mine, theirs

\* An item is taken out of a box.
LEMMA TakeInv ==
  ASSUME BoxInv, NEW p \in Player, NEW k \in Cell, TakeItemFromCell(p, k), UNCHANGED <<sales, expiry>>
  PROVE  BoxInv'
<1>0. /\ MayAct(p) /\ Give(p, CellOf(p, k).item) /\ SetCell(p, k, NoCell) /\ UNCHANGED <<pc, gone>>
  BY DEF TakeItemFromCell
<1>1. pc[p] = Idle /\ NoCell \in Shown /\ NoOut \in OutRow(p) /\ k \in Slots
  BY <1>0, IdleHandler, SlotNumbers DEF Shown, OutRow
<1>2. bag' \in [Player -> [Item -> Nat]]
  BY <1>0, BagWritten DEF BoxInv
<1>3. CASE view[p].type = "send"
  <2>1. out' = [out EXCEPT ![p] = [out[p] EXCEPT ![k] = NoOut]] /\ UNCHANGED inn
    BY <1>3 DEF TakeItemFromCell
  <2> QED
    BY <1>0, <1>1, <1>2, <2>1, OwnRowInv DEF BoxInv
<1>4. CASE view[p].type # "send"
  <2>1. inn' = [inn EXCEPT ![p] = [inn[p] EXCEPT ![k] = NoIn]] /\ UNCHANGED out
    BY <1>4 DEF TakeItemFromCell
  <2>2. InOK(inn')
    BY <1>1, <2>1, RowDeleted DEF BoxInv
  <2>3. OutOK(out') /\ pc' \in [Player -> Handler] /\ gone' \in [Player -> [Item -> Nat]]
    BY <1>0, <2>1 DEF BoxInv
  <2> QED
    BY <1>0, <1>1, <1>2, <1>4, <2>1, <2>2, <2>3, InBoxInv
<1> QED
  BY <1>3, <1>4

\* An item is thrown away.
LEMMA ThrowAwayInv ==
  ASSUME BoxInv, NEW p \in Player, NEW k \in Cell, RemoveItemFromCell(p, k), UNCHANGED <<sales, expiry>>
  PROVE  BoxInv'
<1>0. /\ MayAct(p) /\ view[p].type = "recv" /\ inn' = [inn EXCEPT ![p] = [inn[p] EXCEPT ![k] = NoIn]]
      /\ gone' = [gone EXCEPT ![p] = More(gone[p], inn[p][k].item, 1)]
      /\ SetCell(p, k, NoCell) /\ UNCHANGED <<bag, out, pc>>
  BY DEF RemoveItemFromCell, Showing
<1>1. pc[p] = Idle /\ NoCell \in Shown /\ k \in Slots
  BY <1>0, IdleHandler, SlotNumbers DEF Shown
<1>2. InOK(inn')
  BY <1>0, <1>1, RowDeleted DEF BoxInv
<1>3. gone' \in [Player -> [Item -> Nat]]
  <2>1. gone[p] \in [Item -> Nat]
    BY DEF BoxInv
  <2>2. More(gone[p], inn[p][k].item, 1) \in [Item -> Nat]
    BY <2>1, MoreOK
  <2> QED
    BY <1>0, <2>2 DEF BoxInv
<1>4. OutOK(out') /\ pc' \in [Player -> Handler] /\ bag' \in [Player -> [Item -> Nat]]
  BY <1>0 DEF BoxInv
<1> QED
  BY <1>0, <1>1, <1>2, <1>3, <1>4, InBoxInv

-----------------------------------------------------------------------------
(* The steps of the auction house.                                          *)

\* The auction house does not touch the containers and the outgoing boxes.
LEMMA MarketInv ==
  ASSUME BoxInv, UNCHANGED <<out, view, pc, gone>>, bag' \in [Player -> [Item -> Nat]], InOK(inn'),
         sales' \subseteq Sale, expiry' \in [todo : SUBSET Sale, now : Sale \cup {NoSale}]
  PROVE  BoxInv'
<1>1. ASSUME NEW x \in Player PROVE Agrees(x)' /\ Busy(x)'
  BY Untouched DEF BoxInv
<1>2. OutOK(out')
  BY DEF BoxInv
<1> QED
  BY <1>1, <1>2 DEF BoxInv

\* Offering, buying and withdrawing.
LEMMA SaleInv ==
  ASSUME BoxInv, NEW p \in Player,
         (\E i \in Item : ProofOfPurchase(p, i)) \/ (\E s \in sales : PurchasingItems(p, s) \/ CancelSale(p, s))
  PROVE  BoxInv'
<1> USE BoxAssumption
<1>0. sales \subseteq Sale /\ expiry \in [todo : SUBSET Sale, now : Sale \cup {NoSale}] /\ InOK(inn)
  BY DEF BoxInv
<1>1. ASSUME NEW i \in Item, ProofOfPurchase(p, i) PROVE BoxInv'
  <2>1. /\ UNCHANGED <<out, inn, view, pc, gone, expiry>> /\ Has(p, i) /\ Take(p, i) /\ i # Coin
        /\ sales' = sales \cup {[item |-> i, seller |-> p]}
    BY <1>1 DEF ProofOfPurchase
  <2>2. bag' \in [Player -> [Item -> Nat]]
    BY <2>1, BagWritten DEF BoxInv
  <2>3. sales' \subseteq Sale
    BY <1>0, <2>1 DEF Sale
  <2> QED
    BY <1>0, <2>1, <2>2, <2>3, MarketInv
<1>2. ASSUME NEW s \in sales, PurchasingItems(p, s) PROVE BoxInv'
  <2> DEFINE b == More(More(bag[p], s.item, 1), Coin, -1)
  <2>1. /\ UNCHANGED <<out, view, pc, gone, expiry>> /\ bag[p][Coin] > 0 /\ Fits(s.seller)
        /\ inn' = [inn EXCEPT ![s.seller] = Post(inn[s.seller], Coin, None)]
        /\ bag' = [bag EXCEPT ![p] = b] /\ sales' = sales \ {s}
    BY <1>2 DEF PurchasingItems, Has
  <2>2. s.item \in Item \ {Coin} /\ s.seller \in Player
    BY <1>0 DEF Sale
  <2>3. bag[p] \in [Item -> Nat]
    BY DEF BoxInv
  <2>4. More(bag[p], s.item, 1) \in [Item -> Nat] /\ More(bag[p], s.item, 1)[Coin] = bag[p][Coin]
    <3>1. Coin \in Item \ {s.item}
      BY <2>2
    <3>2. /\ More(bag[p], s.item, 1) \in [Item -> Nat]
          /\ \A j \in Item \ {s.item} : More(bag[p], s.item, 1)[j] = bag[p][j]
      BY ONLY <2>3, MoreOK
    <3> QED
      BY <3>1, <3>2
  <2>5. b \in [Item -> Nat]
    BY <2>1, <2>4, LessOK
  <2> HIDE DEF b
  <2>6. bag' \in [Player -> [Item -> Nat]]
    BY <2>1, <2>5 DEF BoxInv
  <2>7. InOK(inn')
    BY <1>0, <2>1, <2>2, Posting DEF Someone
  <2> QED
    BY <1>0, <2>1, <2>6, <2>7, MarketInv
<1>3. ASSUME NEW s \in sales, CancelSale(p, s) PROVE BoxInv'
  <2>1. UNCHANGED <<out, inn, view, pc, gone, expiry>> /\ Give(p, s.item) /\ sales' = sales \ {s}
    BY <1>3 DEF CancelSale
  <2>2. bag' \in [Player -> [Item -> Nat]]
    BY <2>1, BagWritten DEF BoxInv
  <2> QED
    BY <1>0, <2>1, <2>2, MarketInv
<1> QED
  BY <1>1, <1>2, <1>3

\* What nobody bought is sent back.
LEMMA ExpiryInv ==
  ASSUME BoxInv, ExpireAHItems \/ StrikeOff \/ \E s \in expiry.todo : SendBack(s)
  PROVE  BoxInv'
<1> USE BoxAssumption
<1>0. sales \subseteq Sale /\ expiry \in [todo : SUBSET Sale, now : Sale \cup {NoSale}] /\ InOK(inn)
      /\ bag \in [Player -> [Item -> Nat]]
  BY DEF BoxInv
<1>1. ASSUME ExpireAHItems PROVE BoxInv'
  <2>1. PICK old \in (SUBSET sales) \ {{}} : expiry' = [todo |-> old, now |-> NoSale]
    BY <1>1 DEF ExpireAHItems
  <2>2. UNCHANGED <<bag, out, inn, view, pc, gone, sales>>
    BY <1>1 DEF ExpireAHItems, boxVars
  <2>3. expiry' \in [todo : SUBSET Sale, now : Sale \cup {NoSale}]
    BY <1>0, <2>1
  <2> QED
    BY <1>0, <2>2, <2>3, MarketInv
<1>2. ASSUME StrikeOff PROVE BoxInv'
  <2>1. /\ expiry' = [todo |-> expiry.todo \ {expiry.now}, now |-> NoSale] /\ sales' = sales \ {expiry.now}
        /\ UNCHANGED <<bag, out, inn, view, pc, gone>>
    BY <1>2 DEF StrikeOff, boxVars
  <2>2. expiry' \in [todo : SUBSET Sale, now : Sale \cup {NoSale}]
    BY <1>0, <2>1
  <2> QED
    BY <1>0, <2>1, <2>2, MarketInv
<1>3. ASSUME NEW s \in expiry.todo, SendBack(s) PROVE BoxInv'
  <2>1. /\ Fits(s.seller) /\ inn' = [inn EXCEPT ![s.seller] = Post(inn[s.seller], s.item, None)]
        /\ expiry' = [expiry EXCEPT !.now = s] /\ UNCHANGED <<bag, out, view, pc, gone, sales>>
    BY <1>3 DEF SendBack
  <2>2. s \in Sale /\ s.item \in Item /\ s.seller \in Player
    BY <1>0 DEF Sale
  <2>3. InOK(inn')
    BY <1>0, <2>1, <2>2, Posting DEF Someone
  <2>4. expiry' \in [todo : SUBSET Sale, now : Sale \cup {NoSale}]
    BY <1>0, <2>1, <2>2
  <2> QED
    BY <1>0, <2>1, <2>3, <2>4, MarketInv
<1> QED
  BY <1>1, <1>2, <1>3

-----------------------------------------------------------------------------
\* The boxes are empty at first.
LEMMA InitInv == Init => BoxInv
<1> SUFFICES ASSUME Init PROVE BoxInv
  OBVIOUS
<1> USE BoxAssumption
<1>1. /\ bag = Belongings /\ out = [p \in Player |-> [k \in Cell |-> NoOut]]
      /\ inn = [p \in Player |-> [s \in Slots |-> NoIn]] /\ view = [p \in Player |-> Closed]
      /\ pc = [p \in Player |-> Idle] /\ gone = [p \in Player |-> [i \in Item |-> 0]]
      /\ sales = {} /\ expiry = Resting
  BY DEF Init, BoxInit, Slots
<1>2. OutOK(out)
  BY <1>1 DEF OutOK, OutRow
<1>3. InOK(inn)
  BY <1>1 DEF InOK, InRow
<1>4. Closed \in View /\ Closed.type = "none"
  BY DEF Closed, View, Shown
<1>5. view \in [Player -> View] /\ \A p \in Player : Agrees(p)
  BY <1>1, <1>4 DEF Agrees
<1>6. pc \in [Player -> Handler] /\ \A p \in Player : Busy(p)
  BY <1>1, IdleHandler DEF Busy, Idle
<1>7. expiry \in [todo : SUBSET Sale, now : Sale \cup {NoSale}] /\ sales \subseteq Sale
  BY <1>1 DEF Resting
<1>8. bag \in [Player -> [Item -> Nat]] /\ gone \in [Player -> [Item -> Nat]]
  BY <1>1
<1> QED
  BY <1>2, <1>3, <1>5, <1>6, <1>7, <1>8 DEF BoxInv

\* One step of a player at the delivery box.
LEMMA BoxStepInv ==
  ASSUME BoxInv, NEW p \in Player, BoxStep(p), UNCHANGED <<sales, expiry>>
  PROVE  BoxInv'
<1>1. CASE OpenSendBox(p) \/ OpenRecvBox(p) \/ CloseMailWindow(p)
  BY <1>1, ViewInv
<1>2. CASE \E k \in Cell, i \in Item, q \in Player : AddItemsToBeSent(p, k, i, q)
  BY <1>2, LayInv
<1>3. CASE \E k \in Cell : SendConfirmation(p, k) \/ SendNewItems(p, k) \/ ReturnToSender(p, k)
  BY <1>3, FirstHalfInv
<1>4. CASE \E k \in Cell : CancelSendingItem(p, k)
  BY <1>4, CancelInv
<1>5. CASE \E k \in Cell : TakeItemFromCell(p, k)
  BY <1>5, TakeInv
<1>6. CASE \E k \in Cell : RemoveItemFromCell(p, k)
  BY <1>6, ThrowAwayInv
<1>7. CASE RemoveDeliveredItemFromSendingBox(p)
  BY <1>7, RemoveDeliveredInv
<1>8. CASE FinishSend(p)
  BY <1>8, FinishSendInv
<1>9. CASE FinishRecv(p)
  BY <1>9, FinishRecvInv
<1>10. CASE FinishReturn(p)
  BY <1>10, FinishReturnInv
<1> QED
  BY <1>1, <1>2, <1>3, <1>4, <1>5, <1>6, <1>7, <1>8, <1>9, <1>10 DEF BoxStep

\* Every step keeps the boxes in order.
LEMMA NextInv == BoxInv /\ [Next]_vars => BoxInv'
<1> SUFFICES ASSUME BoxInv, [Next]_vars PROVE BoxInv'
  OBVIOUS
<1>1. CASE UNCHANGED vars
  <2>1. UNCHANGED <<bag, out, inn, view, pc, gone, sales, expiry>>
    BY <1>1 DEF vars, boxVars
  <2> QED
    BY <2>1, MarketInv DEF BoxInv
<1>2. CASE \E p \in Player : BoxStep(p) /\ UNCHANGED <<sales, expiry>>
  BY <1>2, BoxStepInv
<1>3. CASE \E p \in Player : \/ \E i \in Item : ProofOfPurchase(p, i)
                            \/ \E s \in sales : PurchasingItems(p, s) \/ CancelSale(p, s)
  BY <1>3, SaleInv
<1>4. CASE ExpireAHItems \/ StrikeOff \/ \E s \in expiry.todo : SendBack(s)
  BY <1>4, ExpiryInv
<1> QED
  BY <1>1, <1>2, <1>3, <1>4 DEF Next

\* The invariant says what TypeOK says.
LEMMA InvTypes == BoxInv => TypeOK
<1> SUFFICES ASSUME BoxInv PROVE TypeOK
  OBVIOUS
<1> USE BoxAssumption
<1>1. \A p \in Player : OutRow(p) \subseteq [item : Item \cup {None}, to : Player \cup {None}, sent : BOOLEAN, received : BOOLEAN]
  <2> TAKE p \in Player
  <2>1. NoOut \in [item : Item \cup {None}, to : Player \cup {None}, sent : BOOLEAN, received : BOOLEAN]
    BY DEF NoOut
  <2>2. [item : Item, to : Player, sent : BOOLEAN, received : BOOLEAN]
          \subseteq [item : Item \cup {None}, to : Player \cup {None}, sent : BOOLEAN, received : BOOLEAN]
    OBVIOUS
  <2> HIDE DEF NoOut
  <2> QED
    BY <2>1, <2>2, Zenon DEF OutRow
<1>2. \A p \in Player : InRow(p) \subseteq [item : Item \cup {None}, from : Player \cup {None}]
  BY DEF InRow, NoIn, Someone
<1>3. out \in [Player -> [Cell -> [item : Item \cup {None}, to : Player \cup {None}, sent : BOOLEAN, received : BOOLEAN]]]
  BY <1>1 DEF BoxInv, OutOK
<1>4. inn \in [Player -> [0 .. MaxSlot -> [item : Item \cup {None}, from : Player \cup {None}]]]
  BY <1>2 DEF BoxInv, InOK, Slots
<1>5. Shown \subseteq [item : Item \cup {None}, sent : BOOLEAN]
  <2>1. NoCell \in [item : Item \cup {None}, sent : BOOLEAN]
    BY DEF NoCell
  <2>2. [item : Item, sent : BOOLEAN] \subseteq [item : Item \cup {None}, sent : BOOLEAN]
    OBVIOUS
  <2> QED
    BY <2>1, <2>2, Zenon DEF Shown
<1>6. View \subseteq [type : {"none", "send", "recv"}, cell : [Cell -> [item : Item \cup {None}, sent : BOOLEAN]]]
  BY <1>5 DEF View
<1>7. view \in [Player -> [type : {"none", "send", "recv"}, cell : [Cell -> [item : Item \cup {None}, sent : BOOLEAN]]]]
  BY <1>6 DEF BoxInv
<1> QED
  BY <1>3, <1>4, <1>7 DEF BoxInv, TypeOK, BoxTypeOK, Handler, Someone, Slots

\* The boxes stay in order, whatever the players and the search server do.
THEOREM BoxesInOrder == Spec => []BoxInv
BY InitInv, NextInv, PTL DEF Spec

\* The rows of the delivery box, the containers, the sales and the inventories keep their
\* types: nothing is taken from where there is nothing.
THEOREM TypeCorrect == Spec => []TypeOK
BY BoxesInOrder, InvTypes, PTL

-----------------------------------------------------------------------------
(* Counting rows.                                                           *)

\* The slots of D whose rows are of the kind C.
Hits(D, f, C) == {x \in D : f[x] \in C}
One(r, C) == IF r \in C THEN 1 ELSE 0

\* The sets that are counted are finite.
LEMMA FiniteSlots ==
  /\ IsFiniteSet(Cell) /\ IsFiniteSet(Queued)
  /\ \A S \in SUBSET Queued : IsFiniteSet(S) /\ Cardinality(S) \in Nat
  /\ \A S \in SUBSET Cell : IsFiniteSet(S) /\ Cardinality(S) \in Nat
<1>1. IsFiniteSet(Cell) /\ IsFiniteSet(Queued)
  BY FS_Interval, BoxAssumption DEF Cell, Queued
<1>2. \A D : IsFiniteSet(D) => \A S \in SUBSET D : IsFiniteSet(S) /\ Cardinality(S) \in Nat
  BY FS_Subset, FS_CardinalityType
<1> QED
  BY <1>1, <1>2

\* Two sets that differ in one element at most.
LEMMA Changed ==
  ASSUME NEW S, IsFiniteSet(S), NEW T, NEW k, T \ {k} = S \ {k}
  PROVE  /\ Cardinality(S) \in Nat /\ Cardinality(T) \in Nat
         /\ Cardinality(T) = Cardinality(S) - One(k, S) + One(k, T)
<1> DEFINE R == S \ {k}
<1>1. IsFiniteSet(R) /\ IsFiniteSet(R \cup {k}) /\ Cardinality(R) \in Nat
  BY FS_RemoveElement, FS_AddElement, FS_CardinalityType
<1>2. S = (IF k \in S THEN R \cup {k} ELSE R) /\ T = (IF k \in T THEN R \cup {k} ELSE R) /\ k \notin R
  OBVIOUS
<1> HIDE DEF R
<1>3. Cardinality(R \cup {k}) = Cardinality(R) + 1
  BY <1>1, <1>2, FS_AddElement
<1>4. Cardinality(S) = Cardinality(R) + One(k, S)
  BY <1>1, <1>2, <1>3 DEF One
<1>5. Cardinality(T) = Cardinality(R) + One(k, T)
  BY <1>1, <1>2, <1>3 DEF One
<1>6. One(k, S) \in {0, 1} /\ One(k, T) \in {0, 1}
  BY DEF One
<1> QED
  BY <1>1, <1>4, <1>5, <1>6

\* A parcel that is posted is one more of its kind.
LEMMA PostCounts ==
  ASSUME NEW q \in Player, NEW rows \in [Slots -> InRow(q)], NextSlot(rows) <= MaxSlot,
         NEW i \in Item, NEW from \in Someone \ {q}, NEW C, NoIn \notin C
  PROVE  /\ Cardinality(Hits(Queued, rows, C)) \in Nat
         /\ Cardinality(Hits(Queued, Post(rows, i, from), C))
              = Cardinality(Hits(Queued, rows, C)) + One([item |-> i, from |-> from], C)
<1> DEFINE g == Post(rows, i, from)
           n == NextSlot(rows)
           r == [item |-> i, from |-> from]
           S == Hits(Queued, rows, C)
           T == Hits(Queued, g, C)
<1>1. g[n] = r /\ \A s \in Slots : s # n => g[s] = rows[s]
  BY PostOK
<1>2. n \in Queued /\ rows[n] = NoIn
  BY NextIsFree
<1> HIDE DEF g, n, r
<1>3. \A s \in Queued \ {n} : g[s] = rows[s]
  BY <1>1, SlotNumbers
<1>4. T \ {n} = S \ {n}
  BY <1>3 DEF Hits
<1>5. IsFiniteSet(S)
  BY FiniteSlots DEF Hits
<1>6. n \notin S /\ (n \in T <=> r \in C)
  BY <1>1, <1>2 DEF Hits
<1> HIDE DEF S, T
<1>7. Cardinality(S) \in Nat /\ Cardinality(T) = Cardinality(S) - One(n, S) + One(n, T)
  BY <1>4, <1>5, Changed
<1>8. Cardinality(T) = Cardinality(S) + One(r, C)
  BY <1>6, <1>7 DEF One
<1> QED
  BY <1>7, <1>8 DEF g, r, S, T

\* A parcel that is opened leaves the queue, the others move up.
LEMMA OpenedCounts ==
  ASSUME NEW q \in Player, NEW rows \in [Slots -> InRow(q)], NEW s \in Queued, NEW k \in Cell,
         NEW C, NoIn \notin C
  PROVE  /\ Cardinality(Hits(Queued, rows, C)) \in Nat
         /\ Cardinality(Hits(Queued, Opened(rows, s, k), C)) \in Nat
         /\ Cardinality(Hits(Queued, Opened(rows, s, k), C))
              = Cardinality(Hits(Queued, rows, C)) - One(rows[s], C)
<1> USE BoxAssumption
<1> DEFINE g == Opened(rows, s, k)
           A == Hits(Queued, g, C)
           B == Hits(Queued, rows, C) \ {s}
           f == [t \in A |-> IF t < s THEN t ELSE t + 1]
<1>1. \A t \in Queued : g[t] = IF t < s THEN rows[t] ELSE IF t < MaxSlot THEN rows[t + 1] ELSE NoIn
  BY OpenedOK
<1> HIDE DEF g
<1>2. \A t \in Queued : t \in Nat /\ Visible <= t /\ t <= MaxSlot
  BY DEF Queued
<1>3. \A t \in Nat : Visible <= t /\ t <= MaxSlot => t \in Queued
  BY DEF Queued
<1>4. \A t \in A : t \in Queued /\ f[t] \in B
  <2> TAKE t \in A
  <2>1. t \in Queued /\ g[t] \in C
    BY DEF Hits
  <2>2. CASE t < s
    BY <1>1, <1>2, <2>1, <2>2 DEF Hits
  <2>3. CASE ~(t < s)
    <3>1. t < MaxSlot /\ rows[t + 1] \in C
      BY <1>1, <2>1, <2>3
    <3>2. t + 1 \in Queued /\ t + 1 # s
      BY <1>2, <1>3, <2>1, <2>3, <3>1
    <3> QED
      BY <2>1, <2>3, <3>1, <3>2 DEF Hits
  <2> QED
    BY <2>2, <2>3
<1>5. f \in [A -> B]
  BY <1>4
<1>6. ASSUME NEW t \in A, NEW u \in A, f[t] = f[u] PROVE t = u
  <2>1. t \in Nat /\ u \in Nat /\ s \in Nat
    BY <1>2, <1>4
  <2>2. f[t] = (IF t < s THEN t ELSE t + 1) /\ f[u] = (IF u < s THEN u ELSE u + 1)
    OBVIOUS
  <2> QED
    BY <1>6, <2>1, <2>2
<1>7. ASSUME NEW u \in B PROVE \E t \in A : f[t] = u
  <2>1. u \in Queued /\ rows[u] \in C /\ u # s
    BY DEF Hits
  <2>2. CASE u < s
    <3>1. u \in A
      BY <1>1, <2>1, <2>2 DEF Hits
    <3> QED
      BY <2>2, <3>1
  <2>3. CASE ~(u < s)
    <3>1. u - 1 \in Queued /\ ~(u - 1 < s) /\ u - 1 < MaxSlot /\ (u - 1) + 1 = u
      BY <1>2, <1>3, <2>1, <2>3
    <3>2. g[u - 1] = rows[u]
      BY <1>1, <3>1
    <3>3. u - 1 \in A
      BY <2>1, <3>1, <3>2 DEF Hits
    <3> QED
      BY <3>1, <3>3
  <2> QED
    BY <2>2, <2>3
<1>8. f \in Bijection(A, B)
  BY <1>5, <1>6, <1>7 DEF Bijection, Injection, Surjection, IsInjective
<1>9. A \in SUBSET Queued /\ B \in SUBSET Queued /\ Hits(Queued, rows, C) \in SUBSET Queued
  BY DEF Hits
<1>10. /\ IsFiniteSet(A) /\ Cardinality(A) \in Nat
       /\ IsFiniteSet(Hits(Queued, rows, C)) /\ Cardinality(Hits(Queued, rows, C)) \in Nat
  BY <1>9, FiniteSlots
<1>11. ExistsBijection(A, B)
  BY <1>8 DEF ExistsBijection
<1>12. Cardinality(B) = Cardinality(A)
  BY <1>10, <1>11, FS_Bijection
<1>13. Cardinality(B) = IF s \in Hits(Queued, rows, C) THEN Cardinality(Hits(Queued, rows, C)) - 1
                                                       ELSE Cardinality(Hits(Queued, rows, C))
  BY <1>10, FS_RemoveElement
<1>14. s \in Hits(Queued, rows, C) <=> rows[s] \in C
  BY DEF Hits
<1>15. Cardinality(A) = Cardinality(Hits(Queued, rows, C)) - One(rows[s], C)
  BY <1>10, <1>12, <1>13, <1>14 DEF One
<1> QED
  BY <1>10, <1>15 DEF g

-----------------------------------------------------------------------------
(* How full a queue becomes.                                                *)

\* The parcels of players in the queue of q, and the players who are about to add one.
FromPlayer == [item : Item, from : Player]
Sent(q) == Hits(Queued, inn[q], FromPlayer)
Coming(q) == {p \in Player : \/ pc[p].op = "send" /\ out[p][pc[p].k].to = q
                             \/ pc[p].op = "return" /\ pc[p].who = q}

\* Each of them looked at the queue before the others added theirs.
Pressed(q) == Cardinality(Sent(q)) + Cardinality(Coming(q)) <= MaxInflight + Cardinality(Player) - 2

\* A step adds no parcel of a player to the queue of q.
QueueCalm(q) ==
  \/ \A s \in Queued : inn'[q][s] \in {inn[q][s], NoIn}
  \/ \E s \in Queued, k \in Cell : inn'[q] = Opened(inn[q], s, k)
  \/ \E i \in Item : Fits(q) /\ inn'[q] = Post(inn[q], i, None)

\* The numbers are numbers, and nobody is about to send to themselves.
LEMMA Numbers ==
  ASSUME BoxInv, NEW q \in Player
  PROVE  /\ IsFiniteSet(Sent(q)) /\ Cardinality(Sent(q)) \in Nat
         /\ IsFiniteSet(Coming(q)) /\ Cardinality(Coming(q)) \in Nat
         /\ Cardinality(Player) \in Nat /\ Coming(q) \subseteq Player \ {q}
         /\ Cardinality(Player \ {q}) = Cardinality(Player) - 1
<1>1. IsFiniteSet(Sent(q)) /\ Cardinality(Sent(q)) \in Nat
  BY FiniteSlots DEF Sent, Hits
<1>2. Coming(q) \subseteq Player \ {q}
  <2> SUFFICES ASSUME NEW p \in Coming(q) PROVE p # q
    BY DEF Coming
  <2>1. p \in Player /\ Busy(p) /\ out[p] \in [Cell -> OutRow(p)] /\ pc[p].k \in Cell
    BY DEF Coming, BoxInv, OutOK, Handler
  <2>2. out[p][pc[p].k] # NoOut => out[p][pc[p].k].to # p
    BY <2>1 DEF OutRow
  <2> QED
    BY <2>1, <2>2 DEF Coming, Busy
<1>3. IsFiniteSet(Player) /\ Cardinality(Player) \in Nat
  BY PlayersAssumption, FS_CardinalityType
<1>4. IsFiniteSet(Coming(q)) /\ Cardinality(Coming(q)) \in Nat
  BY <1>2, <1>3, FS_Subset, FS_CardinalityType
<1>5. Cardinality(Player \ {q}) = Cardinality(Player) - 1
  BY <1>3, FS_RemoveElement
<1> QED
  BY <1>1, <1>2, <1>3, <1>4, <1>5

\* Such a step does not raise the number.
LEMMA CalmCounts ==
  ASSUME BoxInv, BoxInv', NEW q \in Player, QueueCalm(q)
  PROVE  Cardinality(Sent(q)') <= Cardinality(Sent(q))
<1>0. /\ IsFiniteSet(Sent(q)) /\ Cardinality(Sent(q)) \in Nat
      /\ inn[q] \in [Slots -> InRow(q)] /\ NoIn \notin FromPlayer
  BY Numbers, BoxAssumption DEF BoxInv, InOK, NoIn, FromPlayer
<1>1. CASE \A s \in Queued : inn'[q][s] \in {inn[q][s], NoIn}
  <2>1. Sent(q)' \subseteq Sent(q)
    BY <1>0, <1>1 DEF Sent, Hits
  <2> QED
    BY <1>0, <2>1, FS_Subset
<1>2. ASSUME NEW s \in Queued, NEW k \in Cell, inn'[q] = Opened(inn[q], s, k)
      PROVE  Cardinality(Sent(q)') <= Cardinality(Sent(q))
  <2>1. /\ Cardinality(Hits(Queued, Opened(inn[q], s, k), FromPlayer)) \in Nat
        /\ Cardinality(Hits(Queued, Opened(inn[q], s, k), FromPlayer))
              = Cardinality(Sent(q)) - One(inn[q][s], FromPlayer)
    BY <1>0, OpenedCounts DEF Sent
  <2>2. Sent(q)' = Hits(Queued, Opened(inn[q], s, k), FromPlayer)
    BY <1>2 DEF Sent
  <2>3. One(inn[q][s], FromPlayer) \in {0, 1}
    BY DEF One
  <2> QED
    BY <1>0, <2>1, <2>2, <2>3
<1>3. ASSUME NEW i \in Item, Fits(q), inn'[q] = Post(inn[q], i, None)
      PROVE  Cardinality(Sent(q)') <= Cardinality(Sent(q))
  <2>1. None \in Someone \ {q} /\ [item |-> i, from |-> None] \notin FromPlayer
    BY BoxAssumption DEF Someone, FromPlayer
  <2>2. Cardinality(Hits(Queued, Post(inn[q], i, None), FromPlayer))
          = Cardinality(Hits(Queued, inn[q], FromPlayer)) + One([item |-> i, from |-> None], FromPlayer)
    BY <1>0, <1>3, <2>1, PostCounts DEF Fits
  <2>3. Sent(q)' = Hits(Queued, Post(inn[q], i, None), FromPlayer)
    BY <1>3 DEF Sent
  <2>4. One([item |-> i, from |-> None], FromPlayer) = 0
    BY <2>1 DEF One
  <2> QED
    BY <1>0, <2>2, <2>3, <2>4 DEF Sent
<1> QED
  BY <1>1, <1>2, <1>3 DEF QueueCalm

\* A calm step, when nobody new is coming.
LEMMA CalmPressed ==
  ASSUME BoxInv, BoxInv', NEW q \in Player, Pressed(q), QueueCalm(q), Coming(q)' \subseteq Coming(q)
  PROVE  Pressed(q)'
<1>1. /\ Cardinality(Sent(q)) \in Nat /\ IsFiniteSet(Coming(q)) /\ Cardinality(Coming(q)) \in Nat
      /\ Cardinality(Player) \in Nat
  BY Numbers
<1>2. Cardinality(Sent(q)') <= Cardinality(Sent(q))
  BY CalmCounts
<1>3. Cardinality(Coming(q)') <= Cardinality(Coming(q)) /\ Cardinality(Coming(q)') \in Nat
  BY <1>1, FS_Subset, FS_CardinalityType
<1>4. Cardinality(Sent(q)') \in Nat
  BY FiniteSlots DEF Sent, Hits
<1> QED
  BY <1>1, <1>2, <1>3, <1>4, BoxAssumption DEF Pressed

\* Only p acts, and is not about to send: nobody new is coming.
LEMMA NobodyNew ==
  ASSUME NEW p \in Player, \A x \in Player \ {p} : pc'[x] = pc[x],
         \A x \in Player \ {p} : \A k \in Cell : out'[x][k].to = out[x][k].to,
         pc'[p].op \notin {"send", "return"}, pc \in [Player -> Handler], NEW q \in Player
  PROVE  Coming(q)' \subseteq Coming(q) \ {p}
<1> SUFFICES ASSUME NEW x \in Coming(q)' PROVE x \in Coming(q) /\ x # p
  OBVIOUS
<1>1. x \in Player /\ x # p
  BY DEF Coming
<1>2. pc'[x] = pc[x] /\ pc[x].k \in Cell
  BY <1>1 DEF Handler
<1>3. out'[x][pc[x].k].to = out[x][pc[x].k].to
  BY <1>1, <1>2
<1> QED
  BY <1>1, <1>2, <1>3 DEF Coming

\* p begins to send or to return to w, whose queue had room.
LEMMA BeginPressed ==
  ASSUME BoxInv, BoxInv', NEW p \in Player, UNCHANGED <<inn, out>>, NEW w \in Player, ~AtCapacity(w),
         \A x \in Player \ {p} : pc'[x] = pc[x], p \in Coming(w)', \A q \in Player \ {w} : p \notin Coming(q)',
         \A q \in Player : Pressed(q), NEW q \in Player
  PROVE  Pressed(q)'
<1>1. CASE q # w
  <2>1. Coming(q)' \subseteq Coming(q)
    <3> SUFFICES ASSUME NEW x \in Coming(q)' PROVE x \in Coming(q)
      OBVIOUS
    <3>1. x \in Player \ {p} /\ pc'[x] = pc[x]
      BY <1>1 DEF Coming
    <3> QED
      BY <3>1 DEF Coming
  <2>2. QueueCalm(q)
    BY DEF QueueCalm
  <2> QED
    BY <2>1, <2>2, CalmPressed
<1>2. CASE q = w
  <2>1. /\ Cardinality(Player) \in Nat /\ Coming(q)' \subseteq Player \ {q} /\ Cardinality(Coming(q)') \in Nat
        /\ Cardinality(Player \ {q}) = Cardinality(Player) - 1 /\ Cardinality(Sent(q)) \in Nat
    <3>1. Coming(q)' \subseteq Player \ {q} /\ Cardinality(Coming(q)') \in Nat
      <4> SUFFICES ASSUME NEW x \in Coming(q)' PROVE x \in Player \ {q}
        <5>1. IsFiniteSet(Player \ {q})
          BY PlayersAssumption, FS_Subset
        <5> QED
          BY <5>1, FS_Subset, FS_CardinalityType
      <4>1. x \in Player /\ Busy(x)' /\ out'[x] \in [Cell -> OutRow(x)] /\ pc'[x].k \in Cell
        BY DEF Coming, BoxInv, OutOK, Handler
      <4>2. out'[x][pc'[x].k] # NoOut => out'[x][pc'[x].k].to # x
        BY <4>1 DEF OutRow
      <4> QED
        BY <4>1, <4>2 DEF Coming, Busy
    <3> QED
      BY <3>1, Numbers
  <2>2. IsFiniteSet(Player \ {q})
    BY PlayersAssumption, FS_Subset
  <2>3. Cardinality(Coming(q)') <= Cardinality(Player) - 1
    BY <2>1, <2>2, FS_Subset
  <2>4. Sent(q) \subseteq Waiting(q)
    BY BoxAssumption DEF Sent, Hits, Waiting, FromPlayer, NoIn
  <2>5. Waiting(q) \in SUBSET Queued
    BY DEF Waiting
  <2>6. IsFiniteSet(Waiting(q)) /\ Cardinality(Waiting(q)) \in Nat
    BY <2>5, FiniteSlots
  <2>7. Cardinality(Sent(q)) <= Cardinality(Waiting(q))
    BY <2>4, <2>6, FS_Subset
  <2>8. Cardinality(Waiting(q)) < MaxInflight
    BY <1>2, <2>6, BoxAssumption DEF AtCapacity
  <2>9. Sent(q)' = Sent(q)
    BY DEF Sent
  <2> QED
    BY <2>1, <2>3, <2>6, <2>7, <2>8, <2>9, BoxAssumption DEF Pressed
<1> QED
  BY <1>1, <1>2

\* p posts to w, and is not coming any more.
LEMMA PostPressed ==
  ASSUME BoxInv, BoxInv', NEW w \in Player, NEW p \in Coming(w), NEW i \in Item, Fits(w),
         inn'[w] = Post(inn[w], i, p), Coming(w)' \subseteq Coming(w) \ {p}, Pressed(w)
  PROVE  Pressed(w)'
<1>1. /\ Cardinality(Sent(w)) \in Nat /\ IsFiniteSet(Coming(w)) /\ Cardinality(Coming(w)) \in Nat
      /\ Cardinality(Player) \in Nat /\ p \in Player \ {w} /\ inn[w] \in [Slots -> InRow(w)]
  BY Numbers DEF BoxInv, InOK
<1>2. p \in Someone \ {w} /\ [item |-> i, from |-> p] \in FromPlayer /\ NoIn \notin FromPlayer
  BY <1>1, BoxAssumption DEF Someone, FromPlayer, NoIn
<1>3. Cardinality(Hits(Queued, Post(inn[w], i, p), FromPlayer))
        = Cardinality(Hits(Queued, inn[w], FromPlayer)) + One([item |-> i, from |-> p], FromPlayer)
  BY <1>1, <1>2, PostCounts DEF Fits
<1>4. Sent(w)' = Hits(Queued, Post(inn[w], i, p), FromPlayer)
  BY DEF Sent
<1>5. Cardinality(Sent(w)') = Cardinality(Sent(w)) + 1
  BY <1>1, <1>2, <1>3, <1>4 DEF One, Sent
<1>6. IsFiniteSet(Coming(w) \ {p}) /\ Cardinality(Coming(w) \ {p}) = Cardinality(Coming(w)) - 1
  BY <1>1, FS_RemoveElement
<1>7. Cardinality(Coming(w)') <= Cardinality(Coming(w)) - 1 /\ Cardinality(Coming(w)') \in Nat
  BY <1>6, FS_Subset, FS_CardinalityType
<1> QED
  BY <1>1, <1>5, <1>7, BoxAssumption DEF Pressed

\* All but p go on as they did, and p is not about to add a parcel.
Quiet(p) ==
  /\ \A x \in Player \ {p} : pc'[x] = pc[x]
  /\ \A x \in Player \ {p} : \A k \in Cell : out'[x][k].to = out[x][k].to
  /\ pc'[p].op \notin {"send", "return"}

\* A step without a post of a player.
LEMMA QuietPressed ==
  ASSUME BoxInv, BoxInv', NEW p \in Player, Quiet(p), \A q \in Player : QueueCalm(q) /\ Pressed(q),
         NEW q \in Player
  PROVE  Pressed(q)'
<1>1. pc \in [Player -> Handler]
  BY DEF BoxInv
<1>2. Coming(q)' \subseteq Coming(q) \ {p}
  BY <1>1, NobodyNew DEF Quiet
<1> QED
  BY <1>2, CalmPressed

\* An idle player changes the own rows, and deletes from a queue at most.
Alone(p) ==
  /\ MayAct(p) /\ UNCHANGED pc
  /\ \A x \in Player \ {p} : out'[x] = out[x]
  /\ \A q \in Player : \A s \in Queued : inn'[q][s] \in {inn[q][s], NoIn}

\* That is a quiet step.
LEMMA AloneIsQuiet ==
  ASSUME BoxInv, NEW p \in Player, Alone(p)
  PROVE  Quiet(p) /\ \A q \in Player : QueueCalm(q)
<1>1. pc[p] = Idle /\ pc' = pc
  BY IdleHandler DEF Alone
<1>2. Quiet(p)
  BY <1>1 DEF Quiet, Idle, Alone
<1> QED
  BY <1>2 DEF QueueCalm, Alone

\* So act the players who open, close, lay, take, throw away and cancel.
LEMMA AloneSteps ==
  ASSUME BoxInv, NEW p \in Player,
         \/ OpenSendBox(p) \/ OpenRecvBox(p) \/ CloseMailWindow(p)
         \/ \E k \in Cell, i \in Item, q \in Player : AddItemsToBeSent(p, k, i, q)
         \/ \E k \in Cell : CancelSendingItem(p, k) \/ TakeItemFromCell(p, k) \/ RemoveItemFromCell(p, k)
         \/ RemoveDeliveredItemFromSendingBox(p)
  PROVE  Alone(p)
<1>0. out = [x \in Player |-> out[x]] /\ inn = [x \in Player |-> inn[x]]
  BY DEF BoxInv, OutOK, InOK
<1>1. ASSUME NEW q, NEW s, inn' = [inn EXCEPT ![q] = [inn[q] EXCEPT ![s] = NoIn]]
      PROVE  \A x \in Player : \A t \in Queued : inn'[x][t] \in {inn[x][t], NoIn}
  <2>1. \A x \in Player : inn[x] \in [Slots -> InRow(x)] /\ Queued \subseteq Slots
    BY SlotNumbers DEF BoxInv, InOK
  <2>2. \A x \in Player : x = q => inn'[x] = [inn[x] EXCEPT ![s] = NoIn]
    BY <1>0, <1>1
  <2>3. \A x \in Player : x # q => inn'[x] = inn[x]
    BY <1>0, <1>1
  <2> QED
    BY <2>1, <2>2, <2>3
<1>2. ASSUME NEW rows, out' = [out EXCEPT ![p] = rows]
      PROVE  \A x \in Player \ {p} : out'[x] = out[x]
  BY <1>0, <1>2
<1>3. CASE OpenSendBox(p) \/ OpenRecvBox(p) \/ CloseMailWindow(p)
  BY <1>3 DEF OpenSendBox, OpenRecvBox, CloseMailWindow, Opens, Alone
<1>4. ASSUME NEW k \in Cell, NEW i \in Item, NEW q \in Player, AddItemsToBeSent(p, k, i, q)
      PROVE  Alone(p)
  <2>1. /\ MayAct(p) /\ UNCHANGED <<inn, pc>>
        /\ out' = [out EXCEPT ![p] = [out[p] EXCEPT ![k] = [NoOut EXCEPT !.item = i, !.to = q]]]
    BY <1>4 DEF AddItemsToBeSent
  <2> QED
    BY <1>2, <2>1 DEF Alone
<1>5. ASSUME NEW k \in Cell, CancelSendingItem(p, k) PROVE Alone(p)
  <2> DEFINE row == out[p][k]
             S == Counterparts(inn[row.to], p, CellOf(p, k).item)
  <2>1. MayAct(p) /\ UNCHANGED pc
    BY <1>5 DEF CancelSendingItem
  <2>2. CASE Cancellable(row) /\ S # {}
    <3>1. out' = [out EXCEPT ![p] = [out[p] EXCEPT ![k].sent = FALSE]]
      BY <1>5, <2>2 DEF CancelSendingItem
    <3>2. inn' = [inn EXCEPT ![row.to] = [inn[row.to] EXCEPT ![Min(S)] = NoIn]]
      BY <1>5, <2>2 DEF CancelSendingItem
    <3> HIDE DEF S
    <3>3. \A x \in Player \ {p} : out'[x] = out[x]
      BY <1>2, <3>1
    <3>4. \A q \in Player : \A s \in Queued : inn'[q][s] \in {inn[q][s], NoIn}
      BY <1>1, <3>2
    <3> QED
      BY <2>1, <3>3, <3>4 DEF Alone
  <2>3. CASE Cancellable(row) /\ S = {}
    <3>1. out' = [out EXCEPT ![p] = [out[p] EXCEPT ![k].sent = FALSE]] /\ UNCHANGED inn
      BY <1>5, <2>3 DEF CancelSendingItem
    <3>2. \A x \in Player \ {p} : out'[x] = out[x]
      BY <1>2, <3>1
    <3> QED
      BY <2>1, <3>1, <3>2 DEF Alone
  <2>4. CASE ~Cancellable(row)
    <3>1. /\ out' = [out EXCEPT ![p] = [out[p] EXCEPT ![k] = IF row.item = CellOf(p, k).item THEN NoOut ELSE row]]
          /\ UNCHANGED inn
      BY <1>5, <2>4 DEF CancelSendingItem
    <3>2. \A x \in Player \ {p} : out'[x] = out[x]
      BY <1>2, <3>1
    <3> QED
      BY <2>1, <3>1, <3>2 DEF Alone
  <2> QED
    BY <2>2, <2>3, <2>4
<1>6. ASSUME NEW k \in Cell, TakeItemFromCell(p, k) PROVE Alone(p)
  <2>1. MayAct(p) /\ UNCHANGED pc
    BY <1>6 DEF TakeItemFromCell
  <2>2. \/ out' = [out EXCEPT ![p] = [out[p] EXCEPT ![k] = NoOut]] /\ UNCHANGED inn
        \/ inn' = [inn EXCEPT ![p] = [inn[p] EXCEPT ![k] = NoIn]] /\ UNCHANGED out
    BY <1>6 DEF TakeItemFromCell
  <2>3. \A x \in Player \ {p} : out'[x] = out[x]
    BY <1>2, <2>2
  <2>4. \A q \in Player : \A s \in Queued : inn'[q][s] \in {inn[q][s], NoIn}
    BY <1>1, <2>2
  <2> QED
    BY <2>1, <2>3, <2>4 DEF Alone
<1>7. ASSUME NEW k \in Cell, RemoveItemFromCell(p, k) PROVE Alone(p)
  <2>1. MayAct(p) /\ UNCHANGED <<pc, out>> /\ inn' = [inn EXCEPT ![p] = [inn[p] EXCEPT ![k] = NoIn]]
    BY <1>7 DEF RemoveItemFromCell
  <2>2. \A q \in Player : \A s \in Queued : inn'[q][s] \in {inn[q][s], NoIn}
    BY <1>1, <2>1
  <2> QED
    BY <2>1, <2>2 DEF Alone
<1>8. ASSUME RemoveDeliveredItemFromSendingBox(p) PROVE Alone(p)
  <2>1. PICK k : out' = [out EXCEPT ![p] = [out[p] EXCEPT ![k] = NoOut]]
    BY <1>8 DEF RemoveDeliveredItemFromSendingBox
  <2>2. MayAct(p) /\ UNCHANGED <<pc, inn>>
    BY <1>8 DEF RemoveDeliveredItemFromSendingBox
  <2>3. \A x \in Player \ {p} : out'[x] = out[x]
    BY <1>2, <2>1
  <2> QED
    BY <2>2, <2>3 DEF Alone
<1> QED
  BY <1>3, <1>4, <1>5, <1>6, <1>7, <1>8

\* The first halves.
LEMMA FirstHalfPressed ==
  ASSUME BoxInv, BoxInv', NEW p \in Player, NEW k \in Cell,
         SendConfirmation(p, k) \/ SendNewItems(p, k) \/ ReturnToSender(p, k),
         \A q \in Player : Pressed(q), NEW q \in Player
  PROVE  Pressed(q)'
<1>0. pc = [x \in Player |-> pc[x]] /\ pc \in [Player -> Handler] /\ k \in Slots
      /\ out[p] \in [Cell -> OutRow(p)] /\ inn[p] \in [Slots -> InRow(p)]
  BY SlotNumbers DEF BoxInv, OutOK, InOK
<1>1. CASE SendConfirmation(p, k)
  <2> DEFINE r == [Idle EXCEPT !.op = "send", !.k = k, !.item = CellOf(p, k).item]
  <2>0. PICK w \in Player : w = out[p][k].to
    BY <1>0, <1>1 DEF SendConfirmation, OutRow
  <2>1. /\ pc' = [pc EXCEPT ![p] = r] /\ UNCHANGED <<inn, out>> /\ ~AtCapacity(w) /\ out[p][k] # NoOut
    BY <1>1, <2>0 DEF SendConfirmation
  <2>2. r.op = "send" /\ r.k = k
    BY DEF Idle
  <2> HIDE DEF r
  <2>3. pc'[p] = r /\ \A x \in Player \ {p} : pc'[x] = pc[x]
    BY <1>0, <2>1
  <2>5. p \in Coming(w)' /\ \A x \in Player \ {w} : p \notin Coming(x)'
    BY <2>0, <2>1, <2>2, <2>3 DEF Coming
  <2> QED
    BY <2>1, <2>3, <2>5, BeginPressed
<1>2. CASE SendNewItems(p, k)
  <2> DEFINE r == [op |-> "recv", k |-> k, item |-> inn[p][Min(Waiting(p))].item,
                   who |-> inn[p][Min(Waiting(p))].from, slot |-> Min(Waiting(p))]
  <2>1. pc' = [pc EXCEPT ![p] = r] /\ UNCHANGED <<inn, out>>
    BY <1>2 DEF SendNewItems
  <2>2. r.op = "recv"
    OBVIOUS
  <2> HIDE DEF r
  <2>3. pc'[p] = r /\ \A x \in Player \ {p} : pc'[x] = pc[x]
    BY <1>0, <2>1
  <2>4. Quiet(p) /\ \A x \in Player : QueueCalm(x)
    BY <2>1, <2>2, <2>3 DEF Quiet, QueueCalm
  <2> QED
    BY <2>4, QuietPressed
<1>3. CASE ReturnToSender(p, k)
  <2>0. PICK w \in Player : w = inn[p][k].from
    BY <1>0, <1>3 DEF ReturnToSender, InRow, NoIn, Someone
  <2> DEFINE r == [op |-> "return", k |-> k, item |-> CellOf(p, k).item, who |-> w, slot |-> 0]
  <2>1. pc' = [pc EXCEPT ![p] = r] /\ UNCHANGED <<inn, out>> /\ ~AtCapacity(w)
    BY <1>3, <2>0 DEF ReturnToSender
  <2>2. r.op = "return" /\ r.who = w
    OBVIOUS
  <2> HIDE DEF r
  <2>3. pc'[p] = r /\ \A x \in Player \ {p} : pc'[x] = pc[x]
    BY <1>0, <2>1
  <2>5. p \in Coming(w)' /\ \A x \in Player \ {w} : p \notin Coming(x)'
    BY <2>1, <2>2, <2>3 DEF Coming
  <2> QED
    BY <2>1, <2>3, <2>5, BeginPressed
<1> QED
  BY <1>1, <1>2, <1>3

\* The second halves end, and only p goes on differently.
LEMMA FinishQuiet ==
  ASSUME BoxInv, NEW p \in Player, FinishSend(p) \/ FinishRecv(p) \/ FinishReturn(p)
  PROVE  Quiet(p) /\ pc' = [pc EXCEPT ![p] = Idle]
<1>0. out = [x \in Player |-> out[x]] /\ pc' = [pc EXCEPT ![p] = Idle] /\ pc \in [Player -> Handler]
  BY DEF BoxInv, OutOK, FinishSend, FinishRecv, FinishReturn
<1>1. pc'[p] = Idle /\ \A x \in Player \ {p} : pc'[x] = pc[x]
  BY <1>0
<1>2. \A x \in Player \ {p} : \A k \in Cell : out'[x][k].to = out[x][k].to
  <2>1. CASE FinishSend(p)
    <3>1. UNCHANGED out \/ out' = [out EXCEPT ![p] = [out[p] EXCEPT ![pc[p].k].sent = TRUE]]
      BY <2>1 DEF FinishSend
    <3>2. \A x \in Player \ {p} : out'[x] = out[x]
      BY <1>0, <3>1
    <3> QED
      BY <3>2
  <2>2. CASE FinishRecv(p)
    <3> DEFINE w == pc[p].who
               rows == Marked(out[w], p, pc[p].item)
    <3>1. UNCHANGED out \/ (w # None /\ out' = [out EXCEPT ![w] = rows])
      BY <2>2 DEF FinishRecv
    <3>2. CASE w \in Player
      <4>1. out[w] \in [Cell -> OutRow(w)]
        BY <3>2 DEF BoxInv, OutOK
      <4>2. \A k \in Cell : rows[k].to = out[w][k].to
        BY <3>2, <4>1, MarkedOK
      <4> HIDE DEF rows
      <4>3. out' = out \/ (out'[w] = rows /\ \A x \in Player \ {w} : out'[x] = out[x])
        BY <1>0, <3>1, <3>2
      <4> QED
        BY <4>2, <4>3
    <3>3. CASE w \notin Player
      <4>1. \A x \in Player : out'[x] = out[x]
        BY <1>0, <3>1, <3>3
      <4> QED
        BY <4>1
    <3> QED
      BY <3>2, <3>3
  <2>3. CASE FinishReturn(p)
    BY <2>3 DEF FinishReturn
  <2> QED
    BY <2>1, <2>2, <2>3
<1>3. Idle.op = "idle"
  BY DEF Idle
<1> QED
  BY <1>0, <1>1, <1>2, <1>3 DEF Quiet

\* The second halves.
LEMMA SecondHalfPressed ==
  ASSUME BoxInv, BoxInv', NEW p \in Player, FinishSend(p) \/ FinishRecv(p) \/ FinishReturn(p),
         UNCHANGED <<sales, expiry>>, \A q \in Player : Pressed(q), NEW q \in Player
  PROVE  Pressed(q)'
<1>0. Quiet(p) /\ pc \in [Player -> Handler] /\ inn = [x \in Player |-> inn[x]]
  BY FinishQuiet DEF BoxInv, InOK
<1>1. \A x \in Player : Coming(x)' \subseteq Coming(x) \ {p}
  BY <1>0, NobodyNew DEF Quiet
<1>2. ASSUME NEW w \in Player, p \in Coming(w), NEW i \in Item, Fits(w), inn'[w] = Post(inn[w], i, p),
             \A x \in Player \ {w} : \A s \in Queued : inn'[x][s] \in {inn[x][s], NoIn}
      PROVE  Pressed(q)'
  <2>1. CASE q = w
    BY <1>1, <1>2, <2>1, PostPressed
  <2>2. CASE q # w
    <3>1. QueueCalm(q)
      BY <1>2, <2>2 DEF QueueCalm
    <3> QED
      BY <1>1, <3>1, CalmPressed
  <2> QED
    BY <2>1, <2>2
<1>3. CASE FinishSend(p)
  <2> DEFINE w == out[p][pc[p].k].to
  <2>1. /\ pc[p].op = "send" /\ Fits(w)
        /\ UNCHANGED inn \/ inn' = [inn EXCEPT ![w] = Post(inn[w], pc[p].item, p)]
    BY <1>3 DEF FinishSend, GoesOn
  <2>2. Busy(p) /\ out[p] \in [Cell -> OutRow(p)] /\ pc[p].k \in Cell
    BY DEF BoxInv, OutOK, Handler
  <2>3. out[p][pc[p].k] # NoOut /\ pc[p].item \in Item
    BY <2>1, <2>2 DEF Busy
  <2>4. w \in Player
    BY <2>2, <2>3 DEF OutRow
  <2>5. p \in Coming(w)
    BY <2>1 DEF Coming
  <2> HIDE DEF w
  <2>6. CASE UNCHANGED inn
    <3>1. \A x \in Player : QueueCalm(x)
      BY <2>6 DEF QueueCalm
    <3> QED
      BY <1>0, <3>1, QuietPressed
  <2>7. CASE inn' = [inn EXCEPT ![w] = Post(inn[w], pc[p].item, p)]
    <3>1. inn'[w] = Post(inn[w], pc[p].item, p) /\ \A x \in Player \ {w} : inn'[x] = inn[x]
      BY <1>0, <2>4, <2>7
    <3> QED
      BY <1>2, <2>1, <2>3, <2>4, <2>5, <3>1
  <2> QED
    BY <2>1, <2>6, <2>7
<1>4. CASE FinishRecv(p)
  <2>1. pc[p].slot \in Queued /\ pc[p].k \in Cell
    BY <1>4 DEF FinishRecv, GoesOn, BoxInv, Busy, Handler
  <2>2. UNCHANGED inn \/ inn' = [inn EXCEPT ![p] = Opened(inn[p], pc[p].slot, pc[p].k)]
    BY <1>4 DEF FinishRecv
  <2>3. UNCHANGED inn \/ (/\ inn'[p] = Opened(inn[p], pc[p].slot, pc[p].k)
                          /\ \A x \in Player \ {p} : inn'[x] = inn[x])
    BY <1>0, <2>2
  <2>4. \A x \in Player : QueueCalm(x)
    BY <2>1, <2>3 DEF QueueCalm
  <2> QED
    BY <1>0, <2>4, QuietPressed
<1>5. CASE FinishReturn(p)
  <2> DEFINE w == pc[p].who
  <2>1. /\ w \in Player \ {p} /\ pc[p].item \in Item /\ pc[p].k \in Cell
        /\ inn'[p] = [inn[p] EXCEPT ![pc[p].k] = NoIn]
        /\ inn'[w] = Post(inn[w], pc[p].item, p)
        /\ \A x \in Player \ {p, w} : inn'[x] = inn[x]
    BY <1>5, FinishReturnInv
  <2>2. Fits(w) /\ p \in Coming(w)
    BY <1>5, <2>1 DEF FinishReturn, GoesOn, Coming
  <2>3. inn[p] \in [Slots -> InRow(p)]
    BY DEF BoxInv, InOK
  <2>4. \A s \in Queued : inn'[p][s] = inn[p][s]
    BY <2>1, <2>3, SlotNumbers
  <2>5. \A x \in Player \ {w} : \A s \in Queued : inn'[x][s] \in {inn[x][s], NoIn}
    BY <2>1, <2>4
  <2> QED
    BY <1>2, <2>1, <2>2, <2>5
<1> QED
  BY <1>3, <1>4, <1>5

\* Nothing that the auction house posts comes from a player.
LEMMA MarketPressed ==
  ASSUME BoxInv, BoxInv', \A q \in Player : Pressed(q), NEW q \in Player,
         \/ \E p \in Player : \/ \E i \in Item : ProofOfPurchase(p, i)
                              \/ \E s \in sales : PurchasingItems(p, s) \/ CancelSale(p, s)
         \/ ExpireAHItems \/ StrikeOff \/ \E s \in expiry.todo : SendBack(s)
  PROVE  Pressed(q)'
<1>1. UNCHANGED <<pc, out>>
  BY DEF ProofOfPurchase, PurchasingItems, CancelSale, ExpireAHItems, StrikeOff, SendBack, boxVars
<1>2. \/ UNCHANGED inn
      \/ \E s \in Sale, i \in Item : Fits(s.seller) /\ inn' = [inn EXCEPT ![s.seller] = Post(inn[s.seller], i, None)]
  <2>1. sales \subseteq Sale /\ expiry.todo \subseteq Sale /\ Coin \in Item /\ \A s \in Sale : s.item \in Item
    BY BoxAssumption DEF BoxInv, Sale
  <2>2. ASSUME NEW p \in Player, \E i \in Item : ProofOfPurchase(p, i) PROVE UNCHANGED inn
    BY <2>2 DEF ProofOfPurchase
  <2>3. ASSUME NEW p \in Player, \E s \in sales : CancelSale(p, s) PROVE UNCHANGED inn
    BY <2>3 DEF CancelSale
  <2>4. ASSUME NEW p \in Player, NEW s \in sales, PurchasingItems(p, s)
        PROVE  s \in Sale /\ Fits(s.seller) /\ inn' = [inn EXCEPT ![s.seller] = Post(inn[s.seller], Coin, None)]
    BY <2>1, <2>4 DEF PurchasingItems
  <2>5. ASSUME NEW s \in expiry.todo, SendBack(s)
        PROVE  s \in Sale /\ Fits(s.seller) /\ inn' = [inn EXCEPT ![s.seller] = Post(inn[s.seller], s.item, None)]
    BY <2>1, <2>5 DEF SendBack
  <2>6. ExpireAHItems \/ StrikeOff => UNCHANGED inn
    BY DEF ExpireAHItems, StrikeOff, boxVars
  <2> QED
    BY <2>1, <2>2, <2>3, <2>4, <2>5, <2>6
<1>3. inn = [x \in Player |-> inn[x]]
  BY DEF BoxInv, InOK
<1>4. QueueCalm(q)
  BY <1>2, <1>3 DEF QueueCalm
<1>5. Coming(q)' = Coming(q)
  BY <1>1 DEF Coming
<1> QED
  BY <1>4, <1>5, CalmPressed

\* Every step keeps the limit.
LEMMA NextPressed ==
  BoxInv /\ BoxInv' /\ (\A q \in Player : Pressed(q)) /\ [Next]_vars => (\A q \in Player : Pressed(q))'
<1> SUFFICES ASSUME BoxInv, BoxInv', \A q \in Player : Pressed(q), [Next]_vars, NEW q \in Player
             PROVE  Pressed(q)'
  OBVIOUS
<1>1. CASE UNCHANGED vars
  BY <1>1 DEF vars, boxVars, Pressed, Sent, Coming
<1>2. ASSUME NEW p \in Player, BoxStep(p), UNCHANGED <<sales, expiry>> PROVE Pressed(q)'
  <2>1. CASE \E k \in Cell : SendConfirmation(p, k) \/ SendNewItems(p, k) \/ ReturnToSender(p, k)
    BY <2>1, FirstHalfPressed
  <2>2. CASE FinishSend(p) \/ FinishRecv(p) \/ FinishReturn(p)
    BY <1>2, <2>2, SecondHalfPressed
  <2>3. CASE \/ OpenSendBox(p) \/ OpenRecvBox(p) \/ CloseMailWindow(p)
             \/ \E k \in Cell, i \in Item, x \in Player : AddItemsToBeSent(p, k, i, x)
             \/ \E k \in Cell : CancelSendingItem(p, k) \/ TakeItemFromCell(p, k) \/ RemoveItemFromCell(p, k)
             \/ RemoveDeliveredItemFromSendingBox(p)
    <3>1. Quiet(p) /\ \A x \in Player : QueueCalm(x)
      BY <2>3, AloneSteps, AloneIsQuiet
    <3> QED
      BY <3>1, QuietPressed
  <2> QED
    BY <1>2, <2>1, <2>2, <2>3 DEF BoxStep
<1>3. CASE \/ \E p \in Player : \/ \E i \in Item : ProofOfPurchase(p, i)
                                \/ \E s \in sales : PurchasingItems(p, s) \/ CancelSale(p, s)
           \/ ExpireAHItems \/ StrikeOff \/ \E s \in expiry.todo : SendBack(s)
  BY <1>3, MarketPressed
<1> QED
  BY <1>1, <1>2, <1>3 DEF Next

\* No parcel is in a queue at first.
LEMMA InitPressed ==
  ASSUME Cardinality(Player) >= 2
  PROVE  Init => \A q \in Player : Pressed(q)
<1> SUFFICES ASSUME Init, NEW q \in Player PROVE Pressed(q)
  OBVIOUS
<1>1. inn[q] = [s \in 0 .. MaxSlot |-> NoIn] /\ pc = [p \in Player |-> Idle]
  BY DEF Init, BoxInit
<1>2. Sent(q) = {}
  <2>1. \A s \in Queued : inn[q][s] = NoIn
    BY <1>1, SlotNumbers DEF Slots
  <2>2. NoIn \notin FromPlayer
    BY BoxAssumption DEF FromPlayer, NoIn
  <2> QED
    BY <2>1, <2>2 DEF Sent, Hits
<1>3. Coming(q) = {}
  BY <1>1 DEF Coming, Idle
<1>4. Cardinality({}) = 0 /\ Cardinality(Player) \in Nat
  BY FS_EmptySet, FS_CardinalityType, PlayersAssumption
<1> QED
  BY <1>2, <1>3, <1>4, BoxAssumption DEF Pressed

\* The limit, as the run checks it.
LEMMA PressedIsBounded == BoxInv /\ (\A q \in Player : Pressed(q)) => NearlyBounded
<1> SUFFICES ASSUME BoxInv, NEW q \in Player, Pressed(q)
             PROVE  Cardinality({s \in Waiting(q) : inn[q][s].from # None}) <= MaxInflight + Cardinality(Player) - 2
  BY DEF NearlyBounded
<1>1. inn[q] \in [Slots -> InRow(q)]
  BY DEF BoxInv, InOK
<1>2. {s \in Waiting(q) : inn[q][s].from # None} = Sent(q)
  <2>1. \A s \in Queued : inn[q][s] \in InRow(q)
    BY <1>1, SlotNumbers
  <2>2. \A s \in Queued : inn[q][s] # NoIn /\ inn[q][s].from # None <=> inn[q][s] \in FromPlayer
    BY <2>1, BoxAssumption DEF InRow, NoIn, FromPlayer, Someone
  <2> QED
    BY <2>2 DEF Waiting, Sent, Hits
<1>3. /\ Cardinality(Sent(q)) \in Nat /\ Cardinality(Coming(q)) \in Nat /\ Cardinality(Player) \in Nat
  BY Numbers
<1>4. Cardinality(Sent(q)) <= MaxInflight + Cardinality(Player) - 2
  BY <1>3, BoxAssumption DEF Pressed
<1> QED
  BY <1>2, <1>4

\* Where there are two players or more, the parcels of players that wait for one of them
\* overrun DELIVERY_BOX_MAX_INFLIGHT by at most one for each other player but the first,
\* however the looks at the queue and the inserts come between each other.
THEOREM QueueBounded ==
  ASSUME Cardinality(Player) >= 2
  PROVE  Spec => []NearlyBounded
<1>1. Init => \A q \in Player : Pressed(q)
  BY InitPressed
<1> DEFINE P == \A q \in Player : Pressed(q)
<1>2. BoxInv /\ BoxInv' /\ P /\ [Next]_vars => P'
  BY NextPressed
<1>3. BoxInv /\ P => NearlyBounded
  BY PressedIsBounded
<1>4. Init => P
  BY <1>1
<1> HIDE DEF P
<1> QED
  BY <1>2, <1>3, <1>4, BoxesInOrder, PTL DEF Spec

-----------------------------------------------------------------------------
(* Where the statements that open a parcel are not interrupted.             *)

\* The parcel that is being opened is where the snapshot showed it.
RecvOK(p) ==
  pc[p].op = "recv" => /\ inn[p][pc[p].slot] = [item |-> pc[p].item, from |-> pc[p].who]
                       /\ inn[p][pc[p].k] = NoIn

\* ShowsRows, of one player.
ShowsOne(p) ==
  view[p].type = "recv" =>
    \A k \in Cell : ~(pc[p].op = "recv" /\ pc[p].k = k) => view[p].cell[k].item = inn[p][k].item

\* The rows of the incoming box of x that have a cell are left alone.
CellsKept(x) == \A k \in Cell : inn'[x][k] = inn[x][k]

\* While a parcel is being opened only its receiver goes on.
LEMMA NobodyOpens ==
  ASSUME "recv" \notin Interrupted, NEW p \in Player,
         MayAct(p) \/ \E op : GoesOn(p, op)
  PROVE  \A x \in Player \ {p} : pc[x].op # "recv"
BY DEF MayAct, GoesOn

\* Who is not touched sees what there is.
LEMMA ShownUntouched ==
  ASSUME NEW x \in Player, pc[x].op # "recv", view'[x] = view[x], pc'[x] = pc[x], CellsKept(x),
         ShowsOne(x)
  PROVE  RecvOK(x)' /\ ShowsOne(x)'
BY DEF RecvOK, ShowsOne, CellsKept

\* Who does not look into the incoming box.
LEMMA ShownElsewhere ==
  ASSUME NEW x \in Player, pc'[x].op # "recv", view'[x].type # "recv"
  PROVE  RecvOK(x)' /\ ShowsOne(x)'
BY DEF RecvOK, ShowsOne

\* Posting writes one slot.
LEMMA PostElsewhere ==
  ASSUME NEW q, NEW rows \in [Slots -> InRow(q)], NEW i, NEW from, NEW s \in Slots, s # NextSlot(rows)
  PROVE  Post(rows, i, from)[s] = rows[s]
<1> DEFINE r == [item |-> i, from |-> from]
<1>1. Post(rows, i, from) = [rows EXCEPT ![NextSlot(rows)] = r]
  BY DEF Post
<1> HIDE DEF r
<1> QED
  BY <1>1

\* A parcel is posted to the queue: the cells are left alone.
LEMMA PostKeepsCells ==
  ASSUME BoxInv, NEW w \in Player, NEW i \in Item, NEW from \in Someone \ {w}, Fits(w),
         inn' = [inn EXCEPT ![w] = Post(inn[w], i, from)], NEW x \in Player
  PROVE  CellsKept(x)
<1>1. inn[w] \in [Slots -> InRow(w)] /\ NextSlot(inn[w]) <= MaxSlot
  BY DEF BoxInv, InOK, Fits
<1>2. /\ NextSlot(inn[w]) \in Queued
      /\ \A s \in Slots : s # NextSlot(inn[w]) => Post(inn[w], i, from)[s] = inn[w][s]
  BY <1>1, NextIsFree, PostOK
<1>3. \A k \in Cell : Post(inn[w], i, from)[k] = inn[w][k]
  BY <1>2, SlotNumbers
<1>4. inn = [y \in Player |-> inn[y]]
  BY DEF BoxInv, InOK
<1>5. inn'[w] = Post(inn[w], i, from) /\ (x # w => inn'[x] = inn[x])
  BY <1>4
<1> QED
  BY <1>3, <1>5 DEF CellsKept

\* A handler that is between two statements, and one that begins, of the player itself.
LEMMA ShownFirstHalf ==
  ASSUME "recv" \notin Interrupted, BoxInv, NEW p \in Player, NEW k \in Cell,
         SendConfirmation(p, k) \/ SendNewItems(p, k) \/ ReturnToSender(p, k),
         \A x \in Player : RecvOK(x) /\ ShowsOne(x), NEW x \in Player
  PROVE  RecvOK(x)' /\ ShowsOne(x)'
<1>0. /\ MayAct(p) /\ UNCHANGED <<inn, view>> /\ pc[p] = Idle /\ k \in Slots
      /\ \A y \in Player \ {p} : pc'[y] = pc[y]
      /\ inn[p] \in [Slots -> InRow(p)] /\ pc = [y \in Player |-> pc[y]]
  BY IdleHandler, SlotNumbers DEF BoxInv, InOK, SendConfirmation, SendNewItems, ReturnToSender
<1>1. CASE x # p
  <2>1. pc[x].op # "recv"
    BY <1>0, <1>1, NobodyOpens
  <2> QED
    BY <1>0, <1>1, <2>1, ShownUntouched DEF CellsKept
<1>2. CASE x = p /\ ~SendNewItems(p, k)
  <2>1. pc'[p].op \in {"send", "return"}
    <3>1. PICK r : pc' = [pc EXCEPT ![p] = r] /\ r.op \in {"send", "return"}
      <4>1. CASE SendConfirmation(p, k)
        <5> DEFINE r == [Idle EXCEPT !.op = "send", !.k = k, !.item = CellOf(p, k).item]
        <5>1. pc' = [pc EXCEPT ![p] = r] /\ r.op = "send"
          BY <4>1 DEF SendConfirmation, Idle
        <5> QED
          BY <5>1
      <4>2. CASE ReturnToSender(p, k)
        <5> DEFINE r == [op |-> "return", k |-> k, item |-> CellOf(p, k).item, who |-> inn[p][k].from, slot |-> 0]
        <5>1. pc' = [pc EXCEPT ![p] = r] /\ r.op = "return"
          BY <4>2 DEF ReturnToSender
        <5> QED
          BY <5>1
      <4> QED
        BY <1>2, <4>1, <4>2
    <3> QED
      BY <1>0, <3>1
  <2>2. pc[p].op # "recv"
    BY <1>0 DEF Idle
  <2> QED
    BY <1>0, <1>2, <2>1, <2>2 DEF RecvOK, ShowsOne
<1>3. CASE x = p /\ SendNewItems(p, k)
  <2> DEFINE head == Min(Waiting(p))
             r == [op |-> "recv", k |-> k, item |-> inn[p][head].item,
                   who |-> inn[p][head].from, slot |-> head]
  <2>1. /\ pc' = [pc EXCEPT ![p] = r] /\ view[p].type = "recv" /\ view[p].cell[k] = NoCell
        /\ Waiting(p) # {}
    BY <1>3 DEF SendNewItems, Showing, CellOf
  <2>2. head \in Queued /\ head \in Slots
    <3>1. Waiting(p) \in SUBSET Nat
      BY SlotNumbers DEF Waiting
    <3>2. head \in Waiting(p)
      BY <2>1, <3>1, MinIn
    <3> QED
      BY <3>2, SlotNumbers DEF Waiting
  <2> HIDE DEF head
  <2>3. pc'[p] = r
    BY <1>0, <2>1
  <2>4. inn[p][head] \in InRow(p) /\ inn[p][k] \in InRow(p)
    BY <1>0, <2>2
  <2>5. inn[p][head] = [item |-> inn[p][head].item, from |-> inn[p][head].from]
    BY <2>4 DEF InRow, NoIn
  <2>6. pc[p].op # "recv"
    BY <1>0 DEF Idle
  <2>7. inn[p][k].item = None
    BY <2>1, <2>6 DEF ShowsOne, NoCell
  <2>8. inn[p][k] = NoIn
    BY <2>4, <2>7, BoxAssumption DEF InRow
  <2>9. RecvOK(p)'
    BY <1>0, <2>3, <2>5, <2>8 DEF RecvOK
  <2>10. ShowsOne(p)'
    BY <1>0, <2>3, <2>6 DEF ShowsOne
  <2> QED
    BY <1>3, <2>9, <2>10
<1> QED
  BY <1>1, <1>2, <1>3

\* A parcel is opened.
LEMMA ShownFinishRecv ==
  ASSUME "recv" \notin Interrupted, BoxInv, NEW p \in Player, FinishRecv(p),
         \A x \in Player : RecvOK(x) /\ ShowsOne(x), NEW x \in Player
  PROVE  RecvOK(x)' /\ ShowsOne(x)'
<1> DEFINE r == pc[p]
<1>0. /\ GoesOn(p, "recv") /\ r.op = "recv" /\ pc' = [pc EXCEPT ![p] = Idle]
      /\ inn = [y \in Player |-> inn[y]] /\ pc = [y \in Player |-> pc[y]]
  BY DEF FinishRecv, GoesOn, BoxInv, InOK
<1>1. /\ r.k \in Cell /\ r.item \in Item /\ r.slot \in Queued
      /\ inn[p] \in [Slots -> InRow(p)] /\ view \in [Player -> View]
  BY <1>0 DEF BoxInv, Handler, Busy, InOK
<1>2. inn[p][r.slot] # NoIn /\ inn[p][r.k] = NoIn /\ inn[p][r.slot].item = r.item
  <2>1. inn[p][r.slot] = [item |-> r.item, from |-> r.who] /\ inn[p][r.k] = NoIn
    BY <1>0 DEF RecvOK
  <2>2. inn[p][r.slot].item = r.item /\ NoIn.item = None
    BY <2>1 DEF NoIn
  <2> QED
    BY <1>1, <2>1, <2>2, BoxAssumption
<1>3. /\ inn' = [inn EXCEPT ![p] = Opened(inn[p], r.slot, r.k)]
      /\ SetCell(p, r.k, [item |-> r.item, sent |-> FALSE])
  BY <1>2 DEF FinishRecv
<1>4. [item |-> r.item, sent |-> FALSE] \in Shown
  BY <1>1 DEF Shown
<1> DEFINE c == [item |-> r.item, sent |-> FALSE]
<1>5. c \in Shown /\ c.item = r.item /\ SetCell(p, r.k, c)
  BY <1>3, <1>4
<1> HIDE DEF c
<1>6. /\ view'[p].cell[r.k] = c
      /\ \A m \in Cell \ {r.k} : view'[p].cell[m] = view[p].cell[m]
      /\ \A y \in Player \ {p} : view'[y] = view[y]
      /\ view'[p].type = view[p].type
  BY <1>1, <1>5, CellWritten
<1>7. pc'[p] = Idle /\ \A y \in Player \ {p} : pc'[y] = pc[y] /\ inn'[y] = inn[y]
  BY <1>0, <1>3
<1>8. CASE x # p
  <2>1. pc[x].op # "recv"
    BY <1>0, <1>8, NobodyOpens
  <2> QED
    BY <1>6, <1>7, <1>8, <2>1, ShownUntouched DEF CellsKept
<1>9. CASE x = p
  <2>1. inn'[p] = Opened(inn[p], r.slot, r.k)
    BY <1>0, <1>3
  <2>2. inn'[p][r.k] = inn[p][r.slot] /\ \A m \in Cell \ {r.k} : inn'[p][m] = inn[p][m]
    BY <1>1, <1>2, <2>1, OpenedOK
  <2>3. RecvOK(p)'
    BY <1>7 DEF RecvOK, Idle
  <2>4. ASSUME NEW m \in Cell, view[p].type = "recv" PROVE view'[p].cell[m].item = inn'[p][m].item
    <3>1. CASE m = r.k
      BY <1>2, <1>5, <1>6, <2>2, <3>1
    <3>2. CASE m # r.k
      <4>1. view[p].cell[m].item = inn[p][m].item
        BY <2>4, <3>2 DEF ShowsOne
      <4> QED
        BY <1>6, <2>2, <3>2, <4>1
    <3> QED
      BY <3>1, <3>2
  <2> QED
    BY <1>6, <1>9, <2>3, <2>4 DEF ShowsOne
<1> QED
  BY <1>8, <1>9

\* A cell is emptied with its row.
LEMMA ShownEmptied ==
  ASSUME "recv" \notin Interrupted, BoxInv, NEW p \in Player, NEW k \in Cell,
         MayAct(p) \/ GoesOn(p, "return"), SetCell(p, k, NoCell), inn'[p][k] = NoIn,
         \A m \in Cell \ {k} : inn'[p][m] = inn[p][m], \A y \in Player \ {p} : CellsKept(y),
         pc'[p] = Idle, \A y \in Player \ {p} : pc'[y] = pc[y],
         \A x \in Player : RecvOK(x) /\ ShowsOne(x), NEW x \in Player
  PROVE  RecvOK(x)' /\ ShowsOne(x)'
<1>1. /\ view'[p].cell[k] = NoCell
      /\ \A m \in Cell \ {k} : view'[p].cell[m] = view[p].cell[m]
      /\ \A y \in Player \ {p} : view'[y] = view[y]
      /\ view'[p].type = view[p].type
  <2>1. NoCell \in Shown /\ view \in [Player -> View]
    BY DEF BoxInv, Shown
  <2> QED
    BY <2>1, CellWritten
<1>2. CASE x # p
  <2>1. pc[x].op # "recv"
    BY <1>2, NobodyOpens
  <2> QED
    BY <1>1, <1>2, <2>1, ShownUntouched
<1>3. CASE x = p
  <2>1. pc[p].op # "recv"
    BY IdleHandler DEF GoesOn, Idle
  <2>2. RecvOK(p)'
    BY DEF RecvOK, Idle
  <2>3. ASSUME NEW m \in Cell, view[p].type = "recv" PROVE view'[p].cell[m].item = inn'[p][m].item
    <3>1. CASE m = k
      BY <1>1, <3>1 DEF NoCell, NoIn
    <3>2. CASE m # k
      BY <1>1, <2>1, <2>3, <3>2 DEF ShowsOne
    <3> QED
      BY <3>1, <3>2
  <2> QED
    BY <1>1, <1>3, <2>2, <2>3 DEF ShowsOne
<1> QED
  BY <1>2, <1>3

\* Steps of a player with an outgoing box, and those who open or close one.
LEMMA ShownSending ==
  ASSUME "recv" \notin Interrupted, BoxInv, NEW p \in Player, MayAct(p) \/ GoesOn(p, "send"),
         pc'[p] = Idle, \A y \in Player \ {p} : pc'[y] = pc[y] /\ view'[y] = view[y] /\ CellsKept(y),
         view'[p].type # "recv" \/ (\A k \in Cell : view'[p].cell[k].item = inn'[p][k].item),
         \A x \in Player : RecvOK(x) /\ ShowsOne(x), NEW x \in Player
  PROVE  RecvOK(x)' /\ ShowsOne(x)'
<1>1. CASE x # p
  <2>1. pc[x].op # "recv"
    BY <1>1, NobodyOpens
  <2> QED
    BY <1>1, <2>1, ShownUntouched
<1>2. CASE x = p
  BY <1>2 DEF RecvOK, ShowsOne, Idle
<1> QED
  BY <1>1, <1>2

\* The steps of a player who opens or closes a box, lays, sends or cancels.
LEMMA ShownOwnBox ==
  ASSUME "recv" \notin Interrupted, BoxInv, NEW p \in Player,
         \/ OpenSendBox(p) \/ OpenRecvBox(p) \/ CloseMailWindow(p)
         \/ \E k \in Cell, i \in Item, q \in Player : AddItemsToBeSent(p, k, i, q)
         \/ \E k \in Cell : CancelSendingItem(p, k)
         \/ RemoveDeliveredItemFromSendingBox(p) \/ FinishSend(p),
         \A x \in Player : RecvOK(x) /\ ShowsOne(x), NEW x \in Player
  PROVE  RecvOK(x)' /\ ShowsOne(x)'
<1>0. view \in [Player -> View] /\ pc = [y \in Player |-> pc[y]] /\ inn = [y \in Player |-> inn[y]]
      /\ Busy(p) /\ pc[p].k \in Cell
  BY DEF BoxInv, InOK, Handler
<1>1. ASSUME NEW k, NEW c, SetCell(p, k, c)
      PROVE  view'[p].type = view[p].type /\ \A y \in Player \ {p} : view'[y] = view[y]
  <2>1. view' = [view EXCEPT ![p] = [view[p] EXCEPT !.cell = [view[p].cell EXCEPT ![k] = c]]]
    BY <1>1 DEF SetCell
  <2>2. view[p] \in View
    BY <1>0
  <2> DEFINE v == [view[p] EXCEPT !.cell = [view[p].cell EXCEPT ![k] = c]]
  <2>3. v.type = view[p].type
    BY <2>2 DEF View
  <2> HIDE DEF v
  <2>4. view' = [view EXCEPT ![p] = v]
    BY <2>1 DEF v
  <2> QED
    BY <1>0, <2>3, <2>4
<1>2. CASE OpenSendBox(p) \/ OpenRecvBox(p) \/ CloseMailWindow(p)
  <2>1. MayAct(p) /\ UNCHANGED <<inn, pc>> /\ pc[p] = Idle
    BY <1>2, IdleHandler DEF OpenSendBox, OpenRecvBox, CloseMailWindow, Opens
  <2>2. PICK v : view' = [view EXCEPT ![p] = v] /\ (v.type # "recv" \/ \A k \in Cell : v.cell[k].item = inn[p][k].item)
    <3>1. CASE OpenSendBox(p)
      <4> DEFINE v == [type |-> "send", cell |-> [k \in Cell |-> [item |-> out[p][k].item, sent |-> out[p][k].sent]]]
      <4>1. view' = [view EXCEPT ![p] = v] /\ v.type = "send"
        BY <3>1 DEF OpenSendBox, Opens
      <4> HIDE DEF v
      <4> QED
        BY <4>1
    <3>2. CASE OpenRecvBox(p)
      <4> DEFINE v == [type |-> "recv", cell |-> [k \in Cell |-> [item |-> inn[p][k].item, sent |-> FALSE]]]
      <4>1. view' = [view EXCEPT ![p] = v] /\ \A k \in Cell : v.cell[k].item = inn[p][k].item
        BY <3>2 DEF OpenRecvBox, Opens
      <4> HIDE DEF v
      <4> QED
        BY <4>1
    <3>3. CASE CloseMailWindow(p)
      <4>1. view' = [view EXCEPT ![p] = Closed] /\ Closed.type # "recv"
        BY <3>3 DEF CloseMailWindow, Closed
      <4> QED
        BY <4>1
    <3> QED
      BY <1>2, <3>1, <3>2, <3>3
  <2>3. view'[p] = v /\ \A y \in Player \ {p} : view'[y] = view[y] /\ CellsKept(y)
    BY <1>0, <2>1, <2>2 DEF CellsKept
  <2> QED
    BY <2>1, <2>2, <2>3, ShownSending
<1>3. CASE \/ \E k \in Cell, i \in Item, q \in Player : AddItemsToBeSent(p, k, i, q)
           \/ \E k \in Cell : CancelSendingItem(p, k)
           \/ RemoveDeliveredItemFromSendingBox(p)
  <2>1. MayAct(p) /\ UNCHANGED pc /\ pc[p] = Idle /\ view[p].type = "send"
    BY <1>3, IdleHandler DEF AddItemsToBeSent, CancelSendingItem, RemoveDeliveredItemFromSendingBox, Showing
  <2>2. UNCHANGED view \/ \E k, c : SetCell(p, k, c)
    BY <1>3 DEF AddItemsToBeSent, CancelSendingItem, RemoveDeliveredItemFromSendingBox
  <2>3. view'[p].type = view[p].type /\ \A y \in Player \ {p} : view'[y] = view[y]
    BY <1>1, <2>2
  <2>4. \A y \in Player : CellsKept(y)
    <3>1. CASE UNCHANGED inn
      BY <3>1 DEF CellsKept
    <3>2. ASSUME NEW k \in Cell, CancelSendingItem(p, k), ~UNCHANGED inn PROVE \A y \in Player : CellsKept(y)
      <4> DEFINE w == out[p][k].to
                 S == Counterparts(inn[w], p, CellOf(p, k).item)
      <4>1. S # {} /\ inn' = [inn EXCEPT ![w] = [inn[w] EXCEPT ![Min(S)] = NoIn]]
        BY <3>2 DEF CancelSendingItem
      <4>2. S \in SUBSET Nat
        BY SlotNumbers DEF Counterparts
      <4>3. Min(S) \in Queued
        BY <4>1, <4>2, MinIn DEF Counterparts
      <4> HIDE DEF S
      <4>4. ASSUME NEW y \in Player, NEW m \in Cell PROVE inn'[y][m] = inn[y][m]
        <5>1. inn[y] \in [Slots -> InRow(y)] /\ m # Min(S)
          BY <4>3, SlotNumbers DEF BoxInv, InOK
        <5>2. CASE y = w
          BY <1>0, <4>1, <5>1, <5>2
        <5>3. CASE y # w
          BY <1>0, <4>1, <5>3
        <5> QED
          BY <5>2, <5>3
      <4> QED
        BY <4>4 DEF CellsKept
    <3> QED
      BY <1>3, <3>1, <3>2 DEF AddItemsToBeSent, RemoveDeliveredItemFromSendingBox
  <2> QED
    BY <2>1, <2>3, <2>4, ShownSending
<1>4. CASE FinishSend(p)
  <2> DEFINE w == out[p][pc[p].k].to
  <2>1. GoesOn(p, "send") /\ Fits(w) /\ pc' = [pc EXCEPT ![p] = Idle]
        /\ (UNCHANGED <<inn, view>> \/ (/\ inn' = [inn EXCEPT ![w] = Post(inn[w], pc[p].item, p)]
                                         /\ \E k, c : SetCell(p, k, c)))
    BY <1>4 DEF FinishSend
  <2>2. out[p] \in [Cell -> OutRow(p)] /\ pc[p].op = "send"
    BY <2>1 DEF BoxInv, OutOK, GoesOn
  <2>3. view[p].type = "send" /\ pc[p].item \in Item /\ out[p][pc[p].k] # NoOut
    BY <1>0, <2>2 DEF Busy
  <2>4. w \in Player /\ p \in Someone \ {w}
    BY <1>0, <2>2, <2>3 DEF OutRow, Someone
  <2>5. \A y \in Player : CellsKept(y)
    BY <2>1, <2>3, <2>4, PostKeepsCells DEF CellsKept
  <2>6. view'[p].type = view[p].type /\ \A y \in Player \ {p} : view'[y] = view[y]
    BY <1>1, <2>1
  <2>7. pc'[p] = Idle /\ \A y \in Player \ {p} : pc'[y] = pc[y]
    BY <1>0, <2>1
  <2> QED
    BY <2>1, <2>3, <2>5, <2>6, <2>7, ShownSending
<1> QED
  BY <1>2, <1>3, <1>4

\* The steps that empty a cell.
LEMMA ShownTaken ==
  ASSUME "recv" \notin Interrupted, BoxInv, NEW p \in Player,
         \/ \E k \in Cell : TakeItemFromCell(p, k) \/ RemoveItemFromCell(p, k)
         \/ FinishReturn(p) /\ UNCHANGED <<sales, expiry>>,
         \A x \in Player : RecvOK(x) /\ ShowsOne(x), NEW x \in Player
  PROVE  RecvOK(x)' /\ ShowsOne(x)'
<1>0. /\ pc = [y \in Player |-> pc[y]] /\ inn = [y \in Player |-> inn[y]] /\ inn[p] \in [Slots -> InRow(p)]
      /\ view \in [Player -> View]
  BY DEF BoxInv, InOK, Handler
<1>1. ASSUME NEW k \in Cell, TakeItemFromCell(p, k) \/ RemoveItemFromCell(p, k)
      PROVE  RecvOK(x)' /\ ShowsOne(x)'
  <2>1. MayAct(p) /\ SetCell(p, k, NoCell) /\ UNCHANGED pc /\ pc[p] = Idle /\ k \in Slots
    BY <1>1, IdleHandler, SlotNumbers DEF TakeItemFromCell, RemoveItemFromCell
  <2>2. CASE view[p].type = "recv"
    <3>1. inn' = [inn EXCEPT ![p] = [inn[p] EXCEPT ![k] = NoIn]]
      BY <1>1, <2>2 DEF TakeItemFromCell, RemoveItemFromCell
    <3>2. inn'[p] = [inn[p] EXCEPT ![k] = NoIn] /\ \A y \in Player \ {p} : inn'[y] = inn[y]
      BY <1>0, <3>1
    <3>3. inn'[p][k] = NoIn /\ \A m \in Cell \ {k} : inn'[p][m] = inn[p][m]
      BY <1>0, <2>1, <3>2
    <3> QED
      BY <2>1, <3>2, <3>3, ShownEmptied DEF CellsKept
  <2>3. CASE view[p].type # "recv"
    <3>1. UNCHANGED inn
      BY <1>1, <2>3 DEF TakeItemFromCell, RemoveItemFromCell, Showing
    <3>2. NoCell \in Shown
      BY DEF Shown
    <3>3. view'[p].type = view[p].type /\ \A y \in Player \ {p} : view'[y] = view[y]
      BY <1>0, <2>1, <3>2, CellWritten
    <3> QED
      BY <2>1, <2>3, <3>1, <3>3, ShownSending DEF CellsKept
  <2> QED
    BY <2>2, <2>3
<1>2. ASSUME FinishReturn(p), UNCHANGED <<sales, expiry>> PROVE RecvOK(x)' /\ ShowsOne(x)'
  <2> DEFINE w == pc[p].who
             k == pc[p].k
  <2>1. /\ w \in Player \ {p} /\ pc[p].item \in Item /\ k \in Cell
        /\ inn'[p] = [inn[p] EXCEPT ![k] = NoIn]
        /\ inn'[w] = Post(inn[w], pc[p].item, p)
        /\ \A y \in Player \ {p, w} : inn'[y] = inn[y]
    BY <1>2, FinishReturnInv
  <2>2. GoesOn(p, "return") /\ Fits(w) /\ SetCell(p, k, NoCell) /\ pc' = [pc EXCEPT ![p] = Idle]
    BY <1>2 DEF FinishReturn
  <2>3. pc'[p] = Idle /\ \A y \in Player \ {p} : pc'[y] = pc[y]
    BY <1>0, <2>2
  <2>4. inn'[p][k] = NoIn /\ \A m \in Cell \ {k} : inn'[p][m] = inn[p][m]
    BY <1>0, <2>1, SlotNumbers
  <2>5. CellsKept(w)
    <3>1. /\ inn[w] \in [Slots -> InRow(w)] /\ NextSlot(inn[w]) <= MaxSlot /\ p \in Someone \ {w}
      BY <2>1, <2>2 DEF BoxInv, InOK, Fits, Someone
    <3> SUFFICES ASSUME NEW m \in Cell PROVE inn'[w][m] = inn[w][m]
      BY DEF CellsKept
    <3>2. PICK y \in Player, i \in Item : y = w /\ i = pc[p].item
      BY <2>1
    <3>3. PICK rows \in [Slots -> InRow(y)] : rows = inn[w]
      BY <3>1, <3>2
    <3>4. NextSlot(rows) <= MaxSlot /\ p \in Someone \ {y}
      BY <3>1, <3>2, <3>3
    <3>5. NextSlot(rows) \in Queued
      BY ONLY <3>2, <3>3, <3>4, NextIsFree
    <3>6. m \in Slots /\ m # NextSlot(rows)
      BY <3>5, SlotNumbers
    <3>7. Post(rows, i, p)[m] = rows[m]
      BY <3>3, <3>6, PostElsewhere
    <3> QED
      BY <2>1, <3>2, <3>3, <3>7
  <2>6. \A y \in Player \ {p} : CellsKept(y)
    BY <2>1, <2>5 DEF CellsKept
  <2> QED
    BY <2>1, <2>2, <2>3, <2>4, <2>6, ShownEmptied
<1> QED
  BY <1>1, <1>2

\* The auction house touches queues only.
LEMMA ShownMarket ==
  ASSUME "recv" \notin Interrupted, BoxInv,
         \/ \E p \in Player : \/ \E i \in Item : ProofOfPurchase(p, i)
                              \/ \E s \in sales : PurchasingItems(p, s) \/ CancelSale(p, s)
         \/ ExpireAHItems \/ StrikeOff \/ \E s \in expiry.todo : SendBack(s),
         \A x \in Player : RecvOK(x) /\ ShowsOne(x), NEW x \in Player
  PROVE  RecvOK(x)' /\ ShowsOne(x)'
<1>1. UNCHANGED <<pc, view>>
  BY DEF ProofOfPurchase, PurchasingItems, CancelSale, ExpireAHItems, StrikeOff, SendBack, boxVars
<1>2. pc[x].op # "recv"
  <2>1. \A p \in Player : Served(p) => pc[x].op # "recv"
    BY IdleHandler, NobodyOpens DEF Served, Idle
  <2>2. Unhurried => pc[x].op # "recv"
    BY DEF Unhurried
  <2> QED
    BY <2>1, <2>2 DEF ProofOfPurchase, PurchasingItems, CancelSale, ExpireAHItems, StrikeOff, SendBack
<1>3. CellsKept(x)
  <2>1. sales \subseteq Sale /\ expiry.todo \subseteq Sale /\ Coin \in Item
        /\ \A s \in Sale : s.item \in Item /\ s.seller \in Player /\ None \in Someone \ {s.seller}
    BY BoxAssumption DEF BoxInv, Sale, Someone
  <2>2. ASSUME NEW p \in Player, NEW s \in sales, PurchasingItems(p, s) PROVE CellsKept(x)
    <3>1. s \in Sale /\ Fits(s.seller) /\ inn' = [inn EXCEPT ![s.seller] = Post(inn[s.seller], Coin, None)]
      BY <2>1, <2>2 DEF PurchasingItems
    <3> QED
      BY <2>1, <3>1, PostKeepsCells
  <2>3. ASSUME NEW s \in expiry.todo, SendBack(s) PROVE CellsKept(x)
    <3>1. s \in Sale /\ Fits(s.seller) /\ inn' = [inn EXCEPT ![s.seller] = Post(inn[s.seller], s.item, None)]
      BY <2>1, <2>3 DEF SendBack
    <3> QED
      BY <2>1, <3>1, PostKeepsCells
  <2>4. UNCHANGED inn => CellsKept(x)
    BY DEF CellsKept
  <2> QED
    BY <2>2, <2>3, <2>4 DEF ProofOfPurchase, CancelSale, ExpireAHItems, StrikeOff, boxVars
<1> QED
  BY <1>1, <1>2, <1>3, ShownUntouched

\* Every step keeps what is shown.
LEMMA NextShown ==
  ASSUME "recv" \notin Interrupted
  PROVE  BoxInv /\ (\A x \in Player : RecvOK(x) /\ ShowsOne(x)) /\ [Next]_vars
           => (\A x \in Player : RecvOK(x) /\ ShowsOne(x))'
<1> SUFFICES ASSUME BoxInv, \A x \in Player : RecvOK(x) /\ ShowsOne(x), [Next]_vars, NEW x \in Player
             PROVE  RecvOK(x)' /\ ShowsOne(x)'
  OBVIOUS
<1>1. CASE UNCHANGED vars
  BY <1>1 DEF vars, boxVars, RecvOK, ShowsOne
<1>2. ASSUME NEW p \in Player, BoxStep(p), UNCHANGED <<sales, expiry>> PROVE RecvOK(x)' /\ ShowsOne(x)'
  <2>1. CASE \E k \in Cell : SendConfirmation(p, k) \/ SendNewItems(p, k) \/ ReturnToSender(p, k)
    BY <2>1, ShownFirstHalf
  <2>2. CASE FinishRecv(p)
    BY <2>2, ShownFinishRecv
  <2>3. CASE \/ OpenSendBox(p) \/ OpenRecvBox(p) \/ CloseMailWindow(p)
             \/ \E k \in Cell, i \in Item, q \in Player : AddItemsToBeSent(p, k, i, q)
             \/ \E k \in Cell : CancelSendingItem(p, k)
             \/ RemoveDeliveredItemFromSendingBox(p) \/ FinishSend(p)
    BY <2>3, ShownOwnBox
  <2>4. CASE \/ \E k \in Cell : TakeItemFromCell(p, k) \/ RemoveItemFromCell(p, k)
             \/ FinishReturn(p)
    BY <1>2, <2>4, ShownTaken
  <2> QED
    BY <1>2, <2>1, <2>2, <2>3, <2>4 DEF BoxStep
<1>3. CASE \/ \E p \in Player : \/ \E i \in Item : ProofOfPurchase(p, i)
                                \/ \E s \in sales : PurchasingItems(p, s) \/ CancelSale(p, s)
           \/ ExpireAHItems \/ StrikeOff \/ \E s \in expiry.todo : SendBack(s)
  BY <1>3, ShownMarket
<1> QED
  BY <1>1, <1>2, <1>3 DEF Next

\* Nothing is open at first.
LEMMA InitShown == Init => \A x \in Player : RecvOK(x) /\ ShowsOne(x)
BY DEF Init, BoxInit, RecvOK, ShowsOne, Idle, Closed

\* What the invariant says is what the run checks.
LEMMA ShownIsShown == (\A x \in Player : RecvOK(x) /\ ShowsOne(x)) => ShowsRows
BY DEF ShowsOne, ShowsRows, Showing, CellOf

\* An open incoming box shows what its rows hold, where the statements that open a parcel
\* are one transaction that nobody comes between.
THEOREM BoxShowsRows ==
  ASSUME "recv" \notin Interrupted
  PROVE  Spec => []ShowsRows
<1> DEFINE P == \A x \in Player : RecvOK(x) /\ ShowsOne(x)
<1>1. Init => P
  BY InitShown
<1>2. BoxInv /\ P /\ [Next]_vars => P'
  BY NextShown
<1>3. P => ShowsRows
  BY ShownIsShown
<1> HIDE DEF P
<1> QED
  BY <1>1, <1>2, <1>3, BoxesInOrder, PTL DEF Spec


-----------------------------------------------------------------------------
(* What a sender may cancel and what its receiver has still to open.        *)

\* StillThere, of one kind of parcels.
Matched(p, q, i) ==
  Cardinality(Outstanding(p, q, i)) <= Cardinality(Counterparts(inn[q], p, i))

\* No row of p can be cancelled that could not be before.
NothingMore(p) == \A k \in Cell : Cancellable(out'[p][k]) => out'[p][k] = out[p][k]

\* No parcel leaves the queue of q.
NobodyLoses(q) == \A p \in Player, i \in Item :
  Cardinality(Counterparts(inn[q], p, i)) <= Cardinality(Counterparts(inn'[q], p, i))

\* The sets of both sides are finite.
LEMMA BothFinite ==
  ASSUME NEW p, NEW q, NEW i, NEW rows
  PROVE  /\ IsFiniteSet(Outstanding(p, q, i)) /\ Cardinality(Outstanding(p, q, i)) \in Nat
         /\ IsFiniteSet(Counterparts(rows, p, i)) /\ Cardinality(Counterparts(rows, p, i)) \in Nat
<1>1. Outstanding(p, q, i) \in SUBSET Cell /\ Counterparts(rows, p, i) \in SUBSET Queued
  BY DEF Outstanding, Counterparts
<1> QED
  BY <1>1, FiniteSlots

\* And after a step.
LEMMA BothFiniteNext ==
  ASSUME NEW p, NEW q, NEW i
  PROVE  /\ IsFiniteSet(Outstanding(p, q, i)') /\ Cardinality(Outstanding(p, q, i)') \in Nat
<1>1. Outstanding(p, q, i)' \in SUBSET Cell
  BY DEF Outstanding
<1> QED
  BY <1>1, FiniteSlots

\* The receiver's rows are those of one kind.
LEMMA CounterpartHits ==
  ASSUME NEW q \in Player, NEW rows \in [Slots -> InRow(q)], NEW p \in Player, NEW i \in Item
  PROVE  /\ Counterparts(rows, p, i) = Hits(Queued, rows, {[item |-> i, from |-> p]})
         /\ NoIn \notin {[item |-> i, from |-> p]}
<1>1. NoIn.item # i
  BY BoxAssumption DEF NoIn
<1>2. \A s \in Queued : rows[s].from = p /\ rows[s].item = i <=> rows[s] = [item |-> i, from |-> p]
  <2> TAKE s \in Queued
  <2>1. rows[s] \in InRow(q)
    BY SlotNumbers
  <2>2. CASE rows[s] = NoIn
    <3>1. rows[s].item # i
      BY <1>1, <2>2
    <3> QED
      BY <3>1
  <2>3. CASE rows[s] # NoIn
    <3>1. rows[s] \in [item : Item, from : Someone]
      BY <2>1, <2>3 DEF InRow
    <3> QED
      BY <3>1
  <2> QED
    BY <2>2, <2>3
<1>3. NoIn # [item |-> i, from |-> p]
  BY <1>1
<1> QED
  BY <1>2, <1>3 DEF Counterparts, Hits

\* A queue whose rows stay loses nothing.
LEMMA SameQueue ==
  ASSUME NEW q \in Player, \A s \in Queued : inn'[q][s] = inn[q][s]
  PROVE  NobodyLoses(q)
<1> SUFFICES ASSUME NEW p \in Player, NEW i \in Item
             PROVE  Cardinality(Counterparts(inn[q], p, i)) <= Cardinality(Counterparts(inn'[q], p, i))
  BY DEF NobodyLoses
<1>1. Counterparts(inn[q], p, i) = Counterparts(inn'[q], p, i)
  BY DEF Counterparts
<1>2. Cardinality(Counterparts(inn[q], p, i)) \in Nat
  BY BothFinite
<1> QED
  BY <1>1, <1>2

\* Nor does one that gains a parcel.
LEMMA LongerQueue ==
  ASSUME BoxInv, NEW q \in Player, NEW item \in Item, NEW from \in Someone \ {q}, Fits(q),
         inn'[q] = Post(inn[q], item, from)
  PROVE  /\ NobodyLoses(q)
         /\ from \in Player => Cardinality(Counterparts(inn'[q], from, item))
                                 = Cardinality(Counterparts(inn[q], from, item)) + 1
<1>1. inn[q] \in [Slots -> InRow(q)] /\ NextSlot(inn[q]) <= MaxSlot
  BY DEF BoxInv, InOK, Fits
<1>2. inn'[q] \in [Slots -> InRow(q)]
  <2>1. Post(inn[q], item, from) \in [Slots -> InRow(q)]
    BY <1>1, PostOK
  <2> QED
    BY <2>1
<1>3. ASSUME NEW p \in Player, NEW i \in Item
      PROVE  /\ Cardinality(Counterparts(inn[q], p, i)) \in Nat
             /\ Cardinality(Counterparts(inn'[q], p, i)) = Cardinality(Counterparts(inn[q], p, i))
                  + One([item |-> item, from |-> from], {[item |-> i, from |-> p]})
  <2> DEFINE C == {[item |-> i, from |-> p]}
  <2>1. Counterparts(inn[q], p, i) = Hits(Queued, inn[q], C) /\ NoIn \notin C
    BY <1>1, CounterpartHits
  <2>2. Counterparts(inn'[q], p, i) = Hits(Queued, inn'[q], C)
    BY <1>2, CounterpartHits
  <2> HIDE DEF C
  <2>3. /\ Cardinality(Hits(Queued, inn[q], C)) \in Nat
        /\ Cardinality(Hits(Queued, Post(inn[q], item, from), C))
             = Cardinality(Hits(Queued, inn[q], C)) + One([item |-> item, from |-> from], C)
    BY <1>1, <2>1, PostCounts
  <2> QED
    BY <2>1, <2>2, <2>3 DEF C
<1>4. \A r, C : One(r, C) \in {0, 1} /\ (One(r, {r}) = 1)
  BY DEF One
<1>5. NobodyLoses(q)
  <2> SUFFICES ASSUME NEW p \in Player, NEW i \in Item
               PROVE  Cardinality(Counterparts(inn[q], p, i)) <= Cardinality(Counterparts(inn'[q], p, i))
    BY DEF NobodyLoses
  <2>1. One([item |-> item, from |-> from], {[item |-> i, from |-> p]}) \in {0, 1}
    BY <1>4
  <2> QED
    BY <1>3, <2>1
<1>6. ASSUME from \in Player
      PROVE  Cardinality(Counterparts(inn'[q], from, item)) = Cardinality(Counterparts(inn[q], from, item)) + 1
  <2>1. One([item |-> item, from |-> from], {[item |-> item, from |-> from]}) = 1
    BY <1>4
  <2> QED
    BY <1>3, <1>6, <2>1
<1> QED
  BY <1>5, <1>6

\* Fewer that may be cancelled and no fewer to open.
LEMMA StillCalm ==
  ASSUME NEW p \in Player, NEW q \in Player, NEW i \in Item, NothingMore(p), NobodyLoses(q), Matched(p, q, i)
  PROVE  Matched(p, q, i)'
<1> DEFINE D == Outstanding(p, q, i)
           E == Outstanding(p, q, i)'
<1>1. E \subseteq D
  BY DEF NothingMore, Outstanding
<1>2. IsFiniteSet(D) /\ Cardinality(D) \in Nat
  BY BothFinite
<1> HIDE DEF D, E
<1>3. Cardinality(E) \in Nat /\ Cardinality(E) <= Cardinality(D)
  BY <1>1, <1>2, FS_Subset, FS_CardinalityType
<1>4. /\ Cardinality(Counterparts(inn[q], p, i)) \in Nat
      /\ Cardinality(Counterparts(inn'[q], p, i)) \in Nat
  BY BothFinite
<1>5. Cardinality(Counterparts(inn[q], p, i)) <= Cardinality(Counterparts(inn'[q], p, i))
  BY DEF NobodyLoses
<1>6. Cardinality(D) <= Cardinality(Counterparts(inn[q], p, i))
  BY DEF Matched, D
<1>7. Cardinality(E) <= Cardinality(Counterparts(inn'[q], p, i))
  BY <1>2, <1>3, <1>4, <1>5, <1>6
<1> QED
  BY <1>7 DEF E, Matched

\* A row that cannot be cancelled is written.
LEMMA RowCalm ==
  ASSUME BoxInv, NEW p \in Player, NEW k, NEW r, ~Cancellable(r),
         out' = [out EXCEPT ![p] = [out[p] EXCEPT ![k] = r]]
  PROVE  \A x \in Player : NothingMore(x)
<1>1. out = [x \in Player |-> out[x]] /\ out[p] \in [Cell -> OutRow(p)]
  BY DEF BoxInv, OutOK
<1>2. out'[p] = [out[p] EXCEPT ![k] = r] /\ \A x \in Player \ {p} : out'[x] = out[x]
  BY <1>1
<1>3. ASSUME NEW m \in Cell, Cancellable(out'[p][m]) PROVE out'[p][m] = out[p][m]
  <2>1. m # k
    <3> SUFFICES ASSUME m = k PROVE FALSE
      OBVIOUS
    <3>1. out'[p][m] = r
      BY <1>1, <1>2
    <3> QED
      BY <1>3, <3>1
  <2> QED
    BY <1>1, <1>2, <2>1
<1> QED
  BY <1>2, <1>3 DEF NothingMore


\* The steps of an idle player, but for calling a parcel back.
LEMMA StillAlone ==
  ASSUME BoxInv, NEW p \in Player,
         \/ OpenSendBox(p) \/ OpenRecvBox(p) \/ CloseMailWindow(p)
         \/ \E k \in Cell, i \in Item, q \in Player : AddItemsToBeSent(p, k, i, q)
         \/ \E k \in Cell : \/ SendConfirmation(p, k) \/ SendNewItems(p, k) \/ ReturnToSender(p, k)
                            \/ TakeItemFromCell(p, k) \/ RemoveItemFromCell(p, k)
                            \/ CancelSendingItem(p, k) /\ ~Cancellable(out[p][k])
         \/ RemoveDeliveredItemFromSendingBox(p)
  PROVE  \A x \in Player : NothingMore(x) /\ NobodyLoses(x)
<1>0. ~Cancellable(NoOut) /\ inn = [x \in Player |-> inn[x]] /\ inn[p] \in [Slots -> InRow(p)]
  BY DEF Cancellable, NoOut, BoxInv, InOK
<1>1. UNCHANGED out => \A x \in Player : NothingMore(x)
  BY DEF NothingMore
<1>2. UNCHANGED inn => \A x \in Player : NobodyLoses(x)
  BY SameQueue
<1>3. ASSUME NEW k \in Cell, inn' = [inn EXCEPT ![p] = [inn[p] EXCEPT ![k] = NoIn]]
      PROVE  \A x \in Player : NobodyLoses(x)
  <2>1. inn'[p] = [inn[p] EXCEPT ![k] = NoIn] /\ \A x \in Player \ {p} : inn'[x] = inn[x]
    BY <1>0, <1>3
  <2>2. \A s \in Queued : inn'[p][s] = inn[p][s]
    BY <1>0, <2>1, SlotNumbers
  <2> QED
    BY <2>1, <2>2, SameQueue
<1>4. CASE \/ OpenSendBox(p) \/ OpenRecvBox(p) \/ CloseMailWindow(p)
           \/ \E k \in Cell : SendConfirmation(p, k) \/ SendNewItems(p, k) \/ ReturnToSender(p, k)
  <2>1. UNCHANGED <<out, inn>>
    BY <1>4 DEF OpenSendBox, OpenRecvBox, CloseMailWindow, Opens, SendConfirmation, SendNewItems, ReturnToSender
  <2> QED
    BY <1>1, <1>2, <2>1
<1>5. ASSUME NEW k \in Cell, NEW i \in Item, NEW q \in Player, AddItemsToBeSent(p, k, i, q)
      PROVE  \A x \in Player : NothingMore(x) /\ NobodyLoses(x)
  <2> DEFINE r == [NoOut EXCEPT !.item = i, !.to = q]
  <2>1. ~Cancellable(r)
    BY DEF Cancellable, NoOut
  <2>2. out' = [out EXCEPT ![p] = [out[p] EXCEPT ![k] = r]] /\ UNCHANGED inn
    BY <1>5 DEF AddItemsToBeSent
  <2> HIDE DEF r
  <2> QED
    BY <1>2, <2>1, <2>2, RowCalm
<1>6. ASSUME NEW k \in Cell, TakeItemFromCell(p, k)
      PROVE  \A x \in Player : NothingMore(x) /\ NobodyLoses(x)
  <2>1. \/ out' = [out EXCEPT ![p] = [out[p] EXCEPT ![k] = NoOut]] /\ UNCHANGED inn
        \/ inn' = [inn EXCEPT ![p] = [inn[p] EXCEPT ![k] = NoIn]] /\ UNCHANGED out
    BY <1>6 DEF TakeItemFromCell
  <2> QED
    BY <1>0, <1>1, <1>2, <1>3, <2>1, RowCalm
<1>7. ASSUME NEW k \in Cell, RemoveItemFromCell(p, k)
      PROVE  \A x \in Player : NothingMore(x) /\ NobodyLoses(x)
  <2>1. UNCHANGED out /\ inn' = [inn EXCEPT ![p] = [inn[p] EXCEPT ![k] = NoIn]]
    BY <1>7 DEF RemoveItemFromCell
  <2> QED
    BY <1>1, <1>3, <2>1
<1>8. ASSUME NEW k \in Cell, CancelSendingItem(p, k), ~Cancellable(out[p][k])
      PROVE  \A x \in Player : NothingMore(x) /\ NobodyLoses(x)
  <2> DEFINE r == IF out[p][k].item = CellOf(p, k).item THEN NoOut ELSE out[p][k]
  <2>1. out' = [out EXCEPT ![p] = [out[p] EXCEPT ![k] = r]] /\ UNCHANGED inn
    BY <1>8 DEF CancelSendingItem
  <2>2. ~Cancellable(r)
    BY <1>0, <1>8
  <2> HIDE DEF r
  <2> QED
    BY <1>2, <2>1, <2>2, RowCalm
<1>9. ASSUME RemoveDeliveredItemFromSendingBox(p)
      PROVE  \A x \in Player : NothingMore(x) /\ NobodyLoses(x)
  <2>1. PICK k : out' = [out EXCEPT ![p] = [out[p] EXCEPT ![k] = NoOut]]
    BY <1>9 DEF RemoveDeliveredItemFromSendingBox
  <2>2. UNCHANGED inn
    BY <1>9 DEF RemoveDeliveredItemFromSendingBox
  <2> QED
    BY <1>0, <1>2, <2>1, <2>2, RowCalm
<1> QED
  BY <1>4, <1>5, <1>6, <1>7, <1>8, <1>9

\* A parcel that is called back is taken out of the queue: one of the kind on either side.
LEMMA StillCancel ==
  ASSUME BoxInv, NEW p \in Player, NEW k \in Cell, CancelSendingItem(p, k), Cancellable(out[p][k]),
         \A x, y \in Player, i \in Item : Matched(x, y, i),
         NEW x \in Player, NEW q \in Player, NEW i \in Item
  PROVE  Matched(x, q, i)'
<1> DEFINE row == out[p][k]
           S   == Counterparts(inn[row.to], p, CellOf(p, k).item)
<1>1. /\ out = [y \in Player |-> out[y]] /\ inn = [y \in Player |-> inn[y]]
      /\ out[p] \in [Cell -> OutRow(p)] /\ row # NoOut
  BY DEF BoxInv, OutOK, InOK, Cancellable, NoOut
<1>2. /\ row.item = CellOf(p, k).item /\ row \in [item : Item, to : Player, sent : BOOLEAN, received : BOOLEAN]
      /\ row.to \in Player \ {p}
  BY <1>1 DEF CancelSendingItem, Showing, BoxInv, Agrees, OutRow, CellOf
<1>3. PICK w \in Player, a \in Item : w = row.to /\ a = row.item
  BY <1>2
<1>4. k \in Outstanding(p, w, a)
  BY <1>3 DEF Outstanding
<1>5. PICK r : r = [row EXCEPT !.sent = FALSE]
  OBVIOUS
<1>6. ~Cancellable(r)
  BY <1>2, <1>5 DEF Cancellable
<1>7. out' = [out EXCEPT ![p] = [out[p] EXCEPT ![k] = r]]
  <2>1. out' = [out EXCEPT ![p] = [out[p] EXCEPT ![k].sent = FALSE]]
    BY DEF CancelSendingItem
  <2>2. [out[p] EXCEPT ![k].sent = FALSE] = [out[p] EXCEPT ![k] = r]
    BY <1>1, <1>5
  <2> QED
    BY <2>1, <2>2
<1>8. S = Counterparts(inn[w], p, a)
  BY <1>2, <1>3
<1>9. S # {}
  <2>1. Matched(p, w, a)
    OBVIOUS
  <2>2. Cardinality(Outstanding(p, w, a)) \in Nat /\ Cardinality(Outstanding(p, w, a)) # 0
    BY <1>4, BothFinite, FS_EmptySet
  <2>3. Cardinality(Counterparts(inn[w], p, a)) # 0 /\ Cardinality({}) = 0
    BY <2>1, <2>2, BothFinite, FS_EmptySet DEF Matched
  <2> QED
    BY <1>8, <2>3
<1>10. PICK m \in S : m = Min(S)
  <2>1. S \in SUBSET Nat
    BY SlotNumbers DEF Counterparts
  <2> QED
    BY <1>9, <2>1, MinIn
<1>11. inn' = [inn EXCEPT ![w] = [inn[w] EXCEPT ![m] = NoIn]]
  BY <1>3, <1>9, <1>10 DEF CancelSendingItem
<1>12. m \in Queued /\ inn[w][m].from = p /\ inn[w][m].item = a /\ inn[w] \in [Slots -> InRow(w)] /\ m \in Slots
  BY <1>8, <1>10, SlotNumbers DEF Counterparts, BoxInv, InOK
<1>13. /\ inn'[w][m] = NoIn /\ \A s \in Queued \ {m} : inn'[w][s] = inn[w][s]
       /\ \A y \in Player \ {w} : inn'[y] = inn[y]
  <2>1. inn'[w] = [inn[w] EXCEPT ![m] = NoIn] /\ \A y \in Player \ {w} : inn'[y] = inn[y]
    BY <1>1, <1>11
  <2> QED
    BY <1>12, <2>1, SlotNumbers
<1>14. \A y \in Player : NothingMore(y)
  BY <1>6, <1>7, RowCalm
<1> HIDE DEF row, S
<1>15. ASSUME ~(x = p /\ q = w /\ i = a) PROVE Matched(x, q, i)'
  <2>1. Counterparts(inn'[q], x, i) = Counterparts(inn[q], x, i)
    <3>1. CASE q # w
      BY <1>13, <3>1
    <3>2. CASE q = w
      <4>1. NoIn.item # i /\ ~(inn[w][m].from = x /\ inn[w][m].item = i)
        BY <1>12, <1>15, <3>2, BoxAssumption DEF NoIn
      <4> QED
        BY <1>13, <3>2, <4>1 DEF Counterparts
    <3> QED
      BY <3>1, <3>2
  <2>2. Outstanding(x, q, i)' \subseteq Outstanding(x, q, i)
    BY <1>14 DEF Outstanding, NothingMore
  <2>3. Cardinality(Outstanding(x, q, i)') <= Cardinality(Outstanding(x, q, i))
    BY <2>2, BothFinite, FS_Subset
  <2>4. Matched(x, q, i)
    OBVIOUS
  <2> QED
    BY <2>1, <2>3, <2>4, BothFinite, BothFiniteNext DEF Matched
<1>16. ASSUME x = p, q = w, i = a PROVE Matched(x, q, i)'
  <2> DEFINE D == Outstanding(p, w, a)
             E == Outstanding(p, w, a)'
             W == Counterparts(inn[w], p, a)
             V == Counterparts(inn'[w], p, a)
  <2>1. out'[p][k] = r /\ E \subseteq D
    BY <1>1, <1>7, <1>14 DEF Outstanding, NothingMore
  <2>2. k \notin E /\ E \subseteq D \ {k}
    BY <1>6, <2>1 DEF Outstanding
  <2>3. m \in W /\ V = W \ {m}
    <3>1. NoIn.item # a
      BY BoxAssumption DEF NoIn
    <3> QED
      BY <1>8, <1>10, <1>13, <3>1 DEF Counterparts
  <2>4. IsFiniteSet(D) /\ IsFiniteSet(W) /\ Cardinality(D) \in Nat /\ Cardinality(W) \in Nat
    BY BothFinite
  <2>5. Cardinality(D) <= Cardinality(W)
    BY DEF Matched
  <2>6. k \in D
    BY <1>4
  <2> HIDE DEF D, E, W, V
  <2>7. IsFiniteSet(D \ {k}) /\ Cardinality(D \ {k}) = Cardinality(D) - 1 /\ Cardinality(V) = Cardinality(W) - 1
    BY <2>3, <2>4, <2>6, FS_RemoveElement
  <2>8. Cardinality(E) <= Cardinality(D \ {k}) /\ Cardinality(E) \in Nat
    BY <2>2, <2>7, FS_Subset, FS_CardinalityType
  <2>9. Cardinality(E) <= Cardinality(V)
    BY <2>4, <2>5, <2>7, <2>8
  <2> QED
    BY <1>16, <2>9 DEF E, V, Matched
<1> QED
  BY <1>15, <1>16


\* A parcel that is sent is one more on either side.
LEMMA StillSend ==
  ASSUME BoxInv, NEW p \in Player, FinishSend(p), \A x, y \in Player, i \in Item : Matched(x, y, i),
         NEW x \in Player, NEW q \in Player, NEW i \in Item
  PROVE  Matched(x, q, i)'
<1> DEFINE row == out[p][pc[p].k]
<1>1. /\ out = [y \in Player |-> out[y]] /\ inn = [y \in Player |-> inn[y]]
      /\ out[p] \in [Cell -> OutRow(p)] /\ pc[p].op = "send" /\ pc[p].k \in Cell
  BY DEF BoxInv, OutOK, InOK, FinishSend, GoesOn, Handler
<1>2. row # NoOut /\ row.item = pc[p].item /\ pc[p].item \in Item
  BY <1>1 DEF BoxInv, Busy
<1>3. row \in [item : Item, to : Player, sent : BOOLEAN, received : BOOLEAN] /\ row.to \in Player \ {p}
  BY <1>1, <1>2 DEF OutRow
<1>4. PICK k \in Cell, w \in Player, a \in Item : k = pc[p].k /\ w = row.to /\ a = pc[p].item
  BY <1>1, <1>2, <1>3
<1>5. CASE row.sent
  <2>1. UNCHANGED <<out, inn>>
    BY <1>5 DEF FinishSend
  <2>2. NothingMore(x) /\ NobodyLoses(q)
    BY <2>1, SameQueue DEF NothingMore
  <2> QED
    BY <2>2, StillCalm
<1>6. CASE ~row.sent
  <2>1. PICK r : r = [row EXCEPT !.sent = TRUE]
    OBVIOUS
  <2>2. r.to = w /\ r.item = a
    BY <1>2, <1>3, <1>4, <2>1
  <2>3. out' = [out EXCEPT ![p] = [out[p] EXCEPT ![k] = r]]
    <3>1. out' = [out EXCEPT ![p] = [out[p] EXCEPT ![k].sent = TRUE]]
      BY <1>4, <1>6 DEF FinishSend
    <3>2. [out[p] EXCEPT ![k].sent = TRUE] = [out[p] EXCEPT ![k] = r]
      BY <1>1, <1>4, <2>1
    <3> QED
      BY <3>1, <3>2
  <2>4. inn' = [inn EXCEPT ![w] = Post(inn[w], a, p)] /\ Fits(w)
    BY <1>4, <1>6 DEF FinishSend
  <2>5. inn'[w] = Post(inn[w], a, p) /\ \A y \in Player \ {w} : inn'[y] = inn[y]
    BY <1>1, <2>4
  <2>6. p \in Someone \ {w}
    BY <1>3, <1>4 DEF Someone
  <2>7. NobodyLoses(w) /\ Cardinality(Counterparts(inn'[w], p, a)) = Cardinality(Counterparts(inn[w], p, a)) + 1
    BY <2>4, <2>5, <2>6, LongerQueue
  <2>8. NobodyLoses(q)
    BY <2>5, <2>7, SameQueue
  <2>9. /\ out'[p][k] = r /\ \A m \in Cell \ {k} : out'[p][m] = out[p][m]
        /\ \A y \in Player \ {p} : out'[y] = out[y]
    BY <1>1, <2>3
  <2>10. CASE ~(x = p /\ q = w /\ i = a)
    <3>1. Outstanding(x, q, i)' \subseteq Outstanding(x, q, i)
      <4>1. CASE x # p
        BY <2>9, <4>1 DEF Outstanding
      <4>2. CASE x = p
        <5>1. ~(r.to = q /\ r.item = i)
          BY <2>2, <2>10, <4>2
        <5> QED
          BY <2>9, <4>2, <5>1 DEF Outstanding
      <4> QED
        BY <4>1, <4>2
    <3>2. Cardinality(Outstanding(x, q, i)') <= Cardinality(Outstanding(x, q, i))
      BY <3>1, BothFinite, FS_Subset
    <3>3. Matched(x, q, i)
      OBVIOUS
    <3>4. Cardinality(Counterparts(inn[q], x, i)) <= Cardinality(Counterparts(inn'[q], x, i))
      BY <2>8 DEF NobodyLoses
    <3>5. /\ Cardinality(Counterparts(inn[q], x, i)) \in Nat
          /\ Cardinality(Counterparts(inn'[q], x, i)) \in Nat
      BY BothFinite
    <3> QED
      BY <3>2, <3>3, <3>4, <3>5, BothFinite, BothFiniteNext DEF Matched
  <2>11. CASE x = p /\ q = w /\ i = a
    <3> DEFINE D == Outstanding(p, w, a)
               E == Outstanding(p, w, a)'
    <3>1. E \subseteq D \cup {k}
      BY <2>9 DEF Outstanding
    <3>2. IsFiniteSet(D) /\ Cardinality(D) \in Nat
      BY BothFinite
    <3>3. Cardinality(D) <= Cardinality(Counterparts(inn[w], p, a))
      BY DEF Matched
    <3>4. Cardinality(Counterparts(inn[w], p, a)) \in Nat
      BY BothFinite
    <3> HIDE DEF D, E
    <3>5. /\ IsFiniteSet(D \cup {k}) /\ Cardinality(D \cup {k}) \in Nat
          /\ Cardinality(D \cup {k}) <= Cardinality(D) + 1
      <4>1. IsFiniteSet(D \cup {k})
        BY <3>2, FS_AddElement
      <4>2. Cardinality(D \cup {k}) = Cardinality(D) \/ Cardinality(D \cup {k}) = Cardinality(D) + 1
        BY <3>2, FS_AddElement
      <4> QED
        BY <3>2, <4>1, <4>2
    <3>6. Cardinality(E) <= Cardinality(D \cup {k}) /\ Cardinality(E) \in Nat
      BY <3>1, <3>5, FS_Subset, FS_CardinalityType
    <3>7. Cardinality(E) <= Cardinality(Counterparts(inn'[w], p, a))
      BY <2>7, <3>2, <3>3, <3>4, <3>5, <3>6
    <3> QED
      BY <2>11, <3>7 DEF E, Matched
  <2> QED
    BY <2>10, <2>11
<1> QED
  BY <1>5, <1>6

\* What marking a row as received does to the rows that can be cancelled.
LEMMA MarkedCounts ==
  ASSUME NEW w \in Player, NEW rows \in [Cell -> OutRow(w)], NEW p \in Player, NEW a \in Item,
         NEW new, new = Marked(rows, p, a)
  PROVE  /\ \A m \in Cell : Cancellable(new[m]) => new[m] = rows[m]
         /\ \A m \in Cell : rows[m].to = p /\ Cancellable(rows[m]) /\ rows[m].item = a
              => \E k \in Cell : /\ rows[k].to = p /\ Cancellable(rows[k]) /\ rows[k].item = a
                                 /\ ~Cancellable(new[k])
<1> DEFINE S == {k \in Cell : rows[k].to = p /\ Cancellable(rows[k]) /\ rows[k].item = a}
<1>1. S = {k \in Cell : rows[k].to = p /\ rows[k].sent /\ ~rows[k].received /\ rows[k].item = a}
  BY DEF Cancellable
<1>2. CASE S = {}
  BY <1>1, <1>2 DEF Marked
<1>3. CASE S # {}
  <2>1. PICK k \in S : k = Min(S)
    <3>1. S \in SUBSET Nat
      BY <1>1, SlotNumbers
    <3> QED
      BY <1>3, <3>1, MinIn
  <2>2. new = [rows EXCEPT ![k].received = TRUE]
    BY <1>1, <1>3, <2>1 DEF Marked
  <2>3. k \in Cell /\ rows[k] \in OutRow(w) /\ rows[k] # NoOut
    BY <1>1, <2>1 DEF NoOut
  <2>4. rows[k] \in [item : Item, to : Player, sent : BOOLEAN, received : BOOLEAN]
    BY <2>3 DEF OutRow
  <2>5. PICK r : r = [rows[k] EXCEPT !.received = TRUE]
    OBVIOUS
  <2>6. ~Cancellable(r)
    BY <2>4, <2>5 DEF Cancellable
  <2>7. new = [rows EXCEPT ![k] = r]
    BY <2>2, <2>3, <2>5
  <2>8. new[k] = r /\ \A m \in Cell \ {k} : new[m] = rows[m]
    BY <2>3, <2>7
  <2> QED
    BY <2>1, <2>6, <2>8
<1> QED
  BY <1>2, <1>3


\* A parcel that is opened is marked at its sender: one of the kind less on either side.
LEMMA StillRecv ==
  ASSUME BoxInv, NEW p \in Player, FinishRecv(p), RecvOK(p), \A x, y \in Player, i \in Item : Matched(x, y, i),
         NEW x \in Player, NEW q \in Player, NEW i \in Item
  PROVE  Matched(x, q, i)'
<1> DEFINE r == pc[p]
<1>1. /\ out = [y \in Player |-> out[y]] /\ inn = [y \in Player |-> inn[y]]
      /\ inn[p] \in [Slots -> InRow(p)] /\ r.op = "recv" /\ r.k \in Cell
      /\ r.item \in Item /\ r.slot \in Queued /\ r.who \in Someone \ {p}
  BY DEF BoxInv, OutOK, InOK, FinishRecv, GoesOn, Handler, Busy
<1>2. PICK a \in Item, s \in Queued, k \in Cell, w \in Someone : a = r.item /\ s = r.slot /\ k = r.k /\ w = r.who
  BY <1>1
<1>3. inn[p][s] = [item |-> a, from |-> w] /\ inn[p][k] = NoIn
  BY <1>1, <1>2 DEF RecvOK
<1>4. /\ out' = IF w = None THEN out ELSE [out EXCEPT ![w] = Marked(out[w], p, a)]
      /\ inn' = [inn EXCEPT ![p] = Opened(inn[p], s, k)]
  BY <1>2, <1>3 DEF FinishRecv
<1>5. inn'[p] = Opened(inn[p], s, k) /\ \A y \in Player \ {p} : inn'[y] = inn[y]
  BY <1>1, <1>4
<1>6. inn'[p] \in [Slots -> InRow(p)]
  <2>1. Opened(inn[p], s, k) \in [Slots -> InRow(p)]
    BY <1>1, OpenedOK
  <2> QED
    BY <1>5, <2>1
<1>7. ASSUME NEW y \in Player, NEW j \in Item
      PROVE  Cardinality(Counterparts(inn'[p], y, j))
               = Cardinality(Counterparts(inn[p], y, j)) - One([item |-> a, from |-> w], {[item |-> j, from |-> y]})
  <2> DEFINE C == {[item |-> j, from |-> y]}
             c == [item |-> a, from |-> w]
  <2>1. Counterparts(inn[p], y, j) = Hits(Queued, inn[p], C) /\ NoIn \notin C
    BY <1>1, CounterpartHits
  <2>2. Counterparts(inn'[p], y, j) = Hits(Queued, inn'[p], C)
    BY <1>6, CounterpartHits
  <2>3. inn[p][s] = c
    BY <1>3
  <2> HIDE DEF C, c
  <2>4. Cardinality(Hits(Queued, Opened(inn[p], s, k), C)) = Cardinality(Hits(Queued, inn[p], C)) - One(inn[p][s], C)
    BY <1>1, <2>1, OpenedCounts
  <2>5. Cardinality(Hits(Queued, inn'[p], C)) = Cardinality(Hits(Queued, inn[p], C)) - One(c, C)
    BY <1>5, <2>3, <2>4
  <2> QED
    BY <2>1, <2>2, <2>5 DEF C, c
<1>8. w \in Player =>
        /\ \A m \in Cell : Cancellable(out'[w][m]) => out'[w][m] = out[w][m]
        /\ Outstanding(w, p, a) # {} => \E m \in Outstanding(w, p, a) : ~Cancellable(out'[w][m])
        /\ \A y \in Player \ {w} : out'[y] = out[y]
  <2> SUFFICES ASSUME w \in Player
               PROVE  /\ \A m \in Cell : Cancellable(out'[w][m]) => out'[w][m] = out[w][m]
                      /\ Outstanding(w, p, a) # {} => \E m \in Outstanding(w, p, a) : ~Cancellable(out'[w][m])
                      /\ \A y \in Player \ {w} : out'[y] = out[y]
    OBVIOUS
  <2>1. out[w] \in [Cell -> OutRow(w)]
    BY DEF BoxInv, OutOK
  <2>2. PICK new : new = Marked(out[w], p, a)
    OBVIOUS
  <2>3. out' = [out EXCEPT ![w] = new]
    BY <1>4, <2>2, BoxAssumption
  <2>4. out'[w] = new /\ \A y \in Player \ {w} : out'[y] = out[y]
    BY <1>1, <2>3
  <2>5. PICK rows \in [Cell -> OutRow(w)] : rows = out[w]
    BY <2>1
  <2>6. new = Marked(rows, p, a)
    BY <2>2, <2>5
  <2>7. /\ \A m \in Cell : Cancellable(new[m]) => new[m] = rows[m]
        /\ \A m \in Cell : rows[m].to = p /\ Cancellable(rows[m]) /\ rows[m].item = a
             => \E j \in Cell : /\ rows[j].to = p /\ Cancellable(rows[j]) /\ rows[j].item = a
                                /\ ~Cancellable(new[j])
    BY ONLY <2>5, <2>6, w \in Player, MarkedCounts
  <2> QED
    BY <2>4, <2>5, <2>7 DEF Outstanding
<1>9. w \notin Player => UNCHANGED out
  BY <1>4 DEF Someone
<1>10. Outstanding(x, q, i)' \subseteq Outstanding(x, q, i)
  <2>1. CASE x = w
    BY <1>8, <2>1 DEF Outstanding
  <2>2. CASE x # w
    <3>1. out'[x] = out[x]
      BY <1>8, <1>9, <2>2
    <3> QED
      BY <3>1 DEF Outstanding
  <2> QED
    BY <2>1, <2>2
<1> HIDE DEF r
<1>11. CASE ~(x = w /\ q = p /\ i = a)
  <2>1. Cardinality(Counterparts(inn'[q], x, i)) = Cardinality(Counterparts(inn[q], x, i))
    <3>1. CASE q # p
      BY <1>5, <3>1
    <3>2. CASE q = p
      <4>1. One([item |-> a, from |-> w], {[item |-> i, from |-> x]}) = 0
        BY <1>11, <3>2 DEF One
      <4>2. Cardinality(Counterparts(inn[p], x, i)) \in Nat
        BY BothFinite
      <4>3. Cardinality(Counterparts(inn'[p], x, i)) = Cardinality(Counterparts(inn[p], x, i)) - 0
        BY <1>7, <4>1
      <4> QED
        BY <3>2, <4>2, <4>3
    <3> QED
      BY <3>1, <3>2
  <2>2. Cardinality(Outstanding(x, q, i)') <= Cardinality(Outstanding(x, q, i))
    BY <1>10, BothFinite, FS_Subset
  <2>3. Matched(x, q, i)
    OBVIOUS
  <2> QED
    BY <2>1, <2>2, <2>3, BothFinite, BothFiniteNext DEF Matched
<1>12. CASE x = w /\ q = p /\ i = a
  <2>1. w \in Player
    BY <1>12
  <2> DEFINE D == Outstanding(w, p, a)
             E == Outstanding(w, p, a)'
             W == Cardinality(Counterparts(inn[p], w, a))
             V == Cardinality(Counterparts(inn'[p], w, a))
  <2>2. One([item |-> a, from |-> w], {[item |-> a, from |-> w]}) = 1
    BY DEF One
  <2>3. V = W - 1
    BY <1>7, <2>1, <2>2
  <2>4. E \subseteq D
    BY <1>10, <1>12
  <2>5. D # {} => \E m \in D : m \notin E
    <3>1. D # {} => \E m \in D : ~Cancellable(out'[w][m])
      BY <1>8, <2>1
    <3>2. \A m : m \in E => Cancellable(out'[w][m])
      BY DEF Outstanding
    <3> QED
      BY <3>1, <3>2
  <2>6. IsFiniteSet(D) /\ Cardinality(D) \in Nat /\ W \in Nat /\ V \in Nat
    BY BothFinite
  <2>7. Cardinality(D) <= W
    BY <2>1 DEF Matched
  <2> HIDE DEF D, E, W, V
  <2>8. CASE D = {}
    <3>1. E = {} /\ Cardinality(E) = 0
      BY <2>4, <2>8, FS_EmptySet
    <3>2. Cardinality(E) <= V
      BY <2>6, <3>1
    <3> QED
      BY <1>12, <3>2 DEF E, V, Matched
  <2>9. CASE D # {}
    <3>1. PICK m \in D : E \subseteq D \ {m}
      BY <2>4, <2>5, <2>9
    <3>2. IsFiniteSet(D \ {m}) /\ Cardinality(D \ {m}) = Cardinality(D) - 1
      BY <2>6, FS_RemoveElement
    <3>3. Cardinality(E) <= Cardinality(D \ {m}) /\ Cardinality(E) \in Nat
      BY <3>1, <3>2, FS_Subset, FS_CardinalityType
    <3>4. Cardinality(E) <= V
      BY <2>3, <2>6, <2>7, <3>2, <3>3
    <3> QED
      BY <1>12, <3>4 DEF E, V, Matched
  <2> QED
    BY <2>8, <2>9
<1> QED
  BY <1>11, <1>12

\* A parcel that is returned, and those of the auction house, come to a queue.
LEMMA StillPosted ==
  ASSUME BoxInv,
         \/ \E p \in Player : \/ FinishReturn(p) /\ UNCHANGED <<sales, expiry>>
                              \/ \E i \in Item : ProofOfPurchase(p, i)
                              \/ \E s \in sales : PurchasingItems(p, s) \/ CancelSale(p, s)
         \/ ExpireAHItems \/ StrikeOff \/ \E s \in expiry.todo : SendBack(s)
  PROVE  \A x \in Player : NothingMore(x) /\ NobodyLoses(x)
<1>1. UNCHANGED out
  BY DEF FinishReturn, ProofOfPurchase, PurchasingItems, CancelSale, ExpireAHItems, StrikeOff, SendBack, boxVars
<1>2. \A x \in Player : NothingMore(x)
  BY <1>1 DEF NothingMore
<1>3. UNCHANGED inn => \A x \in Player : NobodyLoses(x)
  BY SameQueue
<1>4. ASSUME NEW w \in Player, NEW a \in Item, Fits(w), inn' = [inn EXCEPT ![w] = Post(inn[w], a, None)]
      PROVE  \A x \in Player : NobodyLoses(x)
  <2>1. None \in Someone \ {w} /\ inn = [x \in Player |-> inn[x]]
    BY BoxAssumption DEF Someone, BoxInv, InOK
  <2>2. inn'[w] = Post(inn[w], a, None) /\ \A x \in Player \ {w} : inn'[x] = inn[x]
    BY <1>4, <2>1
  <2> QED
    BY <1>4, <2>1, <2>2, LongerQueue, SameQueue
<1>5. sales \subseteq Sale /\ expiry.todo \subseteq Sale /\ Coin \in Item
      /\ \A s \in Sale : s.item \in Item /\ s.seller \in Player
  BY BoxAssumption DEF BoxInv, Sale
<1>6. ASSUME NEW p \in Player, FinishReturn(p), UNCHANGED <<sales, expiry>>
      PROVE  \A x \in Player : NobodyLoses(x)
  <2>1. /\ pc[p].who \in Player \ {p} /\ pc[p].item \in Item /\ pc[p].k \in Cell
        /\ inn'[p] = [inn[p] EXCEPT ![pc[p].k] = NoIn]
        /\ inn'[pc[p].who] = Post(inn[pc[p].who], pc[p].item, p)
        /\ \A x \in Player \ {p, pc[p].who} : inn'[x] = inn[x]
    BY <1>6, FinishReturnInv
  <2>2. PICK w \in Player \ {p}, a \in Item : w = pc[p].who /\ a = pc[p].item
    BY <2>1
  <2>3. NobodyLoses(w)
    <3>1. Fits(w) /\ p \in Someone \ {w} /\ inn'[w] = Post(inn[w], a, p)
      BY <1>6, <2>1, <2>2 DEF FinishReturn, Someone
    <3> QED
      BY <3>1, LongerQueue
  <2>4. inn[p] \in [Slots -> InRow(p)]
    BY DEF BoxInv, InOK
  <2>5. \A s \in Queued : inn'[p][s] = inn[p][s]
    BY <2>1, <2>4, SlotNumbers
  <2> QED
    BY <2>1, <2>2, <2>3, <2>5, SameQueue
<1>7. ASSUME NEW p \in Player, NEW s \in sales, PurchasingItems(p, s)
      PROVE  \A x \in Player : NobodyLoses(x)
  <2>1. s \in Sale /\ Fits(s.seller) /\ inn' = [inn EXCEPT ![s.seller] = Post(inn[s.seller], Coin, None)]
    BY <1>5, <1>7 DEF PurchasingItems
  <2> QED
    BY <1>4, <1>5, <2>1
<1>8. ASSUME NEW s \in expiry.todo, SendBack(s) PROVE \A x \in Player : NobodyLoses(x)
  <2>1. s \in Sale /\ Fits(s.seller) /\ inn' = [inn EXCEPT ![s.seller] = Post(inn[s.seller], s.item, None)]
    BY <1>5, <1>8 DEF SendBack
  <2> QED
    BY <1>4, <1>5, <2>1
<1>9. (\E p \in Player : (\E i \in Item : ProofOfPurchase(p, i)) \/ (\E s \in sales : CancelSale(p, s)))
        \/ ExpireAHItems \/ StrikeOff => UNCHANGED inn
  BY DEF ProofOfPurchase, CancelSale, ExpireAHItems, StrikeOff, boxVars
<1>10. \A x \in Player : NobodyLoses(x)
  BY <1>3, <1>6, <1>7, <1>8, <1>9
<1> QED
  BY <1>2, <1>10

\* Every step keeps both sides apace.
LEMMA NextMatched ==
  /\ BoxInv /\ (\A x \in Player : RecvOK(x)) /\ [Next]_vars
  /\ \A x, y \in Player, i \in Item : Matched(x, y, i)
  => (\A x, y \in Player, i \in Item : Matched(x, y, i))'
<1> SUFFICES ASSUME BoxInv, \A x \in Player : RecvOK(x), [Next]_vars,
                    \A x, y \in Player, i \in Item : Matched(x, y, i),
                    NEW x \in Player, NEW q \in Player, NEW i \in Item
             PROVE  Matched(x, q, i)'
  OBVIOUS
<1>1. CASE UNCHANGED vars
  <2>1. UNCHANGED <<out, inn>>
    BY <1>1 DEF vars, boxVars
  <2>2. NothingMore(x) /\ NobodyLoses(q)
    BY <2>1, SameQueue DEF NothingMore
  <2> QED
    BY <2>2, StillCalm
<1>2. ASSUME NEW p \in Player, BoxStep(p), UNCHANGED <<sales, expiry>> PROVE Matched(x, q, i)'
  <2>1. CASE FinishSend(p)
    BY <2>1, StillSend
  <2>2. CASE FinishRecv(p)
    BY <2>2, StillRecv
  <2>3. CASE FinishReturn(p)
    <3>1. NothingMore(x) /\ NobodyLoses(q)
      BY <1>2, <2>3, StillPosted
    <3> QED
      BY <3>1, StillCalm
  <2>4. ASSUME NEW k \in Cell, CancelSendingItem(p, k), Cancellable(out[p][k]) PROVE Matched(x, q, i)'
    BY <2>4, StillCancel
  <2>5. CASE \/ OpenSendBox(p) \/ OpenRecvBox(p) \/ CloseMailWindow(p)
             \/ \E k \in Cell, j \in Item, y \in Player : AddItemsToBeSent(p, k, j, y)
             \/ \E k \in Cell : \/ SendConfirmation(p, k) \/ SendNewItems(p, k) \/ ReturnToSender(p, k)
                                \/ TakeItemFromCell(p, k) \/ RemoveItemFromCell(p, k)
                                \/ CancelSendingItem(p, k) /\ ~Cancellable(out[p][k])
             \/ RemoveDeliveredItemFromSendingBox(p)
    <3>1. NothingMore(x) /\ NobodyLoses(q)
      BY <2>5, StillAlone
    <3> QED
      BY <3>1, StillCalm
  <2> QED
    BY <1>2, <2>1, <2>2, <2>3, <2>4, <2>5 DEF BoxStep
<1>3. CASE \/ \E p \in Player : \/ \E j \in Item : ProofOfPurchase(p, j)
                                \/ \E s \in sales : PurchasingItems(p, s) \/ CancelSale(p, s)
           \/ ExpireAHItems \/ StrikeOff \/ \E s \in expiry.todo : SendBack(s)
  <2>1. NothingMore(x) /\ NobodyLoses(q)
    BY <1>3, StillPosted
  <2> QED
    BY <2>1, StillCalm
<1> QED
  BY <1>1, <1>2, <1>3 DEF Next

\* Nothing is sent at first.
LEMMA InitMatched == Init => \A x, y \in Player, i \in Item : Matched(x, y, i)
<1> SUFFICES ASSUME Init, NEW x \in Player, NEW q \in Player, NEW i \in Item PROVE Matched(x, q, i)
  OBVIOUS
<1>1. Outstanding(x, q, i) = {}
  BY DEF Init, BoxInit, Outstanding, Cancellable, NoOut
<1>2. Cardinality(Outstanding(x, q, i)) = 0
  BY <1>1, FS_EmptySet
<1>3. Cardinality(Counterparts(inn[q], x, i)) \in Nat
  BY BothFinite
<1> QED
  BY <1>2, <1>3 DEF Matched

\* Said of all kinds at once.
LEMMA MatchedIsThere == (\A x, y \in Player, i \in Item : Matched(x, y, i)) => StillThere
BY DEF Matched, StillThere

\* What a sender may still call back is in the queue of its receiver, where the statements
\* that open a parcel are one transaction that nobody comes between.
THEOREM ParcelStillThere ==
  ASSUME "recv" \notin Interrupted
  PROVE  Spec => []StillThere
<1> DEFINE P == \A x \in Player : RecvOK(x) /\ ShowsOne(x)
           M == \A x, y \in Player, i \in Item : Matched(x, y, i)
<1>1. Init => P /\ M
  BY InitShown, InitMatched
<1>2. BoxInv /\ P /\ [Next]_vars => P'
  BY NextShown
<1>3. BoxInv /\ P /\ M /\ [Next]_vars => M'
  BY NextMatched
<1>4. M => StillThere
  BY MatchedIsThere
<1> HIDE DEF P, M
<1> QED
  BY <1>1, <1>2, <1>3, <1>4, BoxesInOrder, PTL DEF Spec

-----------------------------------------------------------------------------
(* The steps of Parcels.                                                    *)

Names == {"hand", "out", "queue", "box", "market", "gone"}

\* Nothing in a place changes; one item is taken from there, or put there, and nothing else.
Stays(a) == \A x \in Player, j \in Item : Where(a, x, j)' = Where(a, x, j)
Rest(a, p, i) == \A x \in Player, j \in Item : x # p \/ j # i => Where(a, x, j)' = Where(a, x, j)
Loses(a, p, i) == /\ Where(a, p, i) \in Nat /\ Where(a, p, i) > 0
                  /\ Where(a, p, i)' = Where(a, p, i) - 1 /\ Rest(a, p, i)
Gains(a, p, i) == /\ Where(a, p, i) \in Nat
                  /\ Where(a, p, i)' = Where(a, p, i) + 1 /\ Rest(a, p, i)

\* What Parcels sees of a state.
Seen == [h \in Thing |-> Where(h[1][1], h[1][2], h[2])]

\* A thing is a place, an owner and a kind.
LEMMA ThingIs ==
  /\ \A a \in Names, x \in Player, j \in Item : << <<a, x>>, j>> \in Thing
  /\ \A h \in Thing : /\ h = << <<h[1][1], h[1][2]>>, h[2]>>
                      /\ h[1][1] \in Names /\ h[1][2] \in Player /\ h[2] \in Item
BY DEF Thing, Names

\* What Parcels sees, thing by thing.
LEMMA SeenIs ==
  /\ \A a \in Names, x \in Player, j \in Item :
       Seen[<< <<a, x>>, j>>] = Where(a, x, j) /\ Seen'[<< <<a, x>>, j>>] = Where(a, x, j)'
  /\ Seen = [h \in Thing |-> Seen[h]] /\ Seen' = [h \in Thing |-> Seen'[h]]
BY ThingIs DEF Seen

\* The next-state relation of Parcels, in these terms.
LEMMA NextIs ==
  Parcel!Next <=>
    /\ Seen # Seen'
    /\ LET changed == {h \in Thing : Seen[h] # Seen'[h]}
       IN  \/ Parcel!Move(Seen, Seen', changed)
           \/ Parcel!Sale(Seen, Seen', changed)
BY DEF Parcel!Next, Seen, Thing, Parcel!Thing, Parcel!Place

\* Where nothing changes anywhere, Parcels sees nothing.
LEMMA StillSeen ==
  ASSUME \A a \in Names : Stays(a)
  PROVE  UNCHANGED Seen
<1>1. ASSUME NEW h \in Thing PROVE Seen'[h] = Seen[h]
  <2>1. PICK c \in Names, x \in Player, j \in Item : h = << <<c, x>>, j>>
    BY ThingIs
  <2>2. Where(c, x, j)' = Where(c, x, j)
    BY DEF Stays
  <2> QED
    BY <2>1, <2>2, SeenIs
<1> QED
  BY <1>1, SeenIs

\* An item goes from one place to another along a known way.
LEMMA MoveStep ==
  ASSUME NEW a \in Names, NEW b \in Names \ {a}, NEW p \in Player, NEW q \in Player, NEW i \in Item,
         Loses(a, p, i), Gains(b, q, i), \A c \in Names \ {a, b} : Stays(c),
         <<a, b>> \in Parcel!Posted \/ (<<a, b>> \in Parcel!OwnWay /\ p = q)
  PROVE  Parcel!Next
<1>f. PICK f : f = << <<a, p>>, i>>
  OBVIOUS
<1>t. PICK t : t = << <<b, q>>, i>>
  OBVIOUS
<1>1. f \in Thing /\ t \in Thing /\ f # t
  BY <1>f, <1>t, ThingIs
<1>2. Seen[f] \in Nat /\ Seen[f] > 0 /\ Seen'[f] = Seen[f] - 1 /\ Seen[t] \in Nat /\ Seen'[t] = Seen[t] + 1
  BY <1>f, <1>t, SeenIs DEF Loses, Gains
<1>3. ASSUME NEW h \in Thing, h # f, h # t PROVE Seen'[h] = Seen[h]
  <2>1. PICK c \in Names, x \in Player, j \in Item : h = << <<c, x>>, j>>
    BY ThingIs
  <2>2. Where(c, x, j)' = Where(c, x, j)
    <3>1. CASE c \notin {a, b}
      BY <3>1 DEF Stays
    <3>2. CASE c = a
      BY <1>3, <1>f, <2>1, <3>2 DEF Loses, Rest
    <3>3. CASE c = b
      BY <1>3, <1>t, <2>1, <3>3 DEF Gains, Rest
    <3> QED
      BY <3>1, <3>2, <3>3
  <2> QED
    BY <2>1, <2>2, SeenIs
<1>4. PICK changed : changed = {h \in Thing : Seen[h] # Seen'[h]}
  OBVIOUS
<1>5. changed = {f, t}
  BY <1>1, <1>2, <1>3, <1>4
<1>6. f[2] = t[2] /\ f[1][1] = a /\ t[1][1] = b /\ f[1][2] = p /\ t[1][2] = q
  BY <1>f, <1>t
<1>7. Parcel!Move(Seen, Seen', changed)
  BY <1>2, <1>5, <1>6 DEF Parcel!Move, Parcel!Leaves, Parcel!Arrives
<1>8. Seen # Seen'
  BY <1>2
<1> QED
  BY <1>4, <1>7, <1>8, NextIs

\* An item and its price change places.
LEMMA SaleStep ==
  ASSUME NEW p \in Player, NEW q \in Player, NEW i \in Item \ {Coin}, Coin \in Item,
         Loses("market", q, i), Gains("queue", q, Coin),
         Where("hand", p, i) \in Nat, Where("hand", p, i)' = Where("hand", p, i) + 1,
         Where("hand", p, Coin) \in Nat, Where("hand", p, Coin) > 0,
         Where("hand", p, Coin)' = Where("hand", p, Coin) - 1,
         \A x \in Player, j \in Item : x # p \/ j \notin {i, Coin} => Where("hand", x, j)' = Where("hand", x, j),
         \A c \in {"out", "box", "gone"} : Stays(c)
  PROVE  Parcel!Next
<1>f. PICK f : f = << <<"market", q>>, i>>
  OBVIOUS
<1>t. PICK t : t = << <<"hand", p>>, i>>
  OBVIOUS
<1>c. PICK price : price = << <<"hand", p>>, Coin>>
  OBVIOUS
<1>d. PICK pay : pay = << <<"queue", q>>, Coin>>
  OBVIOUS
<1>0. {"market", "hand", "queue"} \subseteq Names
  BY DEF Names
<1>1. f \in Thing /\ t \in Thing /\ price \in Thing /\ pay \in Thing
  BY <1>f, <1>t, <1>c, <1>d, <1>0, ThingIs
<1>2. Seen[f] \in Nat /\ Seen[f] > 0 /\ Seen'[f] = Seen[f] - 1
  BY <1>f, <1>0, SeenIs DEF Loses
<1>3. Seen[t] \in Nat /\ Seen'[t] = Seen[t] + 1
  BY <1>t, <1>0, SeenIs
<1>4. Seen[price] \in Nat /\ Seen[price] > 0 /\ Seen'[price] = Seen[price] - 1
  BY <1>c, <1>0, SeenIs
<1>5. Seen[pay] \in Nat /\ Seen'[pay] = Seen[pay] + 1
  BY <1>d, <1>0, SeenIs DEF Gains
<1>6. ASSUME NEW h \in Thing, h \notin {f, t, price, pay} PROVE Seen'[h] = Seen[h]
  <2>1. PICK c \in Names, x \in Player, j \in Item : h = << <<c, x>>, j>>
    BY ThingIs
  <2>2. Where(c, x, j)' = Where(c, x, j)
    <3>1. CASE c \in {"out", "box", "gone"}
      BY <3>1 DEF Stays
    <3>2. CASE c = "market"
      BY <1>6, <1>f, <2>1, <3>2 DEF Loses, Rest
    <3>3. CASE c = "queue"
      BY <1>6, <1>d, <2>1, <3>3 DEF Gains, Rest
    <3>4. CASE c = "hand"
      <4>1. x # p \/ j \notin {i, Coin}
        BY <1>6, <1>t, <1>c, <2>1, <3>4
      <4> QED
        BY <3>4, <4>1
    <3> QED
      BY <3>1, <3>2, <3>3, <3>4 DEF Names
  <2> QED
    BY <2>1, <2>2, SeenIs
<1>7. PICK changed : changed = {h \in Thing : Seen[h] # Seen'[h]}
  OBVIOUS
<1>8. changed = {f, t, price, pay}
  BY <1>1, <1>2, <1>3, <1>4, <1>5, <1>6, <1>7
<1>9. Parcel!Sale(Seen, Seen', changed)
  <2>1. /\ Parcel!Leaves(Seen, Seen', f) /\ Parcel!Arrives(Seen, Seen', t)
        /\ Parcel!Leaves(Seen, Seen', price) /\ Parcel!Arrives(Seen, Seen', pay)
    BY <1>2, <1>3, <1>4, <1>5 DEF Parcel!Leaves, Parcel!Arrives
  <2> QED
    BY <1>8, <1>f, <1>t, <1>c, <1>d, <2>1 DEF Parcel!Sale
<1>10. Seen # Seen'
  BY <1>2
<1> QED
  BY <1>7, <1>9, <1>10, NextIs

-----------------------------------------------------------------------------
(* Counting what lies in a place.                                           *)

\* The slots of D in which f has i.
Holding(D, f, i) == {x \in D : f[x] = i}
Is(a, b) == IF a = b THEN 1 ELSE 0

\* Only slot k of D may differ.
But(D, f, g, k) == k \in D /\ \A m \in D \ {k} : g[m] = f[m]

\* One slot is written.
LEMMA OneSlot ==
  ASSUME NEW D, IsFiniteSet(D), NEW f, NEW g, NEW k, But(D, f, g, k), NEW i
  PROVE  /\ Cardinality(Holding(D, f, i)) \in Nat /\ Cardinality(Holding(D, g, i)) \in Nat
         /\ Cardinality(Holding(D, g, i)) = Cardinality(Holding(D, f, i)) - Is(f[k], i) + Is(g[k], i)
         /\ f[k] = i => Cardinality(Holding(D, f, i)) > 0
<1>S. PICK S : S = Holding(D, f, i)
  OBVIOUS
<1>T. PICK T : T = Holding(D, g, i)
  OBVIOUS
<1>1. T \ {k} = S \ {k} /\ (k \in S <=> f[k] = i) /\ (k \in T <=> g[k] = i)
  BY <1>S, <1>T DEF Holding, But
<1>2. IsFiniteSet(S)
  BY <1>S, FS_Subset DEF Holding
<1>3. Cardinality(S) \in Nat /\ Cardinality(T) \in Nat /\ Cardinality(T) = Cardinality(S) - One(k, S) + One(k, T)
  BY <1>1, <1>2, Changed
<1>4. One(k, S) = Is(f[k], i) /\ One(k, T) = Is(g[k], i)
  BY <1>1 DEF One, Is
<1>5. k \in S => Cardinality(S) > 0
  BY <1>2, <1>3, FS_EmptySet
<1> QED
  BY <1>S, <1>T, <1>1, <1>3, <1>4, <1>5

\* What one slot held, and holds.
Written(b, p, old, new) == \A x \in Player, j \in Item :
  /\ Where(b, x, j) \in Nat
  /\ Where(b, x, j)' = Where(b, x, j) - Is(<<x, old>>, <<p, j>>) + Is(<<x, new>>, <<p, j>>)
  /\ x = p /\ old = j => Where(b, x, j) > 0

\* Nothing, and an item instead of it, or the other way round.
LEMMA WrittenIs ==
  ASSUME NEW b, NEW p \in Player, NEW old, NEW new, Written(b, p, old, new)
  PROVE  /\ old = new => Stays(b)
         /\ old \notin Item /\ new \notin Item => Stays(b)
         /\ \A i \in Item : old \notin Item /\ new = i => Gains(b, p, i)
         /\ \A i \in Item : old = i /\ new \notin Item => Loses(b, p, i)
<1>1. ASSUME old = new \/ (old \notin Item /\ new \notin Item) PROVE Stays(b)
  <2> SUFFICES ASSUME NEW x \in Player, NEW j \in Item PROVE Where(b, x, j)' = Where(b, x, j)
    BY DEF Stays
  <2>1. Is(<<x, old>>, <<p, j>>) = Is(<<x, new>>, <<p, j>>) /\ Is(<<x, new>>, <<p, j>>) \in {0, 1}
    BY <1>1 DEF Is
  <2> QED
    BY <2>1 DEF Written
<1>2. ASSUME NEW i \in Item, old \notin Item, new = i PROVE Gains(b, p, i)
  <2>1. Rest(b, p, i)
    <3> SUFFICES ASSUME NEW x \in Player, NEW j \in Item, x # p \/ j # i PROVE Where(b, x, j)' = Where(b, x, j)
      BY DEF Rest
    <3>1. Is(<<x, old>>, <<p, j>>) = 0 /\ Is(<<x, new>>, <<p, j>>) = 0
      BY <1>2 DEF Is
    <3> QED
      BY <3>1 DEF Written
  <2>2. Is(<<p, old>>, <<p, i>>) = 0 /\ Is(<<p, new>>, <<p, i>>) = 1
    BY <1>2 DEF Is
  <2>3. /\ Where(b, p, i) \in Nat
        /\ Where(b, p, i)' = Where(b, p, i) - Is(<<p, old>>, <<p, i>>) + Is(<<p, new>>, <<p, i>>)
    BY DEF Written
  <2> QED
    BY <2>1, <2>2, <2>3 DEF Gains
<1>3. ASSUME NEW i \in Item, old = i, new \notin Item PROVE Loses(b, p, i)
  <2>1. Rest(b, p, i)
    <3> SUFFICES ASSUME NEW x \in Player, NEW j \in Item, x # p \/ j # i PROVE Where(b, x, j)' = Where(b, x, j)
      BY DEF Rest
    <3>1. Is(<<x, old>>, <<p, j>>) = 0 /\ Is(<<x, new>>, <<p, j>>) = 0
      BY <1>3 DEF Is
    <3> QED
      BY <3>1 DEF Written
  <2>2. Is(<<p, old>>, <<p, i>>) = 1 /\ Is(<<p, new>>, <<p, i>>) = 0
    BY <1>3 DEF Is
  <2>3. /\ Where(b, p, i) \in Nat /\ Where(b, p, i) > 0
        /\ Where(b, p, i)' = Where(b, p, i) - Is(<<p, old>>, <<p, i>>) + Is(<<p, new>>, <<p, i>>)
    BY <1>3 DEF Written
  <2> QED
    BY <2>1, <2>2, <2>3 DEF Loses
<1> QED
  BY <1>1, <1>2, <1>3

\* What a row of the outgoing box keeps, unless it was sent.
Lies(r) == IF r.sent THEN None ELSE r.item
Lying(x) == [k \in Cell |-> Lies(out[x][k])]
Kinds(x) == [s \in Slots |-> inn[x][s].item]

\* The places, one by one.
LEMMA WhereIs ==
  ASSUME NEW x \in Player, NEW j \in Item
  PROVE  /\ Where("hand", x, j) = bag[x][j] /\ Where("gone", x, j) = gone[x][j]
         /\ Where("out", x, j) = Cardinality(Holding(Cell, Lying(x), j))
         /\ Where("queue", x, j) = Cardinality(Holding(Queued, Kinds(x), j))
         /\ Where("box", x, j) = Cardinality(Holding(Cell, Kinds(x), j))
         /\ Where("market", x, j) = OnSale(x, j)
<1>1. {k \in Cell : out[x][k].item = j /\ ~out[x][k].sent} = Holding(Cell, Lying(x), j)
  BY BoxAssumption DEF Holding, Lying, Lies
<1>2. {s \in Queued : inn[x][s].item = j} = Holding(Queued, Kinds(x), j)
  BY SlotNumbers DEF Holding, Kinds
<1>3. {s \in Cell : inn[x][s].item = j} = Holding(Cell, Kinds(x), j)
  BY SlotNumbers DEF Holding, Kinds
<1>4. Where("out", x, j) = Laid(x, j) /\ Where("queue", x, j) = In(x, Queued, j) /\ Where("box", x, j) = In(x, Cell, j)
  BY DEF Where
<1> QED
  BY <1>1, <1>2, <1>3, <1>4 DEF Where, Laid, In

\* And after a step.
LEMMA WhereNext ==
  ASSUME NEW x \in Player, NEW j \in Item
  PROVE  /\ Where("hand", x, j)' = bag'[x][j] /\ Where("gone", x, j)' = gone'[x][j]
         /\ Where("out", x, j)' = Cardinality(Holding(Cell, Lying(x)', j))
         /\ Where("queue", x, j)' = Cardinality(Holding(Queued, Kinds(x)', j))
         /\ Where("box", x, j)' = Cardinality(Holding(Cell, Kinds(x)', j))
         /\ Where("market", x, j)' = OnSale(x, j)'
<1>1. {k \in Cell : out'[x][k].item = j /\ ~out'[x][k].sent} = Holding(Cell, Lying(x)', j)
  BY BoxAssumption DEF Holding, Lying, Lies
<1>2. {s \in Queued : inn'[x][s].item = j} = Holding(Queued, Kinds(x)', j)
  BY SlotNumbers DEF Holding, Kinds
<1>3. {s \in Cell : inn'[x][s].item = j} = Holding(Cell, Kinds(x)', j)
  BY SlotNumbers DEF Holding, Kinds
<1>4. Where("out", x, j)' = Laid(x, j)' /\ Where("queue", x, j)' = In(x, Queued, j)' /\ Where("box", x, j)' = In(x, Cell, j)'
  BY DEF Where
<1> QED
  BY <1>1, <1>2, <1>3, <1>4 DEF Where, Laid, In

\* What is not written stays.
LEMMA PlacesStay ==
  /\ UNCHANGED bag => Stays("hand")
  /\ UNCHANGED gone => Stays("gone")
  /\ UNCHANGED out => Stays("out")
  /\ UNCHANGED inn => Stays("queue") /\ Stays("box")
  /\ UNCHANGED <<sales, expiry>> => Stays("market")
<1>1. UNCHANGED bag => Stays("hand")
  BY WhereIs, WhereNext DEF Stays
<1>2. UNCHANGED gone => Stays("gone")
  BY WhereIs, WhereNext DEF Stays
<1>3. UNCHANGED out => Stays("out")
  <2> SUFFICES ASSUME UNCHANGED out, NEW x \in Player, NEW j \in Item PROVE Where("out", x, j)' = Where("out", x, j)
    BY DEF Stays
  <2>1. Lying(x)' = Lying(x)
    BY DEF Lying
  <2> QED
    BY <2>1, WhereIs, WhereNext
<1>4. UNCHANGED inn => Stays("queue") /\ Stays("box")
  <2> SUFFICES ASSUME UNCHANGED inn, NEW x \in Player, NEW j \in Item
               PROVE  Where("queue", x, j)' = Where("queue", x, j) /\ Where("box", x, j)' = Where("box", x, j)
    BY DEF Stays
  <2>1. Kinds(x)' = Kinds(x)
    BY DEF Kinds
  <2> QED
    BY <2>1, WhereIs, WhereNext
<1>5. UNCHANGED <<sales, expiry>> => Stays("market")
  <2> SUFFICES ASSUME UNCHANGED <<sales, expiry>>, NEW x \in Player, NEW j \in Item
               PROVE  Where("market", x, j)' = Where("market", x, j)
    BY DEF Stays
  <2>1. OnSale(x, j)' = OnSale(x, j)
    BY DEF OnSale
  <2> QED
    BY <2>1, WhereIs, WhereNext
<1> QED
  BY <1>1, <1>2, <1>3, <1>4, <1>5

\* What one player has in the hand, or has thrown away, changes by one.
LEMMA HandCounts ==
  ASSUME NEW p \in Player, NEW i \in Item, NEW a, NEW old \in [Player -> [Item -> Nat]], NEW new,
         \A x \in Player, j \in Item : Where(a, x, j) = old[x][j] /\ Where(a, x, j)' = new[x][j],
         \A x \in Player \ {p} : new[x] = old[x], \A j \in Item \ {i} : new[p][j] = old[p][j]
  PROVE  /\ new[p][i] = old[p][i] + 1 => Gains(a, p, i)
         /\ old[p][i] > 0 /\ new[p][i] = old[p][i] - 1 => Loses(a, p, i)
<1>1. Rest(a, p, i)
  <2> SUFFICES ASSUME NEW x \in Player, NEW j \in Item, x # p \/ j # i PROVE Where(a, x, j)' = Where(a, x, j)
    BY DEF Rest
  <2>1. new[x][j] = old[x][j]
    OBVIOUS
  <2> QED
    BY <2>1
<1>2. Where(a, p, i) = old[p][i] /\ Where(a, p, i)' = new[p][i] /\ old[p][i] \in Nat
  OBVIOUS
<1> QED
  BY <1>1, <1>2 DEF Gains, Loses

\* An item comes into an inventory, leaves it, or is thrown away.
LEMMA HandWritten ==
  ASSUME BoxInv, NEW p \in Player, NEW i \in Item
  PROVE  /\ Give(p, i) => Gains("hand", p, i)
         /\ Has(p, i) /\ Take(p, i) => Loses("hand", p, i)
         /\ gone' = [gone EXCEPT ![p] = More(gone[p], i, 1)] => Gains("gone", p, i)
<1>0. bag \in [Player -> [Item -> Nat]] /\ gone \in [Player -> [Item -> Nat]]
  BY DEF BoxInv
<1>h. \A x \in Player, j \in Item : Where("hand", x, j) = bag[x][j] /\ Where("hand", x, j)' = bag'[x][j]
  BY WhereIs, WhereNext
<1>g. \A x \in Player, j \in Item : Where("gone", x, j) = gone[x][j] /\ Where("gone", x, j)' = gone'[x][j]
  BY WhereIs, WhereNext
<1>1. ASSUME Give(p, i) PROVE Gains("hand", p, i)
  <2>1. bag'[p] = More(bag[p], i, 1) /\ \A x \in Player \ {p} : bag'[x] = bag[x]
    BY <1>0, <1>1 DEF Give
  <2>2. bag'[p][i] = bag[p][i] + 1 /\ \A j \in Item \ {i} : bag'[p][j] = bag[p][j]
    BY <1>0, <2>1, MoreOK
  <2> QED
    BY <1>0, <1>h, <2>1, <2>2, HandCounts
<1>2. ASSUME Has(p, i), Take(p, i) PROVE Loses("hand", p, i)
  <2>1. bag'[p] = More(bag[p], i, -1) /\ \A x \in Player \ {p} : bag'[x] = bag[x]
    BY <1>0, <1>2 DEF Take
  <2>2. bag[p][i] > 0 /\ bag'[p][i] = bag[p][i] - 1 /\ \A j \in Item \ {i} : bag'[p][j] = bag[p][j]
    BY <1>0, <1>2, <2>1, LessOK DEF Has
  <2> QED
    BY <1>0, <1>h, <2>1, <2>2, HandCounts
<1>3. ASSUME gone' = [gone EXCEPT ![p] = More(gone[p], i, 1)] PROVE Gains("gone", p, i)
  <2>b. PICK b : b = More(gone[p], i, 1)
    OBVIOUS
  <2>1. gone'[p] = b /\ \A x \in Player \ {p} : gone'[x] = gone[x]
    BY <1>0, <1>3, <2>b
  <2>2. b[i] = gone[p][i] + 1 /\ \A j \in Item \ {i} : b[j] = gone[p][j]
    BY <1>0, <2>b, MoreOK
  <2> QED
    BY <1>0, <1>g, <2>1, <2>2, HandCounts
<1> QED
  BY <1>1, <1>2, <1>3

\* One slot of one player is written: F and G say what the slots hold before and after.
LEMMA SlotWritten ==
  ASSUME NEW b, NEW p \in Player, NEW D \in {Cell, Queued}, NEW F, NEW G, NEW k, But(D, F[p], G[p], k),
         \A x \in Player \ {p} : G[x] = F[x],
         \A x \in Player, j \in Item : /\ Where(b, x, j) = Cardinality(Holding(D, F[x], j))
                                       /\ Where(b, x, j)' = Cardinality(Holding(D, G[x], j))
  PROVE  Written(b, p, F[p][k], G[p][k])
<1>0. IsFiniteSet(D)
  BY FiniteSlots
<1> SUFFICES ASSUME NEW x \in Player, NEW j \in Item
             PROVE  /\ Where(b, x, j) \in Nat
                    /\ Where(b, x, j)' = Where(b, x, j) - Is(<<x, F[p][k]>>, <<p, j>>) + Is(<<x, G[p][k]>>, <<p, j>>)
                    /\ x = p /\ F[p][k] = j => Where(b, x, j) > 0
  BY DEF Written
<1>1. Where(b, x, j) = Cardinality(Holding(D, F[x], j)) /\ Where(b, x, j)' = Cardinality(Holding(D, G[x], j))
  OBVIOUS
<1>2. CASE x = p
  <2>f. PICK f : f = F[p]
    OBVIOUS
  <2>g. PICK g : g = G[p]
    OBVIOUS
  <2>0. But(D, f, g, k)
    BY <2>f, <2>g
  <2>1. /\ Cardinality(Holding(D, f, j)) \in Nat
        /\ Cardinality(Holding(D, g, j)) = Cardinality(Holding(D, f, j)) - Is(f[k], j) + Is(g[k], j)
        /\ f[k] = j => Cardinality(Holding(D, f, j)) > 0
    BY <1>0, <2>0, OneSlot
  <2>2. Is(<<x, f[k]>>, <<p, j>>) = Is(f[k], j) /\ Is(<<x, g[k]>>, <<p, j>>) = Is(g[k], j)
    BY <1>2 DEF Is
  <2> QED
    BY <1>1, <1>2, <2>f, <2>g, <2>1, <2>2
<1>3. CASE x # p
  <2>1. G[x] = F[x]
    BY <1>3
  <2>2. Where(b, x, j) \in Nat
    <3>1. Holding(D, F[x], j) \in SUBSET D
      BY DEF Holding
    <3> QED
      BY <1>1, <3>1, FiniteSlots
  <2>3. Is(<<x, F[p][k]>>, <<p, j>>) = 0 /\ Is(<<x, G[p][k]>>, <<p, j>>) = 0
    BY <1>3 DEF Is
  <2> QED
    BY <1>1, <1>3, <2>1, <2>2, <2>3
<1> QED
  BY <1>2, <1>3

\* One row of an outgoing box is written.
LEMMA OutSlot ==
  ASSUME BoxInv, NEW p \in Player, NEW k \in Cell, NEW r,
         out' = [out EXCEPT ![p] = [out[p] EXCEPT ![k] = r]]
  PROVE  Written("out", p, Lies(out[p][k]), Lies(r))
<1>0. out = [x \in Player |-> out[x]] /\ out[p] \in [Cell -> OutRow(p)]
  BY DEF BoxInv, OutOK
<1>1. out'[p] = [out[p] EXCEPT ![k] = r] /\ \A x \in Player \ {p} : out'[x] = out[x]
  BY <1>0
<1>2. out'[p][k] = r /\ \A m \in Cell \ {k} : out'[p][m] = out[p][m]
  BY <1>0, <1>1
<1>F. PICK F : F = [x \in Player |-> Lying(x)]
  OBVIOUS
<1>G. PICK G : G = [x \in Player |-> Lying(x)']
  OBVIOUS
<1>3. But(Cell, F[p], G[p], k) /\ F[p][k] = Lies(out[p][k]) /\ G[p][k] = Lies(r)
  BY <1>F, <1>G, <1>2 DEF Lying, But
<1>4. \A x \in Player \ {p} : G[x] = F[x]
  BY <1>F, <1>G, <1>1 DEF Lying
<1>5. \A x \in Player, j \in Item : /\ Where("out", x, j) = Cardinality(Holding(Cell, F[x], j))
                                    /\ Where("out", x, j)' = Cardinality(Holding(Cell, G[x], j))
  BY <1>F, <1>G, WhereIs, WhereNext
<1>6. Written("out", p, F[p][k], G[p][k])
  BY <1>3, <1>4, <1>5, SlotWritten
<1> QED
  BY <1>3, <1>6

\* The rows of x in a part of the incoming box, the cells or the queue, are left alone.
PartKept(D, x) == \A s \in D : inn'[x][s] = inn[x][s]

\* A part is left alone, or one row of it is written.
LEMMA InnPart ==
  ASSUME NEW b, NEW D, <<b, D>> \in {<<"box", Cell>>, <<"queue", Queued>>}
  PROVE  /\ (\A x \in Player : PartKept(D, x)) => Stays(b)
         /\ \A p \in Player, k \in D :
              But(D, inn[p], inn'[p], k) /\ (\A x \in Player \ {p} : PartKept(D, x))
                => Written(b, p, inn[p][k].item, inn'[p][k].item)
<1>0. D \in {Cell, Queued} /\ D \subseteq Slots
  BY SlotNumbers
<1>F. PICK F : F = [x \in Player |-> [s \in D |-> inn[x][s].item]]
  OBVIOUS
<1>G. PICK G : G = [x \in Player |-> [s \in D |-> inn'[x][s].item]]
  OBVIOUS
<1>1. \A x \in Player, j \in Item : /\ Where(b, x, j) = Cardinality(Holding(D, F[x], j))
                                    /\ Where(b, x, j)' = Cardinality(Holding(D, G[x], j))
  <2> TAKE x \in Player, j \in Item
  <2>1. Holding(D, F[x], j) = Holding(D, Kinds(x), j) /\ Holding(D, G[x], j) = Holding(D, Kinds(x)', j)
    BY <1>0, <1>F, <1>G DEF Holding, Kinds
  <2>2. CASE b = "box" /\ D = Cell
    BY <2>1, <2>2, WhereIs, WhereNext
  <2>3. CASE b = "queue" /\ D = Queued
    BY <2>1, <2>3, WhereIs, WhereNext
  <2> QED
    BY <2>2, <2>3
<1>2. \A x \in Player : PartKept(D, x) => G[x] = F[x]
  BY <1>F, <1>G DEF PartKept
<1>3. ASSUME \A x \in Player : PartKept(D, x) PROVE Stays(b)
  <2> SUFFICES ASSUME NEW x \in Player, NEW j \in Item PROVE Where(b, x, j)' = Where(b, x, j)
    BY DEF Stays
  <2>1. G[x] = F[x]
    BY <1>2, <1>3
  <2> QED
    BY <1>1, <2>1
<1>4. ASSUME NEW p \in Player, NEW k \in D, But(D, inn[p], inn'[p], k), \A x \in Player \ {p} : PartKept(D, x)
      PROVE  Written(b, p, inn[p][k].item, inn'[p][k].item)
  <2>1. But(D, F[p], G[p], k) /\ F[p][k] = inn[p][k].item /\ G[p][k] = inn'[p][k].item
    BY <1>4, <1>F, <1>G DEF But
  <2>2. \A x \in Player \ {p} : G[x] = F[x]
    BY <1>2, <1>4
  <2>3. Written(b, p, F[p][k], G[p][k])
    BY <1>0, <1>1, <2>1, <2>2, SlotWritten
  <2> QED
    BY <2>1, <2>3
<1> QED
  BY <1>3, <1>4

\* The item of a cell goes, or of a slot of the queue.
LEMMA RowTaken ==
  ASSUME BoxInv, NEW p \in Player, NEW k \in Slots, inn[p][k] # NoIn,
         inn' = [inn EXCEPT ![p] = [inn[p] EXCEPT ![k] = NoIn]]
  PROVE  /\ inn[p][k].item \in Item
         /\ k \in Cell => Loses("box", p, inn[p][k].item) /\ Stays("queue")
         /\ k \in Queued => Loses("queue", p, inn[p][k].item) /\ Stays("box")
<1>0. inn = [x \in Player |-> inn[x]] /\ inn[p] \in [Slots -> InRow(p)]
  BY DEF BoxInv, InOK
<1>1. inn'[p] = [inn[p] EXCEPT ![k] = NoIn] /\ \A x \in Player \ {p} : inn'[x] = inn[x]
  BY <1>0
<1>2. inn'[p][k] = NoIn /\ \A m \in Slots \ {k} : inn'[p][m] = inn[p][m]
  BY <1>0, <1>1
<1>3. inn[p][k].item \in Item /\ NoIn.item \notin Item
  BY <1>0, BoxAssumption DEF InRow, NoIn
<1>4. \A D : (\A x \in Player \ {p} : PartKept(D, x)) /\ (k \in D /\ D \subseteq Slots => But(D, inn[p], inn'[p], k))
             /\ (k \notin D /\ D \subseteq Slots => PartKept(D, p))
  BY <1>1, <1>2 DEF PartKept, But
<1>5. CASE k \in Cell
  <2>1. k \notin Queued /\ Cell \subseteq Slots /\ Queued \subseteq Slots
    BY <1>5, SlotNumbers
  <2>2. Written("box", p, inn[p][k].item, inn'[p][k].item)
    BY <1>4, <1>5, <2>1, InnPart
  <2>3. \A x \in Player : PartKept(Queued, x)
    BY <1>4, <2>1
  <2>4. Stays("queue")
    BY <2>3, InnPart
  <2> QED
    BY <1>2, <1>3, <2>1, <2>2, <2>4, WrittenIs
<1>6. CASE k \in Queued
  <2>1. k \notin Cell /\ Cell \subseteq Slots /\ Queued \subseteq Slots
    BY <1>6, SlotNumbers
  <2>2. Written("queue", p, inn[p][k].item, inn'[p][k].item)
    BY <1>4, <1>6, <2>1, InnPart
  <2>3. \A x \in Player : PartKept(Cell, x)
    BY <1>4, <2>1
  <2>4. Stays("box")
    BY <2>3, InnPart
  <2> QED
    BY <1>2, <1>3, <2>1, <2>2, <2>4, WrittenIs
<1> QED
  BY <1>3, <1>5, <1>6

\* A parcel comes into the queue of q; what happens to cells is another matter.
LEMMA Posted ==
  ASSUME BoxInv, NEW q \in Player, NEW i \in Item, NEW from \in Someone \ {q}, Fits(q),
         inn'[q] = Post(inn[q], i, from), \A x \in Player \ {q} : PartKept(Queued, x)
  PROVE  Gains("queue", q, i) /\ PartKept(Cell, q)
<1>1. inn[q] \in [Slots -> InRow(q)] /\ NextSlot(inn[q]) <= MaxSlot
  BY DEF BoxInv, InOK, Fits
<1>n. PICK n : n = NextSlot(inn[q])
  OBVIOUS
<1>2. /\ n \in Queued /\ inn[q][n] = NoIn
      /\ inn'[q][n] = [item |-> i, from |-> from] /\ \A s \in Slots : s # n => inn'[q][s] = inn[q][s]
  BY <1>1, <1>n, NextIsFree, PostOK
<1>3. But(Queued, inn[q], inn'[q], n) /\ PartKept(Cell, q)
  BY <1>2, SlotNumbers DEF But, PartKept
<1>4. Written("queue", q, inn[q][n].item, inn'[q][n].item)
  BY <1>2, <1>3, InnPart
<1>5. inn[q][n].item \notin Item /\ inn'[q][n].item = i
  BY <1>2, BoxAssumption DEF NoIn
<1> QED
  BY <1>3, <1>4, <1>5, WrittenIs

\* A parcel is opened: it goes from the queue of p to the box.
LEMMA OpenedMoves ==
  ASSUME BoxInv, NEW p \in Player, NEW s \in Queued, NEW k \in Cell, NEW i \in Item,
         inn[p][s].item = i, inn[p][k] = NoIn,
         inn'[p] = Opened(inn[p], s, k), \A x \in Player \ {p} : inn'[x] = inn[x]
  PROVE  Loses("queue", p, i) /\ Gains("box", p, i)
<1>0. inn[p] \in [Slots -> InRow(p)] /\ None \notin Item
  BY BoxAssumption DEF BoxInv, InOK
<1>r. PICK rows \in [Slots -> InRow(p)] : rows = inn[p]
  BY <1>0
<1>g. PICK new : new = Opened(rows, s, k)
  OBVIOUS
<1>1. /\ new \in [Slots -> InRow(p)] /\ \A t \in Cell \ {k} : new[t] = rows[t]
      /\ new[k] = IF rows[s] = NoIn THEN rows[k] ELSE rows[s]
  BY <1>g, OpenedOK
<1>2. rows[s] # NoIn /\ rows[s].item = i /\ rows[k] = NoIn /\ NoIn.item = None
  BY <1>r, <1>0 DEF NoIn
<1>3. inn'[p] = new /\ \A x \in Player \ {p} : PartKept(Cell, x) /\ PartKept(Queued, x)
  BY <1>r, <1>g DEF PartKept
<1>4. Gains("box", p, i)
  <2>1. But(Cell, inn[p], inn'[p], k) /\ inn[p][k].item \notin Item /\ inn'[p][k].item = i
    BY <1>0, <1>1, <1>2, <1>3, <1>r DEF But
  <2>2. Written("box", p, inn[p][k].item, inn'[p][k].item)
    BY <1>3, <2>1, InnPart
  <2> QED
    BY <2>1, <2>2, WrittenIs
<1>5. ASSUME NEW j \in Item
      PROVE  /\ Where("queue", p, j) \in Nat /\ Where("queue", p, j)' \in Nat
             /\ Where("queue", p, j)' = Where("queue", p, j) - Is(i, j)
  <2>C. PICK C : C = {r \in InRow(p) : r.item = j}
    OBVIOUS
  <2>1. NoIn \notin C
    BY <1>0, <2>C DEF NoIn
  <2>2. Hits(Queued, rows, C) = Holding(Queued, Kinds(p), j) /\ Hits(Queued, new, C) = Holding(Queued, Kinds(p)', j)
    <3>1. \A t \in Queued : t \in Slots /\ rows[t] \in InRow(p) /\ new[t] \in InRow(p)
      BY <1>1, SlotNumbers
    <3> QED
      BY <1>3, <1>r, <2>C, <3>1 DEF Hits, Holding, Kinds
  <2>3. One(rows[s], C) = Is(i, j)
    <3>1. rows[s] \in InRow(p)
      BY SlotNumbers
    <3> QED
      BY <1>2, <2>C, <3>1 DEF One, Is
  <2>4. /\ Cardinality(Hits(Queued, rows, C)) \in Nat /\ Cardinality(Hits(Queued, new, C)) \in Nat
        /\ Cardinality(Hits(Queued, new, C)) = Cardinality(Hits(Queued, rows, C)) - One(rows[s], C)
    BY <1>g, <2>1, OpenedCounts
  <2> QED
    BY <2>2, <2>3, <2>4, WhereIs, WhereNext
<1>6. Rest("queue", p, i)
  <2> SUFFICES ASSUME NEW x \in Player, NEW j \in Item, x # p \/ j # i
               PROVE  Where("queue", x, j)' = Where("queue", x, j)
    BY DEF Rest
  <2>1. CASE x = p
    <3>1. Is(i, j) = 0
      BY <2>1 DEF Is
    <3> QED
      BY <1>5, <2>1, <3>1
  <2>2. CASE x # p
    <3>1. Kinds(x)' = Kinds(x)
      BY <2>2 DEF Kinds
    <3> QED
      BY <3>1, WhereIs, WhereNext
  <2> QED
    BY <2>1, <2>2
<1>7. Is(i, i) = 1
  BY DEF Is
<1>8. Loses("queue", p, i)
  BY <1>5, <1>6, <1>7 DEF Loses
<1> QED
  BY <1>4, <1>8

\* A seller has one sale of a kind at most.
LEMMA OnSaleIs ==
  ASSUME BoxInv, NEW x \in Player, NEW j \in Item
  PROVE  OnSale(x, j) = IF [item |-> j, seller |-> x] \in sales \ {expiry.now} THEN 1 ELSE 0
<1>e. PICK e : e = [item |-> j, seller |-> x]
  OBVIOUS
<1>1. \A s \in sales : s.seller = x /\ s.item = j <=> s = e
  BY <1>e DEF BoxInv, Sale
<1>2. {s \in sales : s.seller = x /\ s.item = j /\ s # expiry.now} = IF e \in sales \ {expiry.now} THEN {e} ELSE {}
  BY <1>1
<1> QED
  BY <1>2, <1>e, FS_Singleton, FS_EmptySet DEF OnSale

\* And after a step.
LEMMA OnSaleNext ==
  ASSUME BoxInv', NEW x \in Player, NEW j \in Item
  PROVE  OnSale(x, j)' = IF [item |-> j, seller |-> x] \in sales' \ {expiry'.now} THEN 1 ELSE 0
<1>e. PICK e : e = [item |-> j, seller |-> x]
  OBVIOUS
<1>1. \A s \in sales' : s.seller = x /\ s.item = j <=> s = e
  BY <1>e DEF BoxInv, Sale
<1>2. {s \in sales' : s.seller = x /\ s.item = j /\ s # expiry'.now} = IF e \in sales' \ {expiry'.now} THEN {e} ELSE {}
  BY <1>1
<1> QED
  BY <1>2, <1>e, FS_Singleton, FS_EmptySet DEF OnSale

\* A sale is added, or goes, or nothing happens that is seen.
LEMMA MarketWritten ==
  ASSUME BoxInv, BoxInv'
  PROVE  /\ sales' \ {expiry'.now} = sales \ {expiry.now} => Stays("market")
         /\ \A q \in Player, i \in Item :
              LET e == [item |-> i, seller |-> q]
                  old == sales \ {expiry.now}
                  new == sales' \ {expiry'.now}
              IN  /\ e \notin old /\ new = old \cup {e} => Gains("market", q, i)
                  /\ e \in old /\ new = old \ {e} => Loses("market", q, i)
<1>A. PICK old : old = sales \ {expiry.now}
  OBVIOUS
<1>B. PICK new : new = sales' \ {expiry'.now}
  OBVIOUS
<1>1. \A x \in Player, j \in Item :
        /\ Where("market", x, j) = (IF [item |-> j, seller |-> x] \in old THEN 1 ELSE 0)
        /\ Where("market", x, j)' = (IF [item |-> j, seller |-> x] \in new THEN 1 ELSE 0)
  <2> TAKE x \in Player, j \in Item
  <2>1. Where("market", x, j) = OnSale(x, j) /\ Where("market", x, j)' = OnSale(x, j)'
    BY WhereIs, WhereNext
  <2>2. OnSale(x, j) = IF [item |-> j, seller |-> x] \in old THEN 1 ELSE 0
    BY <1>A, OnSaleIs
  <2>3. OnSale(x, j)' = IF [item |-> j, seller |-> x] \in new THEN 1 ELSE 0
    BY <1>B, OnSaleNext
  <2> QED
    BY <2>1, <2>2, <2>3
<1>2. new = old => Stays("market")
  BY <1>1 DEF Stays
<1>3. ASSUME NEW q \in Player, NEW i \in Item, NEW e, e = [item |-> i, seller |-> q], new \ {e} = old \ {e}
      PROVE  Rest("market", q, i)
  <2> SUFFICES ASSUME NEW x \in Player, NEW j \in Item, x # q \/ j # i PROVE Where("market", x, j)' = Where("market", x, j)
    BY DEF Rest
  <2>1. [item |-> j, seller |-> x] # e
    BY <1>3
  <2>2. [item |-> j, seller |-> x] \in old <=> [item |-> j, seller |-> x] \in new
    BY <1>3, <2>1
  <2> QED
    BY <1>1, <2>2
<1>4. ASSUME NEW q \in Player, NEW i \in Item, NEW e, e = [item |-> i, seller |-> q]
      PROVE  /\ e \notin old /\ new = old \cup {e} => Gains("market", q, i)
             /\ e \in old /\ new = old \ {e} => Loses("market", q, i)
  <2>1. /\ Where("market", q, i) = (IF e \in old THEN 1 ELSE 0)
        /\ Where("market", q, i)' = (IF e \in new THEN 1 ELSE 0)
    BY <1>1, <1>4
  <2>2. CASE e \notin old /\ new = old \cup {e}
    <3>1. Rest("market", q, i)
      BY <1>3, <1>4, <2>2
    <3> QED
      BY <2>1, <2>2, <3>1 DEF Gains
  <2>3. CASE e \in old /\ new = old \ {e}
    <3>1. Rest("market", q, i)
      BY <1>3, <1>4, <2>3
    <3> QED
      BY <2>1, <2>3, <3>1 DEF Loses
  <2> QED
    BY <2>2, <2>3
<1> QED
  BY <1>2, <1>4, <1>A, <1>B

-----------------------------------------------------------------------------
(* What the steps of Parcels rely on besides.                               *)

\* A row that was received was sent, and so was the row of a cell that shows it.
RowSays(p) ==
  /\ \A k \in Cell : out[p][k].received => out[p][k].sent
  /\ view[p].type = "send" =>
       \A k \in Cell : view[p].cell[k].sent /\ out[p][k] # NoOut => out[p][k].sent

\* A parcel that is being returned is in its cell.
ReturnOK(p) ==
  pc[p].op = "return" => inn[p][pc[p].k] = [item |-> pc[p].item, from |-> pc[p].who]

\* No row of x is called sent that was not, or the other way round.
SentKept(x) == \A k \in Cell :
  /\ out'[x][k].sent = out[x][k].sent /\ (out'[x][k] = NoOut <=> out[x][k] = NoOut)
  /\ out'[x][k].received => out[x][k].received \/ out[x][k].sent

\* Who does not act.
Bystander(x) == pc'[x] = pc[x] /\ view'[x] = view[x] /\ CellsKept(x) /\ SentKept(x)

\* What the rows of a player say stays so while others act.
LEMMA BystanderKeeps ==
  ASSUME NEW x \in Player, pc \in [Player -> Handler], Bystander(x), RowSays(x), ReturnOK(x)
  PROVE  RowSays(x)' /\ ReturnOK(x)'
<1>1. RowSays(x)'
  BY DEF RowSays, Bystander, SentKept
<1>2. pc[x].k \in Cell
  BY DEF Handler
<1>3. ReturnOK(x)'
  BY <1>2 DEF ReturnOK, Bystander, CellsKept
<1> QED
  BY <1>1, <1>3

\* The container of one player is written.
LEMMA OneView ==
  ASSUME BoxInv, NEW p \in Player, NEW k, NEW c, SetCell(p, k, c)
  PROVE  view'[p].type = view[p].type /\ \A y \in Player \ {p} : view'[y] = view[y]
<1>0. view \in [Player -> View]
  BY DEF BoxInv
<1>v. PICK v : v = [view[p] EXCEPT !.cell = [view[p].cell EXCEPT ![k] = c]]
  OBVIOUS
<1>1. view' = [view EXCEPT ![p] = v]
  BY <1>v DEF SetCell
<1>2. v.type = view[p].type
  <2>1. view[p] \in View
    BY <1>0
  <2> QED
    BY <1>v, <2>1 DEF View
<1> QED
  BY <1>0, <1>1, <1>2

\* A row of a queue goes.
LEMMA QueueRowGone ==
  ASSUME BoxInv, NEW q \in Player, NEW s \in Queued, inn' = [inn EXCEPT ![q] = [inn[q] EXCEPT ![s] = NoIn]], NEW x \in Player
  PROVE  CellsKept(x)
<1>1. inn = [y \in Player |-> inn[y]] /\ inn[q] \in [Slots -> InRow(q)]
  BY DEF BoxInv, InOK
<1>2. inn'[q] = [inn[q] EXCEPT ![s] = NoIn] /\ \A y \in Player \ {q} : inn'[y] = inn[y]
  BY <1>1
<1>3. \A m \in Cell : m # s /\ m \in Slots
  BY SlotNumbers
<1> QED
  BY <1>1, <1>2, <1>3 DEF CellsKept

\* What a parcel that is called back looks like on either side.
LEMMA CancelIs ==
  ASSUME BoxInv, NEW p \in Player, NEW k \in Cell, CancelSendingItem(p, k), Cancellable(out[p][k])
  PROVE  \E row \in OutRow(p), w \in Player \ {p}, i \in Item :
           /\ row = out[p][k] /\ row # NoOut /\ w = row.to /\ i = row.item /\ i = CellOf(p, k).item
           /\ row \in [item : Item, to : Player, sent : BOOLEAN, received : BOOLEAN]
           /\ CellOf(p, k) \in [item : Item, sent : BOOLEAN]
           /\ out' = [out EXCEPT ![p] = [out[p] EXCEPT ![k] = [row EXCEPT !.sent = FALSE]]]
           /\ LET S == Counterparts(inn[w], p, i) IN
              \/ S = {} /\ UNCHANGED inn
              \/ Min(S) \in S /\ inn' = [inn EXCEPT ![w] = [inn[w] EXCEPT ![Min(S)] = NoIn]]
           /\ SetCell(p, k, [CellOf(p, k) EXCEPT !.sent = FALSE])
<1>row. PICK row : row = out[p][k]
  OBVIOUS
<1>1. out[p] \in [Cell -> OutRow(p)] /\ row \in OutRow(p) /\ row # NoOut /\ view[p].type = "send"
      /\ CellOf(p, k) \in Shown /\ CellOf(p, k).sent
  BY <1>row DEF BoxInv, OutOK, Cancellable, NoOut, CancelSendingItem, Showing, CellOf, View
<1>2. row \in [item : Item, to : Player, sent : BOOLEAN, received : BOOLEAN] /\ row.to \in Player \ {p}
  BY <1>1 DEF OutRow
<1>3. row.item = CellOf(p, k).item
  BY <1>1, <1>row DEF BoxInv, Agrees, CellOf
<1>4. CellOf(p, k) \in [item : Item, sent : BOOLEAN]
  BY <1>1 DEF Shown, NoCell
<1>w. PICK w \in Player \ {p} : w = row.to
  BY <1>2
<1>i. PICK i \in Item : i = row.item
  BY <1>2
<1>S. PICK S : S = Counterparts(inn[w], p, i)
  OBVIOUS
<1>5. /\ out' = [out EXCEPT ![p] = [out[p] EXCEPT ![k].sent = FALSE]]
      /\ inn' = IF S = {} THEN inn ELSE [inn EXCEPT ![w] = [inn[w] EXCEPT ![Min(S)] = NoIn]]
      /\ SetCell(p, k, [CellOf(p, k) EXCEPT !.sent = FALSE])
  BY <1>row, <1>w, <1>i, <1>S, <1>3 DEF CancelSendingItem
<1>6. [out[p] EXCEPT ![k].sent = FALSE] = [out[p] EXCEPT ![k] = [row EXCEPT !.sent = FALSE]]
  BY <1>1, <1>row
<1>7. S # {} => Min(S) \in S
  <2>1. S \in SUBSET Nat
    BY <1>S, SlotNumbers DEF Counterparts
  <2> QED
    BY <2>1, MinIn
<1>8. \/ S = {} /\ UNCHANGED inn
      \/ Min(S) \in S /\ inn' = [inn EXCEPT ![w] = [inn[w] EXCEPT ![Min(S)] = NoIn]]
  BY <1>5, <1>7
<1> QED
  BY <1>1, <1>2, <1>3, <1>4, <1>5, <1>6, <1>8, <1>row, <1>w, <1>i, <1>S

-----------------------------------------------------------------------------
(* Who acts and who does not.                                               *)

\* A step is one of Parcels, or not seen there.
Goes == Parcel!Next \/ UNCHANGED Seen
Fine(p) == RowSays(p) /\ ReturnOK(p)
Aside(p) == \A x \in Player \ {p} : Bystander(x)

\* Nothing of x is written.
LEMMA LeftAlone ==
  ASSUME NEW p \in Player, \A x \in Player \ {p} : pc'[x] = pc[x] /\ view'[x] = view[x] /\ CellsKept(x) /\ out'[x] = out[x],
         \A x \in Player : RowSays(x)
  PROVE  Aside(p)
BY DEF Aside, Bystander, SentKept, RowSays

\* p changes a row of the outgoing box with the cell that shows it.
LEMMA OwnRow ==
  ASSUME BoxInv, NEW p \in Player, RowSays(p), NEW k \in Cell, NEW r, NEW c \in Shown,
         out' = [out EXCEPT ![p] = [out[p] EXCEPT ![k] = r]], SetCell(p, k, c),
         r.received => r.sent, c.sent /\ r # NoOut => r.sent
  PROVE  /\ RowSays(p)'
         /\ \A x \in Player \ {p} : out'[x] = out[x] /\ view'[x] = view[x]
<1>1. /\ view'[p].type = view[p].type /\ view'[p].cell[k] = c
      /\ \A m \in Cell \ {k} : view'[p].cell[m] = view[p].cell[m]
      /\ \A q \in Player \ {p} : view'[q] = view[q]
  BY CellWritten DEF BoxInv
<1>2. out = [x \in Player |-> out[x]] /\ out[p] \in [Cell -> OutRow(p)]
  BY DEF BoxInv, OutOK
<1>3. out'[p] = [out[p] EXCEPT ![k] = r] /\ \A x \in Player \ {p} : out'[x] = out[x]
  BY <1>2
<1>4. out'[p][k] = r /\ \A m \in Cell \ {k} : out'[p][m] = out[p][m]
  BY <1>2, <1>3
<1>5. RowSays(p)'
  BY <1>1, <1>4 DEF RowSays
<1> QED
  BY <1>1, <1>3, <1>5

\* A cell of an incoming box is written: the rows of the outgoing box are another matter.
LEMMA OwnCell ==
  ASSUME BoxInv, NEW p \in Player, RowSays(p), NEW k \in Cell, NEW c \in Shown, SetCell(p, k, c),
         out'[p] = out[p], view[p].type # "send"
  PROVE  RowSays(p)' /\ \A x \in Player \ {p} : view'[x] = view[x]
<1>1. /\ view'[p].type = view[p].type /\ \A q \in Player \ {p} : view'[q] = view[q]
  BY CellWritten DEF BoxInv
<1> QED
  BY <1>1 DEF RowSays

\* What an idle player does.
LEMMA StillIdle ==
  ASSUME NEW p \in Player, MayAct(p), UNCHANGED pc
  PROVE  ReturnOK(p)' /\ \A x \in Player : pc'[x] = pc[x]
BY DEF MayAct, Idle, ReturnOK

-----------------------------------------------------------------------------
(* The steps of the delivery box, in terms of Parcels.                      *)

\* Boxes are opened and closed.
LEMMA ViewGoes ==
  ASSUME BoxInv, NEW p \in Player, OpenSendBox(p) \/ OpenRecvBox(p) \/ CloseMailWindow(p),
         UNCHANGED <<sales, expiry>>, \A x \in Player : Fine(x)
  PROVE  Goes /\ Aside(p) /\ Fine(p)'
<1>1. MayAct(p) /\ UNCHANGED <<bag, out, inn, pc, gone>>
  BY DEF OpenSendBox, OpenRecvBox, CloseMailWindow, Opens
<1>2. UNCHANGED Seen
  BY <1>1, PlacesStay, StillSeen DEF Names
<1>3. ReturnOK(p)' /\ view = [x \in Player |-> view[x]]
  BY <1>1, StillIdle DEF BoxInv
<1>4. PICK v : view' = [view EXCEPT ![p] = v] /\ (v.type = "send" => \A k \in Cell : v.cell[k].sent = out[p][k].sent)
  <2>1. CASE OpenSendBox(p)
    <3>v. PICK v : v = [type |-> "send", cell |-> [k \in Cell |-> [item |-> out[p][k].item, sent |-> out[p][k].sent]]]
      OBVIOUS
    <3>1. view' = [view EXCEPT ![p] = v]
      BY <2>1, <3>v DEF OpenSendBox, Opens
    <3>2. \A k \in Cell : v.cell[k].sent = out[p][k].sent
      BY <3>v
    <3> QED
      BY <3>1, <3>2
  <2>2. CASE OpenRecvBox(p)
    <3>v. PICK v : v = [type |-> "recv", cell |-> [k \in Cell |-> [item |-> inn[p][k].item, sent |-> FALSE]]]
      OBVIOUS
    <3>1. view' = [view EXCEPT ![p] = v] /\ v.type = "recv"
      BY <2>2, <3>v DEF OpenRecvBox, Opens
    <3> QED
      BY <3>1
  <2>3. CASE CloseMailWindow(p)
    <3>1. view' = [view EXCEPT ![p] = Closed] /\ Closed.type = "none"
      BY <2>3 DEF CloseMailWindow, Closed
    <3> QED
      BY <3>1
  <2> QED
    BY <2>1, <2>2, <2>3
<1>5. view'[p] = v /\ \A x \in Player \ {p} : view'[x] = view[x]
  BY <1>3, <1>4
<1>6. RowSays(p)'
  BY <1>1, <1>4, <1>5 DEF Fine, RowSays
<1>7. Aside(p)
  BY <1>1, <1>5, LeftAlone DEF Fine, CellsKept
<1> QED
  BY <1>2, <1>3, <1>6, <1>7 DEF Goes, Fine

\* An item is laid into the outgoing box.
LEMMA AddGoes ==
  ASSUME BoxInv, NEW p \in Player, NEW k \in Cell, NEW i \in Item, NEW q \in Player,
         AddItemsToBeSent(p, k, i, q), UNCHANGED <<sales, expiry>>, \A x \in Player : Fine(x)
  PROVE  Goes /\ Aside(p) /\ Fine(p)'
<1>r. PICK r : r = [NoOut EXCEPT !.item = i, !.to = q]
  OBVIOUS
<1>c. PICK c : c = [item |-> i, sent |-> FALSE]
  OBVIOUS
<1>1. /\ MayAct(p) /\ UNCHANGED <<inn, pc, gone>> /\ Has(p, i) /\ Take(p, i) /\ out[p][k] = NoOut
      /\ out' = [out EXCEPT ![p] = [out[p] EXCEPT ![k] = r]] /\ SetCell(p, k, c)
  BY <1>r, <1>c DEF AddItemsToBeSent
<1>2. ~r.received /\ ~r.sent /\ r.item = i /\ c.sent = FALSE /\ c \in Shown
  BY <1>r, <1>c DEF NoOut, Shown
<1>3. Loses("hand", p, i)
  BY <1>1, HandWritten
<1>4. Gains("out", p, i)
  <2>1. Written("out", p, Lies(NoOut), Lies(r))
    BY <1>1, OutSlot
  <2>2. Lies(NoOut) \notin Item /\ Lies(r) = i
    BY <1>2, BoxAssumption DEF Lies, NoOut
  <2> QED
    BY <2>1, <2>2, WrittenIs
<1>5. \A b \in Names \ {"hand", "out"} : Stays(b)
  BY <1>1, PlacesStay DEF Names
<1>6. Parcel!Next
  <2>1. <<"hand", "out">> \in Parcel!OwnWay /\ "hand" \in Names /\ "out" \in Names \ {"hand"}
    BY DEF Parcel!OwnWay, Names
  <2> QED
    BY <1>3, <1>4, <1>5, <2>1, MoveStep
<1>7. RowSays(p)' /\ \A x \in Player \ {p} : out'[x] = out[x] /\ view'[x] = view[x]
  BY <1>1, <1>2, OwnRow DEF Fine
<1>8. ReturnOK(p)' /\ \A x \in Player : pc'[x] = pc[x]
  BY <1>1, StillIdle
<1>9. Aside(p)
  BY <1>1, <1>7, <1>8, LeftAlone DEF Fine, CellsKept
<1> QED
  BY <1>6, <1>7, <1>8, <1>9 DEF Goes, Fine

\* A handler looks at the table.
LEMMA FirstHalfGoes ==
  ASSUME BoxInv, NEW p \in Player, NEW k \in Cell, ShowsOne(p),
         SendConfirmation(p, k) \/ SendNewItems(p, k) \/ ReturnToSender(p, k),
         UNCHANGED <<sales, expiry>>, \A x \in Player : Fine(x)
  PROVE  Goes /\ Aside(p) /\ Fine(p)'
<1>0. pc = [x \in Player |-> pc[x]] /\ inn[p] \in [Slots -> InRow(p)] /\ k \in Slots
  BY SlotNumbers DEF BoxInv, InOK
<1>1. MayAct(p) /\ pc[p] = Idle /\ UNCHANGED <<bag, out, inn, view, gone>>
  BY IdleHandler DEF SendConfirmation, SendNewItems, ReturnToSender
<1>2. UNCHANGED Seen
  BY <1>1, PlacesStay, StillSeen DEF Names
<1>3. PICK r : pc' = [pc EXCEPT ![p] = r]
             /\ (r.op = "return" => inn[p][r.k] = [item |-> r.item, from |-> r.who])
  <2>1. CASE SendConfirmation(p, k)
    <3>r. PICK r : r = [Idle EXCEPT !.op = "send", !.k = k, !.item = CellOf(p, k).item]
      OBVIOUS
    <3>1. r.op = "send" /\ pc' = [pc EXCEPT ![p] = r]
      BY <2>1, <3>r DEF SendConfirmation, Idle
    <3> QED
      BY <3>1
  <2>2. CASE SendNewItems(p, k)
    <3>r. PICK r : r = [op |-> "recv", k |-> k, item |-> inn[p][Min(Waiting(p))].item,
                        who |-> inn[p][Min(Waiting(p))].from, slot |-> Min(Waiting(p))]
      OBVIOUS
    <3>1. r.op = "recv" /\ pc' = [pc EXCEPT ![p] = r]
      BY <2>2, <3>r DEF SendNewItems
    <3> QED
      BY <3>1
  <2>3. CASE ReturnToSender(p, k)
    <3>r. PICK r : r = [op |-> "return", k |-> k, item |-> CellOf(p, k).item,
                        who |-> inn[p][k].from, slot |-> 0]
      OBVIOUS
    <3>1. pc' = [pc EXCEPT ![p] = r] /\ view[p].type = "recv" /\ inn[p][k].from # None
      BY <2>3, <3>r DEF ReturnToSender, Showing
    <3>2. pc[p].op # "recv"
      BY <1>1 DEF Idle
    <3>3. CellOf(p, k).item = inn[p][k].item
      BY <3>1, <3>2 DEF ShowsOne, CellOf
    <3>4. inn[p][k] = [item |-> inn[p][k].item, from |-> inn[p][k].from]
      BY <1>0 DEF InRow, NoIn
    <3>5. r.k = k /\ r.item = inn[p][k].item /\ r.who = inn[p][k].from
      BY <3>r, <3>3
    <3> QED
      BY <3>1, <3>4, <3>5
  <2> QED
    BY <2>1, <2>2, <2>3
<1>4. pc'[p] = r /\ \A x \in Player \ {p} : pc'[x] = pc[x]
  BY <1>0, <1>3
<1>5. ReturnOK(p)'
  BY <1>1, <1>3, <1>4 DEF ReturnOK
<1>6. RowSays(p)'
  BY <1>1 DEF RowSays, Fine
<1>7. Aside(p)
  BY <1>1, <1>4, LeftAlone DEF Fine, CellsKept
<1> QED
  BY <1>2, <1>5, <1>6, <1>7 DEF Goes, Fine

\* A handler ends.
LEMMA HandlerEnds ==
  ASSUME BoxInv, NEW p \in Player, pc' = [pc EXCEPT ![p] = Idle]
  PROVE  ReturnOK(p)' /\ \A x \in Player \ {p} : pc'[x] = pc[x]
<1>1. pc'[p] = Idle /\ \A x \in Player \ {p} : pc'[x] = pc[x]
  BY DEF BoxInv
<1> QED
  BY <1>1 DEF ReturnOK, Idle

\* A parcel is sent, unless it was already.
LEMMA SendGoes ==
  ASSUME BoxInv, NEW p \in Player, FinishSend(p), UNCHANGED <<sales, expiry>>, \A x \in Player : Fine(x)
  PROVE  Goes /\ Aside(p) /\ Fine(p)'
<1>k. PICK k \in Cell : k = pc[p].k
  BY DEF BoxInv, Handler
<1>row. PICK row : row = out[p][k]
  OBVIOUS
<1>0. /\ GoesOn(p, "send") /\ UNCHANGED <<bag, gone>> /\ pc' = [pc EXCEPT ![p] = Idle]
      /\ pc[p].op = "send" /\ Busy(p) /\ out[p] \in [Cell -> OutRow(p)]
  BY DEF FinishSend, GoesOn, BoxInv, OutOK
<1>1. /\ view[p].type = "send" /\ row # NoOut /\ row.item = pc[p].item /\ row \in OutRow(p)
      /\ view[p].cell[k] # NoCell /\ view[p].cell[k] \in Shown
  BY <1>0, <1>k, <1>row DEF Busy, BoxInv, View
<1>2. row \in [item : Item, to : Player, sent : BOOLEAN, received : BOOLEAN] /\ row.to # p
      /\ view[p].cell[k] \in [item : Item, sent : BOOLEAN]
  BY <1>1 DEF OutRow, Shown
<1>w. PICK w \in Player \ {p} : w = row.to
  BY <1>2
<1>i. PICK i \in Item : i = row.item
  BY <1>2
<1>3. ReturnOK(p)' /\ \A x \in Player \ {p} : pc'[x] = pc[x]
  BY <1>0, HandlerEnds
<1>4. CASE row.sent
  <2>1. UNCHANGED <<out, inn, view>>
    BY <1>4, <1>k, <1>row DEF FinishSend
  <2>2. UNCHANGED Seen
    BY <1>0, <2>1, PlacesStay, StillSeen DEF Names
  <2>3. RowSays(p)' /\ Aside(p)
    BY <1>3, <2>1, LeftAlone DEF RowSays, Fine, CellsKept
  <2> QED
    BY <1>3, <2>2, <2>3 DEF Goes, Fine
<1>5. CASE ~row.sent
  <2>r. PICK r : r = [row EXCEPT !.sent = TRUE]
    OBVIOUS
  <2>c. PICK c : c = [view[p].cell[k] EXCEPT !.sent = TRUE]
    OBVIOUS
  <2>1. /\ out' = [out EXCEPT ![p] = [out[p] EXCEPT ![k].sent = TRUE]]
        /\ inn' = [inn EXCEPT ![w] = Post(inn[w], i, p)]
        /\ SetCell(p, k, c) /\ Fits(w)
    BY <1>5, <1>k, <1>row, <1>w, <1>i, <1>1, <2>c DEF FinishSend, CellOf
  <2>2. out' = [out EXCEPT ![p] = [out[p] EXCEPT ![k] = r]]
    <3>1. [out[p] EXCEPT ![k].sent = TRUE] = [out[p] EXCEPT ![k] = r]
      BY <1>0, <1>row, <2>r
    <3> QED
      BY <2>1, <3>1
  <2>3. r.sent /\ c \in Shown
    BY <1>2, <2>r, <2>c DEF Shown
  <2>4. Loses("out", p, i)
    <3>1. Written("out", p, Lies(row), Lies(r))
      BY <1>row, <2>2, OutSlot
    <3>2. Lies(row) = i /\ Lies(r) \notin Item
      BY <1>5, <1>i, <2>3, BoxAssumption DEF Lies
    <3> QED
      BY <3>1, <3>2, WrittenIs
  <2>5. p \in Someone \ {w}
    BY DEF Someone
  <2>6. \A x \in Player : CellsKept(x)
    BY <2>1, <2>5, PostKeepsCells
  <2>7. Gains("queue", w, i) /\ Stays("box")
    <3>1. inn'[w] = Post(inn[w], i, p) /\ \A x \in Player \ {w} : inn'[x] = inn[x]
      BY <2>1 DEF BoxInv, InOK
    <3>2. \A x \in Player \ {w} : PartKept(Queued, x)
      BY <3>1 DEF PartKept
    <3>3. Gains("queue", w, i)
      BY <2>1, <2>5, <3>1, <3>2, Posted
    <3>4. \A x \in Player : PartKept(Cell, x)
      BY <2>6 DEF CellsKept, PartKept
    <3>5. Stays("box")
      BY <3>4, InnPart
    <3> QED
      BY <3>3, <3>5
  <2>8. \A b \in Names \ {"out", "queue"} : Stays(b)
    BY <1>0, <2>7, PlacesStay DEF Names
  <2>9. Parcel!Next
    <3>1. <<"out", "queue">> \in Parcel!Posted /\ "out" \in Names /\ "queue" \in Names \ {"out"}
      BY DEF Parcel!Posted, Names
    <3> QED
      BY <2>4, <2>7, <2>8, <3>1, MoveStep
  <2>10. RowSays(p)' /\ \A x \in Player \ {p} : out'[x] = out[x] /\ view'[x] = view[x]
    BY <2>1, <2>2, <2>3, OwnRow DEF Fine
  <2>11. Aside(p)
    BY <1>3, <2>6, <2>10, LeftAlone DEF Fine
  <2> QED
    BY <1>3, <2>9, <2>10, <2>11 DEF Goes, Fine
<1> QED
  BY <1>4, <1>5

\* A row of a parcel that was delivered goes.
LEMMA DeliveredGoes ==
  ASSUME BoxInv, NEW p \in Player, RemoveDeliveredItemFromSendingBox(p),
         UNCHANGED <<sales, expiry>>, \A x \in Player : Fine(x)
  PROVE  Goes /\ Aside(p) /\ Fine(p)'
<1>S. PICK S : S = {m \in Cell : out[p][m].received}
  OBVIOUS
<1>1. /\ MayAct(p) /\ UNCHANGED <<bag, inn, pc, gone>> /\ S # {}
      /\ out' = [out EXCEPT ![p] = [out[p] EXCEPT ![Min(S)] = NoOut]] /\ SetCell(p, Min(S), NoCell)
  BY <1>S DEF RemoveDeliveredItemFromSendingBox
<1>k. PICK k \in S : k = Min(S)
  <2>1. S \in SUBSET Nat
    BY <1>S, SlotNumbers
  <2> QED
    BY <1>1, <2>1, MinIn
<1>2. k \in Cell /\ out[p][k].received /\ out[p][k].sent
  BY <1>S, <1>k DEF Fine, RowSays
<1>3. out' = [out EXCEPT ![p] = [out[p] EXCEPT ![k] = NoOut]] /\ SetCell(p, k, NoCell)
  BY <1>1, <1>k
<1>4. Stays("out")
  <2>1. Written("out", p, Lies(out[p][k]), Lies(NoOut))
    BY <1>2, <1>3, OutSlot
  <2>2. Lies(out[p][k]) = None /\ Lies(NoOut) = None
    BY <1>2 DEF Lies, NoOut
  <2> QED
    BY <2>1, <2>2, WrittenIs
<1>5. UNCHANGED Seen
  BY <1>1, <1>4, PlacesStay, StillSeen DEF Names
<1>6. NoCell \in Shown /\ ~NoCell.sent /\ ~NoOut.received
  BY DEF Shown, NoCell, NoOut
<1>7. RowSays(p)' /\ \A x \in Player \ {p} : out'[x] = out[x] /\ view'[x] = view[x]
  BY <1>2, <1>3, <1>6, OwnRow DEF Fine
<1>8. ReturnOK(p)' /\ \A x \in Player : pc'[x] = pc[x]
  BY <1>1, StillIdle
<1>9. Aside(p)
  BY <1>1, <1>7, <1>8, LeftAlone DEF Fine, CellsKept
<1> QED
  BY <1>5, <1>7, <1>8, <1>9 DEF Goes, Fine

\* A parcel is called back.
LEMMA CancelGoes ==
  ASSUME BoxInv, NEW p \in Player, NEW k \in Cell, CancelSendingItem(p, k), Cancellable(out[p][k]),
         \A x, y \in Player, i \in Item : Matched(x, y, i),
         UNCHANGED <<sales, expiry>>, \A x \in Player : Fine(x)
  PROVE  Goes /\ Aside(p) /\ Fine(p)'
<1>0. PICK row \in OutRow(p), w \in Player \ {p}, i \in Item :
           /\ row = out[p][k] /\ row # NoOut /\ w = row.to /\ i = row.item /\ i = CellOf(p, k).item
           /\ row \in [item : Item, to : Player, sent : BOOLEAN, received : BOOLEAN]
           /\ CellOf(p, k) \in [item : Item, sent : BOOLEAN]
           /\ out' = [out EXCEPT ![p] = [out[p] EXCEPT ![k] = [row EXCEPT !.sent = FALSE]]]
           /\ LET S == Counterparts(inn[w], p, i) IN
              \/ S = {} /\ UNCHANGED inn
              \/ Min(S) \in S /\ inn' = [inn EXCEPT ![w] = [inn[w] EXCEPT ![Min(S)] = NoIn]]
           /\ SetCell(p, k, [CellOf(p, k) EXCEPT !.sent = FALSE])
  BY CancelIs
<1>r. PICK r : r = [row EXCEPT !.sent = FALSE]
  OBVIOUS
<1>c. PICK c : c = [CellOf(p, k) EXCEPT !.sent = FALSE]
  OBVIOUS
<1>S. PICK S : S = Counterparts(inn[w], p, i)
  OBVIOUS
<1>1. /\ MayAct(p) /\ UNCHANGED <<bag, pc, gone>>
      /\ out' = [out EXCEPT ![p] = [out[p] EXCEPT ![k] = r]] /\ SetCell(p, k, c)
  BY <1>0, <1>r, <1>c DEF CancelSendingItem
<1>2. ~r.sent /\ r.item = i /\ r.received = row.received /\ ~c.sent /\ c \in Shown
  BY <1>0, <1>r, <1>c DEF Shown
<1>3. row.sent /\ ~row.received
  BY <1>0 DEF Cancellable
<1>4. Gains("out", p, i)
  <2>1. Written("out", p, Lies(row), Lies(r))
    BY <1>0, <1>1, OutSlot
  <2>2. Lies(row) \notin Item /\ Lies(r) = i
    BY <1>2, <1>3, BoxAssumption DEF Lies
  <2> QED
    BY <2>1, <2>2, WrittenIs
<1>5. S # {}
  <2>1. k \in Outstanding(p, w, i)
    BY <1>0 DEF Outstanding
  <2>2. Cardinality(Outstanding(p, w, i)) > 0
    <3>1. IsFiniteSet(Outstanding(p, w, i)) /\ Cardinality(Outstanding(p, w, i)) \in Nat
      BY BothFinite
    <3>2. Cardinality(Outstanding(p, w, i)) # 0
      BY <2>1, <3>1, FS_EmptySet
    <3> QED
      BY <3>1, <3>2
  <2>3. Cardinality(Outstanding(p, w, i)) <= Cardinality(S)
    BY <1>S DEF Matched
  <2>4. Cardinality(Outstanding(p, w, i)) \in Nat /\ Cardinality(S) \in Nat
    BY <1>S, BothFinite
  <2>5. Cardinality(S) # 0
    BY <2>2, <2>3, <2>4
  <2> QED
    BY <2>5, FS_EmptySet
<1>s. PICK s \in S : s = Min(S)
  BY <1>0, <1>S, <1>5
<1>6. s \in Queued /\ inn[w][s].item = i /\ inn[w][s].from = p
      /\ inn' = [inn EXCEPT ![w] = [inn[w] EXCEPT ![s] = NoIn]]
  BY <1>0, <1>S, <1>5, <1>s DEF Counterparts
<1>7. Loses("queue", w, i) /\ Stays("box")
  <2>1. s \in Slots /\ inn[w][s] # NoIn
    BY <1>6, SlotNumbers, BoxAssumption DEF NoIn
  <2> QED
    BY <1>6, <2>1, RowTaken
<1>8. \A b \in Names \ {"queue", "out"} : Stays(b)
  BY <1>1, <1>7, PlacesStay DEF Names
<1>9. Parcel!Next
  <2>1. <<"queue", "out">> \in Parcel!Posted /\ "queue" \in Names /\ "out" \in Names \ {"queue"}
    BY DEF Parcel!Posted, Names
  <2> QED
    BY <1>4, <1>7, <1>8, <2>1, MoveStep
<1>10. RowSays(p)' /\ \A x \in Player \ {p} : out'[x] = out[x] /\ view'[x] = view[x]
  BY <1>1, <1>2, <1>3, OwnRow DEF Fine
<1>11. ReturnOK(p)' /\ \A x \in Player : pc'[x] = pc[x]
  BY <1>1, StillIdle
<1>12. \A x \in Player : CellsKept(x)
  BY <1>6, QueueRowGone
<1>13. Aside(p)
  BY <1>10, <1>11, <1>12, LeftAlone DEF Fine
<1> QED
  BY <1>9, <1>10, <1>11, <1>13 DEF Goes, Fine

\* An orphan is deleted: the row was sent, and its parcel is not with the sender any more.
LEMMA OrphanGoes ==
  ASSUME BoxInv, NEW p \in Player, NEW k \in Cell, CancelSendingItem(p, k), ~Cancellable(out[p][k]),
         UNCHANGED <<sales, expiry>>, \A x \in Player : Fine(x)
  PROVE  Goes /\ Aside(p) /\ Fine(p)'
<1>row. PICK row : row = out[p][k]
  OBVIOUS
<1>r. PICK r : r = IF row.item = CellOf(p, k).item THEN NoOut ELSE row
  OBVIOUS
<1>0. out = [x \in Player |-> out[x]] /\ out[p] \in [Cell -> OutRow(p)]
  BY DEF BoxInv, OutOK
<1>1. /\ MayAct(p) /\ UNCHANGED <<bag, inn, view, pc, gone>> /\ view[p].type = "send" /\ view[p].cell[k].sent
      /\ out' = [out EXCEPT ![p] = [out[p] EXCEPT ![k] = r]]
  BY <1>row, <1>r DEF CancelSendingItem, Showing, CellOf
<1>2. row # NoOut => row.sent
  BY <1>1, <1>row DEF Fine, RowSays
<1>3. Stays("out")
  <2>1. Written("out", p, Lies(row), Lies(r))
    BY <1>row, <1>1, OutSlot
  <2>2. Lies(row) = None /\ Lies(r) = None
    BY <1>2, <1>r DEF Lies, NoOut
  <2> QED
    BY <2>1, <2>2, WrittenIs
<1>4. UNCHANGED Seen
  BY <1>1, <1>3, PlacesStay, StillSeen DEF Names
<1>5. out'[p] = [out[p] EXCEPT ![k] = r] /\ \A x \in Player \ {p} : out'[x] = out[x]
  BY <1>0, <1>1
<1>6. out'[p][k] = r /\ \A m \in Cell \ {k} : out'[p][m] = out[p][m]
  BY <1>0, <1>5
<1>7. (r.received => r.sent) /\ (r # NoOut => r.sent)
  BY <1>2, <1>r DEF NoOut
<1>8. RowSays(p)'
  BY <1>1, <1>6, <1>7 DEF RowSays, Fine
<1>9. ReturnOK(p)' /\ \A x \in Player : pc'[x] = pc[x]
  BY <1>1, StillIdle
<1>10. Aside(p)
  BY <1>1, <1>5, <1>9, LeftAlone DEF Fine, CellsKept
<1> QED
  BY <1>4, <1>8, <1>9, <1>10 DEF Goes, Fine

\* A row of the incoming box goes with its cell, from an idle player.
LEMMA EmptiedGoes ==
  ASSUME BoxInv, NEW p \in Player, NEW k \in Cell, MayAct(p), UNCHANGED <<pc, out>>, view[p].type = "recv",
         inn' = [inn EXCEPT ![p] = [inn[p] EXCEPT ![k] = NoIn]], SetCell(p, k, NoCell),
         \A x \in Player : Fine(x)
  PROVE  Aside(p) /\ Fine(p)'
<1>1. inn = [x \in Player |-> inn[x]] /\ NoCell \in Shown
  BY DEF BoxInv, InOK, Shown
<1>2. \A x \in Player \ {p} : inn'[x] = inn[x]
  BY <1>1
<1>3. RowSays(p)' /\ \A x \in Player \ {p} : view'[x] = view[x]
  BY <1>1, OwnCell DEF Fine
<1>4. ReturnOK(p)' /\ \A x \in Player : pc'[x] = pc[x]
  BY StillIdle
<1>5. Aside(p)
  BY <1>2, <1>3, <1>4, LeftAlone DEF Fine, CellsKept
<1> QED
  BY <1>3, <1>4, <1>5 DEF Fine

\* An item is taken out of a box.
LEMMA TakeGoes ==
  ASSUME BoxInv, NEW p \in Player, NEW k \in Cell, ShowsOne(p), TakeItemFromCell(p, k),
         UNCHANGED <<sales, expiry>>, \A x \in Player : Fine(x)
  PROVE  Goes /\ Aside(p) /\ Fine(p)'
<1>c. PICK c : c = CellOf(p, k)
  OBVIOUS
<1>0. MayAct(p) /\ pc[p] = Idle /\ UNCHANGED <<pc, gone>> /\ Give(p, c.item) /\ SetCell(p, k, NoCell)
  BY <1>c, IdleHandler DEF TakeItemFromCell
<1>1. CASE /\ view[p].type = "send" /\ ~c.sent /\ TakesBack(out[p][k])
           /\ out' = [out EXCEPT ![p] = [out[p] EXCEPT ![k] = NoOut]] /\ UNCHANGED inn
  <2>1. out[p] \in [Cell -> OutRow(p)] /\ out[p][k] # NoOut /\ ~out[p][k].sent /\ Agrees(p)
    BY <1>1 DEF BoxInv, OutOK, TakesBack
  <2>i. PICK i \in Item : i = out[p][k].item
    BY <2>1 DEF OutRow
  <2>2. c.item = i
    BY <1>1, <1>c, <2>1, <2>i DEF Agrees, CellOf
  <2>3. Loses("out", p, i)
    <3>1. Written("out", p, Lies(out[p][k]), Lies(NoOut))
      BY <1>1, OutSlot
    <3>2. Lies(out[p][k]) = i /\ Lies(NoOut) \notin Item
      BY <2>1, <2>i, BoxAssumption DEF Lies, NoOut
    <3> QED
      BY <3>1, <3>2, WrittenIs
  <2>4. Gains("hand", p, i)
    BY <1>0, <2>2, HandWritten
  <2>5. \A b \in Names \ {"out", "hand"} : Stays(b)
    BY <1>0, <1>1, PlacesStay DEF Names
  <2>6. Parcel!Next
    <3>1. <<"out", "hand">> \in Parcel!OwnWay /\ "out" \in Names /\ "hand" \in Names \ {"out"}
      BY DEF Parcel!OwnWay, Names
    <3> QED
      BY <2>3, <2>4, <2>5, <3>1, MoveStep
  <2>7. NoCell \in Shown /\ ~NoCell.sent /\ ~NoOut.received
    BY DEF Shown, NoCell, NoOut
  <2>8. RowSays(p)' /\ \A x \in Player \ {p} : out'[x] = out[x] /\ view'[x] = view[x]
    BY <1>0, <1>1, <2>7, OwnRow DEF Fine
  <2>9. ReturnOK(p)' /\ \A x \in Player : pc'[x] = pc[x]
    BY <1>0, StillIdle
  <2>10. Aside(p)
    BY <1>1, <2>8, <2>9, LeftAlone DEF Fine, CellsKept
  <2> QED
    BY <2>6, <2>8, <2>9, <2>10 DEF Goes, Fine
<1>2. CASE /\ view[p].type = "recv" /\ inn[p][k] # NoIn
           /\ inn' = [inn EXCEPT ![p] = [inn[p] EXCEPT ![k] = NoIn]] /\ UNCHANGED out
  <2>1. c.item = inn[p][k].item
    BY <1>c, <1>0, <1>2 DEF ShowsOne, Idle, CellOf
  <2>2. k \in Slots
    BY SlotNumbers
  <2>3. inn[p][k].item \in Item /\ Loses("box", p, inn[p][k].item) /\ Stays("queue")
    BY <1>2, <2>2, RowTaken
  <2>i. PICK i \in Item : i = inn[p][k].item
    BY <2>3
  <2>4. Gains("hand", p, i)
    BY <1>0, <2>1, <2>i, HandWritten
  <2>5. \A b \in Names \ {"box", "hand"} : Stays(b)
    BY <1>0, <1>2, <2>3, PlacesStay DEF Names
  <2>6. Parcel!Next
    <3>1. <<"box", "hand">> \in Parcel!OwnWay /\ "box" \in Names /\ "hand" \in Names \ {"box"}
      BY DEF Parcel!OwnWay, Names
    <3> QED
      BY <2>3, <2>i, <2>4, <2>5, <3>1, MoveStep
  <2>7. Aside(p) /\ Fine(p)'
    BY <1>0, <1>2, EmptiedGoes
  <2> QED
    BY <2>6, <2>7 DEF Goes
<1> QED
  BY <1>1, <1>2, <1>c DEF TakeItemFromCell

\* An item is thrown away.
LEMMA ThrowGoes ==
  ASSUME BoxInv, NEW p \in Player, NEW k \in Cell, RemoveItemFromCell(p, k),
         UNCHANGED <<sales, expiry>>, \A x \in Player : Fine(x)
  PROVE  Goes /\ Aside(p) /\ Fine(p)'
<1>i. PICK i : i = inn[p][k].item
  OBVIOUS
<1>0. /\ MayAct(p) /\ UNCHANGED <<bag, out, pc>> /\ view[p].type = "recv" /\ inn[p][k] # NoIn
      /\ inn' = [inn EXCEPT ![p] = [inn[p] EXCEPT ![k] = NoIn]] /\ SetCell(p, k, NoCell)
      /\ gone' = [gone EXCEPT ![p] = More(gone[p], i, 1)]
  BY <1>i DEF RemoveItemFromCell, Showing
<1>1. i \in Item /\ Loses("box", p, i) /\ Stays("queue")
  <2>1. k \in Slots
    BY SlotNumbers
  <2> QED
    BY <1>0, <1>i, <2>1, RowTaken
<1>2. Gains("gone", p, i)
  BY <1>0, <1>1, HandWritten
<1>3. \A b \in Names \ {"box", "gone"} : Stays(b)
  BY <1>0, <1>1, PlacesStay DEF Names
<1>4. Parcel!Next
  <2>1. <<"box", "gone">> \in Parcel!OwnWay /\ "box" \in Names /\ "gone" \in Names \ {"box"}
    BY DEF Parcel!OwnWay, Names
  <2> QED
    BY <1>1, <1>2, <1>3, <2>1, MoveStep
<1>5. Aside(p) /\ Fine(p)'
  BY <1>0, EmptiedGoes
<1> QED
  BY <1>4, <1>5 DEF Goes

\* Marking a parcel as received takes no row away and calls none sent.
LEMMA MarkedIs ==
  ASSUME NEW w \in Player, NEW rows \in [Cell -> OutRow(w)], NEW p \in Player, NEW a \in Item
  PROVE  \/ Marked(rows, p, a) = rows
         \/ \E k \in Cell : \E r :
              /\ Marked(rows, p, a) = [rows EXCEPT ![k] = r]
              /\ rows[k].sent /\ r.sent /\ rows[k] # NoOut /\ r # NoOut
<1>S. PICK S : S = {k \in Cell : rows[k].to = p /\ rows[k].sent /\ ~rows[k].received /\ rows[k].item = a}
  OBVIOUS
<1>1. CASE S = {}
  BY <1>1, <1>S DEF Marked
<1>2. CASE S # {}
  <2>1. PICK k \in S : k = Min(S)
    <3>1. S \in SUBSET Nat
      BY <1>S, SlotNumbers
    <3> QED
      BY <1>2, <3>1, MinIn
  <2>2. k \in Cell /\ rows[k].sent /\ rows[k] # NoOut /\ rows[k] \in OutRow(w)
    BY <1>S DEF NoOut
  <2>3. rows[k] \in [item : Item, to : Player, sent : BOOLEAN, received : BOOLEAN]
    BY <2>2 DEF OutRow
  <2>r. PICK r : r = [rows[k] EXCEPT !.received = TRUE]
    OBVIOUS
  <2>4. r.sent /\ r # NoOut
    BY <2>2, <2>3, <2>r DEF NoOut
  <2>5. Marked(rows, p, a) = [rows EXCEPT ![k].received = TRUE]
    BY <1>2, <1>S, <2>1 DEF Marked
  <2>6. Marked(rows, p, a) = [rows EXCEPT ![k] = r]
    BY <2>2, <2>5, <2>r
  <2> QED
    BY <2>2, <2>4, <2>6
<1> QED
  BY <1>1, <1>2

\* A parcel is opened.
LEMMA RecvGoes ==
  ASSUME BoxInv, NEW p \in Player, FinishRecv(p), RecvOK(p), UNCHANGED <<sales, expiry>>,
         \A x \in Player : Fine(x)
  PROVE  Goes /\ Aside(p) /\ Fine(p)'
<1>0. /\ out = [y \in Player |-> out[y]] /\ inn = [y \in Player |-> inn[y]]
      /\ pc[p].op = "recv" /\ pc[p].k \in Cell /\ view[p].type = "recv"
      /\ pc[p].item \in Item /\ pc[p].slot \in Queued /\ pc[p].who \in Someone \ {p}
  BY DEF BoxInv, OutOK, InOK, FinishRecv, GoesOn, Handler, Busy
<1>v. PICK a \in Item, s \in Queued, k \in Cell, w \in Someone \ {p} :
        a = pc[p].item /\ s = pc[p].slot /\ k = pc[p].k /\ w = pc[p].who
  BY <1>0
<1>c. PICK c : c = [item |-> a, sent |-> FALSE]
  OBVIOUS
<1>1. inn[p][s] = [item |-> a, from |-> w] /\ inn[p][k] = NoIn
  BY <1>0, <1>v DEF RecvOK
<1>2. /\ out' = IF w = None THEN out ELSE [out EXCEPT ![w] = Marked(out[w], p, a)]
      /\ inn' = [inn EXCEPT ![p] = Opened(inn[p], s, k)]
      /\ SetCell(p, k, c) /\ pc' = [pc EXCEPT ![p] = Idle] /\ UNCHANGED <<bag, gone>>
  BY <1>1, <1>v, <1>c DEF FinishRecv
<1>3. inn'[p] = Opened(inn[p], s, k) /\ \A x \in Player \ {p} : inn'[x] = inn[x]
  BY <1>0, <1>2
<1>4. Loses("queue", p, a) /\ Gains("box", p, a)
  <2>1. inn[p][s].item = a
    BY <1>1
  <2> QED
    BY <1>1, <1>3, <2>1, OpenedMoves
<1>5. Stays("out") /\ out'[p] = out[p] /\ \A x \in Player \ {p} : SentKept(x)
  <2>1. CASE UNCHANGED out
    BY <2>1, PlacesStay DEF SentKept, Fine, RowSays
  <2>2. CASE w \in Player /\ w # None
    <3>r. PICK rows \in [Cell -> OutRow(w)] : rows = out[w]
      BY <2>2 DEF BoxInv, OutOK
    <3>1. out' = [out EXCEPT ![w] = Marked(rows, p, a)]
      BY <1>2, <2>2, <3>r
    <3>2. CASE Marked(rows, p, a) = rows
      <4>1. UNCHANGED out
        BY <1>0, <3>1, <3>2, <3>r
      <4> QED
        BY <2>1, <4>1
    <3>3. CASE \E m \in Cell : \E r :
                 /\ Marked(rows, p, a) = [rows EXCEPT ![m] = r]
                 /\ rows[m].sent /\ r.sent /\ rows[m] # NoOut /\ r # NoOut
      <4>m. PICK m \in Cell : \E r : /\ Marked(rows, p, a) = [rows EXCEPT ![m] = r]
                                    /\ rows[m].sent /\ r.sent /\ rows[m] # NoOut /\ r # NoOut
        BY <3>3
      <4>1. PICK r : /\ Marked(rows, p, a) = [rows EXCEPT ![m] = r]
                     /\ rows[m].sent /\ r.sent /\ rows[m] # NoOut /\ r # NoOut
        BY <4>m
      <4>2. out' = [out EXCEPT ![w] = [out[w] EXCEPT ![m] = r]]
        BY <3>1, <3>r, <4>1
      <4>3. Stays("out")
        <5>1. Written("out", w, Lies(out[w][m]), Lies(r))
          BY <2>2, <4>2, OutSlot
        <5>2. Lies(out[w][m]) = None /\ Lies(r) = None
          BY <3>r, <4>1 DEF Lies
        <5> QED
          BY <2>2, <5>1, <5>2, WrittenIs
      <4>4. out'[w] = [rows EXCEPT ![m] = r] /\ \A x \in Player \ {w} : out'[x] = out[x]
        BY <1>0, <2>2, <3>r, <4>2
      <4>5. out'[w][m] = r /\ \A j \in Cell \ {m} : out'[w][j] = rows[j]
        BY <4>4
      <4>6. SentKept(w)
        <5>1. r.sent = rows[m].sent \/ r.sent \notin BOOLEAN
          BY <4>1
        <5>2. \A j \in Cell \ {m} : out'[w][j] = out[w][j]
          BY <3>r, <4>5
        <5> QED
          BY <2>2, <3>r, <4>1, <4>5, <5>1, <5>2 DEF SentKept, Fine, RowSays
      <4>7. \A x \in Player \ {w} : SentKept(x)
        BY <4>4 DEF SentKept, Fine, RowSays
      <4> QED
        BY <1>v, <4>3, <4>4, <4>6, <4>7
    <3> QED
      BY <2>2, <3>2, <3>3, MarkedIs
  <2> QED
    BY <1>2, <2>1, <2>2 DEF Someone
<1>6. \A b \in Names \ {"queue", "box"} : Stays(b)
  BY <1>2, <1>5, PlacesStay DEF Names
<1>7. Parcel!Next
  <2>1. <<"queue", "box">> \in Parcel!OwnWay /\ "queue" \in Names /\ "box" \in Names \ {"queue"}
    BY DEF Parcel!OwnWay, Names
  <2> QED
    BY <1>4, <1>6, <2>1, MoveStep
<1>8. c \in Shown
  BY <1>c DEF Shown
<1>9. RowSays(p)' /\ \A x \in Player \ {p} : view'[x] = view[x]
  BY <1>0, <1>2, <1>5, <1>8, OwnCell DEF Fine
<1>10. ReturnOK(p)' /\ \A x \in Player \ {p} : pc'[x] = pc[x]
  BY <1>2, HandlerEnds
<1>11. Aside(p)
  BY <1>3, <1>5, <1>9, <1>10 DEF Aside, Bystander, CellsKept
<1> QED
  BY <1>7, <1>9, <1>10, <1>11 DEF Goes, Fine

\* A parcel is returned.
LEMMA ReturnGoes ==
  ASSUME BoxInv, NEW p \in Player, FinishReturn(p), UNCHANGED <<sales, expiry>>, \A x \in Player : Fine(x)
  PROVE  Goes /\ Aside(p) /\ Fine(p)'
<1>0. /\ GoesOn(p, "return") /\ Fits(pc[p].who) /\ SetCell(p, pc[p].k, NoCell) /\ pc' = [pc EXCEPT ![p] = Idle]
      /\ UNCHANGED <<bag, out, gone>> /\ view[p].type = "recv"
      /\ inn[p][pc[p].k] = [item |-> pc[p].item, from |-> pc[p].who]
  BY DEF FinishReturn, GoesOn, BoxInv, Busy, Fine, ReturnOK
<1>1. /\ pc[p].who \in Player \ {p} /\ pc[p].item \in Item /\ pc[p].k \in Cell
      /\ inn'[p] = [inn[p] EXCEPT ![pc[p].k] = NoIn]
      /\ inn'[pc[p].who] = Post(inn[pc[p].who], pc[p].item, p)
      /\ \A x \in Player \ {p, pc[p].who} : inn'[x] = inn[x]
  BY FinishReturnInv
<1>v. PICK w \in Player \ {p}, a \in Item, k \in Cell : w = pc[p].who /\ a = pc[p].item /\ k = pc[p].k
  BY <1>1
<1>2. inn[p][k].item = a
  BY <1>0, <1>v
<1>3. inn'[p] = [inn[p] EXCEPT ![k] = NoIn] /\ inn[p] \in [Slots -> InRow(p)]
  BY <1>1, <1>v DEF BoxInv, InOK
<1>4. inn'[p][k] = NoIn /\ \A m \in Slots \ {k} : inn'[p][m] = inn[p][m]
  BY <1>3, SlotNumbers
<1>5. \A x \in Player \ {w} : PartKept(Queued, x)
  <2>1. PartKept(Queued, p)
    BY <1>4, SlotNumbers DEF PartKept
  <2>2. \A x \in Player \ {p, w} : PartKept(Queued, x)
    BY <1>1, <1>v DEF PartKept
  <2> QED
    BY <2>1, <2>2
<1>6. Gains("queue", w, a) /\ PartKept(Cell, w)
  <2>1. Fits(w) /\ p \in Someone \ {w} /\ inn'[w] = Post(inn[w], a, p)
    BY <1>0, <1>1, <1>v DEF Someone
  <2> QED
    BY <1>5, <2>1, Posted
<1>7. \A x \in Player \ {p} : PartKept(Cell, x)
  BY <1>1, <1>v, <1>6 DEF PartKept
<1>8. Loses("box", p, a)
  <2>1. But(Cell, inn[p], inn'[p], k)
    BY <1>4, SlotNumbers DEF But
  <2>2. Written("box", p, inn[p][k].item, inn'[p][k].item)
    BY <1>7, <2>1, InnPart
  <2>3. inn'[p][k].item \notin Item
    BY <1>4, BoxAssumption DEF NoIn
  <2> QED
    BY <1>2, <2>2, <2>3, WrittenIs
<1>9. \A b \in Names \ {"box", "queue"} : Stays(b)
  BY <1>0, PlacesStay DEF Names
<1>10. Parcel!Next
  <2>1. <<"box", "queue">> \in Parcel!Posted /\ "box" \in Names /\ "queue" \in Names \ {"box"}
    BY DEF Parcel!Posted, Names
  <2> QED
    BY <1>6, <1>8, <1>9, <2>1, MoveStep
<1>11. RowSays(p)' /\ \A x \in Player \ {p} : view'[x] = view[x]
  <2>1. NoCell \in Shown
    BY DEF Shown
  <2> QED
    BY <1>0, <1>1, <2>1, OwnCell DEF Fine
<1>12. ReturnOK(p)' /\ \A x \in Player \ {p} : pc'[x] = pc[x]
  BY <1>0, HandlerEnds
<1>13. Aside(p)
  BY <1>0, <1>7, <1>11, <1>12, LeftAlone DEF Fine, CellsKept, PartKept
<1> QED
  BY <1>10, <1>11, <1>12, <1>13 DEF Goes, Fine

-----------------------------------------------------------------------------
(* The steps of the auction house, in terms of Parcels.                     *)

\* What is to be sent back is still offered.
TodoOK == expiry.todo \subseteq sales

\* Nobody is disturbed who does not look into a queue.
LEMMA MarketAside ==
  ASSUME BoxInv, \A x \in Player : Fine(x),
         \/ \E p \in Player : \/ \E i \in Item : ProofOfPurchase(p, i)
                              \/ \E s \in sales : PurchasingItems(p, s) \/ CancelSale(p, s)
         \/ ExpireAHItems \/ StrikeOff \/ \E s \in expiry.todo : SendBack(s)
  PROVE  \A x \in Player : Fine(x)' /\ CellsKept(x)
<1>1. UNCHANGED <<pc, view, out>>
  BY DEF ProofOfPurchase, PurchasingItems, CancelSale, ExpireAHItems, StrikeOff, SendBack, boxVars
<1>2. \A x \in Player : CellsKept(x)
  <2> TAKE x \in Player
  <2>1. sales \subseteq Sale /\ expiry.todo \subseteq Sale /\ Coin \in Item
        /\ \A s \in Sale : s.item \in Item /\ s.seller \in Player /\ None \in Someone \ {s.seller}
    BY BoxAssumption DEF BoxInv, Sale, Someone
  <2>2. ASSUME NEW p \in Player, NEW s \in sales, PurchasingItems(p, s) PROVE CellsKept(x)
    <3>1. s \in Sale /\ Fits(s.seller) /\ inn' = [inn EXCEPT ![s.seller] = Post(inn[s.seller], Coin, None)]
      BY <2>1, <2>2 DEF PurchasingItems
    <3> QED
      BY <2>1, <3>1, PostKeepsCells
  <2>3. ASSUME NEW s \in expiry.todo, SendBack(s) PROVE CellsKept(x)
    <3>1. s \in Sale /\ Fits(s.seller) /\ inn' = [inn EXCEPT ![s.seller] = Post(inn[s.seller], s.item, None)]
      BY <2>1, <2>3 DEF SendBack
    <3> QED
      BY <2>1, <3>1, PostKeepsCells
  <2>4. UNCHANGED inn => CellsKept(x)
    BY DEF CellsKept
  <2> QED
    BY <2>2, <2>3, <2>4 DEF ProofOfPurchase, CancelSale, ExpireAHItems, StrikeOff, boxVars
<1>3. \A x \in Player : Bystander(x) /\ RowSays(x) /\ ReturnOK(x)
  BY <1>1, <1>2 DEF Bystander, SentKept, Fine, RowSays
<1>4. pc \in [Player -> Handler]
  BY DEF BoxInv
<1> QED
  BY <1>2, <1>3, <1>4, BystanderKeeps DEF Fine

\* The auction house pays and sends back with parcels of nobody.
LEMMA MarketPosts ==
  ASSUME BoxInv, NEW q \in Player, NEW i \in Item, Fits(q),
         inn' = [inn EXCEPT ![q] = Post(inn[q], i, None)]
  PROVE  Gains("queue", q, i) /\ Stays("box")
<1>1. inn'[q] = Post(inn[q], i, None) /\ \A x \in Player \ {q} : inn'[x] = inn[x]
  BY DEF BoxInv, InOK
<1>2. None \in Someone \ {q} /\ \A x \in Player \ {q} : PartKept(Queued, x) /\ PartKept(Cell, x)
  BY <1>1, BoxAssumption DEF Someone, PartKept
<1>3. Gains("queue", q, i) /\ PartKept(Cell, q)
  BY <1>1, <1>2, Posted
<1>4. \A x \in Player : PartKept(Cell, x)
  BY <1>2, <1>3
<1>5. Stays("box")
  BY <1>4, InnPart
<1> QED
  BY <1>3, <1>5

\* The expiry rests while a player is served.
LEMMA ServedRests ==
  ASSUME "expire" \notin Interrupted, BoxInv, NEW p \in Player, Served(p)
  PROVE  expiry = Resting /\ expiry.now = NoSale /\ NoSale \notin sales
<1>1. expiry = Resting
  BY DEF Served
<1>2. NoSale \notin Sale
  BY BoxAssumption DEF NoSale, Sale
<1> QED
  BY <1>1, <1>2 DEF Resting, BoxInv

\* An item is offered.
LEMMA OfferGoes ==
  ASSUME "expire" \notin Interrupted, BoxInv, BoxInv', NEW p \in Player, NEW i \in Item, ProofOfPurchase(p, i)
  PROVE  Parcel!Next /\ TodoOK'
<1>0. /\ Served(p) /\ Has(p, i) /\ Take(p, i) /\ UNCHANGED <<out, inn, view, pc, gone, expiry>>
  BY DEF ProofOfPurchase
<1>1. expiry = Resting /\ expiry.now = NoSale /\ NoSale \notin sales
  BY <1>0, ServedRests
<1>e. PICK e : e = [item |-> i, seller |-> p]
  OBVIOUS
<1>2. e \notin sales /\ sales' = sales \cup {e}
  BY <1>e DEF ProofOfPurchase
<1>3. e # NoSale
  BY <1>e, BoxAssumption DEF NoSale
<1>4. e \notin sales \ {expiry.now} /\ sales' \ {expiry'.now} = (sales \ {expiry.now}) \cup {e}
  BY <1>0, <1>1, <1>2, <1>3
<1>5. Gains("market", p, i)
  BY <1>4, <1>e, MarketWritten
<1>6. Loses("hand", p, i)
  BY <1>0, HandWritten
<1>7. \A b \in Names \ {"hand", "market"} : Stays(b)
  BY <1>0, PlacesStay DEF Names
<1>8. Parcel!Next
  <2>1. <<"hand", "market">> \in Parcel!OwnWay /\ "hand" \in Names /\ "market" \in Names \ {"hand"}
    BY DEF Parcel!OwnWay, Names
  <2> QED
    BY <1>5, <1>6, <1>7, <2>1, MoveStep
<1>9. TodoOK'
  BY <1>0, <1>1 DEF TodoOK, Resting
<1> QED
  BY <1>8, <1>9

\* A sale that nobody is sending back goes.
LEMMA SaleGone ==
  ASSUME "expire" \notin Interrupted, BoxInv, BoxInv', NEW p \in Player, NEW s \in sales, Served(p),
         sales' = sales \ {s}, UNCHANGED expiry
  PROVE  Loses("market", s.seller, s.item) /\ TodoOK' /\ s.seller \in Player /\ s.item \in Item \ {Coin}
<1>1. expiry = Resting /\ expiry.now = NoSale /\ NoSale \notin sales
  BY ServedRests
<1>2. s \in Sale
  BY DEF BoxInv
<1>3. s.seller \in Player /\ s.item \in Item \ {Coin} /\ s = [item |-> s.item, seller |-> s.seller]
  BY <1>2 DEF Sale
<1>4. s \in sales \ {expiry.now} /\ sales' \ {expiry'.now} = (sales \ {expiry.now}) \ {s}
  BY <1>1
<1>5. Loses("market", s.seller, s.item)
  BY <1>3, <1>4, MarketWritten
<1>6. TodoOK'
  BY <1>1 DEF TodoOK, Resting
<1> QED
  BY <1>3, <1>5, <1>6

\* A sale is withdrawn.
LEMMA WithdrawGoes ==
  ASSUME "expire" \notin Interrupted, BoxInv, BoxInv', NEW p \in Player, NEW s \in sales, CancelSale(p, s)
  PROVE  Parcel!Next /\ TodoOK'
<1>0. /\ Served(p) /\ s.seller = p /\ sales' = sales \ {s} /\ Give(p, s.item)
      /\ UNCHANGED <<out, inn, view, pc, gone, expiry>>
  BY DEF CancelSale
<1>1. Loses("market", p, s.item) /\ TodoOK' /\ s.item \in Item
  BY <1>0, SaleGone
<1>i. PICK i \in Item : i = s.item
  BY <1>1
<1>2. Gains("hand", p, i)
  BY <1>0, <1>i, HandWritten
<1>3. \A b \in Names \ {"market", "hand"} : Stays(b)
  BY <1>0, PlacesStay DEF Names
<1>4. Parcel!Next
  <2>1. <<"market", "hand">> \in Parcel!OwnWay /\ "market" \in Names /\ "hand" \in Names \ {"market"}
    BY DEF Parcel!OwnWay, Names
  <2> QED
    BY <1>1, <1>i, <1>2, <1>3, <2>1, MoveStep
<1> QED
  BY <1>1, <1>4

\* A sale is made.
LEMMA BuyGoes ==
  ASSUME "expire" \notin Interrupted, BoxInv, BoxInv', NEW p \in Player, NEW s \in sales, PurchasingItems(p, s)
  PROVE  Parcel!Next /\ TodoOK'
<1>0. /\ Served(p) /\ Has(p, Coin) /\ Fits(s.seller) /\ sales' = sales \ {s}
      /\ inn' = [inn EXCEPT ![s.seller] = Post(inn[s.seller], Coin, None)]
      /\ bag' = [bag EXCEPT ![p] = More(More(bag[p], s.item, 1), Coin, -1)]
      /\ UNCHANGED <<out, view, pc, gone, expiry>>
  BY DEF PurchasingItems
<1>1. Loses("market", s.seller, s.item) /\ TodoOK' /\ s.seller \in Player /\ s.item \in Item \ {Coin}
  BY <1>0, SaleGone
<1>i. PICK i \in Item \ {Coin} : i = s.item
  BY <1>1
<1>q. PICK q \in Player : q = s.seller
  BY <1>1
<1>2. Coin \in Item /\ bag \in [Player -> [Item -> Nat]] /\ bag[p][Coin] > 0
  BY <1>0, BoxAssumption DEF BoxInv, Has
<1>3. Gains("queue", q, Coin) /\ Stays("box")
  BY <1>0, <1>q, <1>2, MarketPosts
<1>a. PICK had \in [Item -> Nat] : had = bag[p]
  BY <1>2
<1>b. PICK b : b = More(had, i, 1)
  OBVIOUS
<1>4. b \in [Item -> Nat] /\ b[i] = bag[p][i] + 1 /\ \A j \in Item \ {i} : b[j] = bag[p][j]
  <2>1. b \in [Item -> Nat] /\ b[i] = had[i] + 1
    BY <1>b, MoreOK
  <2>2. \A j \in Item \ {i} : b[j] = had[j]
    BY <1>b, MoreOK
  <2> QED
    BY <1>a, <2>1, <2>2
<1>5. b[Coin] > 0
  BY <1>2, <1>4
<1>d. PICK d : d = More(b, Coin, -1)
  OBVIOUS
<1>6. d[Coin] = b[Coin] - 1 /\ \A j \in Item \ {Coin} : d[j] = b[j]
  BY <1>2, <1>4, <1>5, <1>d, LessOK
<1>7. bag'[p] = d /\ \A x \in Player \ {p} : bag'[x] = bag[x]
  BY <1>0, <1>2, <1>a, <1>b, <1>d, <1>i
<1>8. \A x \in Player, j \in Item : Where("hand", x, j) = bag[x][j] /\ Where("hand", x, j)' = bag'[x][j]
  BY WhereIs, WhereNext
<1>9. /\ Where("hand", p, i) \in Nat /\ Where("hand", p, i)' = Where("hand", p, i) + 1
      /\ Where("hand", p, Coin) \in Nat /\ Where("hand", p, Coin) > 0
      /\ Where("hand", p, Coin)' = Where("hand", p, Coin) - 1
  BY <1>2, <1>4, <1>6, <1>7, <1>8
<1>10. \A x \in Player, j \in Item : x # p \/ j \notin {i, Coin} => Where("hand", x, j)' = Where("hand", x, j)
  <2> SUFFICES ASSUME NEW x \in Player, NEW j \in Item, x # p \/ j \notin {i, Coin}
               PROVE  Where("hand", x, j)' = Where("hand", x, j)
    OBVIOUS
  <2>1. bag'[x][j] = bag[x][j]
    BY <1>4, <1>6, <1>7
  <2> QED
    BY <1>8, <2>1
<1>11. \A a \in {"out", "box", "gone"} : Stays(a)
  BY <1>0, <1>3, PlacesStay
<1>12. Parcel!Next
  BY <1>1, <1>2, <1>i, <1>q, <1>3, <1>9, <1>10, <1>11, SaleStep
<1> QED
  BY <1>1, <1>12

\* What is too old is looked for, sent back, and struck off.
LEMMA ExpiryGoes ==
  ASSUME BoxInv, BoxInv', TodoOK, ExpireAHItems \/ StrikeOff \/ \E s \in expiry.todo : SendBack(s)
  PROVE  Goes /\ TodoOK'
<1>0. NoSale \notin sales /\ NoSale \notin sales'
  <2>1. NoSale \notin Sale
    BY BoxAssumption DEF NoSale, Sale
  <2> QED
    BY <2>1 DEF BoxInv
<1>1. CASE ExpireAHItems
  <2>1. /\ UNCHANGED <<bag, out, inn, gone, sales>> /\ expiry.now = NoSale /\ expiry'.now = NoSale
        /\ expiry'.todo \subseteq sales
    BY <1>1 DEF ExpireAHItems, boxVars, Resting
  <2>2. Stays("market")
    BY <2>1, MarketWritten
  <2>3. UNCHANGED Seen
    BY <2>1, <2>2, PlacesStay, StillSeen DEF Names
  <2> QED
    BY <2>1, <2>3 DEF Goes, TodoOK
<1>2. CASE StrikeOff
  <2>1. /\ UNCHANGED <<bag, out, inn, gone>> /\ sales' = sales \ {expiry.now}
        /\ expiry'.now = NoSale /\ expiry'.todo = expiry.todo \ {expiry.now}
    BY <1>2 DEF StrikeOff, boxVars
  <2>2. sales' \ {expiry'.now} = sales \ {expiry.now}
    BY <1>0, <2>1
  <2>3. Stays("market")
    BY <2>2, MarketWritten
  <2>4. UNCHANGED Seen
    BY <2>1, <2>3, PlacesStay, StillSeen DEF Names
  <2> QED
    BY <2>1, <2>4 DEF Goes, TodoOK
<1>3. ASSUME NEW s \in expiry.todo, SendBack(s) PROVE Goes /\ TodoOK'
  <2>1. /\ expiry.now = NoSale /\ Fits(s.seller) /\ UNCHANGED <<bag, out, gone, sales>>
        /\ inn' = [inn EXCEPT ![s.seller] = Post(inn[s.seller], s.item, None)]
        /\ expiry' = [expiry EXCEPT !.now = s] /\ s \in sales /\ s \in Sale
    BY <1>3 DEF SendBack, TodoOK, BoxInv
  <2>2. expiry'.now = s /\ expiry'.todo = expiry.todo
    BY <2>1 DEF BoxInv
  <2>i. PICK i \in Item : i = s.item
    BY <2>1 DEF Sale
  <2>q. PICK q \in Player : q = s.seller
    BY <2>1 DEF Sale
  <2>3. s = [item |-> i, seller |-> q]
    BY <2>1, <2>i, <2>q DEF Sale
  <2>4. s \in sales \ {expiry.now} /\ sales' \ {expiry'.now} = (sales \ {expiry.now}) \ {s}
    BY <1>0, <2>1, <2>2
  <2>5. Loses("market", q, i)
    BY <2>3, <2>4, MarketWritten
  <2>6. Gains("queue", q, i) /\ Stays("box")
    BY <2>1, <2>i, <2>q, MarketPosts
  <2>7. \A b \in Names \ {"market", "queue"} : Stays(b)
    BY <2>1, <2>6, PlacesStay DEF Names
  <2>8. Parcel!Next
    <3>1. <<"market", "queue">> \in Parcel!OwnWay /\ "market" \in Names /\ "queue" \in Names \ {"market"}
      BY DEF Parcel!OwnWay, Names
    <3> QED
      BY <2>5, <2>6, <2>7, <3>1, MoveStep
  <2> QED
    BY <2>1, <2>2, <2>8 DEF Goes, TodoOK
<1> QED
  BY <1>1, <1>2, <1>3

-----------------------------------------------------------------------------
(* All steps.                                                               *)

\* What the rows say, of all players, and what is to be sent back.
Faithful == TodoOK /\ \A x \in Player : Fine(x)

\* One step of a player at the delivery box.
LEMMA BoxStepGoes ==
  ASSUME BoxInv, NEW p \in Player, BoxStep(p), UNCHANGED <<sales, expiry>>, RecvOK(p), ShowsOne(p),
         \A x, y \in Player, i \in Item : Matched(x, y, i), Faithful
  PROVE  Goes /\ Faithful'
<1>0. \A x \in Player : Fine(x)
  BY DEF Faithful
<1>1. Goes /\ Aside(p) /\ Fine(p)'
  <2>1. CASE OpenSendBox(p) \/ OpenRecvBox(p) \/ CloseMailWindow(p)
    BY <1>0, <2>1, ViewGoes
  <2>2. ASSUME NEW k \in Cell, NEW i \in Item, NEW q \in Player, AddItemsToBeSent(p, k, i, q)
        PROVE  Goes /\ Aside(p) /\ Fine(p)'
    BY <1>0, <2>2, AddGoes
  <2>3. ASSUME NEW k \in Cell, SendConfirmation(p, k) \/ SendNewItems(p, k) \/ ReturnToSender(p, k)
        PROVE  Goes /\ Aside(p) /\ Fine(p)'
    BY <1>0, <2>3, FirstHalfGoes
  <2>4. ASSUME NEW k \in Cell, CancelSendingItem(p, k)
        PROVE  Goes /\ Aside(p) /\ Fine(p)'
    BY <1>0, <2>4, CancelGoes, OrphanGoes
  <2>5. ASSUME NEW k \in Cell, TakeItemFromCell(p, k) \/ RemoveItemFromCell(p, k)
        PROVE  Goes /\ Aside(p) /\ Fine(p)'
    BY <1>0, <2>5, TakeGoes, ThrowGoes
  <2>6. CASE RemoveDeliveredItemFromSendingBox(p)
    BY <1>0, <2>6, DeliveredGoes
  <2>7. CASE FinishSend(p)
    BY <1>0, <2>7, SendGoes
  <2>8. CASE FinishRecv(p)
    BY <1>0, <2>8, RecvGoes
  <2>9. CASE FinishReturn(p)
    BY <1>0, <2>9, ReturnGoes
  <2> QED
    BY <2>1, <2>2, <2>3, <2>4, <2>5, <2>6, <2>7, <2>8, <2>9 DEF BoxStep
<1>2. \A x \in Player : Fine(x)'
  <2>1. pc \in [Player -> Handler]
    BY DEF BoxInv
  <2> QED
    BY <1>0, <1>1, <2>1, BystanderKeeps DEF Aside, Fine
<1>3. TodoOK'
  BY DEF Faithful, TodoOK
<1> QED
  BY <1>1, <1>2, <1>3 DEF Faithful

\* One step of the auction house.
LEMMA MarketGoes ==
  ASSUME "expire" \notin Interrupted, BoxInv, BoxInv', Faithful,
         \/ \E p \in Player : \/ \E i \in Item : ProofOfPurchase(p, i)
                              \/ \E s \in sales : PurchasingItems(p, s) \/ CancelSale(p, s)
         \/ ExpireAHItems \/ StrikeOff \/ \E s \in expiry.todo : SendBack(s)
  PROVE  Goes /\ Faithful'
<1>1. \A x \in Player : Fine(x)'
  BY MarketAside DEF Faithful
<1>2. Goes /\ TodoOK'
  <2>1. ASSUME NEW p \in Player, NEW i \in Item, ProofOfPurchase(p, i) PROVE Goes /\ TodoOK'
    BY <2>1, OfferGoes DEF Goes
  <2>2. ASSUME NEW p \in Player, NEW s \in sales, PurchasingItems(p, s) PROVE Goes /\ TodoOK'
    BY <2>2, BuyGoes DEF Goes
  <2>3. ASSUME NEW p \in Player, NEW s \in sales, CancelSale(p, s) PROVE Goes /\ TodoOK'
    BY <2>3, WithdrawGoes DEF Goes
  <2>4. CASE ExpireAHItems \/ StrikeOff \/ \E s \in expiry.todo : SendBack(s)
    BY <2>4, ExpiryGoes DEF Faithful
  <2> QED
    BY <2>1, <2>2, <2>3, <2>4
<1> QED
  BY <1>1, <1>2 DEF Faithful

\* Every step is one of Parcels.
LEMMA NextGoes ==
  ASSUME "expire" \notin Interrupted
  PROVE  /\ BoxInv /\ BoxInv' /\ Faithful /\ [Next]_vars
         /\ \A x \in Player : RecvOK(x) /\ ShowsOne(x)
         /\ \A x, y \in Player, i \in Item : Matched(x, y, i)
         => Goes /\ Faithful'
<1> SUFFICES ASSUME BoxInv, BoxInv', Faithful, [Next]_vars, \A x \in Player : RecvOK(x) /\ ShowsOne(x),
                    \A x, y \in Player, i \in Item : Matched(x, y, i)
             PROVE  Goes /\ Faithful'
  OBVIOUS
<1>1. CASE UNCHANGED vars
  <2>1. UNCHANGED <<bag, out, inn, view, pc, gone, sales, expiry>>
    BY <1>1 DEF vars, boxVars
  <2>2. UNCHANGED Seen
    BY <2>1, PlacesStay, StillSeen DEF Names
  <2>3. Faithful'
    BY <2>1 DEF Faithful, TodoOK, Fine, RowSays, ReturnOK
  <2> QED
    BY <2>2, <2>3 DEF Goes
<1>2. ASSUME NEW p \in Player, BoxStep(p), UNCHANGED <<sales, expiry>> PROVE Goes /\ Faithful'
  BY <1>2, BoxStepGoes
<1>3. CASE \/ \E p \in Player : \/ \E i \in Item : ProofOfPurchase(p, i)
                                \/ \E s \in sales : PurchasingItems(p, s) \/ CancelSale(p, s)
           \/ ExpireAHItems \/ StrikeOff \/ \E s \in expiry.todo : SendBack(s)
  BY <1>3, MarketGoes
<1> QED
  BY <1>1, <1>2, <1>3 DEF Next

\* Every item is somewhere at first.
LEMMA InitGoes == Init => Parcel!Init /\ Faithful
<1> SUFFICES ASSUME Init PROVE Parcel!Init /\ Faithful
  OBVIOUS
<1>1. BoxInv
  BY InitInv
<1>2. ASSUME NEW x \in Player, NEW j \in Item, NEW a \in Names PROVE Where(a, x, j) \in Nat
  <2>1. bag[x][j] \in Nat /\ gone[x][j] \in Nat
    BY <1>1 DEF BoxInv
  <2>2. /\ Cardinality(Holding(Cell, Lying(x), j)) \in Nat
        /\ Cardinality(Holding(Queued, Kinds(x), j)) \in Nat
        /\ Cardinality(Holding(Cell, Kinds(x), j)) \in Nat
    <3>1. /\ Holding(Cell, Lying(x), j) \in SUBSET Cell /\ Holding(Queued, Kinds(x), j) \in SUBSET Queued
          /\ Holding(Cell, Kinds(x), j) \in SUBSET Cell
      BY DEF Holding
    <3> QED
      BY <3>1, FiniteSlots
  <2>3. OnSale(x, j) \in Nat
    <3>1. OnSale(x, j) = IF [item |-> j, seller |-> x] \in sales \ {expiry.now} THEN 1 ELSE 0
      BY <1>1, OnSaleIs
    <3>2. OnSale(x, j) = 1 \/ OnSale(x, j) = 0
      BY <3>1
    <3> QED
      BY <3>2
  <2> QED
    BY <2>1, <2>2, <2>3, WhereIs DEF Names
<1>3. Seen \in [Thing -> Nat]
  BY <1>2, ThingIs DEF Seen
<1>4. Parcel!Init
  BY <1>3 DEF Parcel!Init, Seen, Thing, Parcel!Thing, Parcel!Place
<1>5. Faithful
  BY DEF Init, BoxInit, Faithful, TodoOK, Fine, RowSays, ReturnOK, NoOut, Closed, Idle, Resting
<1> QED
  BY <1>4, <1>5

\* A step that goes is one of the abstract next-state relation, or leaves it alone.
LEMMA GoesIsStep == Goes => [Parcel!Next]_Seen
BY DEF Goes

\* Every item is in one place of one owner and takes the ways of Parcels only, where the
\* statements that open a parcel, and those of the search server that send an unsold item
\* back, are not interrupted: the delivery box and the auction house implement Parcels, for
\* any players, items, capacities and interleavings of sending and returning.
THEOREM ParcelRefinement ==
  ASSUME "recv" \notin Interrupted, "expire" \notin Interrupted
  PROVE  Spec => ParcelSpec
<1> DEFINE P == \A x \in Player : RecvOK(x) /\ ShowsOne(x)
           M == \A x, y \in Player, i \in Item : Matched(x, y, i)
<1>1. Init => P /\ M /\ Faithful /\ Parcel!Init
  BY InitShown, InitMatched, InitGoes
<1>2. BoxInv /\ P /\ [Next]_vars => P'
  BY NextShown
<1>3. BoxInv /\ P /\ M /\ [Next]_vars => M'
  BY NextMatched
<1>4. BoxInv /\ BoxInv' /\ P /\ M /\ Faithful /\ [Next]_vars => Goes /\ Faithful'
  BY NextGoes
<1>5. Goes => [Parcel!Next]_[h \in Thing |-> Where(h[1][1], h[1][2], h[2])]
  BY GoesIsStep DEF Seen
<1> HIDE DEF P, M
<1> QED
  BY <1>1, <1>2, <1>3, <1>4, <1>5, BoxesInOrder, PTL DEF Spec, ParcelSpec, Parcel!Spec
=============================================================================
