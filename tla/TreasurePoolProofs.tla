------------------------- MODULE TreasurePoolProofs -------------------------
(***************************************************************************)
(* For any characters, items, sizes of the pool and of inventories, for    *)
(* every kind of pool, with early or late passes: nobody ends up with two  *)
(* of a rare item, a drop is in one place, no member has two lots for an   *)
(* item, and whoever passed on a drop does not get it. Unless the process  *)
(* is less than five minutes old, the counter is the number of items, and  *)
(* if no pass is late either, every lot is for the item in its slot.       *)
(*                                                                         *)
(* The argument: an award moves the drop of a slot into one inventory and  *)
(* empties the slot; a new drop takes a number nothing carries yet, and a  *)
(* slot that is empty, or that the eviction has just emptied because its   *)
(* item counts as expired. Whoever passed on a drop has the lot 0 for it   *)
(* as long as it is a member: the one lot it has cannot lead, and keeps it *)
(* from the draw.                                                          *)
(***************************************************************************)
EXTENDS TreasurePool, FiniteSetTheorems, FunctionTheorems, WellFoundedInduction, TLAPS

\* An entry whose lots may be anything.
IsEntry(e) ==
  /\ e = [item |-> e.item, n |-> e.n, old |-> e.old, lots |-> e.lots]
  /\ e.item \in Item \cup {None} /\ e.n \in Nat

Shaped(st) ==
  /\ st = [slots |-> st.slots, count |-> st.count, bag |-> st.bag]
  /\ st.slots = [i \in Slot |-> st.slots[i]]
  /\ \A i \in Slot : IsEntry(st.slots[i])
  /\ st.count \in 0..255
  /\ st.bag \in [Char -> SUBSET Drop]

OccupiedIn(st) == {i \in Slot : st.slots[i].item # None}

Counted(st) == st.count = Cardinality(OccupiedIn(st))

\* The drops of the pool st, of which there have been m, are where they should be.
Placement(st, m) ==
  /\ \A i \in OccupiedIn(st) : st.slots[i].n \in 1..m
  /\ \A c \in Char : \A d \in st.bag[c] : d.n <= m
  /\ \A i, j \in OccupiedIn(st) : st.slots[i].n = st.slots[j].n => i = j
  /\ \A c \in Char : \A d \in st.bag[c] : d.n # 0 =>
       /\ \A i \in OccupiedIn(st) : st.slots[i].n # d.n
       /\ \A b \in Char \ {c} : \A e \in st.bag[b] : e.n # d.n

Rares(st) ==
  \A c \in Char : \A d, e \in st.bag[c] : d.item = e.item /\ d.item \in Rare => d = e

Sound(st, m) ==
  /\ Shaped(st) /\ Placement(st, m) /\ Rares(st)
  /\ ~YoungServer => Counted(st)

\* There are at most 255 slots, so that the uint8 does not wrap.
LEMMA OccupiedFacts ==
  ASSUME NEW st
  PROVE  /\ IsFiniteSet(OccupiedIn(st))
         /\ Cardinality(OccupiedIn(st)) \in 0..Size
<1>1. IsFiniteSet(Slot) /\ Cardinality(Slot) = Size
  <2>1. 1 \in Int /\ Size \in Int /\ ~(1 > Size)
    BY ConstantsAssumption
  <2>2. IsFiniteSet(1..Size) /\ Cardinality(1..Size) = Size - 1 + 1
    BY <2>1, FS_Interval
  <2> QED
    BY <2>1, <2>2 DEF Slot
<1>2. OccupiedIn(st) \subseteq Slot
  BY DEF OccupiedIn
<1> QED
  BY <1>1, <1>2, FS_Subset, FS_CardinalityType, ConstantsAssumption

\* An empty slot is an entry without an item.
LEMMA EmptyEntry == IsEntry(Empty) /\ Empty.item = None
BY DEF IsEntry, Empty

\* Clearing a slot empties it, changes no other and takes one from the counter.
LEMMA ClearedFacts ==
  ASSUME NEW st, NEW i \in Slot, Shaped(st), st.slots[i].item # None
  PROVE  /\ Shaped(Cleared(st, i))
         /\ Cleared(st, i).bag = st.bag
         /\ OccupiedIn(Cleared(st, i)) = OccupiedIn(st) \ {i}
         /\ \A j \in Slot \ {i} : Cleared(st, i).slots[j] = st.slots[j]
         /\ Counted(st) => Counted(Cleared(st, i))
<1> DEFINE u == Cleared(st, i)
<1>1. u = [slots |-> [st.slots EXCEPT ![i] = Empty],
           count |-> (st.count + 255) % 256, bag |-> st.bag]
  BY DEF Cleared
<1>2. /\ u.slots[i] = Empty
      /\ \A j \in Slot \ {i} : u.slots[j] = st.slots[j]
      /\ u.slots = [j \in Slot |-> u.slots[j]]
  BY <1>1 DEF Shaped
<1>3. u.count \in 0..255
  BY <1>1 DEF Shaped
<1>4. Shaped(u)
  <2>1. \A j \in Slot : IsEntry(u.slots[j])
    BY <1>2, EmptyEntry DEF Shaped
  <2>2. u.bag \in [Char -> SUBSET Drop] /\ u = [slots |-> u.slots, count |-> u.count, bag |-> u.bag]
    BY <1>1 DEF Shaped
  <2> QED
    BY <1>2, <1>3, <2>1, <2>2 DEF Shaped
<1>5. OccupiedIn(u) = OccupiedIn(st) \ {i}
  BY <1>2, EmptyEntry DEF OccupiedIn
<1>6. ASSUME Counted(st) PROVE Counted(u)
  <2>1. i \in OccupiedIn(st)
    BY DEF OccupiedIn
  <2>2. Cardinality(OccupiedIn(u)) = Cardinality(OccupiedIn(st)) - 1
    BY <1>5, <2>1, OccupiedFacts, FS_RemoveElement
  <2>3. Cardinality(OccupiedIn(u)) >= 0
    BY OccupiedFacts, ConstantsAssumption
  <2>4. st.count \in 1..255
    BY <1>6, <2>2, <2>3 DEF Counted, Shaped
  <2>5. u.count = st.count - 1
    BY <1>1, <2>4
  <2> QED
    BY <1>6, <2>2, <2>5 DEF Counted
<1> QED
  BY <1>1, <1>2, <1>4, <1>5, <1>6

\* Losing an item keeps everything in its place.
LEMMA ClearedSound ==
  ASSUME NEW m \in Nat, NEW st, NEW i \in Slot, Sound(st, m), st.slots[i].item # None
  PROVE  Sound(Cleared(st, i), m)
<1> DEFINE u == Cleared(st, i)
<1>1. /\ Shaped(u) /\ u.bag = st.bag /\ OccupiedIn(u) = OccupiedIn(st) \ {i}
      /\ \A j \in Slot \ {i} : u.slots[j] = st.slots[j]
      /\ Counted(st) => Counted(u)
  BY ClearedFacts DEF Sound
<1>2. \A j \in OccupiedIn(u) : j \in OccupiedIn(st) /\ u.slots[j] = st.slots[j]
  BY <1>1 DEF OccupiedIn
<1> HIDE DEF u
<1>3. Placement(u, m)
  BY <1>1, <1>2 DEF Sound, Placement
<1>4. Rares(u)
  BY <1>1 DEF Sound, Rares
<1> QED
  BY <1>1, <1>3, <1>4 DEF Sound, u

\* An award moves the drop from its slot to one inventory, if it may hold it.
LEMMA GivenSound ==
  ASSUME NEW m \in Nat, NEW st, NEW i \in Slot, NEW c, Sound(st, m), st.slots[i].item # None
  PROVE  Sound(Given(st, i, c), m) /\ OccupiedIn(Given(st, i, c)) = OccupiedIn(st) \ {i}
<1> DEFINE v == Cleared(st, i)
           x == [n |-> st.slots[i].n, item |-> st.slots[i].item]
           u == [slots |-> v.slots, count |-> v.count,
                 bag |-> [st.bag EXCEPT ![c] = @ \cup {x}]]
<1>1. Sound(v, m)
  BY ClearedSound
<1>2. /\ v.bag = st.bag /\ OccupiedIn(v) = OccupiedIn(st) \ {i}
      /\ \A j \in Slot \ {i} : v.slots[j] = st.slots[j]
  BY ClearedFacts DEF Sound
<1>3. CASE ~Accepts(st.bag, c, st.slots[i].item) \/ c \notin Char
  <2>1. c \notin Char => u = v
    BY <1>1, <1>2 DEF Sound, Shaped
  <2> QED
    BY <1>1, <1>2, <1>3, <2>1 DEF Given
<1>4. CASE Accepts(st.bag, c, st.slots[i].item) /\ c \in Char
  <2>1. x \in Drop /\ x.n \in 1..m /\ x.item \in Item
    BY DEF Sound, Shaped, IsEntry, Placement, OccupiedIn, Drop
  <2>2. /\ u.slots = v.slots /\ u.count = v.count
        /\ u = [slots |-> u.slots, count |-> u.count, bag |-> u.bag]
        /\ u.bag = [st.bag EXCEPT ![c] = @ \cup {x}]
    OBVIOUS
  <2>3. /\ u.bag \in [Char -> SUBSET Drop]
        /\ u.bag[c] = st.bag[c] \cup {x}
        /\ \A b \in Char \ {c} : u.bag[b] = st.bag[b]
    BY <2>1, <2>2, <1>4 DEF Sound, Shaped
  <2>4. OccupiedIn(u) = OccupiedIn(v) /\ (Counted(v) => Counted(u))
    BY <2>2 DEF OccupiedIn, Counted
  <2> HIDE DEF u
  <2>5. Shaped(u)
    BY <1>1, <2>2, <2>3 DEF Sound, Shaped
  <2>6. Rares(u)
    <3>1. x.item \in Rare => \A d \in st.bag[c] : d.item # x.item
      BY <1>4 DEF Accepts, Holds
    <3>2. ASSUME NEW d \in u.bag[c], NEW e \in u.bag[c], d.item = e.item, d.item \in Rare
          PROVE  d = e
      <4>1. CASE d \in st.bag[c] /\ e \in st.bag[c]
        BY <4>1, <3>2, <1>4 DEF Sound, Rares
      <4>2. CASE d = x \/ e = x
        BY <4>2, <3>1, <3>2, <2>3
      <4> QED
        BY <4>1, <4>2, <3>2, <2>3
    <3>3. ASSUME NEW b \in Char \ {c}, NEW d \in u.bag[b], NEW e \in u.bag[b],
                 d.item = e.item, d.item \in Rare
          PROVE  d = e
      BY <3>3, <2>3 DEF Sound, Rares
    <3> QED
      BY <3>2, <3>3 DEF Rares
  <2>7. Placement(u, m)
    <3>1. \A j \in OccupiedIn(u) : j \in OccupiedIn(st) /\ j # i /\ u.slots[j] = st.slots[j]
      BY <1>2, <2>2, <2>4 DEF OccupiedIn
    <3>2. i \in OccupiedIn(st)
      BY DEF OccupiedIn
    <3>3. \A j \in OccupiedIn(u) : u.slots[j].n # x.n
      BY <3>1, <3>2 DEF Sound, Placement
    <3>4. \A b \in Char : \A d \in st.bag[b] : d.n # x.n
      BY <3>2, <2>1 DEF Sound, Placement
    <3>5. \A b \in Char : \A d \in u.bag[b] : d \in st.bag[b] \/ (b = c /\ d = x)
      BY <2>3
    <3>6. \A b \in Char : \A d \in u.bag[b] : d.n <= m
      BY <3>5, <2>1 DEF Sound, Placement
    <3>7. ASSUME NEW b \in Char, NEW d \in u.bag[b], d.n # 0
          PROVE  /\ \A j \in OccupiedIn(u) : u.slots[j].n # d.n
                 /\ \A a \in Char \ {b} : \A e \in u.bag[a] : e.n # d.n
      <4>1. \A j \in OccupiedIn(u) : u.slots[j].n # d.n
        BY <3>7, <3>1, <3>3, <3>5 DEF Sound, Placement
      <4>2. ASSUME NEW a \in Char \ {b}, NEW e \in u.bag[a] PROVE e.n # d.n
        <5>1. CASE d \in st.bag[b] /\ e \in st.bag[a]
          BY <5>1, <3>7 DEF Sound, Placement
        <5>2. CASE d = x /\ e \in st.bag[a]
          BY <5>2, <3>4
        <5>3. CASE e = x /\ d \in st.bag[b]
          BY <5>3, <3>4
        <5> QED
          BY <5>1, <5>2, <5>3, <3>5
      <4> QED
        BY <4>1, <4>2
    <3>8. \A j, k \in OccupiedIn(u) : u.slots[j].n = u.slots[k].n => j = k
      BY <3>1 DEF Sound, Placement
    <3>9. \A j \in OccupiedIn(u) : u.slots[j].n \in 1..m
      BY <3>1 DEF Sound, Placement
    <3> QED
      BY <3>6, <3>7, <3>8, <3>9 DEF Placement
  <2>8. Sound(u, m)
    BY <1>1, <2>4, <2>5, <2>6, <2>7 DEF Sound
  <2>9. Given(st, i, c) = u
    BY <1>4 DEF Given, u
  <2> QED
    BY <1>2, <2>4, <2>8, <2>9
<1> QED
  BY <1>3, <1>4

\* Checking a slot keeps everything in its place, and empties the slot if it is due.
LEMMA CheckSound ==
  ASSUME NEW m \in Nat, NEW st, NEW i \in Slot, Sound(st, m), NEW u \in Check(st, i)
  PROVE  /\ Sound(u, m)
         /\ OccupiedIn(u) = IF Due(st, i) THEN OccupiedIn(st) \ {i} ELSE OccupiedIn(st)
<1>1. CASE ~Due(st, i)
  BY <1>1 DEF Check
<1>2. CASE Due(st, i)
  <2>1. st.slots[i].item # None
    BY <1>2 DEF Due
  <2>2. u = Cleared(st, i) \/ \E c : u = Given(st, i, c)
    BY <1>2 DEF Check, Awards
  <2>3. CASE u = Cleared(st, i)
    BY <1>2, <2>1, <2>3, ClearedSound, ClearedFacts DEF Sound
  <2>4. CASE \E c : u = Given(st, i, c)
    BY <1>2, <2>1, <2>4, GivenSound
  <2> QED
    BY <2>2, <2>3, <2>4
<1> QED
  BY <1>1, <1>2

\* What the age of an item and the lots are makes no difference.
LEMMA SameItems ==
  ASSUME NEW m \in Nat, NEW st, NEW u, Sound(st, m),
         u = [slots |-> u.slots, count |-> st.count, bag |-> st.bag],
         u.slots = [i \in Slot |-> u.slots[i]],
         \A i \in Slot :
           /\ u.slots[i] = [item |-> u.slots[i].item, n |-> u.slots[i].n,
                            old |-> u.slots[i].old, lots |-> u.slots[i].lots]
           /\ u.slots[i].item = st.slots[i].item /\ u.slots[i].n = st.slots[i].n
  PROVE  Sound(u, m) /\ OccupiedIn(u) = OccupiedIn(st)
<1>1. u.count = st.count /\ u.bag = st.bag
  OBVIOUS
<1>2. OccupiedIn(u) = OccupiedIn(st)
  BY DEF OccupiedIn
<1>3. \A i \in Slot : IsEntry(u.slots[i])
  BY DEF Sound, Shaped, IsEntry
<1>4. Shaped(u)
  BY <1>1, <1>3 DEF Sound, Shaped
<1>5. \A i \in OccupiedIn(st) : u.slots[i].n = st.slots[i].n
  BY DEF OccupiedIn
<1>6. Placement(u, m)
  <2>1. Placement(st, m)
    BY DEF Sound
  <2>2. \A i \in OccupiedIn(u) : u.slots[i].n \in 1..m
    BY <1>2, <1>5, <2>1 DEF Placement
  <2>3. \A i, j \in OccupiedIn(u) : u.slots[i].n = u.slots[j].n => i = j
    BY <1>2, <1>5, <2>1 DEF Placement
  <2>4. \A c \in Char : \A d \in u.bag[c] : d.n # 0 =>
          \A i \in OccupiedIn(u) : u.slots[i].n # d.n
    BY <1>1, <1>2, <1>5, <2>1 DEF Placement
  <2> QED
    BY <1>1, <2>1, <2>2, <2>3, <2>4 DEF Placement
<1> QED
  BY <1>1, <1>2, <1>4, <1>6 DEF Sound, Rares, Counted

\* The age of one item, or the lots of one slot, change.
LEMMA AgedSound ==
  ASSUME NEW m \in Nat, NEW st, NEW i \in Slot, NEW x, Sound(st, m)
  PROVE  LET u == [st EXCEPT !.slots[i].old = x] IN
         Sound(u, m) /\ OccupiedIn(u) = OccupiedIn(st) /\ u.slots[i].old = x
<1> DEFINE u == [st EXCEPT !.slots[i].old = x]
<1>1. /\ u = [slots |-> u.slots, count |-> st.count, bag |-> st.bag]
      /\ u.slots = [st.slots EXCEPT ![i].old = x]
  BY DEF Sound, Shaped
<1> HIDE DEF u
<1>2. /\ u.slots = [j \in Slot |-> u.slots[j]]
      /\ u.slots[i] = [st.slots[i] EXCEPT !.old = x]
      /\ \A j \in Slot \ {i} : u.slots[j] = st.slots[j]
  BY <1>1 DEF Sound, Shaped
<1>3. /\ u.slots[i] = [item |-> st.slots[i].item, n |-> st.slots[i].n,
                       old |-> x, lots |-> st.slots[i].lots]
      /\ \A j \in Slot : IsEntry(st.slots[j])
  BY <1>2 DEF Sound, Shaped, IsEntry
<1>4. Sound(u, m) /\ OccupiedIn(u) = OccupiedIn(st)
  BY <1>1, <1>2, <1>3, SameItems DEF IsEntry
<1> QED
  BY <1>3, <1>4 DEF u

\* The lots of one slot change.
LEMMA LotsSound ==
  ASSUME NEW m \in Nat, NEW st, NEW i \in Slot, NEW x, Sound(st, m)
  PROVE  LET u == [st EXCEPT !.slots[i].lots = x] IN
         Sound(u, m) /\ OccupiedIn(u) = OccupiedIn(st)
<1> DEFINE u == [st EXCEPT !.slots[i].lots = x]
<1>1. /\ u = [slots |-> u.slots, count |-> st.count, bag |-> st.bag]
      /\ u.slots = [st.slots EXCEPT ![i].lots = x]
  BY DEF Sound, Shaped
<1> HIDE DEF u
<1>2. /\ u.slots = [j \in Slot |-> u.slots[j]]
      /\ u.slots[i] = [st.slots[i] EXCEPT !.lots = x]
      /\ \A j \in Slot \ {i} : u.slots[j] = st.slots[j]
  BY <1>1 DEF Sound, Shaped
<1>3. /\ u.slots[i] = [item |-> st.slots[i].item, n |-> st.slots[i].n,
                       old |-> st.slots[i].old, lots |-> x]
      /\ \A j \in Slot : IsEntry(st.slots[j])
  BY <1>2 DEF Sound, Shaped, IsEntry
<1>4. Sound(u, m) /\ OccupiedIn(u) = OccupiedIn(st)
  BY <1>1, <1>2, <1>3, SameItems DEF IsEntry
<1> QED
  BY <1>4 DEF u

\* Unless the process is young, the slot a full pool gives up is empty afterwards.
LEMMA EvictedSound ==
  ASSUME NEW m \in Nat, NEW st, NEW i \in Slot, Sound(st, m), ~YoungServer => ~young,
         st.slots[i].item # None, NEW u \in Evicted(st, i)
  PROVE  Sound(u, m) /\ (~YoungServer => i \notin OccupiedIn(u))
<1> DEFINE v == [st EXCEPT !.slots[i].old = ~young]
<1>1. Sound(v, m) /\ OccupiedIn(v) = OccupiedIn(st) /\ v.slots[i].old = ~young
  BY AgedSound
<1> HIDE DEF v
<1>2. u \in Check(v, i)
  BY DEF Evicted, v
<1>3. Sound(u, m)
  BY <1>1, <1>2, CheckSound
<1>4. ASSUME ~YoungServer PROVE i \notin OccupiedIn(u)
  <2>1. v.slots[i].item # None
    BY <1>1 DEF OccupiedIn
  <2>2. Due(v, i)
    BY <1>1, <1>4, <2>1 DEF Due
  <2> QED
    BY <1>1, <1>2, <2>2, CheckSound
<1> QED
  BY <1>3, <1>4

\* A new drop has a number that nothing carries, and an empty slot is one more.
LEMMA PlacedSound ==
  ASSUME NEW st, NEW i \in Slot, NEW item \in Item, drops \in Nat, Sound(st, drops),
         ~YoungServer => i \notin OccupiedIn(st)
  PROVE  Sound(Placed(st, i, item), drops + 1)
<1> DEFINE u == Placed(st, i, item)
<1>1. /\ u = [slots |-> u.slots, count |-> (st.count + 1) % 256, bag |-> st.bag]
      /\ u.slots = [st.slots EXCEPT ![i] = [item |-> item, n |-> drops + 1, old |-> FALSE,
                                            lots |-> st.slots[i].lots]]
  BY DEF Placed, Sound, Shaped
<1> HIDE DEF u
<1>2. /\ u.slots = [j \in Slot |-> u.slots[j]]
      /\ u.slots[i] = [item |-> item, n |-> drops + 1, old |-> FALSE,
                       lots |-> st.slots[i].lots]
      /\ \A j \in Slot \ {i} : u.slots[j] = st.slots[j]
  BY <1>1 DEF Sound, Shaped
<1>3. item # None /\ IsEntry(u.slots[i])
  BY <1>2, ConstantsAssumption DEF IsEntry
<1>4. /\ u.bag = st.bag /\ u.count = (st.count + 1) % 256
      /\ OccupiedIn(u) = OccupiedIn(st) \cup {i}
  BY <1>1, <1>2, <1>3 DEF OccupiedIn
<1>5. Shaped(u)
  <2>1. \A j \in Slot : IsEntry(u.slots[j])
    BY <1>2, <1>3 DEF Sound, Shaped
  <2>2. u.count \in 0..255
    BY <1>4 DEF Sound, Shaped
  <2> QED
    BY <1>1, <1>2, <1>4, <2>1, <2>2 DEF Sound, Shaped
<1>6. Rares(u)
  BY <1>4 DEF Sound, Rares
<1>7. ASSUME ~YoungServer PROVE Counted(u)
  <2>1. Cardinality(OccupiedIn(u)) = Cardinality(OccupiedIn(st)) + 1
    BY <1>4, <1>7, OccupiedFacts, FS_AddElement
  <2>2. Cardinality(OccupiedIn(u)) <= 255
    BY OccupiedFacts, ConstantsAssumption
  <2>3. st.count = Cardinality(OccupiedIn(st)) /\ st.count \in 0..254
    BY <1>7, <2>1, <2>2 DEF Sound, Counted, Shaped
  <2> QED
    BY <1>4, <2>1, <2>3 DEF Counted
<1>8. Placement(u, drops + 1)
  <2>1. \A j \in OccupiedIn(u) : j = i \/ (j \in OccupiedIn(st) /\ j # i /\ u.slots[j] = st.slots[j])
    BY <1>2, <1>4 DEF OccupiedIn
  <2>2. \A j \in OccupiedIn(u) : u.slots[j].n = drops + 1 <=> j = i
    BY <1>2, <2>1 DEF Sound, Placement
  <2>3. \A j \in OccupiedIn(u) : u.slots[j].n \in 1..(drops + 1)
    BY <1>2, <2>1 DEF Sound, Placement
  <2>4. \A j, k \in OccupiedIn(u) : u.slots[j].n = u.slots[k].n => j = k
    BY <2>1, <2>2 DEF Sound, Placement
  <2>5. \A c \in Char : \A d \in u.bag[c] : d \in Drop /\ d.n <= drops
    BY <1>4 DEF Sound, Placement, Shaped
  <2>6. \A c \in Char : \A d \in u.bag[c] : d.n <= drops + 1 /\ d.n # drops + 1
    BY <2>5 DEF Drop
  <2>7. ASSUME NEW c \in Char, NEW d \in u.bag[c], d.n # 0
        PROVE  /\ \A j \in OccupiedIn(u) : u.slots[j].n # d.n
               /\ \A b \in Char \ {c} : \A e \in u.bag[b] : e.n # d.n
    BY <1>4, <2>1, <2>2, <2>6, <2>7 DEF Sound, Placement
  <2> QED
    BY <2>3, <2>4, <2>6, <2>7 DEF Placement
<1> QED
  BY <1>5, <1>6, <1>7, <1>8 DEF Sound, u

-----------------------------------------------------------------------------
(* The slot an item is put into *)

\* A set of natural numbers has a least one.
LEMMA Least ==
  ASSUME NEW T, T \subseteq Nat, T # {}
  PROVE  \E x \in T : \A y \in T : x <= y
<1>1. PICK x \in T : \A y \in T : ~(<<y, x>> \in OpToRel(<, Nat))
  BY NatLessThanWellFounded, WFMin
<1>2. \A y \in T : ~(y < x)
  BY <1>1 DEF OpToRel
<1> QED
  BY <1>2

\* A full pool gives up one of its slots.
LEMMA VictimIsSlot ==
  ASSUME Sound(Now, drops)
  PROVE  Victim \in Slot
<1>1. ASSUME NEW S, S \subseteq Slot, S # {} PROVE Oldest(S) \in Slot
  <2> DEFINE T == {slots[i].n : i \in S}
  <2>1. \A i \in Slot : slots[i].n \in Nat
    BY DEF Sound, Shaped, IsEntry, Now
  <2>2. T \subseteq Nat /\ T # {}
    BY <1>1, <2>1
  <2>3. PICK x \in T : \A y \in T : x <= y
    BY <2>2, Least
  <2>4. \E i \in S : \A j \in S : slots[i].n <= slots[j].n
    BY <2>3
  <2> QED
    BY <1>1, <2>4 DEF Oldest
<1>2. 1 \in Slot
  BY ConstantsAssumption DEF Slot
<1> QED
  BY <1>1, <1>2 DEF Victim

\* A pool that is not full has a first empty slot.
LEMMA FirstFree ==
  ASSUME Occupied # Slot
  PROVE  (CHOOSE k \in Slot \ Occupied : \A j \in Slot \ Occupied : k <= j) \in Slot \ Occupied
<1>1. Slot \ Occupied # {} /\ Slot \ Occupied \subseteq Nat
  BY DEF Occupied, Slot
<1>2. \E k \in Slot \ Occupied : \A j \in Slot \ Occupied : k <= j
  BY <1>1, Least
<1> QED
  BY <1>2

-----------------------------------------------------------------------------
(* The invariant and the actions *)

Inv ==
  /\ Sound(Now, drops) /\ drops \in Nat
  /\ scan \in [by : {"none", "check", "flush"}, at : 0..Size]
  /\ scan.by # "none" => scan.at \in Slot
  /\ ~YoungServer => ~young

\* The record of the current state has the occupied slots of the state.
LEMMA NowOccupied == OccupiedIn(Now) = Occupied
BY DEF OccupiedIn, Occupied, Now

\* A state that is a record of slots, counter and inventories has this record.
LEMMA Became ==
  ASSUME NEW st, Shaped(st), Become(st)
  PROVE  Now' = st
BY DEF Shaped, Become, Now

\* Numbers up to m are numbers up to m + 1.
LEMMA MoreDrops ==
  ASSUME NEW m \in Nat, NEW st, Sound(st, m)
  PROVE  Sound(st, m + 1)
<1>1. Placement(st, m + 1)
  <2>1. \A i \in OccupiedIn(st) : st.slots[i].n \in 1..(m + 1)
    BY DEF Sound, Placement
  <2>2. \A c \in Char : \A d \in st.bag[c] : d.n <= m /\ d.n \in Nat
    BY DEF Sound, Placement, Shaped, Drop
  <2>3. \A c \in Char : \A d \in st.bag[c] : d.n <= m + 1
    BY <2>2
  <2> QED
    BY <2>1, <2>3 DEF Sound, Placement
<1> QED
  BY <1>1 DEF Sound

\* A dropped item that somebody needs takes a free slot, or one that is evicted first.
LEMMA AddItemPool ==
  ASSUME Inv, NEW item \in Item, AddItem(item), ~NobodyNeeds(item)
  PROVE  \E i \in Slot : \E st :
           /\ st = Now \/ (st \in Evicted(Now, i) /\ Now.slots[i].item # None)
           /\ Sound(st, drops) /\ (~YoungServer => i \notin OccupiedIn(st))
           /\ LET placed == Placed(st, i, item) IN
              Become(placed) \/ \E u \in Check(placed, i) : Become(u)
<1> DEFINE full == Occupied = Slot
           i == IF full THEN Victim
                ELSE CHOOSE k \in Slot \ Occupied : \A j \in Slot \ Occupied : k <= j
<1>1. Sound(Now, drops) /\ drops \in Nat
  BY DEF Inv
<1>2. PICK st \in IF full THEN Evicted(Now, i) ELSE {Now} :
        LET placed == Placed(st, i, item) IN
        IF Cardinality(members) = 1 THEN \E u \in Check(placed, i) : Become(u)
        ELSE Become(placed)
  BY DEF AddItem
<1>3. i \in Slot /\ (~full => i \notin Occupied)
  BY <1>1, VictimIsSlot, FirstFree
<1> HIDE DEF i
<1>4. CASE full
  <2>1. Now.slots[i].item # None
    BY <1>3, <1>4, NowOccupied DEF OccupiedIn
  <2>2. Sound(st, drops) /\ (~YoungServer => i \notin OccupiedIn(st))
    BY <1>1, <1>2, <1>3, <1>4, <2>1, EvictedSound DEF Inv
  <2> QED
    BY <1>2, <1>3, <1>4, <2>1, <2>2
<1>5. CASE ~full
  <2>1. st = Now /\ i \notin OccupiedIn(Now)
    BY <1>2, <1>3, <1>5, NowOccupied
  <2> QED
    BY <1>1, <1>2, <1>3, <2>1
<1> QED
  BY <1>4, <1>5

\* An item is dropped: nobody needs it, or it is placed.
LEMMA AddItemKeeps ==
  ASSUME Inv, NEW item \in Item, AddItem(item)
  PROVE  Inv'
<1>1. drops' = drops + 1 /\ drops \in Nat /\ Sound(Now, drops) /\ UNCHANGED <<young, scan>>
  BY DEF AddItem, Inv
<1>2. CASE NobodyNeeds(item)
  <2>1. Now' = Now
    BY <1>1, <1>2, Became DEF AddItem, Sound
  <2> QED
    BY <1>1, <2>1, MoreDrops DEF Inv
<1>3. CASE ~NobodyNeeds(item)
  <2>1. PICK i \in Slot : \E st :
          /\ Sound(st, drops) /\ (~YoungServer => i \notin OccupiedIn(st))
          /\ LET placed == Placed(st, i, item) IN
             Become(placed) \/ \E u \in Check(placed, i) : Become(u)
    BY <1>3, AddItemPool
  <2>2. PICK st :
          /\ Sound(st, drops) /\ (~YoungServer => i \notin OccupiedIn(st))
          /\ LET placed == Placed(st, i, item) IN
             Become(placed) \/ \E u \in Check(placed, i) : Become(u)
    BY <2>1
  <2> DEFINE placed == Placed(st, i, item)
  <2>3. Sound(placed, drops + 1)
    BY <1>1, <2>2, PlacedSound
  <2>4. CASE Become(placed)
    <3>1. Now' = placed
      BY <2>3, <2>4, Became DEF Sound
    <3> QED
      BY <1>1, <2>3, <3>1 DEF Inv
  <2>5. ASSUME NEW u \in Check(placed, i), Become(u) PROVE Inv'
    <3>1. drops + 1 \in Nat
      BY <1>1
    <3> HIDE DEF placed
    <3>2. Sound(u, drops + 1)
      BY <2>3, <2>5, <3>1, CheckSound
    <3>3. Now' = u
      BY <2>5, <3>2, Became DEF Sound
    <3> QED
      BY <1>1, <3>2, <3>3 DEF Inv
  <2> QED
    BY <2>2, <2>4, <2>5
<1> QED
  BY <1>2, <1>3

\* After a change of lots the slot may be checked.
LEMMA SettleKeeps ==
  ASSUME Inv, NEW st, NEW i \in Slot, Sound(st, drops), Settle(st, i),
         UNCHANGED <<drops, young, scan>>
  PROVE  Inv'
<1>1. CASE Become(st)
  BY <1>1, Became DEF Inv, Sound
<1>2. ASSUME NEW u \in Check(st, i), Become(u) PROVE Inv'
  <2>1. Sound(u, drops)
    BY <1>2, CheckSound DEF Inv
  <2> QED
    BY <1>2, <2>1, Became DEF Inv, Sound
<1> QED
  BY <1>1, <1>2 DEF Settle

\* A member lots or passes.
LEMMA LotsKeep ==
  ASSUME Inv, NEW c \in Char, NEW i \in Slot,
         PassItem(c, i) \/ \E lot \in 1..MaxLot : LotItem(c, i, lot)
  PROVE  Inv'
<1>1. ASSUME NEW x PROVE Sound([Now EXCEPT !.slots[i].lots = x], drops)
  BY LotsSound DEF Inv
<1>2. CASE PassItem(c, i)
  <2>1. \E x : Settle([Now EXCEPT !.slots[i].lots = x], i)
    BY <1>2 DEF PassItem
  <2> QED
    BY <1>1, <1>2, <2>1, SettleKeeps DEF PassItem
<1>3. ASSUME NEW lot \in 1..MaxLot, LotItem(c, i, lot) PROVE Inv'
  <2>1. \E x : Settle([Now EXCEPT !.slots[i].lots = x], i)
    BY <1>3 DEF LotItem
  <2> QED
    BY <1>1, <1>3, <2>1, SettleKeeps DEF LotItem
<1> QED
  BY <1>2, <1>3

\* A walk over the slots comes to the next one.
LEMMA CheckSlotKeeps ==
  ASSUME Inv, CheckSlot
  PROVE  Inv'
<1>1. PICK u \in Check(Now, scan.at) : Become(u)
  BY DEF CheckSlot
<1>2. scan.at \in Slot
  BY DEF CheckSlot, Inv
<1>3. Sound(u, drops)
  BY <1>1, <1>2, CheckSound DEF Inv
<1>4. Now' = u
  BY <1>1, <1>3, Became DEF Sound
<1>5. /\ scan' \in [by : {"none", "check", "flush"}, at : 0..Size]
      /\ scan'.by # "none" => scan'.at \in Slot
  BY <1>2, ConstantsAssumption DEF CheckSlot, Inv, Slot
<1> QED
  BY <1>3, <1>4, <1>5 DEF Inv, CheckSlot

\* A walk over the slots begins.
LEMMA WalksKeep ==
  ASSUME Inv, CheckItems \/ Flush
  PROVE  Inv'
<1>1. Now' = Now /\ UNCHANGED <<drops, young>>
  BY DEF CheckItems, Flush, Now
<1>2. /\ scan' \in [by : {"none", "check", "flush"}, at : 0..Size]
      /\ scan'.at \in Slot
  BY ConstantsAssumption DEF CheckItems, Flush, Slot
<1> QED
  BY <1>1, <1>2 DEF Inv

\* A pool without items is sound if the inventories are.
LEMMA EmptyPoolSound ==
  ASSUME NEW m \in Nat, NEW st,
         st = [slots |-> [i \in Slot |-> Empty], count |-> 0, bag |-> st.bag],
         st.bag \in [Char -> SUBSET Drop], Rares(st),
         \A c \in Char : \A d \in st.bag[c] : d.n <= m,
         \A c \in Char : \A d \in st.bag[c] : d.n # 0 =>
            \A b \in Char \ {c} : \A e \in st.bag[b] : e.n # d.n
  PROVE  Sound(st, m)
<1>1. /\ st.slots = [i \in Slot |-> Empty] /\ st.count = 0
      /\ \A i \in Slot : st.slots[i] = Empty
  OBVIOUS
<1>2. OccupiedIn(st) = {}
  BY <1>1, EmptyEntry DEF OccupiedIn
<1>3. Shaped(st)
  BY <1>1, EmptyEntry DEF Shaped
<1>4. Counted(st)
  BY <1>1, <1>2, FS_EmptySet DEF Counted
<1>5. Placement(st, m)
  BY <1>2 DEF Placement
<1> QED
  BY <1>3, <1>4, <1>5 DEF Sound

\* A member leaves with its lots, or the last one with the pool.
LEMMA DelMemberKeeps ==
  ASSUME Inv, NEW c \in Char, DelMember(c)
  PROVE  Inv'
<1>1. UNCHANGED <<bag, drops, young, scan>>
  BY DEF DelMember
<1>2. /\ drops \in Nat /\ Sound(Now, drops)
      /\ Now.slots = slots /\ Now.count = count /\ Now.bag = bag
  BY DEF Inv, Now
<1>3. Now' = [slots |-> slots', count |-> count', bag |-> bag]
  BY <1>1 DEF Now
<1>4. CASE members = {c}
  <2> DEFINE u == [slots |-> [i \in Slot |-> Empty], count |-> 0, bag |-> bag]
  <2>1. Now' = u
    BY <1>3, <1>4 DEF DelMember, Reset
  <2>2. u = [slots |-> [i \in Slot |-> Empty], count |-> 0, bag |-> u.bag] /\ u.bag = bag
    OBVIOUS
  <2> HIDE DEF u
  <2>3. u.bag \in [Char -> SUBSET Drop] /\ Rares(u)
    BY <1>2, <2>2 DEF Sound, Shaped, Rares
  <2>4. /\ \A b \in Char : \A d \in u.bag[b] : d.n <= drops
        /\ \A b \in Char : \A d \in u.bag[b] : d.n # 0 =>
             \A a \in Char \ {b} : \A e \in u.bag[a] : e.n # d.n
    BY <1>2, <2>2 DEF Sound, Placement
  <2>5. Sound(u, drops)
    BY <1>2, <2>2, <2>3, <2>4, EmptyPoolSound
  <2> QED
    BY <1>1, <2>1, <2>5 DEF Inv
<1>5. CASE members # {c}
  <2> DEFINE u == [slots |-> slots', count |-> count, bag |-> bag]
  <2>1. /\ slots' = [i \in Slot |-> [slots[i] EXCEPT !.lots = LotsWithout(@, c)]]
        /\ count' = count
    BY <1>5 DEF DelMember
  <2>2. Now' = u
    BY <1>3, <2>1
  <2>3. \A i \in Slot :
          /\ u.slots[i].item = Now.slots[i].item /\ u.slots[i].n = Now.slots[i].n
          /\ u.slots[i] = [item |-> u.slots[i].item, n |-> u.slots[i].n,
                           old |-> u.slots[i].old, lots |-> u.slots[i].lots]
    <3> SUFFICES ASSUME NEW i \in Slot
                 PROVE  /\ u.slots[i].item = Now.slots[i].item
                        /\ u.slots[i].n = Now.slots[i].n
                        /\ u.slots[i] = [item |-> u.slots[i].item, n |-> u.slots[i].n,
                                         old |-> u.slots[i].old, lots |-> u.slots[i].lots]
      OBVIOUS
    <3> DEFINE e == slots[i]
               x == LotsWithout(e.lots, c)
    <3>1. u.slots[i] = [e EXCEPT !.lots = x]
      BY <2>1
    <3>2. e = [item |-> e.item, n |-> e.n, old |-> e.old, lots |-> e.lots]
      BY <1>2 DEF Sound, Shaped, IsEntry
    <3> HIDE DEF x, u
    <3>3. u.slots[i] = [item |-> e.item, n |-> e.n, old |-> e.old, lots |-> x]
      BY <3>1, <3>2
    <3> QED
      BY <1>2, <3>3
  <2>4. /\ u = [slots |-> u.slots, count |-> Now.count, bag |-> Now.bag]
        /\ u.slots = [i \in Slot |-> u.slots[i]]
    BY <1>2, <2>1
  <2> HIDE DEF u
  <2>5. Sound(u, drops)
    BY <1>2, <2>3, <2>4, SameItems
  <2> QED
    BY <1>1, <2>2, <2>5 DEF Inv
<1> QED
  BY <1>4, <1>5

\* A character that gives something up breaks nothing.
LEMMA DiscardKeeps ==
  ASSUME Inv, NEW c \in Char, NEW d, Discard(c, d)
  PROVE  Inv'
<1>1. /\ UNCHANGED <<slots, count, drops, young, scan>>
      /\ bag' = [bag EXCEPT ![c] = @ \ {d}]
  BY DEF Discard
<1>2. /\ drops \in Nat /\ Sound(Now, drops)
      /\ Now.slots = slots /\ Now.count = count /\ Now.bag = bag
  BY DEF Inv, Now
<1> DEFINE u == [slots |-> slots, count |-> count, bag |-> bag']
<1>3. Now' = u
  BY <1>1 DEF Now
<1>4. /\ u.slots = slots /\ u.count = count /\ u.bag = bag'
      /\ u = [slots |-> u.slots, count |-> u.count, bag |-> u.bag]
  OBVIOUS
<1> HIDE DEF u
<1>5. u.bag \in [Char -> SUBSET Drop] /\ \A b \in Char : u.bag[b] \subseteq bag[b]
  BY <1>1, <1>2, <1>4 DEF Sound, Shaped
<1>6. Shaped(u)
  BY <1>2, <1>4, <1>5 DEF Sound, Shaped
<1>7. Rares(u)
  BY <1>2, <1>5 DEF Sound, Rares
<1>8. OccupiedIn(u) = OccupiedIn(Now) /\ (Counted(Now) => Counted(u))
  BY <1>2, <1>4 DEF OccupiedIn, Counted
<1>9. Placement(u, drops)
  <2>1. /\ \A i \in OccupiedIn(u) : u.slots[i].n \in 1..drops
        /\ \A i, j \in OccupiedIn(u) : u.slots[i].n = u.slots[j].n => i = j
    BY <1>2, <1>4, <1>8 DEF Sound, Placement
  <2>2. \A b \in Char : \A e \in u.bag[b] : e.n <= drops
    BY <1>2, <1>5 DEF Sound, Placement
  <2>3. ASSUME NEW b \in Char, NEW e \in u.bag[b], e.n # 0
        PROVE  /\ \A i \in OccupiedIn(u) : u.slots[i].n # e.n
               /\ \A a \in Char \ {b} : \A f \in u.bag[a] : f.n # e.n
    <3>1. e \in bag[b] /\ \A a \in Char : u.bag[a] \subseteq bag[a]
      BY <1>5
    <3> QED
      BY <1>2, <1>4, <1>8, <2>3, <3>1 DEF Sound, Placement
  <2> QED
    BY <2>1, <2>2, <2>3 DEF Placement
<1>10. Sound(u, drops)
  BY <1>2, <1>6, <1>7, <1>8, <1>9 DEF Sound
<1> QED
  BY <1>1, <1>3, <1>10 DEF Inv

\* How the record of a pool reads after one of its items got old.
LEMMA AgedShape ==
  ASSUME NEW st, Shaped(st), NEW i \in Slot, NEW x
  PROVE  [st EXCEPT !.slots[i].old = x] =
           [slots |-> [st.slots EXCEPT ![i].old = x], count |-> st.count, bag |-> st.bag]
<1> DEFINE u == [st EXCEPT !.slots[i].old = x]
<1>1. /\ u = [slots |-> u.slots, count |-> st.count, bag |-> st.bag]
      /\ u.slots = [st.slots EXCEPT ![i].old = x]
  BY DEF Shaped
<1> QED
  BY <1>1

\* Time passes.
LEMMA TimeKeeps ==
  ASSUME Inv, TimeStep
  PROVE  Inv'
<1>1. ASSUME NEW i \in Slot, Age(i) PROVE Inv'
  <2> DEFINE u == [Now EXCEPT !.slots[i].old = TRUE]
  <2>1. Now' = u
    <3>1. Now' = [slots |-> [slots EXCEPT ![i].old = TRUE], count |-> count, bag |-> bag]
      BY <1>1 DEF Age, Now
    <3>2. Shaped(Now) /\ Now.slots = slots /\ Now.count = count /\ Now.bag = bag
      BY DEF Inv, Sound, Now
    <3>3. u = [slots |-> [Now.slots EXCEPT ![i].old = TRUE],
               count |-> Now.count, bag |-> Now.bag]
      BY <3>2, AgedShape
    <3> HIDE DEF u
    <3> QED
      BY <3>1, <3>2, <3>3
  <2>2. Sound(u, drops)
    BY AgedSound DEF Inv
  <2> HIDE DEF u
  <2> QED
    BY <1>1, <2>1, <2>2 DEF Inv, Age
<1>2. CASE GrowUp \/ Elapse
  <2>1. Now' = Now /\ UNCHANGED <<drops, scan>> /\ (~young => ~young')
    BY <1>2 DEF GrowUp, Elapse, Now
  <2> QED
    BY <2>1 DEF Inv
<1> QED
  BY <1>1, <1>2 DEF TimeStep

\* A new pool is sound.
LEMMA InitEstablishes == Init => Inv
<1> SUFFICES ASSUME Init PROVE Inv
  OBVIOUS
<1>1. Now = [slots |-> [i \in Slot |-> Empty], count |-> 0, bag |-> Now.bag] /\ Now.bag = bag
  BY DEF Init, Now
<1>2. bag \in [Char -> SUBSET {[n |-> 0, item |-> r] : r \in Rare}]
  BY DEF Init
<1>3. \A c \in Char : \A d \in bag[c] : \E r \in Rare : d = [n |-> 0, item |-> r]
  BY <1>2
<1>4. \A c \in Char : \A d \in bag[c] : d.n = 0 /\ d \in Drop
  BY <1>3, ConstantsAssumption DEF Drop
<1>5. bag \in [Char -> SUBSET Drop]
  BY <1>2, <1>4
<1>6. Rares(Now)
  BY <1>1, <1>3 DEF Rares
<1>7. drops = 0
  BY DEF Init
<1>8. Sound(Now, drops)
  BY <1>1, <1>4, <1>5, <1>6, <1>7, EmptyPoolSound
<1>9. scan \in [by : {"none", "check", "flush"}, at : 0..Size] /\ scan.by = "none"
  BY ConstantsAssumption DEF Init
<1>10. ~YoungServer => ~young
  <2>1. young = FALSE \/ young = YoungServer
    BY DEF Init
  <2> QED
    BY <2>1
<1> QED
  BY <1>7, <1>8, <1>9, <1>10 DEF Inv

\* Every step of the pool keeps the invariant.
LEMMA NextKeeps == Inv /\ [Next]_vars => Inv'
<1> SUFFICES ASSUME Inv, [Next]_vars PROVE Inv'
  OBVIOUS
<1>1. ASSUME NEW item \in Item, AddItem(item) PROVE Inv'
  BY <1>1, AddItemKeeps
<1>2. ASSUME NEW c \in Char, MemberStep(c) PROVE Inv'
  <2>1. ASSUME NEW p \in BOOLEAN, NEW a \in BOOLEAN, AddMember(c, p, a) PROVE Inv'
    <3>1. Now' = Now /\ UNCHANGED <<drops, young, scan>>
      BY <2>1 DEF AddMember, Now
    <3> QED
      BY <3>1 DEF Inv
  <2>2. CASE DelMember(c)
    BY <2>2, DelMemberKeeps
  <2>3. CASE \E i \in Slot : PassItem(c, i) \/ \E lot \in 1..MaxLot : LotItem(c, i, lot)
    BY <2>3, LotsKeep
  <2>4. CASE \E d \in bag[c] : Discard(c, d)
    BY <2>4, DiscardKeeps
  <2> QED
    BY <1>2, <2>1, <2>2, <2>3, <2>4 DEF MemberStep
<1>3. CASE CheckItems \/ Flush
  BY <1>3, WalksKeep
<1>4. CASE CheckSlot
  BY <1>4, CheckSlotKeeps
<1>5. CASE TimeStep
  BY <1>5, TimeKeeps
<1>6. CASE UNCHANGED vars
  <2>1. Now' = Now /\ UNCHANGED <<drops, young, scan>>
    BY <1>6 DEF vars, Now
  <2> QED
    BY <2>1 DEF Inv
<1> QED
  BY <1>1, <1>2, <1>3, <1>4, <1>5, <1>6 DEF Next

-----------------------------------------------------------------------------
\* What the proofs carry implies the invariant of the runs.
LEMMA InvImplies == Inv => PoolInv
<1> SUFFICES ASSUME Inv PROVE PoolInv
  OBVIOUS
<1>1. /\ Sound(Now, drops) /\ OccupiedIn(Now) = Occupied
      /\ Now.slots = slots /\ Now.count = count /\ Now.bag = bag
  BY NowOccupied DEF Inv, Now
<1>2. RareOnce
  BY <1>1 DEF Sound, Rares, RareOnce
<1>3. NoCopies /\ DropsSoFar
  BY <1>1 DEF Sound, Placement, NoCopies, DropsSoFar
<1>4. ~YoungServer => CountMatches
  BY <1>1 DEF Sound, Counted, CountMatches
<1> QED
  BY <1>2, <1>3, <1>4 DEF PoolInv, Inv

\* Every reachable state of every pool satisfies the inductive invariant.
THEOREM Invariance == Spec => []PoolInv
<1>1. Spec => []Inv
  BY InitEstablishes, NextKeeps, PTL DEF Spec
<1> QED
  BY <1>1, InvImplies, PTL

\* Whatever is dropped, lotted, passed, evicted and awarded, by however many members,
\* nobody gets a second one of a rare item.
THEOREM RareItemsOnce == Spec => []RareOnce
<1>1. PoolInv => RareOnce
  BY DEF PoolInv
<1> QED
  BY <1>1, Invariance, PTL

\* No drop is awarded twice, or awarded and kept in the pool.
THEOREM DropsNeverCopied == Spec => []NoCopies
<1>1. PoolInv => NoCopies
  BY DEF PoolInv
<1> QED
  BY <1>1, Invariance, PTL

\* Once the process is five minutes old, the counter is the number of items.
THEOREM CountedRight == ~YoungServer => (Spec => []CountMatches)
<1> SUFFICES ASSUME ~YoungServer PROVE Spec => []CountMatches
  OBVIOUS
<1>1. PoolInv => CountMatches
  BY DEF PoolInv
<1> QED
  BY <1>1, Invariance, PTL
-----------------------------------------------------------------------------
(* The lots of a slot *)

\* What is left when a member leaves are the lots of the others, each of them once.
LEMMA LotsWithoutFacts ==
  ASSUME NEW lots \in Seq(Lot), NEW c
  PROVE  LET q == LotsWithout(lots, c) IN
         /\ q \in Seq(Lot)
         /\ \A n \in DOMAIN q : \E k \in DOMAIN lots : q[n] = lots[k] /\ lots[k].who # c
         /\ \A m, n \in DOMAIN q : m # n =>
              \E j, k \in DOMAIN lots : j # k /\ q[m] = lots[j] /\ q[n] = lots[k]
         /\ \A k \in DOMAIN lots : lots[k].who # c => \E n \in DOMAIN q : q[n] = lots[k]
<1> DEFINE kept == {k \in DOMAIN lots : lots[k].who # c}
           Upto(k) == {j \in kept : j <= k}
           Rank(k) == Cardinality(Upto(k))
           N == Cardinality(kept)
           Pick(n) == CHOOSE k \in kept : Rank(k) = n
           q == LotsWithout(lots, c)
<1>1. /\ kept \subseteq DOMAIN lots /\ kept \subseteq Nat
      /\ IsFiniteSet(kept) /\ N \in Nat
  <2>1. DOMAIN lots = 1..Len(lots) /\ Len(lots) \in Nat
    OBVIOUS
  <2>2. IsFiniteSet(1..Len(lots)) /\ kept \in SUBSET (1..Len(lots))
    BY <2>1, FS_Interval
  <2>3. IsFiniteSet(kept)
    BY <2>2, FS_Subset
  <2> QED
    BY <2>1, <2>3, FS_CardinalityType
<1>2. q = [n \in 1..N |-> lots[Pick(n)]]
  BY DEF LotsWithout
<1> HIDE DEF q
<1>3. ASSUME NEW k \in kept
      PROVE  IsFiniteSet(Upto(k)) /\ Rank(k) \in 1..N
  <2>1. Upto(k) \in SUBSET kept /\ Upto(k) # {}
    BY <1>1
  <2> HIDE DEF Upto, kept
  <2>2. /\ IsFiniteSet(Upto(k)) /\ Cardinality(Upto(k)) <= Cardinality(kept)
        /\ Cardinality(Upto(k)) \in Nat /\ Cardinality(Upto(k)) # 0
    BY <1>1, <2>1, FS_Subset, FS_CardinalityType, FS_EmptySet
  <2> QED
    BY <1>1, <2>2
<1>4. ASSUME NEW j \in kept, NEW k \in kept, j < k
      PROVE  Rank(j) < Rank(k)
  <2>1. k \notin Upto(j) /\ Upto(j) \cup {k} \in SUBSET Upto(k)
    BY <1>1, <1>4
  <2>2. IsFiniteSet(Upto(j)) /\ IsFiniteSet(Upto(k)) /\ Rank(j) \in Nat /\ Rank(k) \in Nat
    <3> HIDE DEF kept, Upto, Rank, N
    <3>1. Rank(j) \in 1..N /\ Rank(k) \in 1..N
      BY <1>3
    <3> QED
      BY <1>1, <1>3, <3>1
  <2> HIDE DEF Upto, kept
  <2>3. Cardinality(Upto(j) \cup {k}) = Cardinality(Upto(j)) + 1
    BY <2>1, <2>2, FS_AddElement
  <2>4. Cardinality(Upto(j) \cup {k}) <= Cardinality(Upto(k))
    BY <2>1, <2>2, FS_Subset
  <2> QED
    BY <2>2, <2>3, <2>4
<1>5. ASSUME NEW j \in kept, NEW k \in kept, Rank(j) = Rank(k)
      PROVE  j = k
  <2>1. j \in Nat /\ k \in Nat /\ Rank(j) \in Nat /\ Rank(k) \in Nat
    <3> HIDE DEF kept, Upto, Rank, N
    <3>1. Rank(j) \in 1..N /\ Rank(k) \in 1..N
      BY <1>3
    <3> QED
      BY <1>1, <3>1
  <2>2. ~(j < k) /\ ~(k < j)
    <3> HIDE DEF kept, Rank
    <3> QED
      BY <1>4, <1>5, <2>1
  <2> QED
    BY <2>1, <2>2
<1>6. \A n \in 1..N : \E k \in kept : Rank(k) = n
  <2> DEFINE f == [k \in kept |-> Rank(k)]
  <2>1. f \in [kept -> 1..N]
    BY <1>3
  <2>2. \A j, k \in kept : f[j] = f[k] => j = k
    BY <1>5
  <2> HIDE DEF f
  <2>3. f \in Injection(kept, 1..N)
    <3> HIDE DEF kept, N
    <3> QED
      BY <2>1, <2>2, Fun_IsInj
  <2>4. IsFiniteSet(1..N) /\ Cardinality(1..N) = N
    <3>1. 1 \in Int /\ N \in Int /\ (1 > N => N = 0)
      BY <1>1
    <3> HIDE DEF N
    <3>2. IsFiniteSet(1..N) /\ Cardinality(1..N) = IF 1 > N THEN 0 ELSE N - 1 + 1
      BY <3>1, FS_Interval
    <3> QED
      BY <3>1, <3>2
  <2>5. f \in Surjection(kept, 1..N)
    <3>1. Cardinality(kept) = Cardinality(1..N)
      BY <2>4
    <3> HIDE DEF kept, N
    <3> QED
      BY <2>3, <2>4, <3>1, FS_Injection
  <2>6. \A n \in 1..N : \E k \in kept : f[k] = n
    <3> HIDE DEF kept, N
    <3> QED
      BY <2>5, Fun_SurjectionProperties
  <2> QED
    BY <2>6 DEF f
<1> HIDE DEF Rank, N
<1>7. \A n \in 1..N : Pick(n) \in kept /\ Rank(Pick(n)) = n
  BY <1>6
<1>8. \A k \in kept : Rank(k) \in 1..N /\ Pick(Rank(k)) = k
  BY <1>3, <1>5
<1> HIDE DEF Pick
<1>9. q \in Seq(Lot)
  <2>1. \A n \in 1..N : lots[Pick(n)] \in Lot
    BY <1>1, <1>7
  <2> QED
    BY <1>1, <1>2, <2>1
<1>10. DOMAIN q = 1..N /\ \A n \in 1..N : q[n] = lots[Pick(n)]
  BY <1>2
<1>11. \A n \in DOMAIN q : \E k \in DOMAIN lots : q[n] = lots[k] /\ lots[k].who # c
  BY <1>7, <1>10
<1>12. \A m, n \in DOMAIN q : m # n =>
         \E j, k \in DOMAIN lots : j # k /\ q[m] = lots[j] /\ q[n] = lots[k]
  BY <1>1, <1>7, <1>10
<1>13. \A k \in DOMAIN lots : lots[k].who # c => \E n \in DOMAIN q : q[n] = lots[k]
  BY <1>8, <1>10
<1> QED
  BY <1>9, <1>11, <1>12, <1>13 DEF q

\* A slot whose lots are in order: each of another member; whoever passed on the item has
\* the lot 0; and, if passes are not late and items are evicted, they are for this item.
SlotGood(e, ms, r) ==
  /\ e \in Entry /\ (e.item = None => e.n = 0)
  /\ \A k \in DOMAIN e.lots : e.lots[k].who \in ms
  /\ \A j, k \in DOMAIN e.lots : e.lots[j].who = e.lots[k].who => j = k
  /\ e.item # None => \A c \in Char : <<c, e.n>> \in r => HasPassed(e, c)
  /\ ~LatePass /\ ~YoungServer =>
       /\ e.item = None => e.lots = << >>
       /\ \A k \in DOMAIN e.lots : e.lots[k].on = e.n

LotsGood(st, ms, r) == \A i \in Slot : SlotGood(st.slots[i], ms, r)

LotsInv ==
  /\ LotsGood(Now, members, refused)
  /\ members \subseteq Char
  /\ type \in {"Solo", "Party", "Alliance", "Zone"}
  /\ refused \subseteq Char \X Nat
  /\ \A r \in refused : r[2] <= drops
  /\ young \in BOOLEAN /\ recent \in BOOLEAN

\* An empty slot has no lots.
LEMMA EmptyGood == \A ms, r : SlotGood(Empty, ms, r)
<1>1. Empty \in Entry /\ Empty.lots = << >> /\ Empty.item = None /\ Empty.n = 0
  BY DEF Entry, Empty
<1>2. DOMAIN Empty.lots = {}
  BY <1>1
<1> HIDE DEF Empty
<1> QED
  BY <1>1, <1>2 DEF SlotGood

\* A check leaves a slot as it was, or empties it.
LEMMA CheckSlots ==
  ASSUME NEW st, NEW i \in Slot, Shaped(st), NEW u \in Check(st, i)
  PROVE  \A j \in Slot : u.slots[j] = st.slots[j] \/ u.slots[j] = Empty
<1>1. CASE ~Due(st, i)
  BY <1>1 DEF Check
<1>2. CASE Due(st, i)
  <2>1. u = Cleared(st, i) \/ \E c : u = Given(st, i, c)
    BY <1>2 DEF Check, Awards
  <2>2. u.slots = Cleared(st, i).slots
    BY <2>1 DEF Given
  <2>3. Cleared(st, i).slots = [st.slots EXCEPT ![i] = Empty]
    BY DEF Cleared
  <2> QED
    BY <2>2, <2>3 DEF Shaped
<1> QED
  BY <1>1, <1>2

\* Hence it keeps the lots in order.
LEMMA CheckGood ==
  ASSUME NEW st, NEW i \in Slot, Shaped(st), NEW u \in Check(st, i), NEW ms, NEW r,
         LotsGood(st, ms, r)
  PROVE  LotsGood(u, ms, r)
<1>1. \A j \in Slot : u.slots[j] = st.slots[j] \/ u.slots[j] = Empty
  BY CheckSlots
<1> QED
  BY <1>1, EmptyGood DEF LotsGood

\* What a check awards does not go to a member who passed on it.
LEMMA CheckBag ==
  ASSUME NEW st, NEW i \in Slot, Shaped(st), NEW u \in Check(st, i), NEW r,
         LotsGood(st, members, r),
         NEW c \in Char, NEW d \in u.bag[c] \ st.bag[c]
  PROVE  <<c, d.n>> \notin r
<1> DEFINE e == st.slots[i]
           lots == e.lots
<1>1. Due(st, i)
  BY DEF Check
<1>2. e.item # None /\ SlotGood(e, members, r)
  BY <1>1 DEF Due, LotsGood
<1>3. Cleared(st, i).bag = st.bag
  BY DEF Cleared
<1>4. \/ \E k \in DOMAIN lots : Leads(lots, k) /\ u = Given(st, i, lots[k].who)
      \/ \E w \in Candidates(st, i) : u = Given(st, i, w)
  BY <1>1, <1>3 DEF Check, Awards
<1>5. ASSUME NEW w, u = Given(st, i, w)
      PROVE  c = w /\ d.n = e.n
  <2>1. u.bag = [st.bag EXCEPT ![w] = @ \cup {[n |-> e.n, item |-> e.item]}]
    BY <1>3, <1>5 DEF Given
  <2> QED
    BY <2>1 DEF Shaped
<1>6. ASSUME NEW k \in DOMAIN lots, Leads(lots, k), u = Given(st, i, lots[k].who)
      PROVE  <<c, d.n>> \notin r
  <2>1. c = lots[k].who /\ d.n = e.n /\ lots[k].lot # 0
    BY <1>5, <1>6 DEF Leads
  <2>2. ~HasPassed(e, c)
    BY <1>2, <2>1 DEF SlotGood, HasPassed
  <2> QED
    BY <1>2, <2>1, <2>2 DEF SlotGood
<1>7. ASSUME NEW w \in Candidates(st, i), u = Given(st, i, w)
      PROVE  <<c, d.n>> \notin r
  <2>1. c = w /\ d.n = e.n /\ ~HasPassed(e, w)
    BY <1>5, <1>7 DEF Candidates
  <2> QED
    BY <1>2, <2>1 DEF SlotGood
<1> QED
  BY <1>4, <1>6, <1>7

\* A change of the age of an item keeps the lots in order.
LEMMA OldGood ==
  ASSUME NEW st, NEW i \in Slot, Shaped(st), NEW x \in BOOLEAN, NEW ms, NEW r,
         LotsGood(st, ms, r)
  PROVE  LET u == [st EXCEPT !.slots[i].old = x] IN
         LotsGood(u, ms, r) /\ u.bag = st.bag
<1> DEFINE u == [st EXCEPT !.slots[i].old = x]
           e == st.slots[i]
<1>1. u = [slots |-> [st.slots EXCEPT ![i].old = x], count |-> st.count, bag |-> st.bag]
  BY AgedShape
<1> HIDE DEF u
<1>2. /\ u.slots = [st.slots EXCEPT ![i].old = x] /\ u.bag = st.bag
      /\ SlotGood(e, ms, r)
  BY <1>1 DEF LotsGood
<1>3. /\ u.slots[i] = [e EXCEPT !.old = x]
      /\ \A j \in Slot \ {i} : u.slots[j] = st.slots[j]
  BY <1>2 DEF Shaped
<1>4. /\ u.slots[i] \in Entry /\ u.slots[i].lots = e.lots
      /\ u.slots[i].item = e.item /\ u.slots[i].n = e.n
  BY <1>2, <1>3 DEF SlotGood, Entry
<1>5. SlotGood(u.slots[i], ms, r)
  BY <1>2, <1>4 DEF SlotGood, HasPassed
<1> QED
  BY <1>2, <1>3, <1>5 DEF LotsGood, u

\* A change of the lots of one slot keeps the others in order.
LEMMA NewLotsGood ==
  ASSUME NEW st, NEW i \in Slot, Shaped(st), NEW x, NEW ms, NEW r,
         \A j \in Slot \ {i} : SlotGood(st.slots[j], ms, r),
         SlotGood([st.slots[i] EXCEPT !.lots = x], ms, r)
  PROVE  LET u == [st EXCEPT !.slots[i].lots = x] IN
         LotsGood(u, ms, r) /\ u.bag = st.bag
<1> DEFINE u == [st EXCEPT !.slots[i].lots = x]
<1>1. u.slots = [st.slots EXCEPT ![i].lots = x] /\ u.bag = st.bag
  BY DEF Shaped
<1> HIDE DEF u
<1>2. /\ u.slots[i] = [st.slots[i] EXCEPT !.lots = x]
      /\ \A j \in Slot \ {i} : u.slots[j] = st.slots[j]
  BY <1>1 DEF Shaped
<1> QED
  BY <1>1, <1>2 DEF LotsGood, u

-----------------------------------------------------------------------------
(* The lots and the actions *)

\* This step gives no drop to a member who passed on it.
NotToPassed == \A c \in Char : \A d \in bag'[c] \ bag[c] : <<c, d.n>> \notin refused

\* After a change of lots the slot may be checked.
LEMMA SettleGood ==
  ASSUME NEW st, NEW i \in Slot, NEW r, Shaped(st), LotsGood(st, members, r),
         st.bag = bag, refused \subseteq r, Settle(st, i), Inv'
  PROVE  LotsGood(Now', members, r) /\ NotToPassed
<1>1. CASE Become(st)
  <2>1. Now' = st /\ bag' = bag
    BY <1>1, Became DEF Become
  <2> QED
    BY <2>1 DEF NotToPassed
<1>2. ASSUME NEW u \in Check(st, i), Become(u)
      PROVE  LotsGood(Now', members, r) /\ NotToPassed
  <2>1. LotsGood(u, members, r)
    BY CheckGood
  <2>2. Now'.slots = u.slots /\ bag' = u.bag
    BY <1>2 DEF Become, Now
  <2>3. LotsGood(Now', members, r)
    BY <2>1, <2>2 DEF LotsGood
  <2>4. \A c \in Char : \A d \in u.bag[c] \ st.bag[c] : <<c, d.n>> \notin r
    BY CheckBag
  <2> QED
    BY <2>2, <2>3, <2>4 DEF NotToPassed
<1> QED
  BY <1>1, <1>2 DEF Settle

\* What a dropped item finds: a slot, and the pool after the eviction if there was one.
LEMMA AddItemLots ==
  ASSUME Inv, LotsInv, NEW item \in Item, AddItem(item)
  PROVE  LotsInv' /\ NotToPassed
<1>1. /\ drops' = drops + 1 /\ drops \in Nat /\ Sound(Now, drops) /\ Now.bag = bag
      /\ UNCHANGED <<members, type, refused, young, recent>>
  BY DEF AddItem, Inv, Now
<1>2. /\ members \subseteq Char /\ type \in {"Solo", "Party", "Alliance", "Zone"}
      /\ refused \subseteq Char \X Nat /\ \A x \in refused : x[2] <= drops
      /\ young \in BOOLEAN /\ recent \in BOOLEAN
      /\ LotsGood(Now, members, refused)
  BY DEF LotsInv
<1>3. \A x \in refused : x[2] \in Nat /\ x[2] <= drops + 1 /\ x[2] # drops + 1
  BY <1>1, <1>2
<1>4. LotsGood(Now', members, refused) => LotsInv'
  BY <1>1, <1>2, <1>3 DEF LotsInv
<1>5. CASE NobodyNeeds(item)
  <2>1. Now' = Now /\ bag' = bag
    BY <1>1, <1>5, Became DEF AddItem, Sound, Become
  <2> QED
    BY <1>2, <1>4, <2>1 DEF NotToPassed
<1>6. CASE ~NobodyNeeds(item)
  <2>1. PICK i \in Slot : \E st :
          /\ st = Now \/ (st \in Evicted(Now, i) /\ Now.slots[i].item # None)
          /\ Sound(st, drops) /\ (~YoungServer => i \notin OccupiedIn(st))
          /\ LET placed == Placed(st, i, item) IN
             Become(placed) \/ \E u \in Check(placed, i) : Become(u)
    BY <1>6, AddItemPool
  <2>2. PICK st :
          /\ st = Now \/ (st \in Evicted(Now, i) /\ Now.slots[i].item # None)
          /\ Sound(st, drops) /\ (~YoungServer => i \notin OccupiedIn(st))
          /\ LET placed == Placed(st, i, item) IN
             Become(placed) \/ \E u \in Check(placed, i) : Become(u)
    BY <2>1
  <2>3. /\ LotsGood(st, members, refused)
        /\ \A c \in Char : \A d \in st.bag[c] \ bag[c] : <<c, d.n>> \notin refused
    <3>1. CASE st = Now
      BY <1>1, <1>2, <3>1
    <3>2. CASE st \in Evicted(Now, i)
      <4> DEFINE v == [Now EXCEPT !.slots[i].old = ~young]
      <4>1. LotsGood(v, members, refused) /\ v.bag = bag
        BY <1>1, <1>2, OldGood DEF Sound
      <4>2. Shaped(v)
        BY <1>1, AgedSound DEF Sound
      <4> HIDE DEF v
      <4>3. st \in Check(v, i)
        BY <3>2 DEF Evicted, v
      <4> QED
        BY <4>1, <4>2, <4>3, CheckGood, CheckBag
    <3> QED
      BY <2>2, <3>1, <3>2
  <2> DEFINE placed == Placed(st, i, item)
             e == st.slots[i]
  <2>4. Shaped(placed)
    BY <1>1, <2>2, PlacedSound DEF Sound
  <2>5. /\ placed.bag = st.bag
        /\ placed.slots = [st.slots EXCEPT ![i] = [item |-> item, n |-> drops + 1,
                                                   old |-> FALSE, lots |-> e.lots]]
    BY <2>2 DEF Placed, Sound, Shaped
  <2> HIDE DEF placed
  <2>6. /\ placed.slots[i] = [item |-> item, n |-> drops + 1, old |-> FALSE, lots |-> e.lots]
        /\ \A j \in Slot \ {i} : placed.slots[j] = st.slots[j]
    BY <2>2, <2>5 DEF Sound, Shaped
  <2>7. SlotGood(placed.slots[i], members, refused)
    <3>1. SlotGood(e, members, refused)
      BY <2>3 DEF LotsGood
    <3>2. placed.slots[i] \in Entry
      BY <1>1, <2>6, <3>1 DEF SlotGood, Entry
    <3>3. \A c \in Char : <<c, drops + 1>> \notin refused
      BY <1>3
    <3>4. ASSUME ~LatePass, ~YoungServer PROVE e.lots = << >>
      <4>1. e.item = None
        BY <2>2, <3>4 DEF OccupiedIn
      <4> QED
        BY <3>1, <3>4, <4>1 DEF SlotGood
    <3>5. item # None
      BY ConstantsAssumption
    <3>6. ~LatePass /\ ~YoungServer =>
            /\ placed.slots[i].item = None => placed.slots[i].lots = << >>
            /\ \A k \in DOMAIN placed.slots[i].lots :
                 placed.slots[i].lots[k].on = placed.slots[i].n
      BY <2>6, <3>4, <3>5
    <3> QED
      BY <2>6, <3>1, <3>2, <3>3, <3>5, <3>6 DEF SlotGood
  <2>8. LotsGood(placed, members, refused)
    BY <2>3, <2>6, <2>7 DEF LotsGood
  <2>9. CASE Become(placed)
    <3>1. Now' = placed /\ bag' = st.bag
      BY <2>4, <2>5, <2>9, Became DEF Become
    <3> QED
      BY <1>4, <2>3, <2>8, <3>1 DEF NotToPassed
  <2>10. ASSUME NEW u \in Check(placed, i), Become(u) PROVE LotsInv' /\ NotToPassed
    <3>1. LotsGood(u, members, refused)
      BY <2>4, <2>8, CheckGood
    <3>2. \A c \in Char : \A d \in u.bag[c] \ placed.bag[c] : <<c, d.n>> \notin refused
      BY <2>4, <2>8, CheckBag
    <3>3. Now'.slots = u.slots /\ bag' = u.bag
      BY <2>10 DEF Become, Now
    <3>4. LotsGood(Now', members, refused)
      BY <3>1, <3>3 DEF LotsGood
    <3> QED
      BY <1>4, <2>3, <2>5, <3>2, <3>3, <3>4 DEF NotToPassed
  <2> QED
    BY <2>2, <2>9, <2>10 DEF placed
<1> QED
  BY <1>5, <1>6

\* A member who has not lotted for an item adds its lot for it.
LEMMA LotItemLots ==
  ASSUME Inv, LotsInv, Inv', NEW c \in Char, NEW i \in Slot, NEW lot \in 1..MaxLot,
         LotItem(c, i, lot)
  PROVE  LotsInv' /\ NotToPassed
<1> DEFINE e == slots[i]
           l == [who |-> c, lot |-> lot, on |-> e.n]
           x == Append(e.lots, l)
           st == [Now EXCEPT !.slots[i].lots = x]
<1>1. /\ c \in members /\ e.item # None /\ ~HasLotted(e, c)
      /\ Settle(st, i)
      /\ UNCHANGED <<members, type, refused, drops, young, recent>>
  BY DEF LotItem, MayLot, Now
<1>2. /\ Sound(Now, drops) /\ Shaped(Now) /\ LotsGood(Now, members, refused)
      /\ Now.slots = slots /\ Now.bag = bag
  BY DEF Inv, LotsInv, Sound, Now
<1>3. SlotGood(e, members, refused) /\ e.lots \in Seq(Lot) /\ e \in Entry
  BY <1>2 DEF LotsGood, SlotGood, Entry
<1>4. /\ l \in Lot /\ l.who = c /\ l.on = e.n
  BY <1>3, ConstantsAssumption DEF Lot, Entry
<1> HIDE DEF l
<1>5. /\ x \in Seq(Lot) /\ Len(x) = Len(e.lots) + 1
      /\ \A k \in DOMAIN x : \/ k \in DOMAIN e.lots /\ x[k] = e.lots[k]
                             \/ k = Len(e.lots) + 1 /\ x[k] = l
      /\ \A k \in DOMAIN e.lots : k \in DOMAIN x /\ x[k] = e.lots[k]
  BY <1>3, <1>4
<1> HIDE DEF x
<1>6. SlotGood([e EXCEPT !.lots = x], members, refused)
  <2> DEFINE f == [e EXCEPT !.lots = x]
  <2>1. f \in Entry /\ f.lots = x /\ f.item = e.item /\ f.n = e.n
    BY <1>3, <1>5 DEF Entry
  <2> HIDE DEF f
  <2>2. \A k \in DOMAIN x : x[k].who \in members
    BY <1>1, <1>3, <1>4, <1>5 DEF SlotGood
  <2>3. \A j, k \in DOMAIN x : x[j].who = x[k].who => j = k
    <3>1. \A k \in DOMAIN e.lots : e.lots[k].who # c
      BY <1>1 DEF HasLotted
    <3>2. \A j, k \in DOMAIN e.lots : e.lots[j].who = e.lots[k].who => j = k
      BY <1>3 DEF SlotGood
    <3> QED
      BY <1>4, <1>5, <3>1, <3>2
  <2>4. \A b \in Char : HasPassed(e, b) => HasPassed(f, b)
    BY <1>5, <2>1 DEF HasPassed
  <2>5. ~LatePass /\ ~YoungServer => \A k \in DOMAIN x : x[k].on = e.n
    BY <1>3, <1>4, <1>5 DEF SlotGood
  <2>6. SlotGood(f, members, refused)
    BY <1>1, <1>3, <2>1, <2>2, <2>3, <2>4, <2>5 DEF SlotGood
  <2> QED
    BY <2>6 DEF f
<1>7. LotsGood(st, members, refused) /\ st.bag = bag
  BY <1>2, <1>6, NewLotsGood DEF LotsGood
<1>8. Shaped(st)
  BY <1>2, LotsSound DEF Inv, Sound
<1> HIDE DEF st
<1>9. LotsGood(Now', members, refused) /\ NotToPassed
  BY <1>1, <1>7, <1>8, SettleGood
<1> QED
  BY <1>1, <1>9 DEF LotsInv

\* A member who passes has the lot 0 afterwards, also when it had lotted before.
LEMMA PassItemLots ==
  ASSUME Inv, LotsInv, Inv', NEW c \in Char, NEW i \in Slot, PassItem(c, i)
  PROVE  LotsInv' /\ NotToPassed
<1> DEFINE e == slots[i]
           l == [who |-> c, lot |-> 0, on |-> e.n]
           x == IF HasLotted(e, c) THEN PassedLot(e.lots, c) ELSE Append(e.lots, l)
           st == [Now EXCEPT !.slots[i].lots = x]
           f == [e EXCEPT !.lots = x]
           r == refused \cup {<<c, e.n>>}
<1>1. /\ c \in members /\ (e.item # None \/ LatePass)
      /\ Settle(st, i) /\ refused' = r
      /\ UNCHANGED <<members, type, drops, young, recent>>
  BY DEF PassItem, Now
<1>2. /\ Sound(Now, drops) /\ Shaped(Now) /\ LotsGood(Now, members, refused)
      /\ Now.slots = slots /\ Now.bag = bag /\ drops \in Nat
  BY DEF Inv, LotsInv, Sound, Now
<1>3. SlotGood(e, members, refused) /\ e.lots \in Seq(Lot) /\ e \in Entry /\ e.n \in Nat
  BY <1>2 DEF LotsGood, SlotGood, Entry
<1>4. l \in Lot /\ l.who = c /\ l.on = e.n /\ l.lot = 0
  BY <1>3, ConstantsAssumption DEF Lot
<1> HIDE DEF l
<1>5. /\ x \in Seq(Lot)
      /\ \A k \in DOMAIN x : x[k].who \in members
      /\ \A j, k \in DOMAIN x : x[j].who = x[k].who => j = k
      /\ \E k \in DOMAIN x : x[k].who = c /\ x[k].lot = 0
      /\ \A k \in DOMAIN e.lots :
           k \in DOMAIN x /\ x[k].who = e.lots[k].who /\ (e.lots[k].lot = 0 => x[k].lot = 0)
      /\ ~LatePass /\ ~YoungServer => \A k \in DOMAIN x : x[k].on = e.n
  <2>1. CASE HasLotted(e, c)
    <3>1. /\ x = [k \in DOMAIN e.lots |->
                    IF e.lots[k].who = c THEN [e.lots[k] EXCEPT !.lot = 0] ELSE e.lots[k]]
      BY <2>1 DEF PassedLot
    <3>2. \A k \in DOMAIN e.lots :
            e.lots[k] \in Lot /\ [e.lots[k] EXCEPT !.lot = 0] \in Lot
      <4> SUFFICES ASSUME NEW k \in DOMAIN e.lots
                   PROVE  e.lots[k] \in Lot /\ [e.lots[k] EXCEPT !.lot = 0] \in Lot
        OBVIOUS
      <4>1. e.lots[k] \in Lot
        BY <1>3
      <4>2. 0 \in 0..MaxLot
        BY ConstantsAssumption
      <4> QED
        BY <4>1, <4>2 DEF Lot
    <3>3. /\ DOMAIN x = DOMAIN e.lots
          /\ \A k \in DOMAIN x : /\ x[k] \in Lot
                                 /\ x[k].who = e.lots[k].who /\ x[k].on = e.lots[k].on
                                 /\ x[k].lot = IF e.lots[k].who = c THEN 0 ELSE e.lots[k].lot
      BY <3>1, <3>2 DEF Lot
    <3>4. x \in Seq(Lot)
      BY <1>3, <3>1, <3>3
    <3> HIDE DEF x
    <3> QED
      BY <1>3, <2>1, <3>3, <3>4 DEF SlotGood, HasLotted
  <2>2. CASE ~HasLotted(e, c)
    <3>1. /\ x \in Seq(Lot) /\ Len(x) = Len(e.lots) + 1
          /\ \A k \in DOMAIN x : \/ k \in DOMAIN e.lots /\ x[k] = e.lots[k]
                                 \/ k = Len(e.lots) + 1 /\ x[k] = l
          /\ \A k \in DOMAIN e.lots : k \in DOMAIN x /\ x[k] = e.lots[k]
          /\ Len(e.lots) + 1 \in DOMAIN x /\ x[Len(e.lots) + 1] = l
      BY <1>3, <1>4, <2>2
    <3> HIDE DEF x
    <3>2. \A j, k \in DOMAIN x : x[j].who = x[k].who => j = k
      BY <1>3, <1>4, <2>2, <3>1 DEF SlotGood, HasLotted
    <3>3. \A k \in DOMAIN x : x[k].who \in members
      BY <1>1, <1>3, <1>4, <3>1 DEF SlotGood
    <3>4. ~LatePass /\ ~YoungServer => \A k \in DOMAIN x : x[k].on = e.n
      BY <1>3, <1>4, <3>1 DEF SlotGood
    <3>5. \E k \in DOMAIN x : x[k].who = c /\ x[k].lot = 0
      BY <1>4, <3>1
    <3> QED
      BY <3>1, <3>2, <3>3, <3>4, <3>5
  <2> QED
    BY <2>1, <2>2
<1> HIDE DEF x
<1>6. SlotGood(f, members, r)
  <2>1. f \in Entry /\ f.lots = x /\ f.item = e.item /\ f.n = e.n
    BY <1>3, <1>5 DEF Entry
  <2> HIDE DEF f
  <2>2. HasPassed(f, c)
    BY <1>5, <2>1 DEF HasPassed
  <2>3. \A b \in Char : HasPassed(e, b) => HasPassed(f, b)
    BY <1>5, <2>1 DEF HasPassed
  <2>4. f.item # None => \A b \in Char : <<b, f.n>> \in r => HasPassed(f, b)
    BY <1>3, <2>1, <2>2, <2>3 DEF SlotGood
  <2>5. ~LatePass => f.item # None
    BY <1>1, <2>1
  <2>6. f.item = None => f.n = 0
    BY <1>3, <2>1 DEF SlotGood
  <2> QED
    BY <1>5, <2>1, <2>4, <2>5, <2>6 DEF SlotGood
<1>7. \A j \in Slot \ {i} : SlotGood(slots[j], members, r)
  <2> SUFFICES ASSUME NEW j \in Slot \ {i} PROVE SlotGood(slots[j], members, r)
    OBVIOUS
  <2>1. SlotGood(slots[j], members, refused)
    BY <1>2 DEF LotsGood
  <2>2. slots[j].item # None => slots[j].n # e.n
    <3>1. ASSUME slots[j].item # None, e.item # None PROVE slots[j].n # e.n
      <4>1. i \in OccupiedIn(Now) /\ j \in OccupiedIn(Now)
        BY <1>2, <3>1 DEF OccupiedIn
      <4> QED
        BY <1>2, <4>1 DEF Sound, Placement
    <3>2. ASSUME slots[j].item # None, e.item = None PROVE slots[j].n # e.n
      <4>1. j \in OccupiedIn(Now)
        BY <1>2, <3>2 DEF OccupiedIn
      <4>2. slots[j].n \in 1..drops
        BY <1>2, <4>1 DEF Sound, Placement
      <4>3. e.n = 0
        BY <1>3, <3>2 DEF SlotGood
      <4> QED
        BY <4>2, <4>3
    <3> QED
      BY <3>1, <3>2
  <2> QED
    BY <2>1, <2>2 DEF SlotGood
<1>8. LotsGood(st, members, r) /\ st.bag = bag
  BY <1>2, <1>6, <1>7, NewLotsGood
<1>9. Shaped(st)
  BY <1>2, LotsSound DEF Inv, Sound
<1> HIDE DEF st
<1>10. LotsGood(Now', members, r) /\ NotToPassed
  BY <1>1, <1>8, <1>9, SettleGood
<1>11. r \subseteq Char \X Nat /\ \A y \in r : y[2] <= drops
  <2>1. e.n <= drops
    <3>1. CASE e.item = None
      BY <1>2, <1>3, <3>1 DEF SlotGood
    <3>2. CASE e.item # None
      BY <1>2, <1>3, <3>2 DEF Sound, Placement, OccupiedIn
    <3> QED
      BY <3>1, <3>2
  <2> QED
    BY <1>3, <2>1 DEF LotsInv
<1> QED
  BY <1>1, <1>10, <1>11 DEF LotsInv

\* A slot looked at by a walk keeps its lots, or is emptied.
LEMMA CheckSlotLots ==
  ASSUME Inv, LotsInv, Inv', CheckSlot
  PROVE  LotsInv' /\ NotToPassed
<1>1. PICK u \in Check(Now, scan.at) : Become(u)
  BY DEF CheckSlot
<1>2. scan.at \in Slot /\ Shaped(Now) /\ LotsGood(Now, members, refused) /\ Now.bag = bag
  BY DEF CheckSlot, Inv, LotsInv, Sound, Now
<1>3. LotsGood(u, members, refused)
  BY <1>1, <1>2, CheckGood
<1>4. \A c \in Char : \A d \in u.bag[c] \ bag[c] : <<c, d.n>> \notin refused
  BY <1>1, <1>2, CheckBag
<1>5. /\ Now'.slots = u.slots /\ bag' = u.bag
      /\ UNCHANGED <<members, type, refused, drops, young, recent>>
  BY <1>1 DEF Become, Now, CheckSlot
<1>6. LotsGood(Now', members, refused)
  BY <1>3, <1>5 DEF LotsGood
<1> QED
  BY <1>4, <1>5, <1>6 DEF LotsInv, NotToPassed

\* A new member has no lots yet.
LEMMA AddMemberLots ==
  ASSUME LotsInv, NEW c \in Char, NEW p, NEW a, AddMember(c, p, a)
  PROVE  LotsInv' /\ NotToPassed
<1>1. /\ members' = members \cup {c}
      /\ UNCHANGED <<slots, count, bag, refused, drops, young, recent>>
      /\ Now' = Now
  BY DEF AddMember, Now
<1>2. type' \in {"Solo", "Party", "Alliance", "Zone"}
  BY DEF AddMember, LotsInv
<1>3. LotsGood(Now, members', refused)
  BY <1>1 DEF LotsInv, LotsGood, SlotGood
<1> QED
  BY <1>1, <1>2, <1>3 DEF LotsInv, NotToPassed

\* Whoever leaves takes its lots and its passes along, and leaves those of the others.
LEMMA DelMemberLots ==
  ASSUME Inv, LotsInv, NEW c \in Char, DelMember(c)
  PROVE  LotsInv' /\ NotToPassed
<1> DEFINE ms == members \ {c}
           r == {y \in refused : y[1] # c}
<1>1. members' = ms /\ refused' = r /\ UNCHANGED <<bag, drops, young, recent>>
  BY DEF DelMember
<1>2. type' \in {"Solo", "Party", "Alliance", "Zone"}
  BY DEF DelMember, Reset, LotsInv
<1>3. /\ Now.slots = slots /\ Now'.slots = slots'
      /\ LotsGood(Now, members, refused)
  BY DEF Now, LotsInv
<1>4. ASSUME NEW i \in Slot PROVE SlotGood(slots'[i], ms, r)
  <2>1. CASE members = {c}
    <3>1. slots'[i] = Empty
      BY <2>1 DEF DelMember, Reset
    <3> QED
      BY <3>1, EmptyGood
  <2>2. CASE members # {c}
    <3> DEFINE e == slots[i]
               q == LotsWithout(e.lots, c)
               f == [e EXCEPT !.lots = q]
    <3>1. slots'[i] = f
      BY <2>2 DEF DelMember
    <3>2. SlotGood(e, members, refused) /\ e \in Entry /\ e.lots \in Seq(Lot)
      BY <1>3 DEF LotsGood, SlotGood, Entry
    <3>3. /\ q \in Seq(Lot)
          /\ \A n \in DOMAIN q : \E k \in DOMAIN e.lots : q[n] = e.lots[k] /\ e.lots[k].who # c
          /\ \A m, n \in DOMAIN q : m # n =>
               \E j, k \in DOMAIN e.lots : j # k /\ q[m] = e.lots[j] /\ q[n] = e.lots[k]
          /\ \A k \in DOMAIN e.lots : e.lots[k].who # c => \E n \in DOMAIN q : q[n] = e.lots[k]
      <4> DEFINE ls == e.lots
      <4>1. ls \in Seq(Lot)
        BY <3>2
      <4> HIDE DEF ls
      <4>2. LET p == LotsWithout(ls, c) IN
            /\ p \in Seq(Lot)
            /\ \A n \in DOMAIN p : \E k \in DOMAIN ls : p[n] = ls[k] /\ ls[k].who # c
            /\ \A m, n \in DOMAIN p : m # n =>
                 \E j, k \in DOMAIN ls : j # k /\ p[m] = ls[j] /\ p[n] = ls[k]
            /\ \A k \in DOMAIN ls : ls[k].who # c => \E n \in DOMAIN p : p[n] = ls[k]
        BY <4>1, LotsWithoutFacts
      <4> QED
        BY <4>2 DEF ls
    <3> HIDE DEF q
    <3>4. f \in Entry /\ f.lots = q /\ f.item = e.item /\ f.n = e.n
      BY <3>2, <3>3 DEF Entry
    <3> HIDE DEF f
    <3>5. \A k \in DOMAIN q : q[k].who \in ms
      BY <3>2, <3>3 DEF SlotGood
    <3>6. \A m, n \in DOMAIN q : q[m].who = q[n].who => m = n
      BY <3>2, <3>3 DEF SlotGood
    <3>7. f.item # None => \A b \in Char : <<b, f.n>> \in r => HasPassed(f, b)
      <4> SUFFICES ASSUME f.item # None, NEW b \in Char, <<b, f.n>> \in r
                   PROVE  HasPassed(f, b)
        OBVIOUS
      <4>1. b # c /\ <<b, e.n>> \in refused
        BY <3>4
      <4>2. HasPassed(e, b)
        BY <3>2, <3>4, <4>1 DEF SlotGood
      <4> QED
        BY <3>3, <3>4, <4>1, <4>2 DEF HasPassed
    <3>8. ~LatePass /\ ~YoungServer =>
            /\ f.item = None => q = << >>
            /\ \A k \in DOMAIN q : q[k].on = f.n
      <4> SUFFICES ASSUME ~LatePass, ~YoungServer
                   PROVE  /\ f.item = None => q = << >>
                          /\ \A k \in DOMAIN q : q[k].on = f.n
        OBVIOUS
      <4>1. \A k \in DOMAIN q : q[k].on = f.n
        BY <3>2, <3>3, <3>4 DEF SlotGood
      <4>2. f.item = None => DOMAIN q = {}
        BY <3>2, <3>3, <3>4 DEF SlotGood
      <4> QED
        BY <3>3, <4>1, <4>2
    <3>9. f.item = None => f.n = 0
      BY <3>2, <3>4 DEF SlotGood
    <3>10. SlotGood(f, ms, r)
      BY <3>4, <3>5, <3>6, <3>7, <3>8, <3>9 DEF SlotGood
    <3> QED
      BY <3>1, <3>10
  <2> QED
    BY <2>1, <2>2
<1>5. LotsGood(Now', ms, r)
  BY <1>3, <1>4 DEF LotsGood
<1>6. ms \subseteq Char /\ r \subseteq refused
  BY DEF LotsInv
<1> QED
  BY <1>1, <1>2, <1>5, <1>6 DEF LotsInv, NotToPassed

\* Neither the clock nor what a character does with its own things touches a lot.
LEMMA OthersLots ==
  ASSUME Inv, LotsInv,
         TimeStep \/ CheckItems \/ Flush \/ (\E c \in Char : \E d : Discard(c, d))
  PROVE  LotsInv' /\ NotToPassed
<1>1. ASSUME NEW i \in Slot, Age(i) PROVE LotsInv' /\ NotToPassed
  <2>1. /\ Now' = [slots |-> [slots EXCEPT ![i].old = TRUE], count |-> count, bag |-> bag]
        /\ UNCHANGED <<members, type, bag, refused, drops, young, recent>>
    BY <1>1 DEF Age, Now
  <2>2. Shaped(Now) /\ Now.slots = slots /\ Now.count = count /\ Now.bag = bag
    BY DEF Inv, Sound, Now
  <2>3. [Now EXCEPT !.slots[i].old = TRUE]
          = [slots |-> [slots EXCEPT ![i].old = TRUE], count |-> count, bag |-> bag]
    BY <2>2, AgedShape
  <2>4. LotsGood([Now EXCEPT !.slots[i].old = TRUE], members, refused)
    BY <2>2, OldGood DEF LotsInv
  <2>5. LotsGood(Now', members, refused)
    BY <2>1, <2>3, <2>4
  <2> QED
    BY <2>1, <2>5 DEF LotsInv, NotToPassed
<1>2. CASE GrowUp \/ Elapse \/ CheckItems \/ Flush
  <2>1. /\ Now' = Now /\ UNCHANGED <<members, type, bag, refused, drops>>
        /\ young' \in BOOLEAN /\ recent' \in BOOLEAN
    BY <1>2 DEF GrowUp, Elapse, CheckItems, Flush, Now, LotsInv
  <2> QED
    BY <2>1 DEF LotsInv, NotToPassed
<1>3. ASSUME NEW c \in Char, NEW d, Discard(c, d) PROVE LotsInv' /\ NotToPassed
  <2>1. /\ UNCHANGED <<members, type, refused, drops, young, recent>>
        /\ bag' = [bag EXCEPT ![c] = @ \ {d}]
        /\ Now'.slots = Now.slots
    BY <1>3 DEF Discard, Now
  <2>2. bag \in [Char -> SUBSET Drop]
    BY DEF Inv, Sound, Shaped, Now
  <2>3. \A b \in Char : bag'[b] \ bag[b] = {}
    BY <2>1, <2>2
  <2>4. LotsGood(Now', members, refused)
    BY <2>1 DEF LotsInv, LotsGood
  <2> QED
    BY <2>1, <2>3, <2>4 DEF LotsInv, NotToPassed
<1> QED
  BY <1>1, <1>2, <1>3 DEF TimeStep

\* A new pool has no lots.
LEMMA InitLots == Init => LotsInv
<1> SUFFICES ASSUME Init PROVE LotsInv
  OBVIOUS
<1>1. /\ members = {} /\ type \in {"Solo", "Party", "Alliance", "Zone"} /\ refused = {}
      /\ young \in BOOLEAN /\ recent \in BOOLEAN
  BY ConstantsAssumption DEF Init
<1>2. \A i \in Slot : Now.slots[i] = Empty
  BY DEF Init, Now
<1>3. LotsGood(Now, members, refused)
  BY <1>2, EmptyGood DEF LotsGood
<1> QED
  BY <1>1, <1>3 DEF LotsInv

\* Every step keeps the lots in order and awards to nobody who passed.
LEMMA NextLots ==
  ASSUME Inv, LotsInv, [Next]_vars
  PROVE  LotsInv' /\ NotToPassed
<1>0. Inv'
  BY NextKeeps
<1>1. ASSUME NEW item \in Item, AddItem(item) PROVE LotsInv' /\ NotToPassed
  BY <1>1, AddItemLots
<1>2. ASSUME NEW c \in Char, MemberStep(c) PROVE LotsInv' /\ NotToPassed
  <2>1. CASE \E p, a \in BOOLEAN : AddMember(c, p, a)
    BY <2>1, AddMemberLots
  <2>2. CASE DelMember(c)
    BY <2>2, DelMemberLots
  <2>3. CASE \E i \in Slot : PassItem(c, i)
    BY <1>0, <2>3, PassItemLots
  <2>4. CASE \E i \in Slot : \E lot \in 1..MaxLot : LotItem(c, i, lot)
    BY <1>0, <2>4, LotItemLots
  <2>5. CASE \E d \in bag[c] : Discard(c, d)
    BY <2>5, OthersLots
  <2> QED
    BY <1>2, <2>1, <2>2, <2>3, <2>4, <2>5 DEF MemberStep
<1>3. CASE CheckItems \/ Flush \/ TimeStep
  BY <1>3, OthersLots
<1>4. CASE CheckSlot
  BY <1>0, <1>4, CheckSlotLots
<1>5. CASE UNCHANGED vars
  <2>1. Now' = Now /\ UNCHANGED <<members, type, bag, refused, drops, young, recent>>
    BY <1>5 DEF vars, Now
  <2> QED
    BY <2>1 DEF LotsInv, NotToPassed
<1> QED
  BY <1>1, <1>2, <1>3, <1>4, <1>5 DEF Next

\* In every reachable state the drops are where they should be and the lots in order.
LEMMA LotsInvariance == Spec => [](Inv /\ LotsInv)
<1>1. Init => Inv /\ LotsInv
  BY InitEstablishes, InitLots
<1>2. (Inv /\ LotsInv) /\ [Next]_vars => (Inv /\ LotsInv)'
  BY NextKeeps, NextLots
<1> QED
  BY <1>1, <1>2, PTL DEF Spec

\* Every variable has its type.
THEOREM TypeCorrect == Spec => []TypeOK
<1>1. Inv /\ LotsInv => TypeOK
  <2> SUFFICES ASSUME Inv, LotsInv PROVE TypeOK
    OBVIOUS
  <2>1. Shaped(Now) /\ Now.slots = slots /\ Now.count = count /\ Now.bag = bag
    BY DEF Inv, Sound, Now
  <2>2. slots \in [Slot -> Entry]
    BY <2>1 DEF LotsInv, LotsGood, SlotGood, Shaped
  <2> QED
    BY <2>1, <2>2 DEF TypeOK, Inv, LotsInv, Shaped
<1> QED
  BY <1>1, LotsInvariance, PTL

\* Whatever passes are late and however young the process is, a slot has at most one lot of
\* each member and none of anybody else: "all have lotted" is the number of lots.
THEOREM OneLotEach == Spec => []LotsOfMembers
<1>1. LotsInv => LotsOfMembers
  <2> SUFFICES ASSUME LotsInv PROVE LotsOfMembers
    OBVIOUS
  <2>1. \A i \in Slot : SlotGood(slots[i], members, refused)
    BY DEF LotsInv, LotsGood, Now
  <2> QED
    BY <2>1 DEF SlotGood, LotsOfMembers
<1> QED
  BY <1>1, LotsInvariance, PTL

\* Unless passes are late or the process is less than five minutes old, the lots of a slot
\* are those its item is to be awarded by: one of each member at most, for this drop.
THEOREM LotsRight == ~LatePass /\ ~YoungServer => (Spec => []LotsInOrder)
<1> SUFFICES ASSUME ~LatePass, ~YoungServer PROVE Spec => []LotsInOrder
  OBVIOUS
<1>1. LotsInv => LotsInOrder
  <2> SUFFICES ASSUME LotsInv PROVE LotsInOrder
    OBVIOUS
  <2>1. \A i \in Slot : SlotGood(slots[i], members, refused)
    BY DEF LotsInv, LotsGood, Now
  <2> QED
    BY <2>1 DEF SlotGood, LotsInOrder, LotsOfMembers, LotsForThisDrop, Occupied
<1> QED
  BY <1>1, LotsInvariance, PTL

\* Whoever passed on a drop never gets it: not by a lot it had cast before, not at random,
\* not from an evicted slot, whatever passes are late and however young the process is.
THEOREM PassedGetNothing == Spec => PassedNeverGets
<1>1. (Inv /\ LotsInv) /\ [Next]_vars
        => [\A c \in Char : \A d \in bag'[c] \ bag[c] : <<c, d.n>> \notin refused]_vars
  BY NextLots DEF NotToPassed
<1> QED
  BY <1>1, LotsInvariance, PTL DEF Spec, PassedNeverGets
=============================================================================
