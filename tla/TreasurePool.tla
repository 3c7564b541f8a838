---------------------------- MODULE TreasurePool ----------------------------
(***************************************************************************)
(* CTreasurePool: the items that monsters drop for a group, and how each   *)
(* of them is awarded by lots. One pool object; its members come and go as *)
(* they change zones and parties. Time is what the comparisons of time     *)
(* stamps observe: the order in which items were added, which of them are  *)
(* older than treasure_livetime, and whether the process itself is.        *)
(***************************************************************************)
EXTENDS Naturals, Sequences, FiniteSets

CONSTANTS
  Char,          \* the characters that may be members
  Item,          \* item ids
  Rare,          \* those of which a character can hold one
  Exclusive,     \* those flagged Ex
  Unchecked,     \* rare items flagged NoRareCheck
  Size,          \* TREASUREPOOL_SIZE
  MaxLot,        \* lots are drawn from 1 to 1000 in the code
  Capacity,      \* inventory slots of a character
  ZonePool,      \* the pool belongs to a zone and not to a party
  YoungServer,   \* the process may have started less than treasure_livetime ago
  LatePass,      \* a pass may arrive when its slot has been emptied
  MaxDrops,      \* bound: items dropped
  None           \* no item

ASSUME ConstantsAssumption ==
  /\ Rare \subseteq Item /\ Exclusive \subseteq Item /\ Unchecked \subseteq Item
  /\ Size \in 1..255 /\ MaxLot \in Nat \ {0} /\ Capacity \in Nat /\ MaxDrops \in Nat
  /\ ZonePool \in BOOLEAN /\ YoungServer \in BOOLEAN /\ LatePass \in BOOLEAN
  /\ None \notin Item

Slot == 1..Size

(***************************************************************************)
(* The n-th drop of an item; n = 0 is one a character owned before, in     *)
(* some other storage. A lot remembers the drop it was cast for.           *)
(***************************************************************************)
Drop == [n : Nat, item : Item]

Lot == [who : Char, lot : 0..MaxLot, on : Nat]

Entry == [item : Item \cup {None},   \* ID
          n    : Nat,                \* the drop, in the order of TimeStamp
          old  : BOOLEAN,            \* its age exceeds treasure_livetime
          lots : Seq(Lot)]           \* Lotters

Empty == [item |-> None, n |-> 0, old |-> FALSE, lots |-> << >>]

VARIABLES
  members,   \* m_Members
  type,      \* m_TreasurePoolType
  slots,     \* m_PoolItems
  count,     \* m_count, a uint8
  bag,       \* what every character holds
  refused,   \* who passed on which drop (history)
  drops,     \* items dropped so far
  young,     \* less than treasure_livetime since timer::start_time
  recent,    \* less than treasure_checktime since m_Tick
  scan       \* the slot a check of all slots has come to

vars == <<members, type, slots, count, bag, refused, drops, young, recent, scan>>

TypeOK ==
  /\ members \subseteq Char
  /\ type \in {"Solo", "Party", "Alliance", "Zone"}
  /\ slots \in [Slot -> Entry]
  /\ count \in 0..255
  /\ bag \in [Char -> SUBSET Drop]
  /\ refused \subseteq Char \X Nat
  /\ drops \in Nat
  /\ young \in BOOLEAN /\ recent \in BOOLEAN
  /\ scan \in [by : {"none", "check", "flush"}, at : 0..Size]

-----------------------------------------------------------------------------
(* Characters and their inventory *)

Holds(b, c, i) == \E d \in b[c] : d.item = i

FreeSlots(b, c) == Cardinality({d \in b[c] : d.n # 0}) < Capacity

\* Mutant: a second one of a rare item is not refused.
AcceptsAny(b, c, i) == FreeSlots(b, c)

\* charutils::AddItem succeeds.
Accepts(b, c, i) == FreeSlots(b, c) /\ ~(i \in Rare /\ Holds(b, c, i))

-----------------------------------------------------------------------------
(* The award of one slot. The state it changes is a record of slots, count and bag. *)

Now == [slots |-> slots, count |-> count, bag |-> bag]

Become(st) == slots' = st.slots /\ count' = st.count /\ bag' = st.bag

Solo(c) == members = {c}

\* Mutant: the age of an item is not looked at.
DueByLots(st, i) ==
  /\ st.slots[i].item # None
  /\ \/ \E c \in members : Solo(c) /\ FreeSlots(st.bag, c)
     \/ Len(st.slots[i].lots) = Cardinality(members)

Due(st, i) ==
  /\ st.slots[i].item # None
  /\ \/ st.slots[i].old
     \/ \E c \in members : Solo(c) /\ FreeSlots(st.bag, c)
     \/ Len(st.slots[i].lots) = Cardinality(members)

\* Mutants: the item is still counted, the item stays.
ClearedCounted(st, i) == [st EXCEPT !.slots[i] = Empty]
ClearedKeepItem(st, i) == [st EXCEPT !.slots[i].lots = << >>, !.count = (@ + 255) % 256]

\* treasureWon, treasureError and treasureLost clear the slot alike.
Cleared(st, i) ==
  [slots |-> [st.slots EXCEPT ![i] = Empty],
   count |-> (st.count + 255) % 256, bag |-> st.bag]

\* The item of slot i goes to c, or to nobody when it cannot be added.
Given(st, i, c) ==
  LET e == st.slots[i] IN
  IF Accepts(st.bag, c, e.item)
  THEN [slots |-> Cleared(st, i).slots, count |-> Cleared(st, i).count,
        bag   |-> [st.bag EXCEPT ![c] = @ \cup {[n |-> e.n, item |-> e.item]}]]
  ELSE Cleared(st, i)

\* The earliest of the highest lots.
Leads(lots, k) ==
  /\ lots[k].lot > 0
  /\ \A j \in DOMAIN lots : lots[j].lot < lots[k].lot
                            \/ (lots[j].lot = lots[k].lot /\ k <= j)

HasLotted(e, c) == \E k \in DOMAIN e.lots : e.lots[k].who = c
HasPassed(e, c) == \E k \in DOMAIN e.lots : e.lots[k].who = c /\ e.lots[k].lot = 0

Candidates(st, i) ==
  LET e == st.slots[i] IN
  {c \in members : /\ ~(e.item \in Rare /\ Holds(st.bag, c, e.item))
                   /\ FreeSlots(st.bag, c)
                   /\ ~HasPassed(e, c)}

\* The states after an award: to the highest lot, or at random.
Awards(st, i) ==
  LET lots == st.slots[i].lots
      Leaders == {k \in DOMAIN lots : Leads(lots, k)}
  IN IF Leaders # {} THEN {Given(st, i, lots[k].who) : k \in Leaders}
     ELSE IF Candidates(st, i) = {} THEN {Cleared(st, i)}
     ELSE {Given(st, i, c) : c \in Candidates(st, i)}

\* checkTreasureItem.
Check(st, i) == IF Due(st, i) THEN Awards(st, i) ELSE {st}

-----------------------------------------------------------------------------
(* Items *)

Occupied == {i \in Slot : slots[i].item # None}

Oldest(S) == CHOOSE i \in S : \A j \in S : slots[i].n <= slots[j].n

\* The slot a full pool gives up: the oldest of the least precious items.
Victim ==
  LET Plain == {i \in Slot : slots[i].item \notin Rare \cup Exclusive}
      NotEx == {i \in Slot : slots[i].item \notin Exclusive}
  IN Oldest(IF Plain # {} THEN Plain ELSE IF NotEx # {} THEN NotEx ELSE Slot)

\* Every member has this rare item already.
NobodyNeeds(i) ==
  /\ i \in Rare /\ ~(type # "Solo" /\ i \in Unchecked)
  /\ \A c \in members : Holds(bag, c, i)

\* The time stamp of the item in the way becomes timer::start_time.
Evicted(st, i) == Check([st EXCEPT !.slots[i].old = ~young], i)

Placed(st, i, item) ==
  [slots |-> [st.slots EXCEPT ![i] = [item |-> item, n |-> drops + 1, old |-> FALSE,
                                      lots |-> @.lots]],
   count |-> (st.count + 1) % 256, bag |-> st.bag]

\* addItem.
AddItem(item) ==
  /\ scan.by = "none" /\ members # {} /\ drops < MaxDrops
  /\ drops' = drops + 1
  /\ IF NobodyNeeds(item) THEN Become(Now)
     ELSE LET full == Occupied = Slot
              i == IF full THEN Victim
                   ELSE CHOOSE k \in Slot \ Occupied : \A j \in Slot \ Occupied : k <= j
          IN \E st \in IF full THEN Evicted(Now, i) ELSE {Now} :
               LET placed == Placed(st, i, item) IN
               IF Cardinality(members) = 1 THEN \E u \in Check(placed, i) : Become(u)
               ELSE Become(placed)
  /\ UNCHANGED <<members, type, refused, young, recent, scan>>

MayLot(c, i) == ~HasLotted(slots[i], c) /\ Accepts(bag, c, slots[i].item)

\* What lotItem and passItem end with.
Settle(st, i) ==
  IF Len(st.slots[i].lots) = Cardinality(members)
  THEN \E u \in Check(st, i) : Become(u) ELSE Become(st)

\* GP_CLI_COMMAND_TROPHY_ENTRY and lotItem.
LotItem(c, i, lot) ==
  /\ scan.by = "none" /\ c \in members
  /\ slots[i].item # None /\ MayLot(c, i)
  /\ Settle([Now EXCEPT !.slots[i].lots =
               Append(@, [who |-> c, lot |-> lot, on |-> slots[i].n])], i)
  /\ UNCHANGED <<members, type, refused, drops, young, recent, scan>>

\* Mutants: a lot that was cast stands; it becomes the mask of the packet, FF FF.
PassedLotStands(lots, c) == lots
PassedLotMask(lots, c) ==
  [k \in DOMAIN lots |-> IF lots[k].who = c THEN [lots[k] EXCEPT !.lot = 65535] ELSE lots[k]]

\* The lot of c becomes 0.
PassedLot(lots, c) ==
  [k \in DOMAIN lots |-> IF lots[k].who = c THEN [lots[k] EXCEPT !.lot = 0] ELSE lots[k]]

\* GP_CLI_COMMAND_TROPHY_ABSENCE and passItem, which do not ask if there is an item.
PassItem(c, i) ==
  /\ scan.by = "none" /\ c \in members
  /\ slots[i].item # None \/ LatePass
  /\ ~HasPassed(slots[i], c)
  /\ Settle([Now EXCEPT !.slots[i].lots =
               IF HasLotted(slots[i], c) THEN PassedLot(@, c)
               ELSE Append(@, [who |-> c, lot |-> 0, on |-> slots[i].n])], i)
  /\ refused' = refused \cup {<<c, slots[i].n>>}
  /\ UNCHANGED <<members, type, drops, young, recent, scan>>

\* checkItems and flush walk over the slots; nothing comes between their steps.
CheckItems ==
  /\ scan.by = "none" /\ members # {} /\ count # 0 /\ ~recent
  /\ scan' = [by |-> "check", at |-> 1]
  /\ recent' = TRUE
  /\ UNCHANGED <<members, type, slots, count, bag, refused, drops, young>>

Flush ==
  /\ scan.by = "none" /\ members # {} /\ count # 0
  /\ scan' = [by |-> "flush", at |-> 1]
  /\ UNCHANGED <<members, type, slots, count, bag, refused, drops, young, recent>>

CheckSlot ==
  /\ scan.by # "none"
  /\ \E st \in Check(Now, scan.at) : Become(st)
  /\ scan' = IF scan.at = Size THEN [by |-> "none", at |-> 0]
             ELSE [scan EXCEPT !.at = @ + 1]
  /\ UNCHANGED <<members, type, refused, drops, young, recent>>

-----------------------------------------------------------------------------
(* Members *)

\* addMember: the pool of a party grows with the group of the new member.
AddMember(c, inParty, inAlliance) ==
  /\ scan.by = "none" /\ c \notin members
  /\ inAlliance => inParty
  /\ members' = members \cup {c}
  /\ type' = IF type = "Solo" /\ inParty THEN "Party"
             ELSE IF type = "Party" /\ inAlliance THEN "Alliance" ELSE type
  /\ UNCHANGED <<slots, count, bag, refused, drops, young, recent, scan>>

\* Mutant: the lots of who leaves stay.
LotsLeft(lots, c) == lots

\* What is left of the lots, in the order they were in.
LotsWithout(lots, c) ==
  LET kept == {k \in DOMAIN lots : lots[k].who # c}
      Rank(k) == Cardinality({j \in kept : j <= k})
  IN  [n \in 1..Cardinality(kept) |-> lots[CHOOSE k \in kept : Rank(k) = n]]

\* A new pool: an empty one is deleted, or replaced by its zone.
Reset ==
  /\ slots' = [i \in Slot |-> Empty]
  /\ count' = 0
  /\ type' = IF ZonePool THEN "Zone" ELSE "Solo"

\* delMember: no slot is looked at again before the next check.
DelMember(c) ==
  /\ scan.by = "none" /\ c \in members
  /\ members' = members \ {c}
  /\ refused' = {r \in refused : r[1] # c}
  /\ IF members = {c} THEN Reset
     ELSE /\ slots' = [i \in Slot |->
                         [slots[i] EXCEPT !.lots = LotsWithout(@, c)]]
          /\ type' = IF type \in {"Party", "Alliance"} /\ Cardinality(members) = 2
                     THEN "Solo" ELSE type
          /\ UNCHANGED count
  /\ UNCHANGED <<bag, drops, young, recent, scan>>

\* A character uses, sells or drops something it holds.
Discard(c, d) ==
  /\ scan.by = "none" /\ d \in bag[c]
  /\ bag' = [bag EXCEPT ![c] = @ \ {d}]
  /\ UNCHANGED <<members, type, slots, count, refused, drops, young, recent, scan>>

-----------------------------------------------------------------------------
(* Time *)

\* Five minutes after it was added; items age in the order they came.
Age(i) ==
  /\ scan.by = "none" /\ ~young
  /\ i \in Occupied /\ ~slots[i].old
  /\ \A j \in Occupied : slots[j].n < slots[i].n => slots[j].old
  /\ slots' = [slots EXCEPT ![i].old = TRUE]
  /\ UNCHANGED <<members, type, count, bag, refused, drops, young, recent, scan>>

\* Five minutes after the start of the process.
GrowUp ==
  /\ scan.by = "none" /\ young
  /\ young' = FALSE
  /\ UNCHANGED <<members, type, slots, count, bag, refused, drops, recent, scan>>

\* Three seconds after the last check.
Elapse ==
  /\ scan.by = "none" /\ recent
  /\ recent' = FALSE
  /\ UNCHANGED <<members, type, slots, count, bag, refused, drops, young, scan>>

-----------------------------------------------------------------------------
Init ==
  /\ members = {}
  /\ type = IF ZonePool THEN "Zone" ELSE "Solo"
  /\ slots = [i \in Slot |-> Empty]
  /\ count = 0
  /\ bag \in [Char -> SUBSET {[n |-> 0, item |-> r] : r \in Rare}]
  /\ refused = {}
  /\ drops = 0
  /\ young \in {FALSE, YoungServer}
  /\ recent = FALSE
  /\ scan = [by |-> "none", at |-> 0]

MemberStep(c) ==
  \/ \E p, a \in BOOLEAN : AddMember(c, p, a)
  \/ DelMember(c)
  \/ \E i \in Slot : PassItem(c, i) \/ \E lot \in 1..MaxLot : LotItem(c, i, lot)
  \/ \E d \in bag[c] : Discard(c, d)

TimeStep == (\E i \in Slot : Age(i)) \/ GrowUp \/ Elapse

Next ==
  \/ \E item \in Item : AddItem(item)
  \/ \E c \in Char : MemberStep(c)
  \/ CheckItems \/ Flush \/ CheckSlot
  \/ TimeStep

Spec == Init /\ [][Next]_vars

\* The clock runs, and the zone ticks every 400 ms for each of its characters. Both are
\* strong: between the steps of one walk over the slots they are not enabled, and only there.
FairSpec ==
  /\ Spec
  /\ WF_vars(CheckSlot)
  /\ SF_vars(CheckItems) /\ SF_vars(Elapse) /\ SF_vars(GrowUp)
  /\ \A i \in Slot : SF_vars(Age(i))

-----------------------------------------------------------------------------
(* Properties *)

\* A slot has at most one lot of each member and none of anybody else, so that "all
\* have lotted" is the number of lots, however members come, lot, pass and go.
LotsOfMembers ==
  \A i \in Slot :
    LET lots == slots[i].lots IN
    /\ \A k \in DOMAIN lots : lots[k].who \in members
    /\ \A j, k \in DOMAIN lots : lots[j].who = lots[k].who => j = k

\* "Returns item count in pool": the counter, which also tells whether there is
\* anything to check, is the number of slots with an item.
CountMatches == count = Cardinality(Occupied)

\* A lot or a pass counts for the drop it was given for, never for a later drop that
\* happens to be put into the same slot.
LotsForThisDrop ==
  \A i \in Occupied : \A k \in DOMAIN slots[i].lots : slots[i].lots[k].on = slots[i].n

\* Both: the lots in a slot are what its item is to be awarded by.
LotsInOrder == LotsOfMembers /\ LotsForThisDrop

\* "Give to random member who has not passed": whoever passed on a drop does not get
\* it, not even when it had lotted before.
PassedNeverGets ==
  [][\A c \in Char : \A d \in bag'[c] \ bag[c] : <<c, d.n>> \notin refused]_vars

\* Nobody ends up with two of a rare item, in whatever order the slots that offer it
\* are awarded.
RareOnce ==
  \A c \in Char : \A d, e \in bag[c] : d.item = e.item /\ d.item \in Rare => d = e

\* A drop is in one place: one slot, or one inventory.
NoCopies ==
  /\ \A i, j \in Occupied : slots[i].n = slots[j].n => i = j
  /\ \A c \in Char : \A d \in bag[c] : d.n # 0 =>
       /\ \A i \in Occupied : slots[i].n # d.n
       /\ \A b \in Char \ {c} : \A e \in bag[b] : e.n # d.n

\* The inductive strengthening of RareOnce, NoCopies and, once the process is five
\* minutes old, CountMatches: nothing carries the number of a drop still to come. The
\* lots need not be known: whoever an item goes to, it leaves its slot.
DropsSoFar ==
  /\ \A i \in Occupied : slots[i].n \in 1..drops
  /\ \A c \in Char : \A d \in bag[c] : d.n <= drops

PoolInv ==
  /\ RareOnce /\ NoCopies /\ DropsSoFar
  /\ scan.by # "none" => scan.at \in Slot
  /\ ~YoungServer => ~young /\ CountMatches

\* Every drop is awarded or lost in the end: no inventory, lot or pass keeps it.
Resolved ==
  \A i \in Slot, n \in 1..MaxDrops :
    (slots[i].item # None /\ slots[i].n = n /\ members # {})
      ~> ~(slots[i].item # None /\ slots[i].n = n)

\* "Forcibly flushes the treasure pool, as if all items timers expired."
FlushEmpties ==
  [][scan.by = "flush" /\ scan'.by = "none" => Occupied' = {}]_vars
=============================================================================
