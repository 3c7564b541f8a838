------------------------- MODULE BattlefieldProofs -------------------------
(***************************************************************************)
(* The battlefields, for any finite set of players, any number of areas and  *)
(* any limits. A good world is one of the right shape in which the pointers  *)
(* of the characters and the lists of the battlefields say the same. Each    *)
(* helper of the model is shown to keep worlds good and to move nobody, to   *)
(* let people only out, or to let them only into a battlefield that was not  *)
(* there before; from these the steps follow. The two loops over players     *)
(* (WithAlliance, Cleanup) are folds: the recursion they stand for has a     *)
(* solution, and what one turn preserves holds at its end.                   *)
(***************************************************************************)
EXTENDS Battlefield, FiniteSetTheorems, WellFoundedInduction, TLAPS

Event  == {"enter", "exit", "won", "lost"}
Effect == [area : 0..Areas, tier : 0..1]
Battle == [initiator : Player, registered : SUBSET Player, entered : SUBSET Player,
           status : {"open", "locked", "won", "lost"}, enmity : SUBSET Player,
           timer : 0..DelayToExit, cleanup : BOOLEAN, cleaned : BOOLEAN]
Char   == [here : BOOLEAN, inside : 0..Areas, effect : Effect, events : Seq(Event),
           existing : BOOLEAN, ask : 0..(Areas - 1), visited : BOOLEAN]
Fields == UNION {[D -> Battle] : D \in SUBSET Area}
Worlds == [fields : Fields, pc : [Player -> Char], orphans : SUBSET Player]

\* Who is inside a battlefield is in the zone, and in the list of that battlefield.
InsideOK(w) == \A p \in Player : w.pc[p].inside # 0 =>
  /\ w.pc[p].here /\ w.pc[p].inside \in DOMAIN w.fields
  /\ p \in w.fields[w.pc[p].inside].entered

\* Who is in a list is inside and registered, and there is room for them.
ListsOK(w) == \A a \in DOMAIN w.fields :
  /\ \A p \in w.fields[a].entered : w.pc[p].inside = a /\ p \in w.fields[a].registered
  /\ Cardinality(w.fields[a].entered) <= MaxPlayers

Good == {w \in Worlds : InsideOK(w) /\ ListsOK(w)}

\* Nobody moves from w to v.
Still(w, v) ==
  /\ DOMAIN v.fields = DOMAIN w.fields
  /\ \A a \in DOMAIN w.fields : /\ v.fields[a].entered = w.fields[a].entered
                                /\ w.fields[a].registered \subseteq v.fields[a].registered
  /\ \A p \in Player : v.pc[p].inside = w.pc[p].inside /\ v.pc[p].here = w.pc[p].here

\* Nobody comes into a battlefield that was there.
Keeps(w, v) ==
  /\ DOMAIN w.fields \subseteq DOMAIN v.fields
  /\ \A p \in Player : v.pc[p].inside # 0 /\ v.pc[p].inside # w.pc[p].inside
       => v.pc[p].inside \notin DOMAIN w.fields

-----------------------------------------------------------------------------
(* Worlds.                                                                  *)

\* What the fields of a zone are.
LEMMA FieldsAre ==
  ASSUME NEW f
  PROVE  f \in Fields <=> /\ DOMAIN f \subseteq Area /\ f = [a \in DOMAIN f |-> f[a]]
                          /\ \A a \in DOMAIN f : f[a] \in Battle
BY DEF Fields

\* The entry of one character is written.
LEMMA PcWritten ==
  ASSUME NEW w \in Worlds, NEW p \in Player, NEW c \in Char, NEW v,
         v = [w EXCEPT !.pc = [w.pc EXCEPT ![p] = c]]
  PROVE  /\ v \in Worlds /\ v.fields = w.fields /\ v.orphans = w.orphans /\ v.pc[p] = c
         /\ \A q \in Player \ {p} : v.pc[q] = w.pc[q]
<1>1. PICK h : h = [w.pc EXCEPT ![p] = c]
  OBVIOUS
<1>2. w.pc \in [Player -> Char] /\ w.fields \in Fields /\ w.orphans \in SUBSET Player
  BY DEF Worlds
<1>3. h \in [Player -> Char] /\ h[p] = c /\ \A q \in Player \ {p} : h[q] = w.pc[q]
  BY <1>1, <1>2
<1>4. w = [fields |-> w.fields, pc |-> w.pc, orphans |-> w.orphans]
  BY DEF Worlds
<1>5. v = [fields |-> w.fields, pc |-> h, orphans |-> w.orphans]
  BY <1>1, <1>4
<1> QED
  BY <1>2, <1>3, <1>5 DEF Worlds

\* The battlefield of one area is written.
LEMMA FieldWritten ==
  ASSUME NEW w \in Worlds, NEW a \in DOMAIN w.fields, NEW f \in Battle, NEW v,
         v = [w EXCEPT !.fields = [w.fields EXCEPT ![a] = f]]
  PROVE  /\ v \in Worlds /\ DOMAIN v.fields = DOMAIN w.fields /\ v.pc = w.pc /\ v.orphans = w.orphans
         /\ v.fields[a] = f /\ \A b \in DOMAIN w.fields \ {a} : v.fields[b] = w.fields[b]
<1>1. PICK h : h = [w.fields EXCEPT ![a] = f]
  OBVIOUS
<1>2. w.pc \in [Player -> Char] /\ w.fields \in Fields /\ w.orphans \in SUBSET Player
  BY DEF Worlds
<1>3. w.fields = [b \in DOMAIN w.fields |-> w.fields[b]] /\ DOMAIN w.fields \subseteq Area
      /\ \A b \in DOMAIN w.fields : w.fields[b] \in Battle
  BY <1>2, FieldsAre
<1>4. DOMAIN h = DOMAIN w.fields /\ h[a] = f /\ \A b \in DOMAIN w.fields \ {a} : h[b] = w.fields[b]
  BY <1>1, <1>3
<1>5. h = [b \in DOMAIN h |-> h[b]] /\ \A b \in DOMAIN h : h[b] \in Battle
  BY <1>1, <1>3, <1>4
<1>6. h \in Fields
  BY <1>3, <1>4, <1>5, FieldsAre
<1>7. w = [fields |-> w.fields, pc |-> w.pc, orphans |-> w.orphans]
  BY DEF Worlds
<1>8. v = [fields |-> h, pc |-> w.pc, orphans |-> w.orphans]
  BY <1>1, <1>7
<1> QED
  BY <1>2, <1>4, <1>6, <1>8 DEF Worlds

\* Where nobody moves a good world stays one.
LEMMA StillGood ==
  ASSUME NEW w \in Good, NEW v \in Worlds, Still(w, v)
  PROVE  v \in Good /\ Keeps(w, v)
<1>1. InsideOK(v)
  BY DEF Still, Good, InsideOK
<1>2. ListsOK(v)
  <2> SUFFICES ASSUME NEW a \in DOMAIN v.fields
               PROVE  /\ \A p \in v.fields[a].entered : v.pc[p].inside = a /\ p \in v.fields[a].registered
                      /\ Cardinality(v.fields[a].entered) <= MaxPlayers
    BY DEF ListsOK
  <2>1. a \in DOMAIN w.fields /\ v.fields[a].entered = w.fields[a].entered
        /\ w.fields[a].registered \subseteq v.fields[a].registered
    BY DEF Still
  <2>2. /\ \A p \in w.fields[a].entered : w.pc[p].inside = a /\ p \in w.fields[a].registered
        /\ Cardinality(w.fields[a].entered) <= MaxPlayers
    BY <2>1 DEF Good, ListsOK
  <2>3. w.fields[a].entered \subseteq Player
    BY <2>1, FieldsAre DEF Good, Worlds, Battle
  <2> QED
    BY <2>1, <2>2, <2>3 DEF Still
<1>3. Keeps(w, v)
  BY DEF Still, Keeps
<1> QED
  BY <1>1, <1>2, <1>3 DEF Good

\* Steps follow each other.
LEMMA StillThen ==
  ASSUME NEW w, NEW v, NEW u, Still(w, v), Still(v, u)
  PROVE  Still(w, u)
BY DEF Still

\* The same of the weaker relation.
LEMMA KeepsThen ==
  ASSUME NEW w, NEW v, NEW u, Keeps(w, v), Keeps(v, u)
  PROVE  Keeps(w, u)
BY DEF Keeps

\* An entry that keeps its place.
LEMMA PcStill ==
  ASSUME NEW w \in Worlds, NEW p \in Player, NEW c \in Char, c.inside = w.pc[p].inside, c.here = w.pc[p].here,
         NEW v, v = [w EXCEPT !.pc = [w.pc EXCEPT ![p] = c]]
  PROVE  v \in Worlds /\ Still(w, v)
<1>1. v \in Worlds /\ v.fields = w.fields
  BY PcWritten
<1>2. v.pc[p] = c
  <2>1. w.pc \in [Player -> Char] /\ w = [fields |-> w.fields, pc |-> w.pc, orphans |-> w.orphans]
    BY DEF Worlds
  <2>2. v.pc = [w.pc EXCEPT ![p] = c]
    BY <2>1
  <2> QED
    BY <2>1, <2>2
<1>3. ASSUME NEW q \in Player \ {p} PROVE v.pc[q] = w.pc[q]
  BY PcWritten
<1> QED
  BY <1>1, <1>2, <1>3 DEF Still

\* A battlefield that keeps its list.
LEMMA FieldStill ==
  ASSUME NEW w \in Worlds, NEW a \in DOMAIN w.fields, NEW f \in Battle, f.entered = w.fields[a].entered,
         w.fields[a].registered \subseteq f.registered,
         NEW v, v = [w EXCEPT !.fields = [w.fields EXCEPT ![a] = f]]
  PROVE  v \in Worlds /\ Still(w, v)
<1>1. /\ v \in Worlds /\ DOMAIN v.fields = DOMAIN w.fields /\ v.pc = w.pc /\ v.orphans = w.orphans
      /\ v.fields[a] = f /\ \A b \in DOMAIN w.fields \ {a} : v.fields[b] = w.fields[b]
  BY FieldWritten
<1> QED
  BY <1>1 DEF Still

\* Losing the effect.
LEMMA LoseEffectOK ==
  ASSUME NEW w \in Worlds, NEW S
  PROVE  /\ LoseEffect(w, S) \in Worlds /\ Still(w, LoseEffect(w, S))
         /\ LoseEffect(w, S).fields = w.fields
         /\ \A p \in Player : LoseEffect(w, S).pc[p].effect \in {w.pc[p].effect, NoEffect}
         /\ \A p \in Player \ S : LoseEffect(w, S).pc[p] = w.pc[p]
<1> USE BattlefieldAssumption
<1>1. w.pc \in [Player -> Char] /\ w.fields \in Fields /\ w.orphans \in SUBSET Player
      /\ w = [fields |-> w.fields, pc |-> w.pc, orphans |-> w.orphans]
  BY DEF Worlds
<1> DEFINE c(p) == IF p \in S /\ HasEffect(w, p) THEN [w.pc[p] EXCEPT !.effect = NoEffect, !.ask = 0] ELSE w.pc[p]
           h == [p \in Player |-> c(p)]
<1>2. ASSUME NEW p \in Player
      PROVE  /\ c(p) \in Char /\ c(p).inside = w.pc[p].inside /\ c(p).here = w.pc[p].here
             /\ c(p).effect \in {w.pc[p].effect, NoEffect} /\ (p \notin S => c(p) = w.pc[p])
  <2>1. w.pc[p] \in Char /\ NoEffect \in Effect /\ 0 \in 0..(Areas - 1)
    BY <1>1 DEF NoEffect, Effect
  <2>2. CASE p \in S /\ HasEffect(w, p)
    <3>1. PICK d : d = [w.pc[p] EXCEPT !.effect = NoEffect, !.ask = 0]
      OBVIOUS
    <3>2. d \in Char /\ d.inside = w.pc[p].inside /\ d.here = w.pc[p].here /\ d.effect = NoEffect
      BY <2>1, <3>1 DEF Char
    <3> QED
      BY <2>2, <3>1, <3>2
  <2>3. CASE ~(p \in S /\ HasEffect(w, p))
    BY <2>1, <2>3
  <2> QED
    BY <2>2, <2>3
<1>3. LoseEffect(w, S) = [w EXCEPT !.pc = h]
  BY DEF LoseEffect
<1>4. \A p \in Player : h[p] = c(p)
  OBVIOUS
<1>5. h \in [Player -> Char]
  BY <1>2
<1> HIDE DEF c, h
<1>6. LoseEffect(w, S) = [fields |-> w.fields, pc |-> h, orphans |-> w.orphans]
  BY <1>1, <1>3
<1>7. LoseEffect(w, S) \in Worlds /\ LoseEffect(w, S).pc = h /\ LoseEffect(w, S).fields = w.fields
  BY <1>1, <1>5, <1>6 DEF Worlds
<1> QED
  BY <1>2, <1>4, <1>7 DEF Still


-----------------------------------------------------------------------------
(* Battlefields.                                                            *)

\* What is known of a good world.
LEMMA GoodIs ==
  ASSUME NEW w \in Good
  PROVE  /\ w \in Worlds /\ w.pc \in [Player -> Char] /\ DOMAIN w.fields \subseteq Area
         /\ w.fields = [b \in DOMAIN w.fields |-> w.fields[b]]
         /\ \A a \in DOMAIN w.fields : w.fields[a] \in Battle
BY FieldsAre DEF Good, Worlds

\* A player is registered.
LEMMA RegisteredOK ==
  ASSUME NEW w \in Good, NEW a \in DOMAIN w.fields, NEW p \in Player
  PROVE  /\ InsertEntity(w, a, p, FALSE) \in Good /\ Still(w, InsertEntity(w, a, p, FALSE))
         /\ InsertEntity(w, a, p, FALSE).pc = w.pc
         /\ HasPlace(w, a, p) => Registered(InsertEntity(w, a, p, FALSE), p) = Registered(w, p) \cup {a}
<1> DEFINE v == InsertEntity(w, a, p, FALSE)
           f == [w.fields[a] EXCEPT !.registered = w.fields[a].registered \cup {p}]
<1>0. w \in Worlds /\ w.fields[a] \in Battle
  BY GoodIs
<1>1. CASE ~HasPlace(w, a, p)
  <2>1. v = w
    BY <1>1 DEF InsertEntity
  <2>2. Still(w, w)
    BY DEF Still
  <2> QED
    BY <1>1, <2>1, <2>2
<1>2. CASE HasPlace(w, a, p)
  <2>1. v = [w EXCEPT !.fields = [w.fields EXCEPT ![a] = f]]
    BY <1>2 DEF InsertEntity
  <2>2. f \in Battle /\ f.entered = w.fields[a].entered /\ f.registered = w.fields[a].registered \cup {p}
    BY <1>0 DEF Battle
  <2> HIDE DEF v, f
  <2>3. v \in Worlds /\ Still(w, v)
    BY <1>0, <2>1, <2>2, FieldStill
  <2>4. v \in Good
    BY <2>3, StillGood
  <2>5. /\ v.pc = w.pc /\ DOMAIN v.fields = DOMAIN w.fields /\ v.fields[a] = f
        /\ \A b \in DOMAIN w.fields \ {a} : v.fields[b] = w.fields[b]
    BY <1>0, <2>1, <2>2, FieldWritten
  <2>6. Registered(v, p) = Registered(w, p) \cup {a}
    BY <2>2, <2>5 DEF Registered
  <2> QED
    BY <2>3, <2>4, <2>5, <2>6 DEF v
<1> QED
  BY <1>1, <1>2

\* A player who is registered goes in, when there is room.
LEMMA EnteredOK ==
  ASSUME NEW w \in Good, NEW a \in DOMAIN w.fields, NEW p \in Player, w.pc[p].here,
         p \in w.fields[a].registered
  PROVE  /\ InsertEntity(w, a, p, TRUE) \in Good
         /\ DOMAIN InsertEntity(w, a, p, TRUE).fields = DOMAIN w.fields
         /\ \A q \in Player \ {p} : InsertEntity(w, a, p, TRUE).pc[q] = w.pc[q]
         /\ InsertEntity(w, a, p, TRUE).pc[p].inside = IF HasPlace(w, a, p) THEN a ELSE w.pc[p].inside
         /\ InsertEntity(w, a, p, TRUE).pc[p].here = w.pc[p].here
<1> USE BattlefieldAssumption
<1> DEFINE v == InsertEntity(w, a, p, TRUE)
           f == [w.fields[a] EXCEPT !.entered = w.fields[a].entered \cup {p}]
           c == [w.pc[p] EXCEPT !.inside = a, !.visited = TRUE]
           u == [w EXCEPT !.fields = [w.fields EXCEPT ![a] = f]]
<1>0. w \in Worlds /\ w.fields[a] \in Battle /\ w.pc[p] \in Char /\ a \in Area /\ DOMAIN w.fields \subseteq Area
  BY GoodIs
<1>1. CASE ~HasPlace(w, a, p)
  BY <1>1 DEF InsertEntity
<1>2. CASE HasPlace(w, a, p)
  <2>0. v = [w EXCEPT !.fields = [w.fields EXCEPT ![a] = f], !.pc = [w.pc EXCEPT ![p] = c]]
    BY <1>2 DEF InsertEntity
  <2>1. f \in Battle /\ f.entered = w.fields[a].entered \cup {p} /\ f.registered = w.fields[a].registered
    BY <1>0 DEF Battle
  <2>2. c \in Char /\ c.inside = a /\ c.here
    <3>1. a \in 0..Areas
      BY <1>0 DEF Area
    <3>2. PICK d : d = [w.pc[p] EXCEPT !.inside = a, !.visited = TRUE]
      OBVIOUS
    <3>3. d \in Char
      BY <1>0, <3>1, <3>2 DEF Char
    <3>4. d.inside = a /\ d.here = w.pc[p].here
      BY <1>0, <3>2 DEF Char
    <3> QED
      BY <3>2, <3>3, <3>4
  <2>3. v = [u EXCEPT !.pc = [u.pc EXCEPT ![p] = c]]
    <3>1. w = [fields |-> w.fields, pc |-> w.pc, orphans |-> w.orphans]
      BY <1>0 DEF Worlds
    <3> HIDE DEF f, c, v
    <3> QED
      BY <2>0, <3>1
  <2>4. u = [w EXCEPT !.fields = [w.fields EXCEPT ![a] = f]]
    OBVIOUS
  <2> HIDE DEF v, f, c, u
  <2>5. /\ u \in Worlds /\ DOMAIN u.fields = DOMAIN w.fields /\ u.pc = w.pc /\ u.fields[a] = f
        /\ \A b \in DOMAIN w.fields \ {a} : u.fields[b] = w.fields[b]
    BY <1>0, <2>1, <2>4, FieldWritten
  <2>6. v \in Worlds /\ v.fields = u.fields /\ v.pc[p] = c /\ \A q \in Player \ {p} : v.pc[q] = w.pc[q]
    <3>1. v \in Worlds /\ v.fields = u.fields
      BY <2>2, <2>3, <2>5, PcWritten
    <3>2. v.pc = [u.pc EXCEPT ![p] = c]
      BY <2>3, <2>5 DEF Worlds
    <3>3. w.pc \in [Player -> Char]
      BY <1>0 DEF Worlds
    <3> QED
      BY <2>5, <3>1, <3>2, <3>3
  <2>7. w.pc[p].inside = 0 /\ Cardinality(w.fields[a].entered) < MaxPlayers
    BY <1>2 DEF HasPlace
  <2>8. InsideOK(v)
    <3>1. \A q \in Player : w.pc[q].inside # 0 =>
            w.pc[q].here /\ w.pc[q].inside \in DOMAIN w.fields /\ q \in w.fields[w.pc[q].inside].entered
      BY DEF Good, InsideOK
    <3>2. ASSUME NEW q \in Player \ {p}, v.pc[q].inside # 0
          PROVE  v.pc[q].here /\ v.pc[q].inside \in DOMAIN v.fields /\ q \in v.fields[v.pc[q].inside].entered
      BY <2>1, <2>5, <2>6, <3>1, <3>2
    <3>3. v.pc[p].here /\ v.pc[p].inside \in DOMAIN v.fields /\ p \in v.fields[v.pc[p].inside].entered
      BY <2>1, <2>2, <2>5, <2>6
    <3> QED
      BY <3>2, <3>3 DEF InsideOK
  <2>9. \A b \in DOMAIN w.fields : p \notin w.fields[b].entered
    <3>1. \A b \in DOMAIN w.fields : \A q \in w.fields[b].entered : w.pc[q].inside = b
      BY DEF Good, ListsOK
    <3>2. \A b \in DOMAIN w.fields : b # 0
      BY <1>0 DEF Area
    <3> QED
      BY <2>7, <3>1, <3>2
  <2>10. ListsOK(v)
    <3>1. \A b \in DOMAIN w.fields :
            /\ \A q \in w.fields[b].entered : w.pc[q].inside = b /\ q \in w.fields[b].registered
            /\ Cardinality(w.fields[b].entered) <= MaxPlayers /\ w.fields[b].entered \subseteq Player
      BY GoodIs DEF Good, ListsOK, Battle
    <3>2. ASSUME NEW b \in DOMAIN w.fields \ {a}
          PROVE  /\ \A q \in v.fields[b].entered : v.pc[q].inside = b /\ q \in v.fields[b].registered
                 /\ Cardinality(v.fields[b].entered) <= MaxPlayers
      BY <2>5, <2>6, <2>9, <3>1
    <3>3. Cardinality(f.entered) <= MaxPlayers
      <4>1. IsFiniteSet(w.fields[a].entered)
        BY <3>1, PlayersAssumption, FS_Subset
      <4>2. Cardinality(w.fields[a].entered) \in Nat
            /\ Cardinality(w.fields[a].entered \cup {p}) = Cardinality(w.fields[a].entered) + 1
        BY <2>9, <4>1, FS_AddElement, FS_CardinalityType
      <4> QED
        BY <2>1, <2>7, <4>2
    <3>4. /\ \A q \in v.fields[a].entered : v.pc[q].inside = a /\ q \in v.fields[a].registered
          /\ Cardinality(v.fields[a].entered) <= MaxPlayers
      <4>1. v.fields[a] = f
        BY <2>5, <2>6
      <4>2. ASSUME NEW q \in f.entered PROVE v.pc[q].inside = a /\ q \in f.registered
        <5>1. CASE q = p
          BY <2>1, <2>2, <2>6, <5>1
        <5>2. CASE q # p
          <6>1. q \in w.fields[a].entered
            BY <2>1, <5>2
          <6>2. w.pc[q].inside = a /\ q \in w.fields[a].registered /\ q \in Player \ {p}
            BY <3>1, <5>2, <6>1
          <6> QED
            BY <2>1, <2>6, <6>2
        <5> QED
          BY <5>1, <5>2
      <4> QED
        BY <3>3, <4>1, <4>2
    <3> QED
      BY <2>5, <2>6, <3>2, <3>4 DEF ListsOK
  <2>11. v \in Good
    BY <2>6, <2>8, <2>10 DEF Good
  <2> QED
    BY <1>2, <2>2, <2>5, <2>6, <2>11 DEF v
<1> QED
  BY <1>1, <1>2

\* The part of RemoveEntity that takes a player out.
Without(w, a, p) ==
  [w EXCEPT !.fields[a].entered = @ \ {p}, !.fields[a].enmity = @ \ {p}, !.pc[p].inside = 0]

\* That part leaves nobody else out.
LEMMA TakenOut ==
  ASSUME NEW w \in Good, NEW a \in DOMAIN w.fields, NEW p \in Player, w.pc[p].inside \in {0, a}
  PROVE  /\ Without(w, a, p) \in Good /\ DOMAIN Without(w, a, p).fields = DOMAIN w.fields
         /\ \A q \in Player : Without(w, a, p).pc[q].inside = IF q = p THEN 0 ELSE w.pc[q].inside
         /\ \A q \in Player : Without(w, a, p).pc[q].here = w.pc[q].here
<1> USE BattlefieldAssumption
<1>0. w \in Worlds /\ w.fields[a] \in Battle /\ w.pc[p] \in Char /\ a \in Area /\ DOMAIN w.fields \subseteq Area
      /\ w.pc \in [Player -> Char]
  BY GoodIs
<1>1. PICK f : f = [w.fields[a] EXCEPT !.entered = w.fields[a].entered \ {p}, !.enmity = w.fields[a].enmity \ {p}]
  OBVIOUS
<1>2. PICK c : c = [w.pc[p] EXCEPT !.inside = 0]
  OBVIOUS
<1>3. f \in Battle /\ f.entered = w.fields[a].entered \ {p} /\ f.registered = w.fields[a].registered
  BY <1>0, <1>1 DEF Battle
<1>4. c \in Char /\ c.inside = 0 /\ c.here = w.pc[p].here
  <2>1. 0 \in 0..Areas
    OBVIOUS
  <2>2. c \in Char
    BY <1>0, <1>2, <2>1 DEF Char
  <2> QED
    BY <1>0, <1>2, <2>2 DEF Char
<1>5. PICK u : u = [w EXCEPT !.fields = [w.fields EXCEPT ![a] = f]]
  OBVIOUS
<1>6. /\ u \in Worlds /\ DOMAIN u.fields = DOMAIN w.fields /\ u.pc = w.pc /\ u.fields[a] = f
      /\ \A b \in DOMAIN w.fields \ {a} : u.fields[b] = w.fields[b]
  BY <1>0, <1>3, <1>5, FieldWritten
<1>7. PICK v : v = [u EXCEPT !.pc = [u.pc EXCEPT ![p] = c]]
  OBVIOUS
<1>17. v = Without(w, a, p)
  <2>1. w = [fields |-> w.fields, pc |-> w.pc, orphans |-> w.orphans]
    BY <1>0 DEF Worlds
  <2>2. Without(w, a, p) = [fields |-> [w.fields EXCEPT ![a] = f], pc |-> [w.pc EXCEPT ![p] = c],
                            orphans |-> w.orphans]
    <3>1. PICK g : g = [w.fields[a] EXCEPT !.entered = w.fields[a].entered \ {p}]
      OBVIOUS
    <3>2. PICK z : z = [w EXCEPT !.fields[a].entered = @ \ {p}]
      OBVIOUS
    <3>3. PICK y : y = [z EXCEPT !.fields[a].enmity = @ \ {p}]
      OBVIOUS
    <3>4. Without(w, a, p) = [y EXCEPT !.pc[p].inside = 0]
      BY <3>2, <3>3 DEF Without
    <3>5. PICK h : h = [w.fields EXCEPT ![a] = g]
      OBVIOUS
    <3>6. h[a] = g /\ DOMAIN h = DOMAIN w.fields
          /\ h = [b \in DOMAIN w.fields |-> IF b = a THEN g ELSE w.fields[b]]
      BY <3>5
    <3>7. z = [fields |-> h, pc |-> w.pc, orphans |-> w.orphans]
      BY <2>1, <3>1, <3>2, <3>5
    <3>8. [g EXCEPT !.enmity = g.enmity \ {p}] = f
      BY <1>0, <1>1, <3>1 DEF Battle
    <3>9. PICK k : k = [h EXCEPT ![a] = f]
      OBVIOUS
    <3>10. y = [fields |-> k, pc |-> w.pc, orphans |-> w.orphans]
      <4>1. y = [z EXCEPT !.fields = [h EXCEPT ![a] = [g EXCEPT !.enmity = g.enmity \ {p}]]]
        BY <3>3, <3>6, <3>7
      <4>2. y = [z EXCEPT !.fields = k]
        BY <3>8, <3>9, <4>1
      <4> QED
        BY <3>7, <4>2
    <3>11. k = [w.fields EXCEPT ![a] = f]
      BY <3>6, <3>9
    <3>12. Without(w, a, p) = [fields |-> k, pc |-> [w.pc EXCEPT ![p] = c], orphans |-> w.orphans]
      BY <1>2, <3>4, <3>10
    <3> QED
      BY <3>11, <3>12
  <2>3. PICK h : h = [w.fields EXCEPT ![a] = f]
    OBVIOUS
  <2>4. u = [fields |-> h, pc |-> w.pc, orphans |-> w.orphans]
    BY <1>5, <2>1, <2>3
  <2>5. v = [fields |-> h, pc |-> [w.pc EXCEPT ![p] = c], orphans |-> w.orphans]
    BY <1>7, <2>4
  <2> QED
    BY <2>2, <2>3, <2>5
<1>8. v \in Worlds /\ v.fields = u.fields
  BY <1>4, <1>6, <1>7, PcWritten
<1>9. v.pc = [w.pc EXCEPT ![p] = c]
  BY <1>6, <1>7 DEF Worlds
<1>10. v.pc[p] = c /\ \A q \in Player \ {p} : v.pc[q] = w.pc[q]
  BY <1>0, <1>9
<1>11. ListsOK(v)
  <2>1. \A b \in DOMAIN w.fields :
          /\ \A q \in w.fields[b].entered : w.pc[q].inside = b /\ q \in w.fields[b].registered
          /\ Cardinality(w.fields[b].entered) <= MaxPlayers /\ w.fields[b].entered \subseteq Player
    BY GoodIs DEF Good, ListsOK, Battle
  <2>2. \A b \in DOMAIN w.fields : b # 0
    BY <1>0 DEF Area
  <2>3. \A b \in DOMAIN w.fields \ {a} : p \notin w.fields[b].entered
    BY <2>1, <2>2
  <2>4. ASSUME NEW b \in DOMAIN w.fields \ {a}
        PROVE  /\ \A q \in v.fields[b].entered : v.pc[q].inside = b /\ q \in v.fields[b].registered
               /\ Cardinality(v.fields[b].entered) <= MaxPlayers
    BY <1>6, <1>8, <1>10, <2>1, <2>3
  <2>5. Cardinality(f.entered) <= MaxPlayers
    <3>1. IsFiniteSet(w.fields[a].entered)
      BY <2>1, PlayersAssumption, FS_Subset
    <3>2. IsFiniteSet(f.entered) /\ Cardinality(f.entered) <= Cardinality(w.fields[a].entered)
      BY <1>3, <3>1, FS_Subset
    <3>3. Cardinality(f.entered) \in Nat /\ Cardinality(w.fields[a].entered) \in Nat
      BY <3>1, <3>2, FS_CardinalityType
    <3> QED
      BY <2>1, <3>2, <3>3
  <2>6. \A q \in v.fields[a].entered : v.pc[q].inside = a /\ q \in v.fields[a].registered
    BY <1>3, <1>6, <1>8, <1>10, <2>1
  <2>7. Cardinality(v.fields[a].entered) <= MaxPlayers
    BY <1>6, <1>8, <2>5
  <2> QED
    BY <1>6, <1>8, <2>4, <2>6, <2>7 DEF ListsOK
<1>12. InsideOK(v)
  <2>1. \A q \in Player : w.pc[q].inside # 0 =>
          w.pc[q].here /\ w.pc[q].inside \in DOMAIN w.fields /\ q \in w.fields[w.pc[q].inside].entered
    BY DEF Good, InsideOK
  <2>2. ASSUME NEW q \in Player \ {p}, v.pc[q].inside # 0
        PROVE  v.pc[q].here /\ v.pc[q].inside \in DOMAIN v.fields /\ q \in v.fields[v.pc[q].inside].entered
    BY <1>3, <1>6, <1>8, <1>10, <2>1, <2>2
  <2>3. v.pc[p].inside = 0
    BY <1>4, <1>10
  <2> QED
    BY <2>2, <2>3 DEF InsideOK
<1>13. v \in Good
  BY <1>8, <1>11, <1>12 DEF Good
<1>14. \A q \in Player : v.pc[q].inside = IF q = p THEN 0 ELSE w.pc[q].inside
  BY <1>4, <1>10
<1>15. \A q \in Player : v.pc[q].here = w.pc[q].here
  BY <1>4, <1>10
<1> QED
  BY <1>6, <1>8, <1>13, <1>14, <1>15, <1>17

\* RemoveEntity takes out the one player it names.
LEMMA RemovedOK ==
  ASSUME NEW w \in Good, NEW a \in DOMAIN w.fields, NEW p \in Player, w.pc[p].inside \in {0, a},
         NEW code
  PROVE  /\ RemoveEntity(w, a, p, code) \in Good
         /\ DOMAIN RemoveEntity(w, a, p, code).fields = DOMAIN w.fields
         /\ \A q \in Player : RemoveEntity(w, a, p, code).pc[q].inside = IF q = p THEN 0 ELSE w.pc[q].inside
         /\ \A q \in Player : RemoveEntity(w, a, p, code).pc[q].here = w.pc[q].here
<1>9. PICK v : v = RemoveEntity(w, a, p, code)
  OBVIOUS
<1> SUFFICES /\ v \in Good /\ DOMAIN v.fields = DOMAIN w.fields
             /\ \A q \in Player : v.pc[q].inside = IF q = p THEN 0 ELSE w.pc[q].inside
             /\ \A q \in Player : v.pc[q].here = w.pc[q].here
  BY <1>9
<1> USE BattlefieldAssumption
<1>1. PICK out : out = Without(w, a, p)
  OBVIOUS
<1>2. /\ out \in Good /\ DOMAIN out.fields = DOMAIN w.fields
      /\ \A q \in Player : out.pc[q].inside = IF q = p THEN 0 ELSE w.pc[q].inside
      /\ \A q \in Player : out.pc[q].here = w.pc[q].here
  BY <1>1, TakenOut
<1>3. out \in Worlds /\ out.pc[p] \in Char
  BY <1>2, GoodIs
<1>4. v \in {out, LoseEffect(out, {p}), [out EXCEPT !.pc[p].effect.tier = 0]}
  BY <1>1, <1>9 DEF RemoveEntity, Without
<1>5. CASE v = out
  BY <1>2, <1>5
<1>6. ASSUME v \in Worlds, Still(out, v)
      PROVE  /\ v \in Good /\ DOMAIN v.fields = DOMAIN w.fields
             /\ \A q \in Player : v.pc[q].inside = IF q = p THEN 0 ELSE w.pc[q].inside
             /\ \A q \in Player : v.pc[q].here = w.pc[q].here
  <2>1. v \in Good
    BY <1>2, <1>6, StillGood
  <2> QED
    BY <1>2, <1>6, <2>1 DEF Still
<1>7. CASE v = LoseEffect(out, {p})
  <2>1. v \in Worlds /\ Still(out, v)
    BY <1>3, <1>7, LoseEffectOK
  <2> QED
    BY <1>6, <2>1
<1>8. CASE v = [out EXCEPT !.pc[p].effect.tier = 0]
  <2>1. PICK c : c = [out.pc[p] EXCEPT !.effect = [out.pc[p].effect EXCEPT !.tier = 0]]
    OBVIOUS
  <2>2. c \in Char /\ c.inside = out.pc[p].inside /\ c.here = out.pc[p].here
    <3>1. 0 \in 0..1
      OBVIOUS
    <3>2. PICK e : e = [out.pc[p].effect EXCEPT !.tier = 0]
      OBVIOUS
    <3>3. e \in Effect
      BY <1>3, <3>1, <3>2 DEF Char, Effect
    <3>4. c = [out.pc[p] EXCEPT !.effect = e]
      BY <2>1, <3>2
    <3>5. c \in Char
      BY <1>3, <3>3, <3>4 DEF Char
    <3> QED
      BY <1>3, <3>4, <3>5 DEF Char
  <2>3. v = [out EXCEPT !.pc = [out.pc EXCEPT ![p] = c]]
    BY <1>8, <2>1
  <2>4. v \in Worlds /\ Still(out, v)
    BY <1>3, <2>2, <2>3, PcStill
  <2> QED
    BY <1>6, <2>4
<1> QED
  BY <1>4, <1>5, <1>7, <1>8

-----------------------------------------------------------------------------
(* The handlers' parts.                                                     *)

\* CheckInProgress moves nobody, and what it leaves open nobody fights in.
LEMMA InProgressOK ==
  ASSUME NEW w \in Good, NEW a \in DOMAIN w.fields, NEW v, v = CheckInProgress(w, a)
  PROVE  /\ v \in Good /\ Still(w, v)
         /\ \A b \in DOMAIN w.fields : v.fields[b].registered = w.fields[b].registered
         /\ ~InProgress(v, a) => w.fields[a].status = "open" /\ w.fields[a].enmity = {}
<1>0. w \in Worlds /\ w.fields[a] \in Battle
  BY GoodIs
<1>1. CASE w.fields[a].enmity = {} \/ w.fields[a].status # "open"
  <2>1. v = w
    BY <1>1 DEF CheckInProgress
  <2>2. Still(w, v)
    BY <2>1 DEF Still
  <2> QED
    BY <1>1, <2>1, <2>2 DEF InProgress
<1>2. CASE ~(w.fields[a].enmity = {} \/ w.fields[a].status # "open")
  <2>1. PICK f : f = [w.fields[a] EXCEPT !.status = "locked"]
    OBVIOUS
  <2>2. f \in Battle /\ f.entered = w.fields[a].entered /\ f.registered = w.fields[a].registered /\ f.status = "locked"
    BY <1>0, <2>1 DEF Battle
  <2>3. PICK u : u = [w EXCEPT !.fields = [w.fields EXCEPT ![a] = f]]
    OBVIOUS
  <2>4. u \in Worlds /\ Still(w, u)
    BY <1>0, <2>2, <2>3, FieldStill
  <2>5. u.fields[a] = f /\ \A b \in DOMAIN w.fields \ {a} : u.fields[b] = w.fields[b]
    BY <1>0, <2>2, <2>3, FieldWritten
  <2>6. PICK S : v = LoseEffect(u, S)
    BY <1>2, <2>1, <2>3 DEF CheckInProgress
  <2>7. v \in Worlds /\ Still(u, v) /\ v.fields = u.fields
    BY <2>4, <2>6, LoseEffectOK
  <2>8. Still(w, v)
    BY <2>4, <2>7, StillThen
  <2>9. v \in Good
    BY <2>7, <2>8, StillGood
  <2>10. InProgress(v, a)
    BY <2>2, <2>5, <2>7 DEF InProgress
  <2> QED
    BY <2>2, <2>5, <2>7, <2>8, <2>9, <2>10
<1> QED
  BY <1>1, <1>2

\* The tick moves nobody.
LEMMA TickOK ==
  ASSUME NEW w \in Good, NEW a \in DOMAIN w.fields, NEW finds,
         NEW v, v = OnBattlefieldTick(w, a, finds)
  PROVE  v \in Good /\ Still(w, v)
<1> USE BattlefieldAssumption
<1>0. w \in Worlds /\ w.fields[a] \in Battle
  BY GoodIs
<1>1. PICK s : s = IF finds = "nothing" THEN w.fields[a].status ELSE "lost"
  OBVIOUS
<1>2. PICK t : t = IF w.fields[a].status \in {"won", "lost"} /\ w.fields[a].timer > 0
                   THEN w.fields[a].timer - 1 ELSE w.fields[a].timer
  OBVIOUS
<1>3. PICK c : c = (w.fields[a].cleanup
                    \/ ((w.fields[a].status \in {"won", "lost"} \/ finds = "time up") /\ w.fields[a].timer = 0))
  OBVIOUS
<1>4. s \in {"open", "locked", "won", "lost"} /\ t \in 0..DelayToExit
  BY <1>0, <1>1, <1>2 DEF Battle
<1>5. c \in BOOLEAN
  BY <1>3
<1>6. PICK f : f = [w.fields[a] EXCEPT !.status = s, !.timer = t, !.cleanup = c]
  OBVIOUS
<1>7. v = [w EXCEPT !.fields = [w.fields EXCEPT ![a] = f]]
  BY <1>1, <1>2, <1>3, <1>6 DEF OnBattlefieldTick
<1>8. f \in Battle
  BY <1>0, <1>4, <1>5, <1>6 DEF Battle
<1>9. f.entered = w.fields[a].entered /\ f.registered = w.fields[a].registered
  BY <1>0, <1>6 DEF Battle
<1>10. v \in Worlds /\ Still(w, v)
  BY <1>0, <1>7, <1>8, <1>9, FieldStill
<1> QED
  BY <1>10, StillGood

\* An entry that keeps its place, in a good world.
LEMMA PcGood ==
  ASSUME NEW w \in Good, NEW p \in Player, NEW c \in Char, c.inside = w.pc[p].inside, c.here = w.pc[p].here,
         NEW v, v = [w EXCEPT !.pc = [w.pc EXCEPT ![p] = c]]
  PROVE  v \in Good /\ Still(w, v) /\ v.fields = w.fields
<1>1. w \in Worlds
  BY GoodIs
<1>2. v \in Worlds /\ Still(w, v)
  BY <1>1, PcStill
<1>3. v.fields = w.fields
  BY <1>1, PcWritten
<1> QED
  BY <1>2, <1>3, StillGood

\* The fields with a new one.
WithNew(w, area, p) ==
  [a \in DOMAIN w.fields \cup {area} |-> IF a = area THEN Created(p) ELSE w.fields[a]]

Opened(w, area, p) == [w EXCEPT !.fields = WithNew(w, area, p)]

\* A new battlefield, which nobody is in.
LEMMA NewBattle ==
  ASSUME NEW w \in Good, NEW a \in Area, a \notin DOMAIN w.fields, NEW p \in Player,
         NEW v, v = Opened(w, a, p)
  PROVE  /\ v \in Good /\ v.pc = w.pc /\ DOMAIN v.fields = DOMAIN w.fields \cup {a}
         /\ v.fields[a] = Created(p) /\ \A b \in DOMAIN w.fields : v.fields[b] = w.fields[b]
<1> USE BattlefieldAssumption
<1>0. w \in Worlds /\ w.pc \in [Player -> Char] /\ DOMAIN w.fields \subseteq Area
      /\ \A b \in DOMAIN w.fields : w.fields[b] \in Battle
  BY GoodIs
<1>1. PICK h : h = WithNew(w, a, p)
  OBVIOUS
<1>2. DOMAIN h = DOMAIN w.fields \cup {a} /\ h[a] = Created(p) /\ h = [b \in DOMAIN h |-> h[b]]
  BY <1>1 DEF WithNew
<1>3. ASSUME NEW b \in DOMAIN w.fields PROVE h[b] = w.fields[b]
  BY <1>1 DEF WithNew
<1>4. Created(p) \in Battle
  BY DEF Created, Battle
<1>5. h \in Fields
  BY <1>0, <1>2, <1>3, <1>4, FieldsAre
<1>6. w = [fields |-> w.fields, pc |-> w.pc, orphans |-> w.orphans] /\ w.orphans \in SUBSET Player
  BY <1>0 DEF Worlds
<1>7. v = [fields |-> h, pc |-> w.pc, orphans |-> w.orphans]
  BY <1>1, <1>6 DEF Opened
<1>8. v \in Worlds /\ v.fields = h /\ v.pc = w.pc
  BY <1>0, <1>5, <1>6, <1>7 DEF Worlds
<1>9. InsideOK(v)
  BY <1>2, <1>3, <1>8 DEF Good, InsideOK
<1>10. ListsOK(v)
  <2>1. Created(p).entered = {} /\ Cardinality({}) <= MaxPlayers
    BY FS_EmptySet DEF Created
  <2>2. \A q \in v.fields[a].entered : v.pc[q].inside = a /\ q \in v.fields[a].registered
    BY <1>2, <1>8, <2>1
  <2>3. Cardinality(v.fields[a].entered) <= MaxPlayers
    BY <1>2, <1>8, <2>1
  <2>4. ASSUME NEW b \in DOMAIN w.fields
        PROVE  /\ \A q \in v.fields[b].entered : v.pc[q].inside = b /\ q \in v.fields[b].registered
               /\ Cardinality(v.fields[b].entered) <= MaxPlayers
    BY <1>3, <1>8 DEF Good, ListsOK
  <2> QED
    BY <1>2, <1>8, <2>2, <2>3, <2>4 DEF ListsOK
<1> QED
  BY <1>2, <1>3, <1>8, <1>9, <1>10 DEF Good

\* What LoadBattlefield lets in is in a battlefield that was not there.
LEMMA LoadOK ==
  ASSUME NEW w \in Good, NEW p \in Player, w.pc[p].here, NEW area \in Area,
         NEW r, r = LoadBattlefield(w, p, area)
  PROVE  /\ r.world \in Good /\ Keeps(w, r.world)
         /\ \A q \in Player : r.world.pc[q].here = w.pc[q].here
         /\ r.code = "cutscene" => r.world.pc[p].inside # 0
         /\ r.code = "increment" => area \in DOMAIN w.fields
<1> USE BattlefieldAssumption
<1>1. CASE Cardinality(DOMAIN w.fields) >= Areas
  <2>1. r = [code |-> "wait", world |-> w]
    BY <1>1 DEF LoadBattlefield
  <2> QED
    BY <2>1 DEF Keeps
<1>2. CASE ~(Cardinality(DOMAIN w.fields) >= Areas) /\ area \in DOMAIN w.fields
  <2>1. r = [code |-> "increment", world |-> w]
    BY <1>2 DEF LoadBattlefield
  <2> QED
    BY <1>2, <2>1 DEF Keeps
<1>3. CASE ~(Cardinality(DOMAIN w.fields) >= Areas) /\ area \notin DOMAIN w.fields
  <2>0. w.pc[p] \in Char /\ w \in Worlds /\ DOMAIN w.fields \subseteq Area
    BY GoodIs
  <2>1. PICK u : u = Opened(w, area, p)
    OBVIOUS
  <2>2. /\ u \in Good /\ u.pc = w.pc /\ DOMAIN u.fields = DOMAIN w.fields \cup {area}
        /\ u.fields[area] = Created(p) /\ \A b \in DOMAIN w.fields : u.fields[b] = w.fields[b]
    <3>1. u \in Good /\ u.pc = w.pc
      BY <1>3, <2>1, NewBattle
    <3>2. DOMAIN u.fields = DOMAIN w.fields \cup {area} /\ u.fields[area] = Created(p)
      BY <1>3, <2>1, NewBattle
    <3>3. \A b \in DOMAIN w.fields : u.fields[b] = w.fields[b]
      BY <1>3, <2>1, NewBattle
    <3> QED
      BY <3>1, <3>2, <3>3
  <2>3. PICK e : e = IF w.pc[p].effect = NoEffect THEN [area |-> area, tier |-> 0] ELSE w.pc[p].effect
    OBVIOUS
  <2>4. PICK c : c = [w.pc[p] EXCEPT !.effect = e]
    OBVIOUS
  <2>5. PICK new : new = [u EXCEPT !.pc = [u.pc EXCEPT ![p] = c]]
    OBVIOUS
  <2>6. e \in Effect
    BY <2>0, <2>3 DEF Char, Effect, Area
  <2>7. c \in Char
    BY <2>0, <2>4, <2>6 DEF Char
  <2>8. c.inside = w.pc[p].inside /\ c.here = w.pc[p].here
    BY <2>0, <2>4 DEF Char
  <2>9. new \in Good /\ Still(u, new) /\ new.fields = u.fields
    <3>1. c.inside = u.pc[p].inside /\ c.here = u.pc[p].here /\ u \in Good
      BY <2>2, <2>8
    <3> QED
      BY <2>5, <2>7, <3>1, PcGood
  <2>10. r = [code |-> "cutscene", world |-> InsertEntity(new, area, p, TRUE)]
    <3>1. w = [fields |-> w.fields, pc |-> w.pc, orphans |-> w.orphans]
      BY <2>0 DEF Worlds
    <3>2. u = [fields |-> WithNew(w, area, p), pc |-> w.pc, orphans |-> w.orphans]
      BY <2>1, <3>1 DEF Opened
    <3>3. new = [fields |-> WithNew(w, area, p), pc |-> [w.pc EXCEPT ![p] = c], orphans |-> w.orphans]
      BY <2>5, <3>2
    <3>4. new = [w EXCEPT !.fields = WithNew(w, area, p), !.pc = [w.pc EXCEPT ![p] = c]]
      <4>1. PICK F : F = WithNew(w, area, p)
        OBVIOUS
      <4>2. PICK P : P = [w.pc EXCEPT ![p] = c]
        OBVIOUS
      <4>3. new = [fields |-> F, pc |-> P, orphans |-> w.orphans]
        BY <3>3, <4>1, <4>2
      <4>4. new = [w EXCEPT !.fields = F, !.pc = P]
        <5>1. u = [w EXCEPT !.fields = F]
          BY <2>1, <4>1 DEF Opened
        <5>2. new = [u EXCEPT !.pc = P]
          BY <2>2, <2>5, <4>2
        <5> QED
          BY <5>1, <5>2
      <4> QED
        BY <4>1, <4>2, <4>4
    <3>5. new = [w EXCEPT !.fields = WithNew(w, area, p),
                          !.pc[p].effect = IF @ = NoEffect THEN [area |-> area, tier |-> 0] ELSE @]
      BY <2>3, <2>4, <3>4
    <3> QED
      BY <1>3, <3>5 DEF LoadBattlefield, WithNew
  <2>11. PICK v : v = InsertEntity(new, area, p, TRUE)
    OBVIOUS
  <2>12. new.pc[p].here /\ p \in new.fields[area].registered /\ area \in DOMAIN new.fields
    BY <2>2, <2>9 DEF Still, Created
  <2>13. v \in Good /\ DOMAIN v.fields = DOMAIN new.fields
    BY <2>9, <2>11, <2>12, EnteredOK
  <2>14. \A q \in Player \ {p} : v.pc[q] = new.pc[q]
    BY <2>9, <2>11, <2>12, EnteredOK
  <2>15. v.pc[p].inside = IF HasPlace(new, area, p) THEN area ELSE new.pc[p].inside
    BY <2>9, <2>11, <2>12, EnteredOK
  <2>16. v.pc[p].here = new.pc[p].here
    BY <2>9, <2>11, <2>12, EnteredOK
  <2>17. \A q \in Player : new.pc[q].inside = w.pc[q].inside /\ new.pc[q].here = w.pc[q].here
    BY <2>2, <2>9 DEF Still
  <2>18. Keeps(w, v)
    BY <1>3, <2>2, <2>9, <2>13, <2>14, <2>15, <2>17 DEF Keeps
  <2>19. v.pc[p].inside # 0
    <3>1. new.fields[area].entered = {} /\ Cardinality({}) = 0
      BY <2>2, <2>9, FS_EmptySet DEF Created
    <3>2. area # 0
      BY DEF Area
    <3> QED
      BY <2>15, <3>1, <3>2 DEF HasPlace
  <2>20. \A q \in Player : v.pc[q].here = w.pc[q].here
    BY <2>14, <2>16, <2>17
  <2>21. r.world = v /\ r.code = "cutscene"
    BY <2>10, <2>11
  <2> QED
    BY <2>13, <2>18, <2>19, <2>20, <2>21
<1> QED
  BY <1>1, <1>2, <1>3

-----------------------------------------------------------------------------
(* Smallest elements, and folds over a finite set.                          *)

\* A set of numbers has a smallest one.
LEMMA MinIn ==
  ASSUME NEW S \in SUBSET Nat, S # {}
  PROVE  Min(S) \in S /\ \A y \in S : Min(S) <= y
<1>1. PICK x \in S : \A y \in S : ~(<<y, x>> \in OpToRel(<, Nat))
  BY NatLessThanWellFounded, WFMin
<1>2. \A y \in S : ~(y < x)
  BY <1>1 DEF OpToRel
<1>3. \A y \in S : x \in Nat /\ y \in Nat
  BY <1>1
<1>4. \A y \in S : x <= y
  BY <1>2, <1>3
<1> QED
  BY <1>4 DEF Min

\* The element a fold takes out of a set first.
Taken(s) == CHOOSE x \in s : TRUE

\* The sets of at most n elements.
UpTo(S, n) == {T \in SUBSET S : Cardinality(T) <= n}

\* A set loses one element.
LEMMA OneLess ==
  ASSUME NEW S, IsFiniteSet(S), NEW n \in Nat, NEW T \in UpTo(S, n), T # {}
  PROVE  /\ Taken(T) \in T /\ n # 0 /\ T \ {Taken(T)} \in UpTo(S, n - 1)
         /\ Cardinality(T \ {Taken(T)}) < Cardinality(T)
<1>1. T \subseteq S /\ IsFiniteSet(T) /\ Cardinality(T) <= n
  BY FS_Subset DEF UpTo
<1>2. Taken(T) \in T
  BY DEF Taken
<1>3. IsFiniteSet(T \ {Taken(T)}) /\ Cardinality(T \ {Taken(T)}) = Cardinality(T) - 1
  BY <1>1, <1>2, FS_RemoveElement
<1>4. Cardinality(T) \in Nat /\ Cardinality(T \ {Taken(T)}) \in Nat
  BY <1>1, <1>3, FS_CardinalityType
<1>5. n # 0 /\ Cardinality(T \ {Taken(T)}) <= n - 1 /\ Cardinality(T \ {Taken(T)}) < Cardinality(T)
  BY <1>1, <1>3, <1>4
<1> QED
  BY <1>1, <1>2, <1>5 DEF UpTo

\* The recursion of a fold.
Solves(g, S, base, F) ==
  \A s \in SUBSET S : g[s] = IF s = {} THEN base ELSE F[<<Taken(s), g[s \ {Taken(s)}]>>]

\* It has a solution.
LEMMA FoldExists ==
  ASSUME NEW S, IsFiniteSet(S), NEW W, NEW base \in W, NEW F \in [S \X W -> W]
  PROVE  \E g \in [SUBSET S -> W] : Solves(g, S, base, F)
<1> DEFINE N == {n \in Nat : \E g \in [UpTo(S, n) -> W] : \A s \in UpTo(S, n) :
                   g[s] = IF s = {} THEN base ELSE F[<<Taken(s), g[s \ {Taken(s)}]>>]}
<1>1. N = Nat
  <2> SUFFICES ASSUME Nat \ N # {} PROVE FALSE
    OBVIOUS
  <2>1. PICK m \in Nat \ N : \A y \in Nat \ N : ~(<<y, m>> \in OpToRel(<, Nat))
    <3>1. Nat \ N \subseteq Nat
      OBVIOUS
    <3> HIDE DEF N
    <3> QED
      BY <3>1, NatLessThanWellFounded, WFMin
  <2>2. m # 0
    <3> SUFFICES 0 \in N
      BY <2>1
    <3>1. PICK g : g = [s \in UpTo(S, 0) |-> base]
      OBVIOUS
    <3>2. \A s \in UpTo(S, 0) : s = {}
      BY OneLess
    <3>3. g \in [UpTo(S, 0) -> W]
      BY <3>1
    <3>4. \A s \in UpTo(S, 0) : g[s] = base
      BY <3>1
    <3> QED
      BY <3>2, <3>3, <3>4
  <2>14. m \in Nat
    <3> HIDE DEF N
    <3> QED
      BY <2>1
  <2>3. m - 1 \in Nat /\ m - 1 < m
    BY <2>2, <2>14
  <2>4. m - 1 \in N
    <3> HIDE DEF N
    <3> QED
      BY <2>1, <2>3 DEF OpToRel
  <2>5. PICK g \in [UpTo(S, m - 1) -> W] : \A s \in UpTo(S, m - 1) :
          g[s] = IF s = {} THEN base ELSE F[<<Taken(s), g[s \ {Taken(s)}]>>]
    BY <2>4
  <2>6. PICK h : h = [s \in UpTo(S, m) |-> IF s = {} THEN base ELSE F[<<Taken(s), g[s \ {Taken(s)}]>>]]
    OBVIOUS
  <2>7. \A s \in UpTo(S, m) : h[s] = IF s = {} THEN base ELSE F[<<Taken(s), g[s \ {Taken(s)}]>>]
    BY <2>6
  <2>8. ASSUME NEW s \in UpTo(S, m), s # {}
        PROVE  Taken(s) \in S /\ s \ {Taken(s)} \in UpTo(S, m - 1)
    BY <2>8, <2>14, OneLess DEF UpTo
  <2>9. \A s \in UpTo(S, m - 1) : s \in UpTo(S, m) /\ h[s] = g[s]
    <3>1. ASSUME NEW s \in UpTo(S, m - 1) PROVE s \in UpTo(S, m)
      <4>1. IsFiniteSet(s) /\ Cardinality(s) \in Nat /\ Cardinality(s) <= m - 1 /\ s \in SUBSET S
        BY FS_Subset, FS_CardinalityType DEF UpTo
      <4>2. Cardinality(s) <= m
        BY <2>14, <4>1
      <4> QED
        BY <4>1, <4>2 DEF UpTo
    <3> QED
      BY <2>5, <2>7, <3>1
  <2>10. ASSUME NEW s \in UpTo(S, m) PROVE h[s] \in W
    <3>1. CASE s = {}
      BY <2>7, <3>1
    <3>2. CASE s # {}
      <4>1. g[s \ {Taken(s)}] \in W /\ Taken(s) \in S
        BY <2>5, <2>8, <3>2
      <4>2. F[<<Taken(s), g[s \ {Taken(s)}]>>] \in W
        BY <4>1
      <4> QED
        BY <2>7, <3>2, <4>2
    <3> QED
      BY <3>1, <3>2
  <2>11. h \in [UpTo(S, m) -> W]
    BY <2>6, <2>10
  <2>12. ASSUME NEW s \in UpTo(S, m)
         PROVE  h[s] = IF s = {} THEN base ELSE F[<<Taken(s), h[s \ {Taken(s)}]>>]
    BY <2>7, <2>8, <2>9
  <2> QED
    BY <2>1, <2>11, <2>12
<1>2. Cardinality(S) \in N
  BY <1>1, FS_CardinalityType
<1>3. PICK g \in [UpTo(S, Cardinality(S)) -> W] : \A s \in UpTo(S, Cardinality(S)) :
        g[s] = IF s = {} THEN base ELSE F[<<Taken(s), g[s \ {Taken(s)}]>>]
  BY <1>2
<1>4. UpTo(S, Cardinality(S)) = SUBSET S
  BY FS_Subset DEF UpTo
<1> HIDE DEF N
<1> QED
  BY <1>3, <1>4 DEF Solves

\* What every turn of a fold preserves holds at its end.
LEMMA FoldTracks ==
  ASSUME NEW S, IsFiniteSet(S), NEW h, NEW V, h[{}] \in V[{}],
         \A s \in SUBSET S : s # {} /\ h[s \ {Taken(s)}] \in V[s \ {Taken(s)}] => h[s] \in V[s]
  PROVE  h[S] \in V[S]
<1> DEFINE N == {n \in Nat : \A s \in UpTo(S, n) : h[s] \in V[s]}
<1>1. N = Nat
  <2> SUFFICES ASSUME Nat \ N # {} PROVE FALSE
    OBVIOUS
  <2>1. PICK m \in Nat \ N : \A y \in Nat \ N : ~(<<y, m>> \in OpToRel(<, Nat))
    <3>1. Nat \ N \subseteq Nat
      OBVIOUS
    <3> HIDE DEF N
    <3> QED
      BY <3>1, NatLessThanWellFounded, WFMin
  <2>9. m \in Nat
    <3> HIDE DEF N
    <3> QED
      BY <2>1
  <2>2. PICK s \in UpTo(S, m) : h[s] \notin V[s]
    BY <2>1
  <2>3. s # {}
    BY <2>2
  <2>4. m # 0 /\ s \ {Taken(s)} \in UpTo(S, m - 1)
    BY <2>3, <2>9, OneLess
  <2>5. m - 1 \in Nat /\ m - 1 < m
    BY <2>4, <2>9
  <2>6. m - 1 \in N
    <3> HIDE DEF N
    <3> QED
      BY <2>1, <2>5 DEF OpToRel
  <2>7. h[s \ {Taken(s)}] \in V[s \ {Taken(s)}]
    BY <2>4, <2>6
  <2>8. s \in SUBSET S /\ s # {}
    BY <2>3 DEF UpTo
  <2> QED
    BY <2>2, <2>7, <2>8
<1>2. Cardinality(S) \in Nat
  BY FS_CardinalityType
<1>3. S \in UpTo(S, Cardinality(S))
  BY <1>2 DEF UpTo
<1> QED
  BY <1>1, <1>2, <1>3

-----------------------------------------------------------------------------
(* CBattlefieldHandler.                                                     *)

\* What lets p into the field b in a world.
Open(w, b) == b \in DOMAIN w.fields /\ w.fields[b].status = "open" /\ w.fields[b].enmity = {}

\* RegisterBattlefield lets nobody into a battlefield that was there; where it promises
\* an entry, nobody fights.
LEMMA RegisterOK ==
  ASSUME NEW w \in Good, NEW p \in Player, w.pc[p].here, NEW area \in Area, NEW initiator,
         NEW r, r = RegisterBattlefield(w, p, area, initiator)
  PROVE  /\ r.world \in Good /\ Keeps(w, r.world)
         /\ \A q \in Player : r.world.pc[q].here = w.pc[q].here
         /\ r.code = "cutscene" /\ r.world.pc[p].inside = 0 => Open(w, Min(Registered(r.world, p)))
<1>0. w \in Worlds /\ w.pc[p] \in Char /\ DOMAIN w.fields \subseteq Nat
  <2>1. w \in Worlds /\ w.pc \in [Player -> Char] /\ DOMAIN w.fields \subseteq Area
    BY GoodIs
  <2>2. Area \subseteq Nat
    BY BattlefieldAssumption DEF Area
  <2> QED
    BY <2>1, <2>2
<1>1. PICK mine : mine = Registered(w, p)
  OBVIOUS
<1>2. PICK found : found = IF mine # {} THEN mine ELSE {a \in DOMAIN w.fields : w.fields[a].initiator = initiator}
  OBVIOUS
<1>3. PICK reset : reset = [w EXCEPT !.pc[p].existing = FALSE]
  OBVIOUS
<1>4. found \subseteq DOMAIN w.fields /\ mine \subseteq DOMAIN w.fields
  BY <1>1, <1>2 DEF Registered
<1>5. reset \in Good /\ Still(w, reset) /\ reset.fields = w.fields
  <2>1. PICK c : c = [w.pc[p] EXCEPT !.existing = FALSE]
    OBVIOUS
  <2>2. c \in Char /\ c.inside = w.pc[p].inside /\ c.here = w.pc[p].here
    BY <1>0, <2>1 DEF Char
  <2>3. reset = [w EXCEPT !.pc = [w.pc EXCEPT ![p] = c]]
    BY <1>3, <2>1
  <2>4. reset \in Good /\ Still(w, reset)
    BY <2>2, <2>3, PcGood
  <2>5. reset.fields = w.fields
    BY <2>2, <2>3, PcGood
  <2> QED
    BY <2>4, <2>5
<1>6. ASSUME NEW v \in Good, Still(w, v), r.world = v, r.code # "cutscene"
      PROVE  /\ r.world \in Good /\ Keeps(w, r.world)
             /\ \A q \in Player : r.world.pc[q].here = w.pc[q].here
             /\ r.code = "cutscene" /\ r.world.pc[p].inside = 0 => Open(w, Min(Registered(r.world, p)))
  BY <1>6 DEF Still, Keeps
<1>7. CASE found = {} /\ HasEffect(w, p)
  <2>1. r.code = "reqs" /\ r.world = w
    BY <1>1, <1>2, <1>7 DEF RegisterBattlefield
  <2> QED
    BY <1>6, <2>1 DEF Still
<1>8. CASE found = {} /\ ~HasEffect(w, p) /\ w.pc[p].existing
  <2>1. r.code = "reqs" /\ r.world = reset
    BY <1>1, <1>2, <1>3, <1>8 DEF RegisterBattlefield
  <2> QED
    BY <1>5, <1>6, <2>1
<1>9. CASE found # {} /\ HasEffect(w, p)
  <2>1. PICK a : a = Min(found)
    OBVIOUS
  <2>2. a \in found /\ a \in DOMAIN w.fields
    BY <1>0, <1>4, <1>9, <2>1, MinIn
  <2>3. PICK seen : seen = CheckInProgress(reset, a)
    OBVIOUS
  <2>4. r = IF InProgress(seen, a) THEN [code |-> "locked", world |-> seen]
            ELSE IF area # a THEN [code |-> "increment", world |-> seen]
            ELSE IF HasPlace(seen, a, p) THEN [code |-> "cutscene", world |-> InsertEntity(seen, a, p, FALSE)]
            ELSE [code |-> "full", world |-> seen]
    BY <1>1, <1>2, <1>3, <1>9, <2>1, <2>3 DEF RegisterBattlefield
  <2>5. seen \in Good /\ Still(reset, seen)
    BY <1>5, <2>2, <2>3, InProgressOK
  <2>6. /\ \A b \in DOMAIN w.fields : seen.fields[b].registered = w.fields[b].registered
        /\ ~InProgress(seen, a) => w.fields[a].status = "open" /\ w.fields[a].enmity = {}
    BY <1>5, <2>2, <2>3, InProgressOK
  <2>7. Still(w, seen)
    BY <1>5, <2>5, StillThen
  <2>8. CASE InProgress(seen, a) \/ area # a \/ ~HasPlace(seen, a, p)
    <3>1. r.world = seen /\ r.code # "cutscene"
      BY <2>4, <2>8
    <3> QED
      BY <1>6, <2>5, <2>7, <3>1
  <2>9. CASE ~InProgress(seen, a) /\ area = a /\ HasPlace(seen, a, p)
    <3>1. PICK v : v = InsertEntity(seen, a, p, FALSE)
      OBVIOUS
    <3>2. r.world = v
      BY <2>4, <2>9, <3>1
    <3>3. a \in DOMAIN seen.fields
      BY <2>2, <2>7 DEF Still
    <3>4. v \in Good /\ Still(seen, v)
      BY <2>5, <3>1, <3>3, RegisteredOK
    <3>5. Registered(v, p) = Registered(seen, p) \cup {a}
      BY <2>5, <2>9, <3>1, <3>3, RegisteredOK
    <3>6. Registered(seen, p) = mine
      BY <1>1, <2>6, <2>7 DEF Registered, Still
    <3>7. Registered(v, p) = IF mine = {} THEN {a} ELSE mine
      BY <1>2, <2>2, <3>5, <3>6
    <3>8. a \in Nat /\ Min({a}) \in {a}
      BY <1>0, <2>2, MinIn
    <3>9. Min(Registered(v, p)) = a
      BY <1>2, <2>1, <3>7, <3>8
    <3>10. Open(w, a)
      BY <2>2, <2>6, <2>9 DEF Open
    <3>11. Still(w, v)
      BY <2>7, <3>4, StillThen
    <3> QED
      BY <3>2, <3>4, <3>9, <3>10, <3>11 DEF Still, Keeps
  <2> QED
    BY <2>8, <2>9
<1>10. CASE ~HasEffect(w, p) /\ ~(found = {} /\ w.pc[p].existing)
  <2>1. r = LoadBattlefield(w, p, area)
    BY <1>1, <1>2, <1>10 DEF RegisterBattlefield
  <2>2. r.world \in Good /\ Keeps(w, r.world)
    BY <2>1, LoadOK
  <2>3. \A q \in Player : r.world.pc[q].here = w.pc[q].here
    BY <2>1, LoadOK
  <2>4. r.code = "cutscene" => r.world.pc[p].inside # 0
    BY <2>1, LoadOK
  <2> QED
    BY <2>2, <2>3, <2>4
<1> QED
  BY <1>7, <1>8, <1>9, <1>10

\* Who is kicked stays in place.
LEMMA KickOK ==
  ASSUME NEW w \in Good, NEW p \in Player
  PROVE  Kick(w, p) \in Good /\ Still(w, Kick(w, p))
<1>0. w \in Worlds /\ w.pc[p] \in Char
  BY GoodIs
<1>1. CASE ~w.pc[p].here
  BY <1>1 DEF Kick, Still
<1>2. CASE w.pc[p].here
  <2>1. PICK c : c = [w.pc[p] EXCEPT !.events = Queued(w.pc[p].events, "lost")]
    OBVIOUS
  <2>2. Queued(w.pc[p].events, "lost") \in Seq(Event)
    BY <1>0 DEF Queued, Char, Event
  <2>3. c \in Char /\ c.inside = w.pc[p].inside /\ c.here = w.pc[p].here
    BY <1>0, <2>1, <2>2 DEF Char
  <2>4. PICK u : u = [w EXCEPT !.pc = [w.pc EXCEPT ![p] = c]]
    OBVIOUS
  <2>5. u \in Good /\ Still(w, u)
    BY <2>3, <2>4, PcGood
  <2>6. PICK x : x = IF HasEffect(w, p) THEN u ELSE w
    OBVIOUS
  <2>7. x \in Good /\ Still(w, x)
    BY <2>5, <2>6 DEF Still
  <2>8. Kick(w, p) = LoseEffect(x, {p})
    BY <1>2, <2>1, <2>4, <2>6 DEF Kick
  <2>9. Kick(w, p) \in Worlds /\ Still(x, Kick(w, p))
    <3>1. x \in Worlds
      BY <2>7, GoodIs
    <3> QED
      BY <2>8, <3>1, LoseEffectOK
  <2>10. Kick(w, p) \in Good
    BY <2>7, <2>9, StillGood
  <2> QED
    BY <2>7, <2>9, <2>10, StillThen
<1> QED
  BY <1>1, <1>2

-----------------------------------------------------------------------------
(* The loops over players.                                                  *)

\* One turn of the loop of WithAlliance.
Follow(v, q, p, area) ==
  IF HasEffect(v, q) \/ v.pc[q].inside # 0 THEN v
  ELSE RegisterBattlefield([v EXCEPT !.pc[q].effect = v.pc[p].effect], q, area, p).world

\* What the loop preserves.
Followed(w) == {v \in Good : Keeps(w, v) /\ \A q \in Player : v.pc[q].here = w.pc[q].here}

\* And one turn preserves it.
LEMMA FollowOK ==
  ASSUME NEW w \in Good, NEW v \in Followed(w), NEW p \in Player, NEW q \in Player, w.pc[q].here,
         NEW area \in Area
  PROVE  Follow(v, q, p, area) \in Followed(w)
<1>0. v \in Good /\ v.pc[p] \in Char /\ v.pc[q] \in Char /\ v.pc[q].here /\ Keeps(w, v)
      /\ \A x \in Player : v.pc[x].here = w.pc[x].here
  BY GoodIs DEF Followed
<1>1. CASE HasEffect(v, q) \/ v.pc[q].inside # 0
  BY <1>1 DEF Follow
<1>2. CASE ~(HasEffect(v, q) \/ v.pc[q].inside # 0)
  <2>1. PICK c : c = [v.pc[q] EXCEPT !.effect = v.pc[p].effect]
    OBVIOUS
  <2>2. c \in Char /\ c.inside = v.pc[q].inside /\ c.here = v.pc[q].here
    BY <1>0, <2>1 DEF Char
  <2>3. PICK u : u = [v EXCEPT !.pc = [v.pc EXCEPT ![q] = c]]
    OBVIOUS
  <2>4. u \in Good /\ Still(v, u)
    BY <1>0, <2>2, <2>3, PcGood
  <2>5. PICK r : r = RegisterBattlefield(u, q, area, p)
    OBVIOUS
  <2>6. u.pc[q].here
    BY <1>0, <2>4 DEF Still
  <2>7. r.world \in Good /\ Keeps(u, r.world)
    BY <2>4, <2>5, <2>6, RegisterOK
  <2>8. \A x \in Player : r.world.pc[x].here = u.pc[x].here
    BY <2>4, <2>5, <2>6, RegisterOK
  <2>9. Follow(v, q, p, area) = r.world
    BY <1>2, <2>1, <2>3, <2>5 DEF Follow
  <2>10. Keeps(v, u)
    BY <2>4 DEF Still, Keeps
  <2>11. Keeps(w, r.world)
    BY <1>0, <2>7, <2>10, KeepsThen
  <2> QED
    BY <1>0, <2>4, <2>7, <2>8, <2>9, <2>11 DEF Still, Followed
<1> QED
  BY <1>1, <1>2

\* The loop as a whole.
LEMMA WithAllianceOK ==
  ASSUME NEW w \in Good, NEW p \in Player, NEW area \in Area, allied \subseteq Player
  PROVE  WithAlliance(w, p, area) \in Followed(w)
<1>1. PICK S : S = Mates(w, p)
  OBVIOUS
<1>2. S \subseteq Player /\ \A q \in S : w.pc[q].here
  BY <1>1 DEF Mates
<1>3. IsFiniteSet(S)
  BY <1>2, PlayersAssumption, FS_Subset
<1>4. w \in Followed(w)
  BY DEF Followed, Keeps
<1>5. PICK F : F = [x \in S \X Followed(w) |-> Follow(x[2], x[1], p, area)]
  OBVIOUS
<1>6. F \in [S \X Followed(w) -> Followed(w)]
  BY <1>2, <1>5, FollowOK
<1>7. PICK g \in [SUBSET S -> Followed(w)] :
        \A s \in SUBSET S : g[s] = IF s = {} THEN w ELSE F[<<Taken(s), g[s \ {Taken(s)}]>>]
  <2>1. PICK W : W = Followed(w)
    OBVIOUS
  <2>2. w \in W /\ F \in [S \X W -> W]
    BY <1>4, <1>6, <2>1
  <2>3. \E k \in [SUBSET S -> W] : Solves(k, S, w, F)
    BY <1>3, <2>2, FoldExists
  <2> QED
    BY <2>1, <2>3 DEF Solves
<1>8. ASSUME NEW s \in SUBSET S, s # {}
      PROVE  F[<<Taken(s), g[s \ {Taken(s)}]>>] = Follow(g[s \ {Taken(s)}], Taken(s), p, area)
  <2>1. Taken(s) \in S /\ s \ {Taken(s)} \in SUBSET S
    BY <1>8 DEF Taken
  <2>2. g[s \ {Taken(s)}] \in Followed(w)
    BY <1>7, <2>1
  <2> QED
    BY <1>5, <2>1, <2>2
<1>9. g = [s \in SUBSET S |-> IF s = {} THEN w ELSE Follow(g[s \ {Taken(s)}], Taken(s), p, area)]
  BY <1>7, <1>8
<1> DEFINE h == CHOOSE k : k = [s \in SUBSET S |-> IF s = {} THEN w ELSE Follow(k[s \ {Taken(s)}], Taken(s), p, area)]
<1>10. h = [s \in SUBSET S |-> IF s = {} THEN w ELSE Follow(h[s \ {Taken(s)}], Taken(s), p, area)]
  BY <1>9
<1>11. WithAlliance(w, p, area) = h[S]
  BY <1>1 DEF WithAlliance, FoldSet, MapThenFoldSet, Taken, Follow
<1> HIDE DEF h
<1>12. h[{}] = w
  BY <1>10
<1>13. \A s \in SUBSET S : s # {} => h[s] = Follow(h[s \ {Taken(s)}], Taken(s), p, area)
  BY <1>10
<1>14. PICK V : V = [s \in SUBSET S |-> Followed(w)]
  OBVIOUS
<1>15. \A s \in SUBSET S : V[s] = Followed(w)
  BY <1>14
<1>16. ASSUME NEW s \in SUBSET S, s # {}, h[s \ {Taken(s)}] \in V[s \ {Taken(s)}]
       PROVE  h[s] \in V[s]
  <2>1. Taken(s) \in S /\ s \ {Taken(s)} \in SUBSET S
    BY <1>16 DEF Taken
  <2>2. h[s \ {Taken(s)}] \in Followed(w)
    BY <1>15, <1>16, <2>1
  <2>3. Follow(h[s \ {Taken(s)}], Taken(s), p, area) \in Followed(w)
    BY <1>2, <2>1, <2>2, FollowOK
  <2> QED
    BY <1>13, <1>15, <1>16, <2>3
<1>17. h[{}] \in V[{}]
  BY <1>4, <1>12, <1>15
<1>18. h[S] \in V[S]
  BY <1>3, <1>16, <1>17, FoldTracks
<1> QED
  BY <1>11, <1>15, <1>18

\* Everybody stays or leaves.
Leaving(w, v) == \A q \in Player : v.pc[q].inside \in {0, w.pc[q].inside}

\* What the loop of Cleanup preserves.
Cleared(w) == {v \in Good : DOMAIN v.fields = DOMAIN w.fields /\ Leaving(w, v)}

\* Of those in T everybody has left.
Gone(w, T) == {v \in Cleared(w) : \A q \in T : v.pc[q].inside = 0}

\* That loop.
Emptied(w, a, code) == FoldSet(LAMBDA p, v : RemoveEntity(v, a, p, code), w, w.fields[a].entered)

\* When it is done nobody is inside.
LEMMA AllRemoved ==
  ASSUME NEW w \in Good, NEW a \in DOMAIN w.fields, NEW code, NEW out, out = Emptied(w, a, code)
  PROVE  out \in Cleared(w) /\ \A q \in Player : out.pc[q].inside # a
<1>1. PICK S : S = w.fields[a].entered
  OBVIOUS
<1>2. S \subseteq Player /\ \A q \in S : w.pc[q].inside = a
  BY <1>1, GoodIs DEF Good, ListsOK, Battle
<1>3. IsFiniteSet(S)
  BY <1>2, PlayersAssumption, FS_Subset
<1>4. w \in Cleared(w)
  BY DEF Cleared, Leaving
<1>5. ASSUME NEW q \in S, NEW v \in Cleared(w)
      PROVE  /\ RemoveEntity(v, a, q, code) \in Cleared(w)
             /\ \A x \in Player : RemoveEntity(v, a, q, code).pc[x].inside = IF x = q THEN 0 ELSE v.pc[x].inside
  <2>1. PICK u : u = RemoveEntity(v, a, q, code)
    OBVIOUS
  <2>2. v \in Good /\ a \in DOMAIN v.fields /\ q \in Player /\ v.pc[q].inside \in {0, a}
    BY <1>2 DEF Cleared, Leaving
  <2>3. u \in Good /\ DOMAIN u.fields = DOMAIN v.fields
    BY <2>1, <2>2, RemovedOK
  <2>4. \A x \in Player : u.pc[x].inside = IF x = q THEN 0 ELSE v.pc[x].inside
    BY <2>1, <2>2, RemovedOK
  <2>5. u \in Cleared(w)
    BY <2>3, <2>4 DEF Cleared, Leaving
  <2> QED
    BY <2>1, <2>4, <2>5
<1>6. PICK F : F = [x \in S \X Cleared(w) |-> RemoveEntity(x[2], a, x[1], code)]
  OBVIOUS
<1>7. F \in [S \X Cleared(w) -> Cleared(w)]
  BY <1>5, <1>6
<1>8. PICK g \in [SUBSET S -> Cleared(w)] :
        \A s \in SUBSET S : g[s] = IF s = {} THEN w ELSE F[<<Taken(s), g[s \ {Taken(s)}]>>]
  <2>1. PICK W : W = Cleared(w)
    OBVIOUS
  <2>2. w \in W /\ F \in [S \X W -> W]
    BY <1>4, <1>7, <2>1
  <2>3. \E k \in [SUBSET S -> W] : Solves(k, S, w, F)
    BY <1>3, <2>2, FoldExists
  <2> QED
    BY <2>1, <2>3 DEF Solves
<1>9. ASSUME NEW s \in SUBSET S, s # {}
      PROVE  F[<<Taken(s), g[s \ {Taken(s)}]>>] = RemoveEntity(g[s \ {Taken(s)}], a, Taken(s), code)
  <2>1. Taken(s) \in S /\ s \ {Taken(s)} \in SUBSET S
    BY <1>9 DEF Taken
  <2>2. g[s \ {Taken(s)}] \in Cleared(w)
    BY <1>8, <2>1
  <2> QED
    BY <1>6, <2>1, <2>2
<1>10. g = [s \in SUBSET S |-> IF s = {} THEN w ELSE RemoveEntity(g[s \ {Taken(s)}], a, Taken(s), code)]
  BY <1>8, <1>9
<1> DEFINE h == CHOOSE k : k = [s \in SUBSET S |-> IF s = {} THEN w ELSE RemoveEntity(k[s \ {Taken(s)}], a, Taken(s), code)]
<1>11. h = [s \in SUBSET S |-> IF s = {} THEN w ELSE RemoveEntity(h[s \ {Taken(s)}], a, Taken(s), code)]
  BY <1>10
<1>12. out = h[S]
  BY <1>1 DEF Emptied, FoldSet, MapThenFoldSet, Taken
<1> HIDE DEF h
<1>13. h[{}] = w
  BY <1>11
<1>14. \A s \in SUBSET S : s # {} => h[s] = RemoveEntity(h[s \ {Taken(s)}], a, Taken(s), code)
  BY <1>11
<1>15. PICK V : V = [s \in SUBSET S |-> Gone(w, s)]
  OBVIOUS
<1>16. \A s \in SUBSET S : V[s] = Gone(w, s)
  BY <1>15
<1>17. ASSUME NEW s \in SUBSET S, s # {}, h[s \ {Taken(s)}] \in V[s \ {Taken(s)}]
       PROVE  h[s] \in V[s]
  <2>1. Taken(s) \in S /\ s \ {Taken(s)} \in SUBSET S
    BY <1>17 DEF Taken
  <2>2. h[s \ {Taken(s)}] \in Cleared(w) /\ \A q \in s \ {Taken(s)} : h[s \ {Taken(s)}].pc[q].inside = 0
    <3>1. h[s \ {Taken(s)}] \in Gone(w, s \ {Taken(s)})
      BY <1>16, <1>17, <2>1
    <3> QED
      BY <3>1 DEF Gone
  <2>3. /\ h[s] \in Cleared(w)
        /\ \A x \in Player : h[s].pc[x].inside = IF x = Taken(s) THEN 0 ELSE h[s \ {Taken(s)}].pc[x].inside
    <3>1. PICK v : v = h[s \ {Taken(s)}]
      OBVIOUS
    <3>2. h[s] = RemoveEntity(v, a, Taken(s), code)
      BY <1>14, <1>17, <3>1
    <3>3. v \in Cleared(w)
      BY <2>2, <3>1
    <3>4. h[s] \in Cleared(w)
      BY <1>5, <2>1, <3>2, <3>3
    <3>5. \A x \in Player : h[s].pc[x].inside = IF x = Taken(s) THEN 0 ELSE v.pc[x].inside
      BY <1>5, <2>1, <3>2, <3>3
    <3> QED
      BY <3>1, <3>4, <3>5
  <2>4. \A q \in s : h[s].pc[q].inside = 0
    BY <1>2, <2>2, <2>3
  <2> QED
    BY <1>16, <2>3, <2>4 DEF Gone
<1>18. h[{}] \in V[{}]
  BY <1>4, <1>13, <1>16 DEF Gone
<1>19. h[S] \in V[S]
  BY <1>3, <1>17, <1>18, FoldTracks
<1>20. out \in Cleared(w) /\ \A q \in S : out.pc[q].inside = 0
  BY <1>12, <1>16, <1>19 DEF Gone
<1>21. a # 0
  <2>1. a \in Area
    BY GoodIs
  <2> QED
    BY <2>1 DEF Area
<1>22. ASSUME NEW q \in Player PROVE out.pc[q].inside # a
  <2>1. CASE q \in S
    BY <1>20, <1>21, <2>1
  <2>2. CASE q \notin S
    <3>1. w.pc[q].inside # a
      BY <1>1, <1>21, <2>2 DEF Good, InsideOK
    <3> QED
      BY <1>20, <1>21, <3>1 DEF Cleared, Leaving
  <2> QED
    BY <2>1, <2>2
<1> QED
  BY <1>20, <1>22

\* Cleanup frees the area only when nobody is inside any more.
LEMMA CleanupOK ==
  ASSUME NEW w \in Good, NEW a \in DOMAIN w.fields, NEW rested
  PROVE  Cleanup(w, a, rested) \in Good /\ Leaving(w, Cleanup(w, a, rested))
<1>0. w \in Worlds /\ w.pc \in [Player -> Char] /\ w.fields[a] \in Battle /\ DOMAIN w.fields \subseteq Area
      /\ w.fields = [b \in DOMAIN w.fields |-> w.fields[b]]
  BY GoodIs
<1>1. CASE ~w.fields[a].cleaned
  <2>1. PICK f : f = [w.fields[a] EXCEPT !.cleaned = TRUE]
    OBVIOUS
  <2>2. PICK h : h = [p \in Player |->
          IF p \in w.fields[a].entered
          THEN [w.pc[p] EXCEPT !.events = Queued(w.pc[p].events, IF w.fields[a].status = "won" THEN "won" ELSE "lost")]
          ELSE w.pc[p]]
    OBVIOUS
  <2>3. f \in Battle /\ f.entered = w.fields[a].entered /\ f.registered = w.fields[a].registered
    BY <1>0, <2>1 DEF Battle
  <2>4. ASSUME NEW p \in Player
        PROVE  h[p] \in Char /\ h[p].inside = w.pc[p].inside /\ h[p].here = w.pc[p].here
    <3>1. PICK e : e = Queued(w.pc[p].events, IF w.fields[a].status = "won" THEN "won" ELSE "lost")
      OBVIOUS
    <3>2. w.pc[p].events \in Seq(Event)
      BY <1>0 DEF Char
    <3>3. e \in Seq(Event)
      <4>1. PICK l \in Event : e = Queued(w.pc[p].events, l)
        BY <3>1 DEF Event
      <4> QED
        BY <3>2, <4>1 DEF Queued
    <3>4. PICK c : c = [w.pc[p] EXCEPT !.events = e]
      OBVIOUS
    <3>5. c \in Char /\ c.inside = w.pc[p].inside /\ c.here = w.pc[p].here
      BY <1>0, <3>3, <3>4 DEF Char
    <3>6. h[p] = IF p \in w.fields[a].entered THEN c ELSE w.pc[p]
      BY <2>2, <3>1, <3>4
    <3> QED
      BY <1>0, <3>5, <3>6
  <2>5. h \in [Player -> Char]
    BY <2>2, <2>4
  <2>6. PICK u : u = [w EXCEPT !.fields = [w.fields EXCEPT ![a] = f]]
    OBVIOUS
  <2>7. u \in Worlds /\ Still(w, u)
    BY <1>0, <2>3, <2>6, FieldStill
  <2>8. PICK v : v = [u EXCEPT !.pc = h]
    OBVIOUS
  <2>9. v = Cleanup(w, a, rested)
    <3>1. Cleanup(w, a, rested) = [w EXCEPT !.fields[a].cleaned = TRUE, !.pc = h]
      BY <1>1, <2>2 DEF Cleanup
    <3>2. PICK k : k = [w.fields EXCEPT ![a] = f]
      OBVIOUS
    <3>3. Cleanup(w, a, rested) = [w EXCEPT !.fields = k, !.pc = h]
      BY <2>1, <3>1, <3>2
    <3>4. u = [w EXCEPT !.fields = k]
      BY <2>6, <3>2
    <3> QED
      BY <2>8, <3>3, <3>4
  <2>10. u = [fields |-> u.fields, pc |-> u.pc, orphans |-> u.orphans]
         /\ u.fields \in Fields /\ u.orphans \in SUBSET Player
    BY <2>7 DEF Worlds
  <2>11. v = [fields |-> u.fields, pc |-> h, orphans |-> u.orphans]
    BY <2>8, <2>10
  <2>12. v \in Worlds /\ v.pc = h /\ v.fields = u.fields
    BY <2>5, <2>10, <2>11 DEF Worlds
  <2>13. Still(w, v)
    BY <2>4, <2>7, <2>12 DEF Still
  <2>14. v \in Good
    BY <2>12, <2>13, StillGood
  <2> QED
    BY <2>9, <2>13, <2>14 DEF Still, Leaving
<1>2. CASE w.fields[a].cleaned /\ w.fields[a].entered # {} /\ ~rested
  <2>1. Cleanup(w, a, rested) = w
    BY <1>2 DEF Cleanup
  <2> QED
    BY <2>1 DEF Leaving
<1>3. CASE w.fields[a].cleaned /\ ~(w.fields[a].entered # {} /\ ~rested)
  <2>1. PICK out : out = Emptied(w, a, w.fields[a].status)
    OBVIOUS
  <2>2. out \in Cleared(w) /\ \A q \in Player : out.pc[q].inside # a
    BY <2>1, AllRemoved
  <2>3. PICK over : over = LoseEffect(out, {p \in w.fields[a].registered : w.pc[p].here})
    OBVIOUS
  <2>4. PICK v : v = [over EXCEPT !.fields = Restrict(over.fields, DOMAIN over.fields \ {a})]
    OBVIOUS
  <2>5. Cleanup(w, a, rested) = v
    BY <1>3, <2>1, <2>3, <2>4 DEF Cleanup, Emptied
  <2>6. out \in Good /\ out \in Worlds
    BY <2>2, GoodIs DEF Cleared
  <2>7. over \in Worlds /\ Still(out, over)
    BY <2>3, <2>6, LoseEffectOK
  <2>8. over \in Good
    BY <2>6, <2>7, StillGood
  <2>9. \A q \in Player : over.pc[q].inside # a /\ over.pc[q].inside \in {0, w.pc[q].inside}
    BY <2>2, <2>7 DEF Still, Cleared, Leaving
  <2>10. PICK h : h = Restrict(over.fields, DOMAIN over.fields \ {a})
    OBVIOUS
  <2>11. /\ DOMAIN h = DOMAIN over.fields \ {a} /\ h = [b \in DOMAIN h |-> h[b]]
         /\ \A b \in DOMAIN h : h[b] = over.fields[b]
    BY <2>10 DEF Restrict
  <2>12. DOMAIN over.fields \subseteq Area /\ \A b \in DOMAIN over.fields : over.fields[b] \in Battle
    BY <2>8, GoodIs
  <2>13. h \in Fields
    <3>1. \A b \in DOMAIN h : h[b] \in Battle
      BY <2>11, <2>12
    <3>2. DOMAIN h \subseteq Area
      BY <2>11, <2>12
    <3>3. h = [b \in DOMAIN h |-> h[b]]
      BY <2>11
    <3>4. h \in [DOMAIN h -> Battle]
      BY <3>1, <3>3
    <3> QED
      BY <3>2, <3>4 DEF Fields
  <2>14. over = [fields |-> over.fields, pc |-> over.pc, orphans |-> over.orphans]
         /\ over.pc \in [Player -> Char] /\ over.orphans \in SUBSET Player
    BY <2>7 DEF Worlds
  <2>15. v = [fields |-> h, pc |-> over.pc, orphans |-> over.orphans]
    BY <2>4, <2>10, <2>14
  <2>16. v \in Worlds /\ v.fields = h /\ v.pc = over.pc
    BY <2>13, <2>14, <2>15 DEF Worlds
  <2>17. InsideOK(v)
    BY <2>8, <2>9, <2>11, <2>16 DEF Good, InsideOK
  <2>18. ListsOK(v)
    BY <2>8, <2>11, <2>16 DEF Good, ListsOK
  <2> QED
    BY <2>5, <2>9, <2>16, <2>17, <2>18 DEF Good, Leaving
<1> QED
  BY <1>1, <1>2, <1>3

-----------------------------------------------------------------------------
(* The steps.                                                               *)

\* Nobody comes into a battlefield where blows fell, except who had been inside.
Entry(w, v) == \A p \in Player : v.pc[p].inside # 0 /\ v.pc[p].inside # w.pc[p].inside =>
  v.pc[p].inside \notin DOMAIN w.fields \/ Open(w, v.pc[p].inside) \/ w.pc[p].effect.tier = 1

\* What a step leaves behind.
Proper == World' \in Good /\ Entry(World, World')

\* Where nobody moves nobody comes in, nor where everybody stays or leaves.
LEMMA EntryOf ==
  ASSUME NEW w, NEW v, Still(w, v) \/ Leaving(w, v) \/ Keeps(w, v)
  PROVE  Entry(w, v)
BY DEF Still, Leaving, Keeps, Entry

\* What a handler made of the world is the next one.
LEMMA Stepped ==
  ASSUME NEW v \in Good, Become(v), Entry(World, v)
  PROVE  Proper
<1>1. v = [fields |-> v.fields, pc |-> v.pc, orphans |-> v.orphans]
  BY GoodIs DEF Worlds
<1>2. World' = v
  BY <1>1 DEF Become, World
<1>3. Entry(World, v) => Entry(World, World')
  BY <1>2
<1> QED
  BY <1>2, <1>3 DEF Proper

\* One who is outside stays outside, whatever else changes.
LEMMA OutsideOK ==
  ASSUME NEW w \in Good, NEW p \in Player, w.pc[p].inside = 0, NEW c \in Char, c.inside = 0,
         NEW v, v = [w EXCEPT !.pc = [w.pc EXCEPT ![p] = c]]
  PROVE  v \in Good /\ v.fields = w.fields /\ v.pc[p] = c /\ \A q \in Player \ {p} : v.pc[q] = w.pc[q]
<1>0. w \in Worlds /\ DOMAIN w.fields \subseteq Area /\ w.pc \in [Player -> Char]
  BY GoodIs
<1>1. v \in Worlds /\ v.fields = w.fields /\ v.pc = [w.pc EXCEPT ![p] = c]
  <2>1. v \in Worlds /\ v.fields = w.fields
    BY <1>0, PcWritten
  <2> QED
    BY <1>0, <2>1 DEF Worlds
<1>2. v.pc[p] = c /\ \A q \in Player \ {p} : v.pc[q] = w.pc[q]
  BY <1>0, <1>1
<1>3. InsideOK(v)
  BY <1>1, <1>2 DEF Good, InsideOK
<1>4. \A b \in DOMAIN w.fields : b # 0 /\ w.fields[b] \in Battle
  <2>1. \A b \in DOMAIN w.fields : w.fields[b] \in Battle
    BY GoodIs
  <2>2. \A b \in DOMAIN w.fields : b # 0
    BY <1>0 DEF Area
  <2> QED
    BY <2>1, <2>2
<1>5. \A b \in DOMAIN w.fields : \A q \in w.fields[b].entered : w.pc[q].inside = b /\ q \in w.fields[b].registered
  BY DEF Good, ListsOK
<1>6. \A b \in DOMAIN w.fields : \A q \in w.fields[b].entered : q \in Player \ {p}
  BY <1>4, <1>5 DEF Battle
<1>7. ListsOK(v)
  BY <1>1, <1>2, <1>5, <1>6 DEF Good, ListsOK
<1> QED
  BY <1>1, <1>2, <1>3, <1>7 DEF Good

\* A turn of the loops over the battlefields.
LEMMA HandleBattlefieldStep ==
  ASSUME World \in Good, NEW a, NEW finds, NEW rested, HandleBattlefield(a, finds, rested)
  PROVE  Proper
<1>1. PICK w \in Good : w = World
  OBVIOUS
<1>2. a \in DOMAIN w.fields
  BY <1>1 DEF HandleBattlefield, World
<1>3. PICK u : u = CheckInProgress(w, a)
  OBVIOUS
<1>4. PICK t : t = OnBattlefieldTick(u, a, finds)
  OBVIOUS
<1>5. PICK v : v = IF CanCleanup(w, a) THEN w ELSE t
  OBVIOUS
<1>6. PICK x : x = IF CanCleanup(v, a) THEN Cleanup(v, a, rested) ELSE v
  OBVIOUS
<1>7. Become(x)
  BY <1>1, <1>3, <1>4, <1>5, <1>6 DEF HandleBattlefield
<1>8. u \in Good /\ Still(w, u)
  BY <1>2, <1>3, InProgressOK
<1>9. t \in Good /\ Still(u, t)
  <2>1. a \in DOMAIN u.fields
    BY <1>2, <1>8 DEF Still
  <2> QED
    BY <1>4, <1>8, <2>1, TickOK
<1>10. v \in Good /\ a \in DOMAIN v.fields /\ Leaving(w, v)
  BY <1>2, <1>5, <1>8, <1>9 DEF Still, Leaving
<1>11. x \in Good /\ Leaving(v, x)
  <2>1. Cleanup(v, a, rested) \in Good /\ Leaving(v, Cleanup(v, a, rested))
    BY <1>10, CleanupOK
  <2> QED
    BY <1>6, <1>10, <2>1 DEF Leaving
<1>12. Leaving(w, x)
  BY <1>10, <1>11 DEF Leaving
<1>13. Entry(World, x)
  BY <1>1, <1>12, EntryOf
<1> QED
  BY <1>7, <1>11, <1>13, Stepped

\* An orphan is kicked.
LEMMA HandleOrphanStep ==
  ASSUME World \in Good, NEW p \in Player, HandleOrphan(p)
  PROVE  Proper
<1>1. PICK w \in Good : w = World
  OBVIOUS
<1>2. PICK k : k = Kick(w, p)
  OBVIOUS
<1>3. PICK v : v = [k EXCEPT !.orphans = k.orphans \ {p}]
  OBVIOUS
<1>4. Become(v)
  BY <1>1, <1>2, <1>3 DEF HandleOrphan
<1>5. k \in Good /\ Still(w, k)
  BY <1>2, KickOK
<1>6. k = [fields |-> k.fields, pc |-> k.pc, orphans |-> k.orphans] /\ k.fields \in Fields
      /\ k.pc \in [Player -> Char] /\ k.orphans \in SUBSET Player
  BY <1>5 DEF Good, Worlds
<1>7. v = [fields |-> k.fields, pc |-> k.pc, orphans |-> k.orphans \ {p}]
  BY <1>3, <1>6
<1>8. v \in Worlds /\ v.fields = k.fields /\ v.pc = k.pc
  BY <1>6, <1>7 DEF Worlds
<1>9. Still(w, v)
  BY <1>5, <1>8 DEF Still
<1>10. v \in Good
  BY <1>8, <1>9, StillGood
<1>11. Entry(World, v)
  BY <1>1, <1>9, EntryOf
<1> QED
  BY <1>4, <1>10, <1>11, Stepped

\* A step after which nobody moves any more.
LEMMA EntryThen ==
  ASSUME NEW w, NEW v, NEW u, Entry(w, v), Still(v, u) \/ Leaving(v, u)
  PROVE  Entry(w, u)
BY DEF Entry, Still, Leaving

\* The handler writes one entry and moves nobody.
LEMMA PcStep ==
  ASSUME World \in Good, NEW p \in Player, NEW c \in Char, c.inside = pc[p].inside, c.here = pc[p].here,
         NEW v, v = [World EXCEPT !.pc = [World.pc EXCEPT ![p] = c]], Become(v)
  PROVE  Proper
<1>1. PICK w \in Good : w = World
  OBVIOUS
<1>2. v = [w EXCEPT !.pc = [w.pc EXCEPT ![p] = c]] /\ w.pc = pc
  BY <1>1 DEF World
<1>5. c.inside = w.pc[p].inside /\ c.here = w.pc[p].here
  BY <1>2
<1>3. v \in Good /\ Still(w, v)
  BY ONLY w \in Good, p \in Player, c \in Char, <1>2, <1>5, PcGood
<1>4. Entry(World, v)
  BY <1>1, <1>3, EntryOf
<1> QED
  BY <1>3, <1>4, Stepped

\* The handler writes one battlefield and moves nobody.
LEMMA FieldStep ==
  ASSUME World \in Good, NEW a \in DOMAIN fields, NEW f \in Battle, f.entered = fields[a].entered,
         fields[a].registered \subseteq f.registered,
         NEW v, v = [World EXCEPT !.fields = [World.fields EXCEPT ![a] = f]], Become(v)
  PROVE  Proper
<1>1. PICK w \in Good : w = World
  OBVIOUS
<1>2. v = [w EXCEPT !.fields = [w.fields EXCEPT ![a] = f]] /\ w.fields = fields
  BY <1>1 DEF World
<1>3. w \in Worlds
  BY GoodIs
<1>4. v \in Worlds /\ Still(w, v)
  BY <1>2, <1>3, FieldStill
<1>5. v \in Good
  BY <1>4, StillGood
<1>6. Entry(World, v)
  BY <1>1, <1>4, EntryOf
<1> QED
  BY <1>5, <1>6, Stepped

\* A player is not where it is outside.
LEMMA CharIs ==
  ASSUME World \in Good, NEW p \in Player
  PROVE  pc[p] \in Char /\ (pc[p].inside # 0 => pc[p].here /\ pc[p].inside \in DOMAIN fields)
BY GoodIs DEF Good, InsideOK, World

\* The entrance.
LEMMA OnEntryTriggerStep ==
  ASSUME World \in Good, NEW p \in Player, OnEntryTrigger(p)
  PROVE  Proper
<1>1. PICK e : e = (pc[p].existing \/ HasEffect(World, p))
  OBVIOUS
<1>2. e \in BOOLEAN
  BY <1>1
<1>3. PICK c : c = [pc[p] EXCEPT !.events = <<"enter">>, !.existing = e]
  OBVIOUS
<1>4. pc[p] \in Char
  BY CharIs
<1>5. <<"enter">> \in Seq(Event)
  BY DEF Event
<1>6. c \in Char /\ c.inside = pc[p].inside /\ c.here = pc[p].here
  BY <1>2, <1>3, <1>4, <1>5 DEF Char
<1>7. PICK v : v = [World EXCEPT !.pc = [World.pc EXCEPT ![p] = c]]
  OBVIOUS
<1>8. Become(v)
  BY <1>1, <1>3, <1>7 DEF OnEntryTrigger, World
<1> QED
  BY <1>6, <1>7, <1>8, PcStep

\* The exit.
LEMMA OnExitTriggerStep ==
  ASSUME World \in Good, NEW p \in Player, OnExitTrigger(p)
  PROVE  Proper
<1>3. PICK c : c = [pc[p] EXCEPT !.events = <<"exit">>]
  OBVIOUS
<1>4. pc[p] \in Char
  BY CharIs
<1>5. <<"exit">> \in Seq(Event)
  BY DEF Event
<1>6. c \in Char /\ c.inside = pc[p].inside /\ c.here = pc[p].here
  BY <1>3, <1>4, <1>5 DEF Char
<1>7. PICK v : v = [World EXCEPT !.pc = [World.pc EXCEPT ![p] = c]]
  OBVIOUS
<1>8. Become(v)
  BY <1>3, <1>7 DEF OnExitTrigger, World
<1> QED
  BY <1>6, <1>7, <1>8, PcStep

\* An event ends.
LEMMA EndedOK ==
  ASSUME NEW w \in Good, NEW p \in Player, w.pc[p].events # << >>
  PROVE  Ended(w, p) \in Good /\ Still(w, Ended(w, p))
<1>1. w.pc[p] \in Char
  BY GoodIs
<1>2. PICK c : c = [w.pc[p] EXCEPT !.events = Tail(w.pc[p].events)]
  OBVIOUS
<1>3. Tail(w.pc[p].events) \in Seq(Event)
  BY <1>1 DEF Char
<1>4. c \in Char /\ c.inside = w.pc[p].inside /\ c.here = w.pc[p].here
  BY <1>1, <1>2, <1>3 DEF Char
<1>5. PICK v : v = [w EXCEPT !.pc = [w.pc EXCEPT ![p] = c]]
  OBVIOUS
<1>6. v = Ended(w, p)
  BY <1>2, <1>5 DEF Ended
<1> QED
  BY <1>4, <1>5, <1>6, PcGood

\* Who is inside is taken out.
LEMMA LeavesOK ==
  ASSUME NEW w \in Good, NEW p \in Player
  PROVE  Leaves(w, p) \in Good /\ Leaving(w, Leaves(w, p))
<1>1. CASE w.pc[p].inside = 0
  BY <1>1 DEF Leaves, Leaving
<1>2. CASE w.pc[p].inside # 0
  <2>1. PICK a : a = w.pc[p].inside
    OBVIOUS
  <2>2. a \in DOMAIN w.fields
    BY <1>2, <2>1 DEF Good, InsideOK
  <2>3. PICK v : v = RemoveEntity(w, a, p, "exit")
    OBVIOUS
  <2>4. v \in Good
    BY <2>1, <2>2, <2>3, RemovedOK
  <2>5. \A q \in Player : v.pc[q].inside = IF q = p THEN 0 ELSE w.pc[q].inside
    BY <2>1, <2>2, <2>3, RemovedOK
  <2>6. v = Leaves(w, p)
    BY <1>2, <2>1, <2>3 DEF Leaves
  <2> QED
    BY <2>4, <2>5, <2>6 DEF Leaving
<1> QED
  BY <1>1, <1>2

\* The events that end without an entry.
LEMMA OtherEventsStep ==
  ASSUME World \in Good, NEW p \in Player,
         OnEventFinishExit(p) \/ OnEventFinishWin(p) \/ OnEventFinishLeave(p)
  PROVE  Proper
<1>1. PICK w \in Good : w = World
  OBVIOUS
<1>2. w.pc[p].events # << >>
  BY <1>1 DEF OnEventFinishExit, OnEventFinishWin, OnEventFinishLeave, In, World
<1>3. PICK e : e = Ended(w, p)
  OBVIOUS
<1>4. e \in Good /\ Still(w, e)
  BY <1>2, <1>3, EndedOK
<1>5. PICK l : l = Leaves(e, p)
  OBVIOUS
<1>6. l \in Good /\ Leaving(e, l)
  BY <1>4, <1>5, LeavesOK
<1>7. Become(e) \/ Become(l)
  BY <1>1, <1>3, <1>5 DEF OnEventFinishExit, OnEventFinishWin, OnEventFinishLeave
<1>8. Entry(World, e)
  BY <1>1, <1>4, EntryOf
<1>9. Entry(World, l)
  BY <1>6, <1>8, EntryThen
<1>10. CASE Become(e)
  BY <1>4, <1>8, <1>10, Stepped
<1>11. CASE Become(l)
  BY <1>6, <1>9, <1>11, Stepped
<1> QED
  BY <1>7, <1>10, <1>11

\* The entry event ends.
LEMMA OnEventFinishEnterStep ==
  ASSUME World \in Good, NEW p \in Player, OnEventFinishEnter(p)
  PROVE  Proper
<1> USE BattlefieldAssumption
<1>1. PICK w \in Good : w = World
  OBVIOUS
<1>2. w.pc[p].events # << >>
  BY <1>1 DEF OnEventFinishEnter, In, World
<1>3. PICK e : e = Ended(w, p)
  OBVIOUS
<1>4. e \in Good /\ Still(w, e)
  BY <1>2, <1>3, EndedOK
<1>5. e.pc[p] \in Char
  BY <1>4, GoodIs
<1>6. PICK t : t = IF (pc[p].inside # 0 \/ pc[p].visited) /\ HasEffect(e, p) THEN 1 ELSE e.pc[p].effect.tier
  OBVIOUS
<1>7. PICK k : k = IF pc[p].inside # 0 \/ pc[p].visited THEN 0 ELSE e.pc[p].ask
  OBVIOUS
<1>8. t \in 0..1 /\ k \in 0..(Areas - 1)
  BY <1>5, <1>6, <1>7 DEF Char, Effect
<1>9. PICK g : g = [e.pc[p].effect EXCEPT !.tier = t]
  OBVIOUS
<1>10. g \in Effect
  BY <1>5, <1>8, <1>9 DEF Char, Effect
<1>11. PICK c : c = [e.pc[p] EXCEPT !.effect = g, !.ask = k]
  OBVIOUS
<1>12. c \in Char /\ c.inside = e.pc[p].inside /\ c.here = e.pc[p].here
  BY <1>5, <1>8, <1>10, <1>11 DEF Char
<1>13. PICK v : v = [e EXCEPT !.pc = [e.pc EXCEPT ![p] = c]]
  OBVIOUS
<1>14. v = [e EXCEPT !.pc[p].effect.tier = t, !.pc[p].ask = k]
  <2>1. e.pc \in [Player -> Char] /\ e = [fields |-> e.fields, pc |-> e.pc, orphans |-> e.orphans]
    BY <1>4 DEF Good, Worlds
  <2> QED
    BY <1>9, <1>11, <1>13, <2>1
<1>15. Become(v)
  BY <1>1, <1>3, <1>6, <1>7, <1>14 DEF OnEventFinishEnter
<1>16. v \in Good /\ Still(e, v)
  BY <1>4, <1>12, <1>13, PcGood
<1>17. Entry(World, e)
  BY <1>1, <1>4, EntryOf
<1>18. Entry(World, v)
  BY <1>16, <1>17, EntryThen
<1> QED
  BY <1>15, <1>16, <1>18, Stepped

\* A choice in the menu.
LEMMA OnEntryEventUpdateStep ==
  ASSUME World \in Good, allied \subseteq Player, NEW p \in Player, OnEntryEventUpdate(p)
  PROVE  Proper
<1> USE BattlefieldAssumption
<1>1. PICK w \in Good : w = World
  OBVIOUS
<1>2. w.pc[p] \in Char /\ w.pc[p].here /\ w.pc = pc
  <2>1. w.pc[p] \in Char
    BY GoodIs
  <2> QED
    BY <1>1, <2>1 DEF OnEntryEventUpdate, In, World
<1>3. PICK area : area = pc[p].ask + 1
  OBVIOUS
<1>4. area \in Area
  <2>1. pc[p].ask \in 0..(Areas - 1)
    BY <1>2 DEF Char
  <2> QED
    BY <1>3, <2>1 DEF Area
<1>5. PICK r : r = RegisterBattlefield(w, p, area, p)
  OBVIOUS
<1>6. PICK v : v = r.world
  OBVIOUS
<1>7. v \in Good /\ Keeps(w, v)
  BY <1>2, <1>4, <1>5, <1>6, RegisterOK
<1>8. \A q \in Player : v.pc[q].here = w.pc[q].here
  BY <1>2, <1>4, <1>5, <1>6, RegisterOK
<1>9. r.code = "cutscene" /\ v.pc[p].inside = 0 => Open(w, Min(Registered(v, p)))
  BY <1>2, <1>4, <1>5, <1>6, RegisterOK
<1>10. PICK e : e = IF v.pc[p].inside = 0 /\ HasEffect(v, p) /\ Registered(v, p) # {}
                    THEN InsertEntity(v, Min(Registered(v, p)), p, TRUE) ELSE v
  OBVIOUS
<1>11. PICK at : at = e.pc[p].inside
  OBVIOUS
<1>12. PICK x : x = IF at # 0 /\ e.fields[at].initiator = p THEN WithAlliance(e, p, area) ELSE e
  OBVIOUS
<1>13. PICK y : y = [w EXCEPT !.pc[p].existing = FALSE, !.pc[p].ask = 0]
  OBVIOUS
<1>14. PICK k : k = IF area < Areas THEN area ELSE v.pc[p].ask
  OBVIOUS
<1>15. PICK z : z = [v EXCEPT !.pc[p].ask = k]
  OBVIOUS
<1>16. Become(y) \/ (r.code = "cutscene" /\ Become(x)) \/ Become(z) \/ Become(LoseEffect(v, {p})) \/ Become(v)
  BY <1>1, <1>3, <1>5, <1>6, <1>10, <1>11, <1>12, <1>13, <1>14, <1>15 DEF OnEntryEventUpdate
<1>17. Entry(World, v)
  BY <1>1, <1>7, EntryOf
<1>18. CASE Become(y)
  <2>1. PICK c : c = [pc[p] EXCEPT !.existing = FALSE, !.ask = 0]
    OBVIOUS
  <2>2. 0 \in 0..(Areas - 1)
    OBVIOUS
  <2>3. c \in Char /\ c.inside = pc[p].inside /\ c.here = pc[p].here
    BY <1>2, <2>1, <2>2 DEF Char
  <2>4. y = [World EXCEPT !.pc = [World.pc EXCEPT ![p] = c]]
    <3>1. World = [fields |-> fields, pc |-> pc, orphans |-> orphans] /\ pc \in [Player -> Char]
      BY <1>1 DEF World, Good, Worlds
    <3> QED
      BY <1>1, <1>13, <2>1, <3>1
  <2> QED
    BY <1>18, <2>3, <2>4, PcStep
<1>19. CASE r.code = "cutscene" /\ Become(x)
  <2>1. /\ e \in Good /\ DOMAIN e.fields = DOMAIN v.fields
        /\ \A q \in Player \ {p} : e.pc[q] = v.pc[q]
        /\ e.pc[p].inside # 0 /\ e.pc[p].inside # v.pc[p].inside => Open(w, e.pc[p].inside)
    <3>1. CASE v.pc[p].inside = 0 /\ HasEffect(v, p) /\ Registered(v, p) # {}
      <4>1. PICK a : a = Min(Registered(v, p))
        OBVIOUS
      <4>2. Registered(v, p) \in SUBSET Nat
        <5>1. DOMAIN v.fields \subseteq Area
          BY <1>7, GoodIs
        <5> QED
          BY <5>1 DEF Registered, Area
      <4>3. a \in Registered(v, p)
        BY <3>1, <4>1, <4>2, MinIn
      <4>4. a \in DOMAIN v.fields /\ p \in v.fields[a].registered /\ v.pc[p].here
        BY <1>2, <1>8, <4>3 DEF Registered
      <4>5. e = InsertEntity(v, a, p, TRUE)
        BY <1>10, <3>1, <4>1
      <4>6. e \in Good /\ DOMAIN e.fields = DOMAIN v.fields
        BY <1>7, <4>4, <4>5, EnteredOK
      <4>7. \A q \in Player \ {p} : e.pc[q] = v.pc[q]
        BY <1>7, <4>4, <4>5, EnteredOK
      <4>8. e.pc[p].inside = IF HasPlace(v, a, p) THEN a ELSE v.pc[p].inside
        BY <1>7, <4>4, <4>5, EnteredOK
      <4> QED
        BY <1>9, <1>19, <3>1, <4>1, <4>6, <4>7, <4>8
    <3>2. CASE ~(v.pc[p].inside = 0 /\ HasEffect(v, p) /\ Registered(v, p) # {})
      <4>1. e = v
        BY <1>10, <3>2
      <4> QED
        BY <1>7, <4>1
    <3> QED
      BY <3>1, <3>2
  <2>2. x \in Good /\ Keeps(e, x)
    <3>1. CASE x = e
      BY <2>1, <3>1 DEF Keeps
    <3>2. CASE x = WithAlliance(e, p, area)
      <4>1. x \in Followed(e)
        BY <1>4, <2>1, <3>2, WithAllianceOK
      <4> QED
        BY <4>1 DEF Followed
    <3> QED
      BY <1>12, <3>1, <3>2
  <2>3. Entry(w, x)
    <3> SUFFICES ASSUME NEW q \in Player, x.pc[q].inside # 0, x.pc[q].inside # w.pc[q].inside
                 PROVE  x.pc[q].inside \notin DOMAIN w.fields \/ Open(w, x.pc[q].inside)
      BY DEF Entry
    <3>1. CASE x.pc[q].inside # e.pc[q].inside
      BY <1>7, <2>1, <2>2, <3>1 DEF Keeps
    <3>2. CASE x.pc[q].inside = e.pc[q].inside /\ e.pc[q].inside = v.pc[q].inside
      BY <1>7, <3>2 DEF Keeps
    <3>3. CASE x.pc[q].inside = e.pc[q].inside /\ e.pc[q].inside # v.pc[q].inside
      <4>1. q = p
        BY <2>1, <3>3
      <4> QED
        BY <2>1, <3>3, <4>1
    <3> QED
      BY <3>1, <3>2, <3>3
  <2>4. Entry(World, x)
    BY <1>1, <2>3
  <2> QED
    BY <1>19, <2>2, <2>4, Stepped
<1>20. CASE Become(z)
  <2>0. v.pc[p] \in Char
    BY <1>7, GoodIs
  <2>1. PICK c : c = [v.pc[p] EXCEPT !.ask = k]
    OBVIOUS
  <2>2. k \in 0..(Areas - 1)
    BY <1>4, <1>14, <2>0 DEF Char, Area
  <2>3. c \in Char /\ c.inside = v.pc[p].inside /\ c.here = v.pc[p].here
    BY <2>0, <2>1, <2>2 DEF Char
  <2>4. z = [v EXCEPT !.pc = [v.pc EXCEPT ![p] = c]]
    BY <1>15, <2>1
  <2>5. z \in Good /\ Still(v, z)
    BY <1>7, <2>3, <2>4, PcGood
  <2>6. Entry(World, z)
    BY <1>17, <2>5, EntryThen
  <2> QED
    BY <1>20, <2>5, <2>6, Stepped
<1>21. CASE Become(LoseEffect(v, {p}))
  <2>1. PICK l : l = LoseEffect(v, {p})
    OBVIOUS
  <2>2. v \in Worlds
    BY <1>7, GoodIs
  <2>3. l \in Worlds /\ Still(v, l)
    BY <2>1, <2>2, LoseEffectOK
  <2>4. l \in Good
    BY <1>7, <2>3, StillGood
  <2>5. Entry(World, l)
    BY <1>17, <2>3, EntryThen
  <2> QED
    BY <1>21, <2>1, <2>4, <2>5, Stepped
<1>22. CASE Become(v)
  BY <1>7, <1>17, <1>22, Stepped
<1> QED
  BY <1>16, <1>18, <1>19, <1>20, <1>21, <1>22

\* A player leaves the zone.
LEMMA DecreaseZoneCounterStep ==
  ASSUME World \in Good, NEW p \in Player, DecreaseZoneCounter(p)
  PROVE  Proper
<1> USE BattlefieldAssumption
<1>1. PICK w \in Good : w = World
  OBVIOUS
<1>2. PICK v : v = IF w.pc[p].inside = 0 THEN w ELSE RemoveEntity(w, w.pc[p].inside, p, "warpdc")
  OBVIOUS
<1>3. v \in Good /\ Leaving(w, v) /\ v.pc[p].inside = 0
  <2>1. CASE w.pc[p].inside = 0
    BY <1>2, <2>1 DEF Leaving
  <2>2. CASE w.pc[p].inside # 0
    <3>1. PICK a : a = w.pc[p].inside
      OBVIOUS
    <3>2. a \in DOMAIN w.fields
      BY <2>2, <3>1 DEF Good, InsideOK
    <3>3. PICK u : u = RemoveEntity(w, a, p, "warpdc")
      OBVIOUS
    <3>4. u \in Good
      BY <3>1, <3>2, <3>3, RemovedOK
    <3>5. \A q \in Player : u.pc[q].inside = IF q = p THEN 0 ELSE w.pc[q].inside
      BY <3>1, <3>2, <3>3, RemovedOK
    <3>6. v = u
      BY <1>2, <2>2, <3>1, <3>3
    <3> QED
      BY <3>4, <3>5, <3>6 DEF Leaving
  <2> QED
    BY <2>1, <2>2
<1>4. v.pc[p] \in Char
  BY <1>3, GoodIs
<1>5. PICK c : c = [Newcomer EXCEPT !.effect = v.pc[p].effect]
  OBVIOUS
<1>6. c \in Char /\ c.inside = 0
  <2>1. 0 \in 0..Areas /\ 0 \in 0..(Areas - 1) /\ v.pc[p].effect \in Effect
    BY <1>4 DEF Char
  <2>2. c = [here |-> FALSE, inside |-> 0, effect |-> v.pc[p].effect, events |-> << >>,
             existing |-> FALSE, ask |-> 0, visited |-> FALSE]
    BY <1>5 DEF Newcomer
  <2>3. << >> \in Seq(Event)
    OBVIOUS
  <2> QED
    BY <2>1, <2>2, <2>3 DEF Char
<1>7. PICK x : x = [v EXCEPT !.pc = [v.pc EXCEPT ![p] = c]]
  OBVIOUS
<1>8. Become(x)
  BY <1>1, <1>2, <1>5, <1>7 DEF DecreaseZoneCounter, World
<1>9. x \in Good
  BY ONLY p \in Player, <1>3, <1>6, <1>7, OutsideOK
<1>10. x.pc[p] = c
  <2>1. v.pc \in [Player -> Char] /\ v = [fields |-> v.fields, pc |-> v.pc, orphans |-> v.orphans]
    BY <1>3 DEF Good, Worlds
  <2>2. x.pc = [v.pc EXCEPT ![p] = c]
    BY <1>7, <2>1
  <2> QED
    BY <2>1, <2>2
<1>11. \A q \in Player \ {p} : x.pc[q] = v.pc[q]
  BY <1>3, <1>6, <1>7, OutsideOK
<1>12. Leaving(w, x)
  BY <1>3, <1>6, <1>10, <1>11 DEF Leaving
<1>13. Entry(World, x)
  BY <1>1, <1>12, EntryOf
<1> QED
  BY <1>8, <1>9, <1>13, Stepped

\* A player comes back.
LEMMA IncreaseZoneCounterStep ==
  ASSUME World \in Good, NEW p \in Player, IncreaseZoneCounter(p)
  PROVE  Proper
<1> USE BattlefieldAssumption
<1>1. PICK w \in Good : w = World
  OBVIOUS
<1>2. w.pc[p] \in Char /\ w.pc[p].inside = 0
  <2>1. w.pc[p] \in Char
    BY GoodIs
  <2>2. ~w.pc[p].here
    BY <1>1 DEF IncreaseZoneCounter, World
  <2> QED
    BY <2>1, <2>2 DEF Good, InsideOK
<1>22. PICK kept \in BOOLEAN :
         LET v  == [World EXCEPT !.pc[p].here = TRUE, !.pc[p].effect = IF kept THEN pc[p].effect ELSE NoEffect]
             as == Registered(v, p)
         IN  Become(IF ~HasEffect(v, p) THEN v
                    ELSE IF as # {} THEN InsertEntity(v, Min(as), p, v.pc[p].effect.tier = 1)
                    ELSE IF v.pc[p].effect.tier = 1 THEN [v EXCEPT !.orphans = @ \cup {p}]
                    ELSE LoseEffect(v, {p}))
  BY DEF IncreaseZoneCounter
<1>3. PICK e : e = IF kept THEN w.pc[p].effect ELSE NoEffect
  OBVIOUS
<1>23. e = IF kept THEN pc[p].effect ELSE NoEffect
  BY <1>1, <1>3 DEF World
<1>4. e \in Effect /\ (e.tier = 1 => w.pc[p].effect.tier = 1)
  <2>1. NoEffect \in Effect /\ NoEffect.tier = 0
    BY DEF NoEffect, Effect
  <2> QED
    BY <1>2, <1>3, <2>1 DEF Char
<1>5. PICK c : c = [w.pc[p] EXCEPT !.here = TRUE, !.effect = e]
  OBVIOUS
<1>6. c \in Char /\ c.inside = 0 /\ c.here /\ c.effect = e
  BY <1>2, <1>4, <1>5 DEF Char
<1>7. PICK v : v = [w EXCEPT !.pc = [w.pc EXCEPT ![p] = c]]
  OBVIOUS
<1>8. v = [World EXCEPT !.pc[p].here = TRUE, !.pc[p].effect = e]
  <2>1. w.pc \in [Player -> Char] /\ w = [fields |-> w.fields, pc |-> w.pc, orphans |-> w.orphans]
    BY DEF Good, Worlds
  <2> QED
    BY <1>1, <1>5, <1>7, <2>1
<1>9. v \in Good /\ v.fields = w.fields
  BY <1>2, <1>6, <1>7, OutsideOK
<1>10. v.pc[p] = c
  BY <1>2, <1>6, <1>7, OutsideOK
<1>11. \A q \in Player \ {p} : v.pc[q] = w.pc[q]
  BY <1>2, <1>6, <1>7, OutsideOK
<1>12. \A q \in Player : v.pc[q].inside = w.pc[q].inside
  BY <1>2, <1>6, <1>10, <1>11
<1>13. v \in Worlds
  BY <1>9, GoodIs
<1>14. Entry(World, v)
  BY <1>1, <1>12 DEF Entry
<1>15. PICK o : o = [v EXCEPT !.orphans = v.orphans \cup {p}]
  OBVIOUS
<1>16. PICK i \in BOOLEAN : i = (e.tier = 1)
  OBVIOUS
<1>17. \/ Become(v) \/ Become(o) \/ Become(LoseEffect(v, {p}))
       \/ Registered(v, p) # {} /\ Become(InsertEntity(v, Min(Registered(v, p)), p, e.tier = 1))
  BY <1>6, <1>8, <1>10, <1>15, <1>22, <1>23
<1>18. CASE Become(v)
  BY <1>9, <1>14, <1>18, Stepped
<1>19. CASE Become(o)
  <2>1. v = [fields |-> v.fields, pc |-> v.pc, orphans |-> v.orphans] /\ v.fields \in Fields
        /\ v.pc \in [Player -> Char] /\ v.orphans \in SUBSET Player
    BY <1>13 DEF Worlds
  <2>2. o = [fields |-> v.fields, pc |-> v.pc, orphans |-> v.orphans \cup {p}]
    BY <1>15, <2>1
  <2>3. o \in Worlds /\ o.fields = v.fields /\ o.pc = v.pc
    BY <2>1, <2>2 DEF Worlds
  <2>4. Still(v, o)
    BY <2>3 DEF Still
  <2>5. o \in Good
    BY <1>9, <2>3, <2>4, StillGood
  <2>6. Entry(World, o)
    BY <1>14, <2>4, EntryThen
  <2> QED
    BY <1>19, <2>5, <2>6, Stepped
<1>20. CASE Become(LoseEffect(v, {p}))
  <2>1. PICK l : l = LoseEffect(v, {p})
    OBVIOUS
  <2>2. l \in Worlds /\ Still(v, l)
    BY <1>13, <2>1, LoseEffectOK
  <2>3. l \in Good
    BY <1>9, <2>2, StillGood
  <2>4. Entry(World, l)
    BY <1>14, <2>2, EntryThen
  <2> QED
    BY <1>20, <2>1, <2>3, <2>4, Stepped
<1>21. CASE Registered(v, p) # {} /\ Become(InsertEntity(v, Min(Registered(v, p)), p, e.tier = 1))
  <2>1. PICK a : a = Min(Registered(v, p))
    OBVIOUS
  <2>2. Registered(v, p) \in SUBSET Nat
    <3>1. DOMAIN v.fields \subseteq Area
      BY <1>9, GoodIs
    <3> QED
      BY <3>1 DEF Registered, Area
  <2>3. a \in Registered(v, p)
    BY <1>21, <2>1, <2>2, MinIn
  <2>4. a \in DOMAIN v.fields /\ p \in v.fields[a].registered /\ v.pc[p].here
    BY <1>6, <1>10, <2>3 DEF Registered
  <2>5. CASE e.tier = 1
    <3>1. PICK x : x = InsertEntity(v, a, p, TRUE)
      OBVIOUS
    <3>2. x \in Good
      BY <1>9, <2>4, <3>1, EnteredOK
    <3>3. \A q \in Player \ {p} : x.pc[q] = v.pc[q]
      BY <1>9, <2>4, <3>1, EnteredOK
    <3>4. Become(x)
      <4>1. (e.tier = 1) = TRUE
        BY <2>5
      <4> QED
        BY <1>21, <2>1, <3>1, <4>1
    <3>5. Entry(w, x)
      BY <1>4, <1>11, <2>5, <3>3 DEF Entry
    <3>6. Entry(World, x)
      BY <1>1, <3>5
    <3> QED
      BY <3>2, <3>4, <3>6, Stepped
  <2>6. CASE e.tier # 1
    <3>1. PICK x : x = InsertEntity(v, a, p, FALSE)
      OBVIOUS
    <3>2. x \in Good /\ Still(v, x)
      BY <1>9, <2>4, <3>1, RegisteredOK
    <3>3. Become(x)
      <4>1. (e.tier = 1) = FALSE
        BY <2>6
      <4> QED
        BY <1>21, <2>1, <3>1, <4>1
    <3>4. Entry(World, x)
      BY <1>14, <3>2, EntryThen
    <3> QED
      BY <3>2, <3>3, <3>4, Stepped
  <2> QED
    BY <2>5, <2>6
<1> QED
  BY <1>17, <1>18, <1>19, <1>20, <1>21

\* A blow.
LEMMA AttackStep ==
  ASSUME World \in Good, NEW p \in Player, Attack(p)
  PROVE  Proper
<1>1. PICK a : a = pc[p].inside
  OBVIOUS
<1>2. a \in DOMAIN fields
  BY <1>1, CharIs DEF Attack
<1>3. fields[a] \in Battle /\ World.fields = fields
  BY <1>2, GoodIs DEF World
<1>4. PICK f : f = [fields[a] EXCEPT !.enmity = fields[a].enmity \cup {p}]
  OBVIOUS
<1>5. f \in Battle /\ f.entered = fields[a].entered /\ f.registered = fields[a].registered
  BY <1>3, <1>4 DEF Battle
<1>6. PICK v : v = [World EXCEPT !.fields = [World.fields EXCEPT ![a] = f]]
  OBVIOUS
<1>7. Become(v)
  BY <1>1, <1>3, <1>4, <1>6 DEF Attack
<1> QED
  BY <1>2, <1>5, <1>6, <1>7, FieldStep

\* The battlefield is won.
LEMMA HandleAllMonstersDefeatedStep ==
  ASSUME World \in Good, NEW a, HandleAllMonstersDefeated(a)
  PROVE  Proper
<1> USE BattlefieldAssumption
<1>2. a \in DOMAIN fields
  BY DEF HandleAllMonstersDefeated
<1>3. fields[a] \in Battle /\ World.fields = fields
  BY <1>2, GoodIs DEF World
<1>4. PICK f : f = [fields[a] EXCEPT !.status = "won", !.timer = DelayToExit, !.enmity = {}]
  OBVIOUS
<1>5. f \in Battle /\ f.entered = fields[a].entered /\ f.registered = fields[a].registered
  <2>1. DelayToExit \in 0..DelayToExit
    OBVIOUS
  <2> QED
    BY <1>3, <1>4, <2>1 DEF Battle
<1>6. PICK v : v = [World EXCEPT !.fields = [World.fields EXCEPT ![a] = f]]
  OBVIOUS
<1>7. Become(v)
  BY <1>3, <1>4, <1>6 DEF HandleAllMonstersDefeated, World
<1> QED
  BY <1>2, <1>5, <1>6, <1>7, FieldStep

-----------------------------------------------------------------------------
(* The invariant.                                                           *)

\* The world is a good one, and the rest has its type.
Inv ==
  /\ World \in Good
  /\ allied \subseteq Player
  /\ menus \in 0..MaxMenus
  /\ absences \in 0..MaxAbsences

\* At the start nobody is anywhere.
LEMMA InitInv == Init => Inv
<1> SUFFICES ASSUME Init PROVE Inv
  OBVIOUS
<1> USE BattlefieldAssumption
<1>1. fields \in Fields /\ DOMAIN fields = {}
  <2>1. fields = << >> /\ DOMAIN << >> = {} /\ << >> \in [{} -> Battle] /\ {} \in SUBSET Area
    BY DEF Init
  <2> QED
    BY <2>1 DEF Fields
<1>2. PICK c : c = [Newcomer EXCEPT !.here = TRUE]
  OBVIOUS
<1>3. c = [here |-> TRUE, inside |-> 0, effect |-> NoEffect, events |-> << >>,
           existing |-> FALSE, ask |-> 0, visited |-> FALSE]
  BY <1>2 DEF Newcomer
<1>4. NoEffect \in Effect
  BY DEF NoEffect, Effect
<1>5. c \in Char /\ c.inside = 0
  BY <1>3, <1>4 DEF Char
<1>6. pc \in [Player -> Char] /\ \A p \in Player : pc[p] = c
  BY <1>2, <1>5 DEF Init
<1>7. World \in Worlds
  BY <1>1, <1>6 DEF World, Worlds, Init
<1>8. InsideOK(World)
  BY <1>5, <1>6 DEF InsideOK, World
<1>9. ListsOK(World)
  BY <1>1 DEF ListsOK, World
<1> QED
  BY <1>7, <1>8, <1>9 DEF Inv, Good, Init

\* Every step keeps the world a good one, and lets in only who may come in.
LEMMA NextProper ==
  ASSUME Inv, Next
  PROVE  Proper
<1>1. ASSUME NEW a \in Area, NEW finds \in {"nothing", "wiped", "time up"}, NEW rested \in BOOLEAN,
             HandleBattlefield(a, finds, rested)
      PROVE  Proper
  BY <1>1, HandleBattlefieldStep DEF Inv
<1>2. ASSUME NEW p \in Player, HandleOrphan(p) PROVE Proper
  BY <1>2, HandleOrphanStep DEF Inv
<1>3. ASSUME NEW p \in Player, OnEntryTrigger(p) PROVE Proper
  BY <1>3, OnEntryTriggerStep DEF Inv
<1>4. ASSUME NEW p \in Player, OnEntryEventUpdate(p) PROVE Proper
  BY <1>4, OnEntryEventUpdateStep DEF Inv
<1>5. ASSUME NEW p \in Player, OnEventFinishEnter(p) PROVE Proper
  BY <1>5, OnEventFinishEnterStep DEF Inv
<1>6. ASSUME NEW p \in Player, OnExitTrigger(p) PROVE Proper
  BY <1>6, OnExitTriggerStep DEF Inv
<1>7. ASSUME NEW p \in Player, OnEventFinishExit(p) \/ OnEventFinishWin(p) \/ OnEventFinishLeave(p)
      PROVE  Proper
  BY <1>7, OtherEventsStep DEF Inv
<1>8. ASSUME NEW p \in Player, DecreaseZoneCounter(p) PROVE Proper
  BY <1>8, DecreaseZoneCounterStep DEF Inv
<1>9. ASSUME NEW p \in Player, IncreaseZoneCounter(p) PROVE Proper
  BY <1>9, IncreaseZoneCounterStep DEF Inv
<1>10. ASSUME NEW p \in Player, LeaveAlliance(p) PROVE Proper
  <2>1. World' = World
    BY <1>10 DEF LeaveAlliance, World
  <2>2. Still(World, World)
    BY DEF Still
  <2>3. Entry(World, World)
    BY <2>2, EntryOf
  <2> QED
    BY <2>1, <2>3 DEF Proper, Inv
<1>11. ASSUME NEW p \in Player, Attack(p) PROVE Proper
  BY <1>11, AttackStep DEF Inv
<1>12. ASSUME NEW a \in Area, HandleAllMonstersDefeated(a) PROVE Proper
  BY <1>12, HandleAllMonstersDefeatedStep DEF Inv
<1> QED
  BY <1>1, <1>2, <1>3, <1>4, <1>5, <1>6, <1>7, <1>8, <1>9, <1>10, <1>11, <1>12, ZenonT(60) DEF Next

\* The alliance and the counters keep their types.
LEMMA RestTyped ==
  ASSUME Inv, Next
  PROVE  allied' \subseteq Player /\ menus' \in 0..MaxMenus /\ absences' \in 0..MaxAbsences
<1> USE BattlefieldAssumption DEF Inv
<1>1. CASE UNCHANGED <<allied, menus, absences>>
  BY <1>1
<1>2. ASSUME NEW p \in Player, OnEntryTrigger(p)
      PROVE  allied' \subseteq Player /\ menus' \in 0..MaxMenus /\ absences' \in 0..MaxAbsences
  BY <1>2 DEF OnEntryTrigger
<1>3. ASSUME NEW p \in Player, DecreaseZoneCounter(p)
      PROVE  allied' \subseteq Player /\ menus' \in 0..MaxMenus /\ absences' \in 0..MaxAbsences
  BY <1>3 DEF DecreaseZoneCounter
<1>4. ASSUME NEW p \in Player, LeaveAlliance(p)
      PROVE  allied' \subseteq Player /\ menus' \in 0..MaxMenus /\ absences' \in 0..MaxAbsences
  BY <1>4 DEF LeaveAlliance
<1>5. \/ UNCHANGED <<allied, menus, absences>>
      \/ \E p \in Player : OnEntryTrigger(p) \/ DecreaseZoneCounter(p) \/ LeaveAlliance(p)
  BY ZenonT(60) DEF Next, HandleBattlefield, HandleOrphan, OnEntryEventUpdate, OnEventFinishEnter, OnExitTrigger,
     OnEventFinishExit, OnEventFinishWin, OnEventFinishLeave, IncreaseZoneCounter, Attack,
     HandleAllMonstersDefeated
<1> QED
  BY <1>1, <1>2, <1>3, <1>4, <1>5

\* Every step keeps the invariant.
LEMMA NextInv == Inv /\ [Next]_vars => Inv'
<1>1. ASSUME Inv, Next PROVE Inv'
  BY <1>1, NextProper, RestTyped DEF Inv, Proper
<1>2. ASSUME Inv, UNCHANGED vars PROVE Inv'
  BY <1>2 DEF Inv, vars, World
<1> QED
  BY <1>1, <1>2

\* The inductive invariant of the battlefields: worlds of the right shape in which the
\* pointers of the characters and the lists of the battlefields agree.
THEOREM Invariance == Spec => []Inv
BY InitInv, NextInv, PTL DEF Spec

\* The invariant gives the type of the state.
LEMMA InvType == Inv => TypeOK
<1> SUFFICES ASSUME Inv PROVE TypeOK
  OBVIOUS
<1>1. pc \in [Player -> Char] /\ DOMAIN fields \subseteq Area /\ orphans \subseteq Player
  BY GoodIs DEF Inv, World, Good, Worlds
<1>2. \A a \in DOMAIN fields : fields[a] \in Battle
  BY GoodIs DEF Inv, World
<1> QED
  BY <1>1, <1>2 DEF TypeOK, Battle, Char, Effect, Event, Inv

\* Whatever the players do, the battlefields, the characters and the list of those to be
\* kicked stay what CBattlefield, CCharEntity and the handler declare them to be.
THEOREM TypeCorrect == Spec => []TypeOK
BY Invariance, InvType, PTL

\* The invariant gives the agreement of pointers and lists.
LEMMA InvConsistent == Inv => Consistent
BY DEF Inv, World, Good, InsideOK, ListsOK, Consistent

\* PBattlefield and m_EnteredPlayers never contradict each other and the limit holds:
\* through every order of wipes, victories, times running out, warps, log-outs and
\* returns, for any number of players and areas.
THEOREM PointersFollowLists == Spec => []Consistent
BY Invariance, InvConsistent, PTL

\* A step from the invariant lets nobody in late.
LEMMA NextEntry ==
  Inv /\ [Next]_vars =>
    \A p \in Player, a \in DOMAIN fields :
      pc[p].inside = 0 /\ pc'[p].inside = a /\ (fields[a].status # "open" \/ fields[a].enmity # {})
        => pc[p].effect.tier = 1
<1> SUFFICES ASSUME Inv, [Next]_vars, NEW p \in Player, NEW a \in DOMAIN fields,
                    pc[p].inside = 0, pc'[p].inside = a, fields[a].status # "open" \/ fields[a].enmity # {}
             PROVE  pc[p].effect.tier = 1
  OBVIOUS
<1>1. a # 0
  <2>1. DOMAIN fields \subseteq Area
    BY GoodIs DEF Inv, World
  <2> QED
    BY <2>1 DEF Area
<1>2. CASE Next
  <2>1. Entry(World, World')
    BY <1>2, NextProper DEF Proper
  <2> QED
    BY <1>1, <2>1 DEF Entry, Open, World
<1>3. CASE UNCHANGED vars
  BY <1>1, <1>3 DEF vars
<1> QED
  BY <1>2, <1>3

\* Once a blow has fallen, or the battlefield is decided, only those come in who had
\* been inside: the entry of the menu, that of the alliance and the return to the zone
\* each keep to it.
THEOREM NobodyLate == Spec => NoLateEntry
<1>1. Inv /\ [Next]_vars =>
        [\A p \in Player, a \in DOMAIN fields :
           pc[p].inside = 0 /\ pc'[p].inside = a /\ (fields[a].status # "open" \/ fields[a].enmity # {})
             => pc[p].effect.tier = 1]_vars
  BY NextEntry
<1> QED
  BY <1>1, Invariance, PTL DEF Spec, NoLateEntry
=============================================================================
