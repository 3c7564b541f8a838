---------------------------- MODULE PartyProofs ----------------------------
(***************************************************************************)
(* The parties, for any players, servers, zones and sizes, and with every    *)
(* request hasty.  A handler works on a world: rows, CParty objects, pools,  *)
(* flags and mail.  A world is Good, for given places of the players, if     *)
(* its parts have their types, the objects of a server have no member in     *)
(* common and only members it hosts, the pools are disjoint and hold         *)
(* everybody who stands in a zone, and two players share one exactly when    *)
(* they are near each other and in one object.  The mail may say anything:   *)
(* that who shares a pool belongs together does not rest on the news.        *)
(***************************************************************************)
EXTENDS Party, TLAPS

Row  == [party : Player \cup {None}, lead : BOOLEAN]
Kinds == {"reload", "disband", "kicked", "invite", "answer"}
Mail == [kind : Kinds, who : Player, by : Player]

Worlds == [row : [Player -> Row], grp : [Server -> SUBSET Party], pool : SUBSET SUBSET Player,
           flag : [Player -> BOOLEAN], out : [Server -> Seq(Mail)]]

Places == [Player -> Zone \cup {None}]

\* Who stands in a zone; who stands in the same one.
Stands(a, d, p) == a[p] # None /\ d[p] = None
Near(a, d, p, q) == Stands(a, d, p) /\ Stands(a, d, q) /\ a[p] = a[q]

\* Two players in one object of G; in one pool of P.
Mates(G, p, q) == \E g \in G : p \in g.members /\ q \in g.members
Share(P, p, q) == \E ps \in P : p \in ps /\ q \in ps

\* No two objects of a server have a member in common.
Apart(G) == \A g, h \in G : \A p \in Player : p \in g.members /\ p \in h.members => g = h

\* A member is somewhere on the server of the object.
Housed(w, a) == \A s \in Server : \A p \in Player :
  Mates(w.grp[s], p, p) => a[p] # None /\ Host[a[p]] = s

\* The pools are disjoint, none is empty, and S is who they hold.
Pools(P, S) ==
  /\ {} \notin P
  /\ \A ps, qs \in P : \A p \in Player : p \in ps /\ p \in qs => ps = qs
  /\ \A p \in Player : p \in S <=> Share(P, p, p)

Standing(a, d) == {p \in Player : Stands(a, d, p)}

\* Who shares a pool stands in one zone and in one object, and the other way round.
Agree(w, a, d) == \A p, q \in Player : p # q =>
  (Share(w.pool, p, q) <=> Near(a, d, p, q) /\ Mates(w.grp[Host[a[p]]], p, q))

Good(w, a, d) ==
  /\ w \in Worlds /\ a \in Places /\ d \in Places
  /\ \A s \in Server : Apart(w.grp[s])
  /\ Housed(w, a)
  /\ Pools(w.pool, Standing(a, d))
  /\ Agree(w, a, d)

\* Who is nowhere is bound for nowhere, and the mail has its type.
Inv ==
  /\ \A p \in Player : at[p] = None => dest[p] = None
  /\ pending \in [Player -> Player \cup {None}]
  /\ inbox \in [Server -> Seq(Mail)]
  /\ Good(World, at, dest)

-----------------------------------------------------------------------------
(* Pools.                                                                    *)

\* What OwnPool and ReloadTreasurePool do to the pools.
Owned(P, ps) ==
  LET had == ps \cap UNION P
  IN  ({qs \ had : qs \in P} \ {{}}) \cup {{p} : p \in had}

Fellows(P, g, p) == {q \in g.members \ {p} : q \in UNION P /\ at[q] = at[p]}

Rejoined(P, g, p) ==
  LET rest == OutOfPool(P, p)
  IN  IF Fellows(P, g, p) # {}
      THEN LET q == CHOOSE q \in Fellows(P, g, p) : TRUE
               its == CHOOSE ps \in rest : q \in ps
           IN  (rest \ {its}) \cup {its \cup {p}}
      ELSE IF p \in UNION P THEN P
      ELSE P \cup {{p}}

\* One who leaves a pool shares it with nobody, the others go on sharing theirs.
LEMMA OutOfPoolIs ==
  ASSUME NEW P \in SUBSET SUBSET Player, NEW S, Pools(P, S), NEW p \in Player
  PROVE  /\ OutOfPool(P, p) \in SUBSET SUBSET Player
         /\ Pools(OutOfPool(P, p), S \ {p})
         /\ \A x, y \in Player : Share(OutOfPool(P, p), x, y) <=> Share(P, x, y) /\ x # p /\ y # p
<1>0. \A qs : qs \in OutOfPool(P, p) <=> qs # {} /\ \E ps \in P : qs = ps \ {p}
  BY DEF OutOfPool
<1>1. OutOfPool(P, p) \in SUBSET SUBSET Player
  BY <1>0
<1>2. ASSUME NEW x \in Player, NEW y \in Player
      PROVE  Share(OutOfPool(P, p), x, y) <=> Share(P, x, y) /\ x # p /\ y # p
  <2>1. ASSUME Share(OutOfPool(P, p), x, y) PROVE Share(P, x, y) /\ x # p /\ y # p
    <3>1. PICK qs \in OutOfPool(P, p) : x \in qs /\ y \in qs
      BY <2>1 DEF Share
    <3>2. PICK ps \in P : qs = ps \ {p}
      BY <1>0, <3>1
    <3> QED
      BY <3>1, <3>2 DEF Share
  <2>2. ASSUME Share(P, x, y), x # p, y # p PROVE Share(OutOfPool(P, p), x, y)
    <3>1. PICK ps \in P : x \in ps /\ y \in ps
      BY <2>2 DEF Share
    <3>2. ps \ {p} \in OutOfPool(P, p)
      BY <1>0, <2>2, <3>1
    <3> QED
      BY <2>2, <3>1, <3>2 DEF Share
  <2> QED
    BY <2>1, <2>2
<1>3. ASSUME NEW ps \in OutOfPool(P, p), NEW qs \in OutOfPool(P, p), NEW x \in Player, x \in ps, x \in qs
      PROVE  ps = qs
  <2>1. PICK pp \in P : ps = pp \ {p}
    BY <1>0
  <2>2. PICK qq \in P : qs = qq \ {p}
    BY <1>0
  <2>3. pp = qq
    BY <1>3, <2>1, <2>2 DEF Pools
  <2> QED
    BY <2>1, <2>2, <2>3
<1>4. {} \notin OutOfPool(P, p)
  BY <1>0
<1>5. \A x \in Player : x \in S \ {p} <=> Share(OutOfPool(P, p), x, x)
  BY <1>2 DEF Pools
<1> QED
  BY <1>1, <1>2, <1>3, <1>4, <1>5 DEF Pools

\* Those of ps who have a pool get one of their own each; nobody goes without.
LEMMA OwnedIs ==
  ASSUME NEW P \in SUBSET SUBSET Player, NEW S, Pools(P, S), NEW ps \in SUBSET Player
  PROVE  /\ Owned(P, ps) \in SUBSET SUBSET Player
         /\ Pools(Owned(P, ps), S)
         /\ \A x, y \in Player : x # y =>
              (Share(Owned(P, ps), x, y) <=> Share(P, x, y) /\ x \notin ps /\ y \notin ps)
<1> PICK had : had = ps \cap UNION P
  OBVIOUS
<1>0. \A qs : qs \in Owned(P, ps) <=> \/ qs # {} /\ \E rs \in P : qs = rs \ had
                                      \/ \E x \in had : qs = {x}
  BY DEF Owned
<1>1. Owned(P, ps) \in SUBSET SUBSET Player
  BY <1>0
<1>2. ASSUME NEW x \in Player, NEW y \in Player, x # y
      PROVE  Share(Owned(P, ps), x, y) <=> Share(P, x, y) /\ x \notin ps /\ y \notin ps
  <2>1. ASSUME Share(Owned(P, ps), x, y) PROVE Share(P, x, y) /\ x \notin ps /\ y \notin ps
    <3>1. PICK qs \in Owned(P, ps) : x \in qs /\ y \in qs
      BY <2>1 DEF Share
    <3>2. PICK rs \in P : qs = rs \ had
      BY <1>0, <1>2, <3>1
    <3>3. x \in UNION P /\ y \in UNION P
      BY <3>1, <3>2
    <3> QED
      BY <3>1, <3>2, <3>3 DEF Share
  <2>2. ASSUME Share(P, x, y), x \notin ps, y \notin ps PROVE Share(Owned(P, ps), x, y)
    <3>1. PICK rs \in P : x \in rs /\ y \in rs
      BY <2>2 DEF Share
    <3>2. x \in rs \ had /\ y \in rs \ had
      BY <2>2, <3>1
    <3>3. rs \ had \in Owned(P, ps)
      BY <1>0, <3>2
    <3> QED
      BY <3>2, <3>3 DEF Share
  <2> QED
    BY <2>1, <2>2
<1>3. ASSUME NEW qs \in Owned(P, ps), NEW rs \in Owned(P, ps), NEW x \in Player, x \in qs, x \in rs
      PROVE  qs = rs
  <2>1. CASE x \in had
    <3>1. \A ts \in Owned(P, ps) : x \in ts => ts = {x}
      BY <1>0, <2>1
    <3> QED
      BY <1>3, <3>1
  <2>2. CASE x \notin had
    <3>1. PICK q1 \in P : qs = q1 \ had
      BY <1>0, <1>3, <2>2
    <3>2. PICK r1 \in P : rs = r1 \ had
      BY <1>0, <1>3, <2>2
    <3>3. q1 = r1
      BY <1>3, <3>1, <3>2 DEF Pools
    <3> QED
      BY <3>1, <3>2, <3>3
  <2> QED
    BY <2>1, <2>2
<1>4. {} \notin Owned(P, ps)
  BY <1>0
<1>5. ASSUME NEW x \in Player PROVE x \in S <=> Share(Owned(P, ps), x, x)
  <2>1. x \in S <=> x \in UNION P
    BY DEF Pools, Share
  <2>2. ASSUME x \in UNION P PROVE \E qs \in Owned(P, ps) : x \in qs
    <3>1. CASE x \in had
      <4>1. {x} \in Owned(P, ps)
        BY <1>0, <3>1
      <4> QED
        BY <4>1
    <3>2. CASE x \notin had
      <4>1. PICK rs \in P : x \in rs
        BY <2>2
      <4>2. rs \ had \in Owned(P, ps) /\ x \in rs \ had
        BY <1>0, <3>2, <4>1
      <4> QED
        BY <4>2
    <3> QED
      BY <3>1, <3>2
  <2>3. ASSUME NEW qs \in Owned(P, ps), x \in qs PROVE x \in UNION P
    BY <1>0, <2>3
  <2> QED
    BY <2>1, <2>2, <2>3 DEF Share
<1> QED
  BY <1>1, <1>2, <1>3, <1>4, <1>5 DEF Pools

\* Those of F share one pool, with nobody else but p, and p shares with nobody else.
Cluster(P, F, p) ==
  /\ \A x, y \in F : Share(P, x, y)
  /\ \A x \in F, y \in Player : y # p /\ Share(P, x, y) => y \in F
  /\ \A y \in Player : y # p /\ Share(P, p, y) => y \in F

\* The pool p finds is that of the fellows: ReloadTreasurePool brings p into it, and
\* otherwise p has a pool of its own.
LEMMA RejoinedIs ==
  ASSUME NEW P \in SUBSET SUBSET Player, NEW S, Pools(P, S), NEW p \in Player,
         NEW g, g.members \subseteq Player,
         NEW F, F = Fellows(P, g, p),
         Cluster(P, F, p)
  PROVE  /\ Rejoined(P, g, p) \in SUBSET SUBSET Player
         /\ Pools(Rejoined(P, g, p), S \cup {p})
         /\ \A x, y \in Player : x # y =>
              (Share(Rejoined(P, g, p), x, y) <=>
                 Share(P, x, y) \/ (x = p /\ y \in F) \/ (y = p /\ x \in F))
<1> PICK rest : rest = OutOfPool(P, p)
  OBVIOUS
<1> PICK R : R = Rejoined(P, g, p)
  OBVIOUS
<1>1. /\ rest \in SUBSET SUBSET Player
      /\ Pools(rest, S \ {p})
      /\ \A x, y \in Player : Share(rest, x, y) <=> Share(P, x, y) /\ x # p /\ y # p
  BY OutOfPoolIs
<1>2. F \subseteq Player /\ p \notin F
  BY DEF Fellows
<1>3. CASE F # {}
  <2>1. PICK q : q = CHOOSE r \in F : TRUE
    OBVIOUS
  <2>2. q \in F /\ q \in Player /\ q # p /\ q \in UNION P
    BY <1>2, <1>3, <2>1 DEF Fellows
  <2>3. PICK its : its = CHOOSE ps \in rest : q \in ps
    OBVIOUS
  <2>4. R = (rest \ {its}) \cup {its \cup {p}}
    BY <1>3, <2>1, <2>3 DEF Rejoined
  <2>5. its \in rest /\ q \in its
    <3>1. Share(P, q, q)
      BY <2>2 DEF Share
    <3>2. Share(rest, q, q)
      BY <1>1, <2>2, <3>1
    <3>3. \E ps \in rest : q \in ps
      BY <3>2 DEF Share
    <3> QED
      BY <2>3, <3>3
  <2>6. ASSUME NEW y \in Player PROVE y \in its <=> y \in F
    <3>1. y \in its <=> Share(rest, q, y)
      BY <1>1, <2>2, <2>5 DEF Share, Pools
    <3>2. Share(rest, q, y) <=> Share(P, q, y) /\ y # p
      BY <1>1, <2>2
    <3> QED
      BY <1>2, <2>2, <3>1, <3>2 DEF Cluster
  <2>7. its = F
    BY <1>1, <1>2, <2>5, <2>6
  <2>8. \A qs : qs \in R <=> (qs \in rest /\ qs # F) \/ qs = F \cup {p}
    BY <2>4, <2>7
  <2>9. R \in SUBSET SUBSET Player
    BY <1>1, <1>2, <2>8
  <2>10. ASSUME NEW x \in Player, NEW y \in Player
         PROVE  Share(R, x, y) <=> Share(rest, x, y) \/ (x \in F \cup {p} /\ y \in F \cup {p})
    <3>1. Share(R, x, y) => Share(rest, x, y) \/ (x \in F \cup {p} /\ y \in F \cup {p})
      BY <2>8 DEF Share
    <3>2. x \in F \cup {p} /\ y \in F \cup {p} => Share(R, x, y)
      BY <2>8 DEF Share
    <3>3. ASSUME Share(rest, x, y) PROVE Share(R, x, y)
      <4>1. PICK ps \in rest : x \in ps /\ y \in ps
        BY <3>3 DEF Share
      <4>2. CASE ps = F
        BY <3>2, <4>1, <4>2
      <4>3. CASE ps # F
        BY <2>8, <4>1, <4>3 DEF Share
      <4> QED
        BY <4>2, <4>3
    <3> QED
      BY <3>1, <3>2, <3>3
  <2>11. ASSUME NEW x \in Player, NEW y \in Player, x # y
         PROVE  Share(R, x, y) <=>
                  Share(P, x, y) \/ (x = p /\ y \in F) \/ (y = p /\ x \in F)
    <3>1. Share(R, x, y) <=> (Share(P, x, y) /\ x # p /\ y # p) \/ (x \in F \cup {p} /\ y \in F \cup {p})
      BY <1>1, <2>10 DEF Cluster
    <3>2. Share(P, x, y) <=> Share(P, y, x)
      BY DEF Share
    <3> QED
      BY <2>11, <3>1, <3>2 DEF Cluster
  <2>12. ASSUME NEW x \in Player PROVE x \in S \cup {p} <=> Share(R, x, x)
    <3>1. x \in S \ {p} <=> Share(rest, x, x)
      BY <1>1 DEF Pools
    <3>2. x \in F => Share(P, x, x)
      BY DEF Cluster
    <3>3. x \in F => x \in S
      BY <3>2 DEF Pools
    <3> QED
      BY <2>10, <3>1, <3>3
  <2>13. {} \notin R
    BY <1>1, <2>8 DEF Pools
  <2>14. ASSUME NEW ps \in R, NEW qs \in R, NEW x \in Player, x \in ps, x \in qs
         PROVE  ps = qs
    <3>1. \A ts \in rest : p \notin ts
      <4> SUFFICES ASSUME NEW ts \in rest, p \in ts PROVE FALSE
        OBVIOUS
      <4>1. Share(rest, p, p)
        BY DEF Share
      <4> QED
        BY <1>1, <4>1
    <3>2. ASSUME NEW ts \in rest, ts # F, x \in ts PROVE x \notin F \cup {p}
      <4>1. x # p
        BY <3>1, <3>2
      <4>2. x \notin F
        BY <1>1, <2>5, <2>7, <3>2 DEF Pools
      <4> QED
        BY <4>1, <4>2
    <3>3. CASE ps = F \cup {p}
      BY <2>8, <2>14, <3>2, <3>3
    <3>4. CASE qs = F \cup {p}
      BY <2>8, <2>14, <3>2, <3>4
    <3>5. CASE ps \in rest /\ qs \in rest
      BY <1>1, <2>14, <3>5 DEF Pools
    <3> QED
      BY <2>8, <3>3, <3>4, <3>5
  <2> QED
    BY <2>9, <2>11, <2>12, <2>13, <2>14 DEF Pools
<1>4. CASE F = {} /\ p \in UNION P
  <2>1. R = P
    BY <1>4 DEF Rejoined
  <2>2. p \in S
    BY <1>4 DEF Pools, Share
  <2>3. S \cup {p} = S
    BY <2>2
  <2> QED
    BY <1>4, <2>1, <2>3 DEF Cluster
<1>5. CASE F = {} /\ p \notin UNION P
  <2>1. R = P \cup {{p}}
    BY <1>5 DEF Rejoined
  <2>2. R \in SUBSET SUBSET Player
    BY <2>1
  <2>3. ASSUME NEW x \in Player, NEW y \in Player
        PROVE  Share(R, x, y) <=> Share(P, x, y) \/ (x = p /\ y = p)
    BY <2>1 DEF Share
  <2>4. {} \notin R
    BY <2>1 DEF Pools
  <2>5. ASSUME NEW ps \in R, NEW qs \in R, NEW x \in Player, x \in ps, x \in qs PROVE ps = qs
    <3>1. \A ts \in P : p \notin ts
      BY <1>5
    <3>2. CASE x = p
      BY <2>1, <2>5, <3>1, <3>2
    <3>3. CASE x # p
      BY <2>1, <2>5, <3>3 DEF Pools
    <3> QED
      BY <3>2, <3>3
  <2>6. \A x \in Player : x \in S \cup {p} <=> Share(R, x, x)
    BY <2>3 DEF Pools
  <2>7. \A x, y \in Player : x # y => (Share(R, x, y) <=> Share(P, x, y))
    BY <2>3
  <2> QED
    BY <1>5, <2>2, <2>4, <2>5, <2>6, <2>7 DEF Pools, Cluster
<1> QED
  BY <1>3, <1>4, <1>5

-----------------------------------------------------------------------------
(* The objects of one server.                                                *)

Group == [id : Player, members : SUBSET Player, lead : Player \cup {None}]

Swapped(G, g, h) == (G \ {g}) \cup (IF h.members = {} THEN {} ELSE {h})

\* An object of G, or one that has no member yet.
Fits(G, g) == g \in Group /\ (g \in G \/ g.members = {})

\* One object takes the place of another, and nobody is in a second one: who was not in the
\* old one stays where he was, who is in the new one is in it.
LEMMA SwapIs ==
  ASSUME NEW G \in SUBSET Party, Apart(G), NEW g, Fits(G, g), NEW h \in Group,
         \A k \in G : k # g => k.members \cap h.members = {}
  PROVE  /\ Swapped(G, g, h) \in SUBSET Party
         /\ Apart(Swapped(G, g, h))
         /\ h.members # {} => h \in Swapped(G, g, h)
         /\ \A x, y \in Player :
              Mates(Swapped(G, g, h), x, y) <=>
                \/ x \in h.members /\ y \in h.members
                \/ Mates(G, x, y) /\ x \notin g.members
<1>0. \A k : k \in Swapped(G, g, h) <=> (k \in G /\ k # g) \/ (k = h /\ h.members # {})
  BY DEF Swapped
<1>1. \A k \in G : k \in Group /\ k.members \subseteq Player
  BY DEF Party, Group
<1>2. h.members \subseteq Player /\ g.members \subseteq Player
  BY DEF Fits, Group
<1>3. h.members # {} => h \in Party
  BY <1>2 DEF Party, Group
<1>4. Swapped(G, g, h) \in SUBSET Party
  BY <1>0, <1>3
<1>5. ASSUME NEW k \in Swapped(G, g, h), NEW m \in Swapped(G, g, h), NEW x \in Player, x \in k.members, x \in m.members
      PROVE  k = m
  <2>1. CASE k = h
    BY <1>0, <1>5, <2>1
  <2>2. CASE m = h
    BY <1>0, <1>5, <2>2
  <2>3. CASE k \in G /\ m \in G
    BY <1>5, <2>3 DEF Apart
  <2> QED
    BY <1>0, <2>1, <2>2, <2>3
<1>6. ASSUME NEW x \in Player, NEW y \in Player
      PROVE  Mates(Swapped(G, g, h), x, y) <=>
                \/ x \in h.members /\ y \in h.members
                \/ Mates(G, x, y) /\ x \notin g.members
  <2>1. ASSUME NEW k \in G, k # g, x \in k.members PROVE x \notin g.members
    BY <2>1 DEF Apart, Fits
  <2>2. ASSUME Mates(Swapped(G, g, h), x, y)
        PROVE  (x \in h.members /\ y \in h.members) \/ (Mates(G, x, y) /\ x \notin g.members)
    <3>1. PICK k \in Swapped(G, g, h) : x \in k.members /\ y \in k.members
      BY <2>2 DEF Mates
    <3> QED
      BY <1>0, <2>1, <3>1 DEF Mates
  <2>3. ASSUME x \in h.members, y \in h.members PROVE Mates(Swapped(G, g, h), x, y)
    BY <1>0, <2>3 DEF Mates
  <2>4. ASSUME Mates(G, x, y), x \notin g.members PROVE Mates(Swapped(G, g, h), x, y)
    <3>1. PICK k \in G : x \in k.members /\ y \in k.members
      BY <2>4 DEF Mates
    <3> QED
      BY <1>0, <2>4, <3>1 DEF Mates
  <2> QED
    BY <2>2, <2>3, <2>4
<1> QED
  BY <1>0, <1>4, <1>5, <1>6 DEF Apart

\* Who is in an object of a server is with its members, and with nobody else.
LEMMA MatesAre ==
  ASSUME NEW G \in SUBSET Party, Apart(G), NEW g, Fits(G, g), NEW x \in Player, NEW y \in Player
  PROVE  /\ x \in g.members => (Mates(G, x, y) <=> y \in g.members)
         /\ Mates(G, x, y) <=> Mates(G, y, x)
BY DEF Apart, Fits, Mates

-----------------------------------------------------------------------------
(* Worlds.                                                                   *)

\* Only one object of one server changes from w to v.
Regroups(w, v, s, g, h) ==
  /\ v \in Worlds
  /\ v.grp = [w.grp EXCEPT ![s] = Swapped(w.grp[s], g, h)]

\* The objects after the change.
LEMMA RegroupIs ==
  ASSUME NEW w, NEW v, NEW a, NEW d, Good(w, a, d), NEW s \in Server, NEW g, NEW h \in Group,
         Fits(w.grp[s], g), Regroups(w, v, s, g, h),
         \A k \in w.grp[s] : k # g => k.members \cap h.members = {}
  PROVE  /\ v \in Worlds
         /\ \A t \in Server : t # s => v.grp[t] = w.grp[t]
         /\ \A t \in Server : Apart(v.grp[t])
         /\ h.members # {} => h \in v.grp[s]
         /\ \A x, y \in Player : Mates(v.grp[s], x, y) <=>
              \/ x \in h.members /\ y \in h.members
              \/ Mates(w.grp[s], x, y) /\ x \notin g.members
<1>1. w.grp \in [Server -> SUBSET Party]
  BY DEF Good, Worlds
<1>2. v \in Worlds /\ v.grp[s] = Swapped(w.grp[s], g, h)
  BY <1>1 DEF Regroups
<1>3. \A t \in Server : t # s => v.grp[t] = w.grp[t]
  BY <1>1 DEF Regroups
<1>4. w.grp[s] \in SUBSET Party
  BY <1>1
<1>5. \A t \in Server : Apart(w.grp[t])
  BY DEF Good
<1>6. /\ Apart(Swapped(w.grp[s], g, h))
      /\ h.members # {} => h \in Swapped(w.grp[s], g, h)
      /\ \A x, y \in Player : Mates(Swapped(w.grp[s], g, h), x, y) <=>
              \/ x \in h.members /\ y \in h.members
              \/ Mates(w.grp[s], x, y) /\ x \notin g.members
  BY <1>4, <1>5, SwapIs
<1>7. \A t \in Server : Apart(v.grp[t])
  BY <1>2, <1>3, <1>5, <1>6
<1> QED
  BY <1>2, <1>3, <1>6, <1>7

\* A world whose objects and pools are those of a good one is good.
LEMMA SameGood ==
  ASSUME NEW w, NEW v \in Worlds, NEW a, NEW d, Good(w, a, d), v.grp = w.grp, v.pool = w.pool
  PROVE  Good(v, a, d)
BY DEF Good, Housed, Agree

\* An object that gets another leader or another name keeps its members.
LEMMA KeepGood ==
  ASSUME NEW w, NEW v, NEW a, NEW d, Good(w, a, d), NEW s \in Server, NEW g, NEW h \in Group,
         Fits(w.grp[s], g), Regroups(w, v, s, g, h), h.members = g.members, v.pool = w.pool
  PROVE  /\ Good(v, a, d)
         /\ h.members # {} => h \in v.grp[s]
         /\ \A t \in Server : \A x, y \in Player : Mates(v.grp[t], x, y) <=> Mates(w.grp[t], x, y)
<1>1. w.grp[s] \in SUBSET Party /\ Apart(w.grp[s])
  BY DEF Good, Worlds
<1>2. \A k \in w.grp[s] : k # g => k.members \cap h.members = {}
  BY <1>1 DEF Apart, Fits, Party, Group
<1>3. /\ v \in Worlds
      /\ \A t \in Server : t # s => v.grp[t] = w.grp[t]
      /\ \A t \in Server : Apart(v.grp[t])
      /\ h.members # {} => h \in v.grp[s]
      /\ \A x, y \in Player : Mates(v.grp[s], x, y) <=>
              \/ x \in h.members /\ y \in h.members
              \/ Mates(w.grp[s], x, y) /\ x \notin g.members
  BY <1>2, RegroupIs
<1>4. ASSUME NEW x \in Player, NEW y \in Player
      PROVE  Mates(v.grp[s], x, y) <=> Mates(w.grp[s], x, y)
  <2>1. x \in g.members => (Mates(w.grp[s], x, y) <=> y \in g.members)
    BY <1>1, MatesAre
  <2> QED
    BY <1>3, <2>1
<1>5. \A t \in Server : \A x, y \in Player : Mates(v.grp[t], x, y) <=> Mates(w.grp[t], x, y)
  BY <1>3, <1>4
<1>6. Housed(v, a)
  BY <1>5 DEF Good, Housed
<1>7. ASSUME NEW x \in Player, NEW y \in Player, x # y
      PROVE  Share(v.pool, x, y) <=> Near(a, d, x, y) /\ Mates(v.grp[Host[a[x]]], x, y)
  <2>1. Share(w.pool, x, y) <=> Near(a, d, x, y) /\ Mates(w.grp[Host[a[x]]], x, y)
    BY <1>7 DEF Good, Agree
  <2>2. Mates(w.grp[s], x, x) <=> Mates(v.grp[s], x, x)
    BY <1>5
  <2>3. CASE Host[a[x]] \in Server
    BY <1>5, <2>1, <2>3
  <2>4. CASE Host[a[x]] \notin Server
    <3>1. v.grp = [w.grp EXCEPT ![s] = Swapped(w.grp[s], g, h)] /\ w.grp \in [Server -> SUBSET Party]
      BY DEF Regroups, Good, Worlds
    <3> QED
      BY <2>1, <2>4, <3>1
  <2> QED
    BY <2>3, <2>4
<1>8. Agree(v, a, d)
  BY <1>7 DEF Agree
<1> QED
  BY <1>3, <1>5, <1>6, <1>8 DEF Good

\* Who is near stands in a zone of a server.
LEMMA NearIs ==
  ASSUME NEW w, NEW a, NEW d, Good(w, a, d), NEW x \in Player, NEW y \in Player, Near(a, d, x, y)
  PROVE  Host[a[x]] \in Server /\ Host[a[y]] = Host[a[x]]
BY PartyAssumption DEF Good, Places, Near, Stands

\* Those of ps leave the object g, and the pools with it.
LEMMA LeaveGood ==
  ASSUME NEW w, NEW v, NEW a, NEW d, Good(w, a, d), NEW s \in Server, NEW g \in w.grp[s], NEW h \in Group,
         NEW ps \in SUBSET Player, ps \subseteq g.members, h.members = g.members \ ps,
         Regroups(w, v, s, g, h), v.pool = Owned(w.pool, ps)
  PROVE  /\ Good(v, a, d)
         /\ h.members # {} => h \in v.grp[s]
         /\ \A x \in ps : ~Mates(v.grp[s], x, x)
         /\ \A t \in Server : \A x, y \in Player : Mates(v.grp[t], x, y) => Mates(w.grp[t], x, y)
<1>1. /\ w.grp[s] \in SUBSET Party /\ Apart(w.grp[s]) /\ Fits(w.grp[s], g)
      /\ w.pool \in SUBSET SUBSET Player /\ Pools(w.pool, Standing(a, d))
  BY DEF Good, Worlds, Fits, Party, Group
<1>2. \A k \in w.grp[s] : k # g => k.members \cap h.members = {}
  BY <1>1 DEF Apart, Fits, Party, Group
<1>3. /\ v \in Worlds
      /\ \A t \in Server : t # s => v.grp[t] = w.grp[t]
      /\ \A t \in Server : Apart(v.grp[t])
      /\ h.members # {} => h \in v.grp[s]
      /\ \A x, y \in Player : Mates(v.grp[s], x, y) <=>
              \/ x \in h.members /\ y \in h.members
              \/ Mates(w.grp[s], x, y) /\ x \notin g.members
  BY <1>1, <1>2, RegroupIs
<1>4. ASSUME NEW x \in Player, NEW y \in Player
      PROVE  Mates(v.grp[s], x, y) <=> Mates(w.grp[s], x, y) /\ x \notin ps /\ y \notin ps
  <2>1. /\ x \in g.members => (Mates(w.grp[s], x, y) <=> y \in g.members)
        /\ y \in g.members => (Mates(w.grp[s], y, x) <=> x \in g.members)
        /\ Mates(w.grp[s], x, y) <=> Mates(w.grp[s], y, x)
    BY <1>1, MatesAre
  <2> QED
    BY <1>3, <2>1
<1>5. \A t \in Server : \A x, y \in Player : Mates(v.grp[t], x, y) => Mates(w.grp[t], x, y)
  BY <1>3, <1>4
<1>6. Housed(v, a)
  BY <1>5 DEF Good, Housed
<1>7. /\ Pools(v.pool, Standing(a, d))
      /\ \A x, y \in Player : x # y =>
              (Share(v.pool, x, y) <=> Share(w.pool, x, y) /\ x \notin ps /\ y \notin ps)
  BY <1>1, OwnedIs
<1>8. \A x \in ps : Mates(w.grp[s], x, x)
  BY DEF Mates
<1>9. ASSUME NEW x \in Player, NEW y \in Player, x # y
      PROVE  Share(v.pool, x, y) <=> Near(a, d, x, y) /\ Mates(v.grp[Host[a[x]]], x, y)
  <2>1. Share(w.pool, x, y) <=> Near(a, d, x, y) /\ Mates(w.grp[Host[a[x]]], x, y)
    BY <1>9 DEF Good, Agree
  <2>2. CASE ~Near(a, d, x, y)
    BY <1>7, <1>9, <2>1, <2>2
  <2>3. CASE Near(a, d, x, y)
    <3>1. Host[a[x]] \in Server /\ Host[a[y]] = Host[a[x]]
      BY <2>3, NearIs
    <3>2. CASE Host[a[x]] = s
      BY <1>4, <1>7, <1>9, <2>1, <3>2
    <3>3. CASE Host[a[x]] # s
      <4>1. x \notin ps /\ y \notin ps
        BY <1>8, <3>1, <3>3 DEF Good, Housed
      <4> QED
        BY <1>3, <1>7, <1>9, <2>1, <3>1, <3>3, <4>1
    <3> QED
      BY <3>2, <3>3
  <2> QED
    BY <2>2, <2>3
<1>10. Agree(v, a, d)
  BY <1>9 DEF Agree
<1> QED
  BY <1>3, <1>4, <1>5, <1>6, <1>7, <1>10 DEF Good

\* Of the objects of s only p can be a member in v who was not in w.
Newcomer(w, v, s, p) ==
  \A x \in Player : Mates(v.grp[s], x, x) => Mates(w.grp[s], x, x) \/ x = p

\* One who stands in a zone of s comes into the object g, and into the pool of those of it
\* who stand in the same zone.
LEMMA JoinGood ==
  ASSUME NEW w, NEW v, NEW d, Good(w, at, d), NEW s \in Server, NEW g, Fits(w.grp[s], g), NEW h \in Group,
         NEW p \in Player, Stands(at, d, p), Host[at[p]] = s,
         \A k \in w.grp[s] : p \in k.members => k = g,
         h.members = g.members \cup {p},
         Regroups(w, v, s, g, h), v.pool = Rejoined(w.pool, h, p)
  PROVE  Good(v, at, d) /\ h \in v.grp[s]
         /\ Newcomer(w, v, s, p)
<1>1. /\ w.grp[s] \in SUBSET Party /\ Apart(w.grp[s])
      /\ w.pool \in SUBSET SUBSET Player /\ Pools(w.pool, Standing(at, d))
      /\ g.members \subseteq Player
  BY DEF Good, Worlds, Fits, Group
<1>2. \A k \in w.grp[s] : k # g => k.members \cap h.members = {}
  BY <1>1 DEF Apart, Fits, Party, Group
<1>3. /\ v \in Worlds
      /\ \A t \in Server : t # s => v.grp[t] = w.grp[t]
      /\ \A t \in Server : Apart(v.grp[t])
      /\ h \in v.grp[s]
      /\ \A x, y \in Player : Mates(v.grp[s], x, y) <=>
              \/ x \in h.members /\ y \in h.members
              \/ Mates(w.grp[s], x, y) /\ x \notin g.members
  BY <1>2, RegroupIs
<1>4. ASSUME NEW x \in Player, NEW y \in Player
      PROVE  Mates(v.grp[s], x, y) <=> \/ Mates(w.grp[s], x, y)
                                       \/ x \in g.members \cup {p} /\ y \in g.members \cup {p}
  BY <1>1, <1>3, MatesAre
<1>5. \A x \in Player : Mates(v.grp[s], x, x) <=> Mates(w.grp[s], x, x) \/ x = p
  <2>1. \A x \in Player : x \in g.members => Mates(w.grp[s], x, x)
    BY <1>1, MatesAre
  <2> QED
    BY <1>4, <2>1
<1>6. Housed(v, at)
  BY <1>3, <1>5 DEF Good, Housed, Stands
<1> PICK F : F = Fellows(w.pool, h, p)
  OBVIOUS
<1>7. ASSUME NEW q \in Player, q \in UNION w.pool PROVE Stands(at, d, q)
  BY <1>1, <1>7 DEF Pools, Share, Standing
<1>8. \A q : q \in F <=> q \in g.members /\ q # p /\ Stands(at, d, q) /\ at[q] = at[p]
  <2>1. \A q \in Player : Stands(at, d, q) => q \in UNION w.pool
    BY <1>1 DEF Pools, Share, Standing
  <2> QED
    BY <1>1, <1>7, <2>1 DEF Fellows
<1>9. F \subseteq Player
  BY <1>1, <1>8
<1>10. ASSUME NEW x \in F, NEW y \in F PROVE Share(w.pool, x, y)
  <2>1. CASE x = y
    BY <1>1, <1>8, <1>9, <2>1 DEF Pools, Standing
  <2>2. CASE x # y
    <3>1. Near(at, d, x, y) /\ Host[at[x]] = s
      BY <1>8 DEF Near
    <3>2. Mates(w.grp[s], x, y)
      BY <1>1, <1>8, <1>9, MatesAre
    <3> QED
      BY <1>9, <2>2, <3>1, <3>2 DEF Good, Agree
  <2> QED
    BY <2>1, <2>2
<1>11. ASSUME NEW x \in F, NEW y \in Player, y # p, Share(w.pool, x, y) PROVE y \in F
  <2>1. CASE x = y
    BY <2>1
  <2>2. CASE x # y
    <3>1. Near(at, d, x, y) /\ Mates(w.grp[Host[at[x]]], x, y)
      BY <1>9, <1>11, <2>2 DEF Good, Agree
    <3>2. Mates(w.grp[s], x, y) /\ x \in g.members
      BY <1>8, <3>1
    <3>3. y \in g.members
      BY <1>1, <1>9, <3>2, MatesAre
    <3> QED
      BY <1>8, <1>11, <3>1, <3>3 DEF Near
  <2> QED
    BY <2>1, <2>2
<1>12. ASSUME NEW y \in Player, y # p, Share(w.pool, p, y) PROVE y \in F
  <2>1. Near(at, d, p, y) /\ Mates(w.grp[s], p, y)
    BY <1>12 DEF Good, Agree
  <2>2. y \in g.members
    BY <2>1 DEF Mates
  <2> QED
    BY <1>8, <1>12, <2>1, <2>2 DEF Near
<1>13. h.members \subseteq Player
  BY <1>1
<1>14. /\ Pools(v.pool, Standing(at, d) \cup {p})
       /\ \A x, y \in Player : x # y =>
              (Share(v.pool, x, y) <=>
                 Share(w.pool, x, y) \/ (x = p /\ y \in F) \/ (y = p /\ x \in F))
  <2>1. Cluster(w.pool, F, p)
    BY <1>10, <1>11, <1>12 DEF Cluster
  <2> QED
    <3> PICK P : P = w.pool
      OBVIOUS
    <3> PICK S : S = Standing(at, d)
      OBVIOUS
    <3>1. P \in SUBSET SUBSET Player /\ Pools(P, S) /\ Cluster(P, F, p) /\ F = Fellows(P, h, p)
      BY <1>1, <2>1
    <3>2. /\ Pools(Rejoined(P, h, p), S \cup {p})
          /\ \A x, y \in Player : x # y =>
              (Share(Rejoined(P, h, p), x, y) <=>
                 Share(P, x, y) \/ (x = p /\ y \in F) \/ (y = p /\ x \in F))
      BY <1>13, <3>1, RejoinedIs
    <3> QED
      BY <3>2
<1>15. Standing(at, d) \cup {p} = Standing(at, d)
  BY DEF Standing
<1>16. ASSUME NEW x \in Player, NEW y \in Player, x # y
       PROVE  Share(v.pool, x, y) <=> Near(at, d, x, y) /\ Mates(v.grp[Host[at[x]]], x, y)
  <2>1. Share(w.pool, x, y) <=> Near(at, d, x, y) /\ Mates(w.grp[Host[at[x]]], x, y)
    BY <1>16 DEF Good, Agree
  <2>2. CASE ~Near(at, d, x, y)
    BY <1>8, <1>14, <1>16, <2>1, <2>2 DEF Near
  <2>3. CASE Near(at, d, x, y)
    <3>1. Host[at[x]] \in Server /\ Host[at[y]] = Host[at[x]]
      BY <2>3, NearIs
    <3>2. CASE Host[at[x]] = s
      <4>1. x \in g.members /\ y \in g.members => Mates(w.grp[s], x, y)
        BY <1>1, MatesAre
      <4>2. Mates(v.grp[s], x, y) <=> \/ Mates(w.grp[s], x, y)
                                      \/ x = p /\ y \in g.members
                                      \/ y = p /\ x \in g.members
        BY <1>4, <1>16, <4>1
      <4>3. x = p => (y \in g.members <=> y \in F)
        BY <1>8, <1>16, <2>3 DEF Near
      <4>4. y = p => (x \in g.members <=> x \in F)
        BY <1>8, <1>16, <2>3 DEF Near
      <4> QED
        BY <1>14, <1>16, <2>1, <2>3, <3>2, <4>2, <4>3, <4>4
    <3>3. CASE Host[at[x]] # s
      <4>1. x # p /\ y # p
        BY <3>1, <3>3
      <4> QED
        BY <1>3, <1>14, <1>16, <2>1, <3>1, <3>3, <4>1
    <3> QED
      BY <3>2, <3>3
  <2> QED
    BY <2>2, <2>3
<1>17. Agree(v, at, d)
  BY <1>16 DEF Agree
<1> QED
  BY <1>3, <1>5, <1>6, <1>14, <1>15, <1>17 DEF Good, Newcomer

-----------------------------------------------------------------------------
(* What the operators change.                                                *)

\* A world, part by part.
LEMMA WorldIs ==
  ASSUME NEW w \in Worlds
  PROVE  /\ w = [row |-> w.row, grp |-> w.grp, pool |-> w.pool, flag |-> w.flag, out |-> w.out]
         /\ w.row \in [Player -> Row] /\ w.grp \in [Server -> SUBSET Party]
         /\ w.pool \in SUBSET SUBSET Player /\ w.flag \in [Player -> BOOLEAN]
         /\ w.out \in [Server -> Seq(Mail)]
BY DEF Worlds

\* A letter is sent: the rest stays.
LEMMA SendIs ==
  ASSUME NEW w \in Worlds, NEW s \in Server, NEW kind \in Kinds, NEW who \in Player, NEW by \in Player
  PROVE  /\ Send(w, s, kind, who, by) \in Worlds
         /\ Send(w, s, kind, who, by).grp = w.grp
         /\ Send(w, s, kind, who, by).pool = w.pool
         /\ Send(w, s, kind, who, by).row = w.row
<1> PICK m : m = [kind |-> kind, who |-> who, by |-> by]
  OBVIOUS
<1> PICK v : v = Send(w, s, kind, who, by)
  OBVIOUS
<1>1. m \in Mail
  BY DEF Mail
<1>2. v = [w EXCEPT !.out = [w.out EXCEPT ![s] = Append(w.out[s], m)]]
  BY DEF Send
<1>3. w.out \in [Server -> Seq(Mail)]
  BY WorldIs
<1>4. Append(w.out[s], m) \in Seq(Mail)
  BY <1>1, <1>3
<1>5. [w.out EXCEPT ![s] = Append(w.out[s], m)] \in [Server -> Seq(Mail)]
  BY <1>3, <1>4
<1> QED
  BY <1>2, <1>5 DEF Worlds

\* Flags go up or down: the rest stays.
LEMMA FlagIs ==
  ASSUME NEW w \in Worlds, NEW ps, NEW b \in BOOLEAN
  PROVE  /\ Flag(w, ps, b) \in Worlds
         /\ Flag(w, ps, b).grp = w.grp
         /\ Flag(w, ps, b).pool = w.pool
         /\ Flag(w, ps, b).row = w.row
<1> PICK f : f = [p \in Player |-> IF p \in ps THEN b ELSE w.flag[p]]
  OBVIOUS
<1>1. Flag(w, ps, b) = [w EXCEPT !.flag = f]
  BY DEF Flag
<1>2. w.flag \in [Player -> BOOLEAN]
  BY WorldIs
<1>3. f \in [Player -> BOOLEAN]
  BY <1>2
<1> QED
  BY <1>1, <1>3 DEF Worlds

\* A world with other rows, with one other row, and without an object.
WithRows(w, r) == [w EXCEPT !.row = r]
WithRow(w, p, r) == [w EXCEPT !.row[p] = r]
Without(w, s, g) == [w EXCEPT !.grp[s] = @ \ {g}]

\* The rows change: the rest stays.
LEMMA RowsAre ==
  ASSUME NEW w \in Worlds, NEW r \in [Player -> Row]
  PROVE  /\ WithRows(w, r) \in Worlds
         /\ WithRows(w, r).grp = w.grp
         /\ WithRows(w, r).pool = w.pool
BY DEF Worlds, WithRows

\* One row changes.
LEMMA RowIs ==
  ASSUME NEW w \in Worlds, NEW p \in Player, NEW r \in Row
  PROVE  /\ WithRow(w, p, r) \in Worlds
         /\ WithRow(w, p, r).grp = w.grp
         /\ WithRow(w, p, r).pool = w.pool
<1> PICK f : f = [w.row EXCEPT ![p] = r]
  OBVIOUS
<1>1. WithRow(w, p, r) = WithRows(w, f)
  BY DEF WithRow, WithRows
<1>2. w.row \in [Player -> Row]
  BY WorldIs
<1>3. f \in [Player -> Row]
  BY <1>2
<1> QED
  BY <1>1, <1>3, RowsAre

\* An object takes the place of another.
LEMMA ReplaceIs ==
  ASSUME NEW w \in Worlds, NEW s \in Server, NEW g, NEW h \in Group
  PROVE  /\ Regroups(w, Replace(w, s, g, h), s, g, h)
         /\ Replace(w, s, g, h) \in Worlds
         /\ Replace(w, s, g, h).pool = w.pool
         /\ Replace(w, s, g, h).row = w.row
<1> PICK G : G = Swapped(w.grp[s], g, h)
  OBVIOUS
<1> PICK f : f = [w.grp EXCEPT ![s] = G]
  OBVIOUS
<1>1. Replace(w, s, g, h) = [w EXCEPT !.grp = f]
  BY DEF Replace, Swapped
<1>2. w.grp \in [Server -> SUBSET Party]
  BY WorldIs
<1>3. h.members # {} => h \in Party
  BY DEF Group, Party
<1>4. G \in SUBSET Party
  BY <1>2, <1>3 DEF Swapped
<1>5. f \in [Server -> SUBSET Party]
  BY <1>2, <1>4
<1> QED
  BY <1>1, <1>5 DEF Worlds, Regroups

\* An object is deleted.
LEMMA DeleteIs ==
  ASSUME NEW w \in Worlds, NEW s \in Server, NEW g
  PROVE  /\ Without(w, s, g) \in Worlds
         /\ Without(w, s, g).grp = [w.grp EXCEPT ![s] = w.grp[s] \ {g}]
         /\ Without(w, s, g).pool = w.pool
<1> PICK f : f = [w.grp EXCEPT ![s] = w.grp[s] \ {g}]
  OBVIOUS
<1>1. Without(w, s, g) = [w EXCEPT !.grp = f]
  BY DEF Without
<1>2. w.grp \in [Server -> SUBSET Party]
  BY WorldIs
<1>3. f \in [Server -> SUBSET Party]
  BY <1>2
<1> QED
  BY <1>1, <1>3 DEF Worlds

\* The pools of those who leave.
LEMMA OwnPoolIs ==
  ASSUME NEW w \in Worlds, NEW ps \in SUBSET Player
  PROVE  /\ OwnPool(w, ps) \in Worlds
         /\ OwnPool(w, ps).grp = w.grp
         /\ OwnPool(w, ps).pool = Owned(w.pool, ps)
         /\ OwnPool(w, ps).row = w.row
<1>1. OwnPool(w, ps) = [w EXCEPT !.pool = Owned(w.pool, ps)]
  BY DEF OwnPool, Owned
<1>2. w.pool \in SUBSET SUBSET Player
  BY WorldIs
<1>3. Owned(w.pool, ps) \in SUBSET SUBSET Player
  BY <1>2 DEF Owned
<1> QED
  BY <1>1, <1>3 DEF Worlds

\* The pool of one who comes.
LEMMA ReloadTreasurePoolIs ==
  ASSUME NEW w \in Worlds, NEW g, g.members \subseteq Player, NEW p \in Player
  PROVE  /\ ReloadTreasurePool(w, g, p).grp = w.grp
         /\ ReloadTreasurePool(w, g, p).pool = Rejoined(w.pool, g, p)
         /\ ReloadTreasurePool(w, g, p).row = w.row
         /\ Rejoined(w.pool, g, p) \in SUBSET SUBSET Player => ReloadTreasurePool(w, g, p) \in Worlds
<1>1. ReloadTreasurePool(w, g, p) = [w EXCEPT !.pool = Rejoined(w.pool, g, p)]
  <2>1. w = [w EXCEPT !.pool = w.pool]
    BY WorldIs
  <2> QED
    BY <2>1 DEF ReloadTreasurePool, Rejoined, Fellows
<1> QED
  BY <1>1 DEF Worlds

-----------------------------------------------------------------------------
(* The methods of CParty keep a world good.                                  *)

\* What the objects of a good world are.
LEMMA ObjectIs ==
  ASSUME NEW w, NEW a, NEW d, Good(w, a, d), NEW s \in Server, NEW g \in w.grp[s]
  PROVE  /\ w \in Worlds /\ g \in Group /\ Fits(w.grp[s], g)
         /\ g.members # {} /\ g.members \subseteq Player
         /\ g.id \in Player
BY DEF Good, Worlds, Fits, Party, Group

\* Another leader, another name.
LEMMA LedIs ==
  ASSUME NEW g \in Group, NEW q \in Player
  PROVE  /\ Led(g, q) \in Group /\ Led(g, q).members = g.members /\ Led(g, q).id = q
         /\ Led(g, q).lead \in {q, None}
BY DEF Led, Group

\* News, flags and rows.
LEMMA SendGood ==
  ASSUME NEW w, NEW a, NEW d, Good(w, a, d), NEW s \in Server, NEW kind \in Kinds, NEW who \in Player, NEW by \in Player
  PROVE  Good(Send(w, s, kind, who, by), a, d)
<1>1. w \in Worlds
  BY DEF Good
<1> QED
  BY <1>1, SendIs, SameGood

\* As SendGood, for the news that a party has changed.
LEMMA ReloadGood ==
  ASSUME NEW w, NEW a, NEW d, Good(w, a, d), NEW s \in Server, NEW g \in Group
  PROVE  Good(Reload(w, s, g), a, d) /\ Reload(w, s, g).grp = w.grp
<1>1. w \in Worlds /\ g.id \in Player
  BY DEF Good, Group
<1> PICK kind : kind = "reload"
  OBVIOUS
<1>2. kind \in Kinds
  BY DEF Kinds
<1>3. Send(w, s, kind, g.id, g.id).grp = w.grp
  BY <1>1, <1>2, SendIs
<1>4. Good(Send(w, s, kind, g.id, g.id), a, d)
  BY <1>1, <1>2, SendGood
<1> QED
  BY <1>3, <1>4 DEF Reload

\* As SendGood, for the flags.
LEMMA FlagGood ==
  ASSUME NEW w, NEW a, NEW d, Good(w, a, d), NEW ps, NEW b \in BOOLEAN
  PROVE  Good(Flag(w, ps, b), a, d) /\ Flag(w, ps, b).grp = w.grp
<1>1. w \in Worlds
  BY DEF Good
<1>2. /\ Flag(w, ps, b) \in Worlds
      /\ Flag(w, ps, b).grp = w.grp
      /\ Flag(w, ps, b).pool = w.pool
  BY <1>1, FlagIs
<1> QED
  BY <1>2, SameGood

\* As SendGood, for the row of one player.
LEMMA RowGood ==
  ASSUME NEW w, NEW a, NEW d, Good(w, a, d), NEW p \in Player, NEW r \in Row
  PROVE  Good(WithRow(w, p, r), a, d) /\ WithRow(w, p, r).grp = w.grp
<1>1. w \in Worlds
  BY DEF Good
<1>2. /\ WithRow(w, p, r) \in Worlds
      /\ WithRow(w, p, r).grp = w.grp
      /\ WithRow(w, p, r).pool = w.pool
  BY <1>1, RowIs
<1> QED
  BY <1>2, SameGood

\* Who leads is nobody's pool: SetLeader moves no member.
LEMMA SetLeaderGood ==
  ASSUME NEW w, NEW a, NEW d, Good(w, a, d), NEW s \in Server, NEW g \in Group, Fits(w.grp[s], g), NEW q \in Player
  PROVE  /\ Good(SetLeader(w, s, g, q), a, d)
         /\ g.members # {} => Led(g, q) \in SetLeader(w, s, g, q).grp[s]
         /\ \A t \in Server : \A x, y \in Player :
              Mates(SetLeader(w, s, g, q).grp[t], x, y) <=> Mates(w.grp[t], x, y)
<1>h. PICK h : h = Led(g, q)
  OBVIOUS
<1>0. w \in Worlds /\ h \in Group /\ h.members = g.members
  BY <1>h, LedIs DEF Good
<1>u. PICK u : u = Replace(w, s, g, h)
  OBVIOUS
<1>1. Regroups(w, u, s, g, h) /\ u \in Worlds /\ u.pool = w.pool /\ u.row = w.row
  BY <1>0, <1>u, ReplaceIs
<1>f. PICK f : f = Flag(u, g.members, TRUE)
  OBVIOUS
<1>2. f \in Worlds /\ f.grp = u.grp /\ f.pool = u.pool /\ f.row = w.row
  BY <1>1, <1>f, FlagIs
<1>r. PICK r : r = [p \in Player |-> IF w.row[p].party = g.id
                                   THEN [party |-> q, lead |-> FALSE]
                                   ELSE w.row[p]]
  OBVIOUS
<1>3. r \in [Player -> Row]
  BY <1>0, <1>r, WorldIs DEF Row
<1>r2. PICK r2 : r2 = [r EXCEPT ![q].lead = r[q].party # None]
  OBVIOUS
<1>4. r2 \in [Player -> Row]
  <2>1. [r[q] EXCEPT !.lead = r[q].party # None] \in Row
    BY <1>3 DEF Row
  <2>2. r2 = [r EXCEPT ![q] = [r[q] EXCEPT !.lead = r[q].party # None]]
    BY <1>r2
  <2> QED
    BY <1>3, <2>1, <2>2
<1>v. PICK v : v = SetLeader(w, s, g, q)
  OBVIOUS
<1>5. v = WithRows(f, r2)
  BY <1>h, <1>u, <1>f, <1>r, <1>r2, <1>v DEF SetLeader, WithRows
<1>6. v \in Worlds /\ v.grp = u.grp /\ v.pool = w.pool
  BY <1>1, <1>2, <1>4, <1>5, RowsAre
<1>7. Regroups(w, v, s, g, h)
  BY <1>1, <1>6 DEF Regroups
<1> QED
  <2>1. Fits(w.grp[s], g)
    OBVIOUS
  <2>2. Good(v, a, d)
    BY <1>0, <1>6, <1>7, KeepGood
  <2>3. h.members # {} => h \in v.grp[s]
    BY <1>0, <1>6, <1>7, KeepGood
  <2>4. \A t \in Server : \A x, y \in Player : Mates(v.grp[t], x, y) <=> Mates(w.grp[t], x, y)
    BY <1>0, <1>6, <1>7, KeepGood
  <2> QED
    BY <1>0, <1>h, <1>v, <2>2, <2>3, <2>4

\* DisbandParty leaves nobody in the object, and everybody with a pool of his own.
LEMMA DisbandGood ==
  ASSUME NEW w, NEW a, NEW d, Good(w, a, d), NEW s \in Server, NEW g \in w.grp[s], NEW told \in BOOLEAN
  PROVE  /\ Good(DisbandParty(w, s, g, told), a, d)
         /\ \A x \in g.members : ~Mates(DisbandParty(w, s, g, told).grp[s], x, x)
<1>0. w \in Worlds /\ g \in Group /\ Fits(w.grp[s], g) /\ g.members \in SUBSET Player /\ g.id \in Player
  BY ObjectIs
<1>f. PICK f : f = Flag(w, g.members, TRUE)
  OBVIOUS
<1>1. f \in Worlds /\ f.grp = w.grp /\ f.pool = w.pool /\ f.row = w.row
  BY <1>0, <1>f, FlagIs
<1>o. PICK o : o = OwnPool(f, g.members)
  OBVIOUS
<1>2. o \in Worlds /\ o.grp = w.grp /\ o.pool = Owned(w.pool, g.members) /\ o.row = w.row
  BY <1>0, <1>1, <1>o, OwnPoolIs
<1>r. PICK r : r = [p \in Player |-> IF p \in g.members THEN NoRow ELSE o.row[p]]
  OBVIOUS
<1>3. r \in [Player -> Row]
  BY <1>2, <1>r, WorldIs DEF Row, NoRow
<1>o2. PICK o2 : o2 = WithRows(o, r)
  OBVIOUS
<1>4. o2 \in Worlds /\ o2.grp = w.grp /\ o2.pool = Owned(w.pool, g.members)
  BY <1>2, <1>3, <1>o2, RowsAre
<1>v. PICK v : v = Without(o2, s, g)
  OBVIOUS
<1>5. v \in Worlds /\ v.grp = [w.grp EXCEPT ![s] = w.grp[s] \ {g}] /\ v.pool = Owned(w.pool, g.members)
  BY <1>4, <1>v, DeleteIs
<1>h. PICK h : h = [g EXCEPT !.members = {}]
  OBVIOUS
<1>6. h \in Group /\ h.members = g.members \ g.members
  BY <1>0, <1>h DEF Group
<1>7. Swapped(w.grp[s], g, h) = w.grp[s] \ {g}
  BY <1>6 DEF Swapped
<1>8. Regroups(w, v, s, g, h)
  BY <1>5, <1>7 DEF Regroups
<1>9. Good(v, a, d) /\ \A x \in g.members : ~Mates(v.grp[s], x, x)
  BY <1>0, <1>5, <1>6, <1>8, LeaveGood
<1>10. v = [o EXCEPT !.row = r, !.grp[s] = @ \ {g}]
  BY <1>v, <1>o2 DEF WithRows, Without
<1>11. DisbandParty(w, s, g, told) = IF told THEN Send(v, s, "disband", g.id, g.id) ELSE v
  BY <1>10, <1>f, <1>o, <1>r DEF DisbandParty
<1>12. Good(Send(v, s, "disband", g.id, g.id), a, d) /\ Send(v, s, "disband", g.id, g.id).grp = v.grp
  <2> PICK kind : kind = "disband"
    OBVIOUS
  <2>1. kind \in Kinds
    BY DEF Kinds
  <2>2. Good(Send(v, s, kind, g.id, g.id), a, d)
    BY <1>0, <1>9, <2>1, SendGood
  <2>3. Send(v, s, kind, g.id, g.id).grp = v.grp
    BY <1>0, <1>5, <2>1, SendIs
  <2> QED
    BY <2>2, <2>3
<1> QED
  BY <1>9, <1>11, <1>12

\* One leaves, and his pool with him.
LEMMA DropGood ==
  ASSUME NEW w, NEW a, NEW d, Good(w, a, d), NEW s \in Server, NEW g \in w.grp[s], NEW p \in g.members
  PROVE  /\ Good(Drop(w, s, g, p), a, d)
         /\ ~Mates(Drop(w, s, g, p).grp[s], p, p)
<1>0. w \in Worlds /\ g \in Group /\ p \in Player /\ g.id \in Player /\ g.members \subseteq Player
  BY ObjectIs
<1>h. PICK h : h = [g EXCEPT !.members = g.members \ {p}]
  OBVIOUS
<1>1. h \in Group /\ h.members = g.members \ {p}
  BY <1>0, <1>h DEF Group
<1>u. PICK u : u = Replace(w, s, g, h)
  OBVIOUS
<1>2. Regroups(w, u, s, g, h) /\ u \in Worlds /\ u.pool = w.pool
  BY <1>0, <1>1, <1>u, ReplaceIs
<1>r. PICK r : r = WithRow(u, p, NoRow)
  OBVIOUS
<1>3. NoRow \in Row
  BY DEF NoRow, Row
<1>4. r \in Worlds /\ r.grp = u.grp /\ r.pool = w.pool
  BY <1>0, <1>2, <1>3, <1>r, RowIs
<1>m. PICK m : m = Reload(r, s, g)
  OBVIOUS
<1>5. m \in Worlds /\ m.grp = u.grp /\ m.pool = w.pool
  <2> PICK kind : kind = "reload"
    OBVIOUS
  <2>1. kind \in Kinds
    BY DEF Kinds
  <2>2. m = Send(r, s, kind, g.id, g.id)
    BY <1>m DEF Reload
  <2> QED
    BY <1>0, <1>4, <2>1, <2>2, SendIs
<1>v. PICK v : v = Drop(w, s, g, p)
  OBVIOUS
<1>6. v = OwnPool(m, {p})
  BY <1>h, <1>u, <1>r, <1>m, <1>v DEF Drop, WithRow
<1>7. v \in Worlds /\ v.grp = u.grp /\ v.pool = Owned(w.pool, {p})
  BY <1>0, <1>5, <1>6, OwnPoolIs
<1>8. Regroups(w, v, s, g, h)
  BY <1>2, <1>7 DEF Regroups
<1>9. {p} \in SUBSET Player /\ {p} \subseteq g.members
  BY <1>0
<1>ps. PICK ps : ps = {p}
  OBVIOUS
<1>10. /\ ps \in SUBSET Player /\ ps \subseteq g.members /\ h.members = g.members \ ps
       /\ v.pool = Owned(w.pool, ps)
  BY <1>1, <1>7, <1>9, <1>ps
<1>11. Good(v, a, d) /\ \A x \in ps : ~Mates(v.grp[s], x, x)
  BY <1>0, <1>1, <1>7, <1>8, <1>10, LeaveGood
<1>12. Good(v, a, d) /\ \A x \in {p} : ~Mates(v.grp[s], x, x)
  BY <1>11, <1>ps
<1> QED
  BY <1>12, <1>v

\* The leader goes: another leads, or the party ends. Either way he is out of it.
LEMMA RemovePartyLeaderGood ==
  ASSUME NEW w, NEW a, NEW d, Good(w, a, d), NEW s \in Server, NEW g \in w.grp[s], NEW p \in g.members,
         NEW heir \in Player \cup {None}
  PROVE  /\ Good(RemovePartyLeader(w, s, g, p, heir), a, d)
         /\ ~Mates(RemovePartyLeader(w, s, g, p, heir).grp[s], p, p)
<1>0. w \in Worlds /\ g \in Group /\ Fits(w.grp[s], g) /\ g.members # {}
  BY ObjectIs
<1>1. ASSUME NEW led, NEW h, Good(led, a, d), h \in led.grp[s], p \in h.members,
             NEW v, v = IF h.lead = p THEN DisbandParty(led, s, h, TRUE) ELSE Drop(led, s, h, p)
      PROVE  Good(v, a, d) /\ ~Mates(v.grp[s], p, p)
  BY <1>1, DisbandGood, DropGood
<1>2. CASE heir = None
  <2>1. RemovePartyLeader(w, s, g, p, heir)
          = IF g.lead = p THEN DisbandParty(w, s, g, TRUE) ELSE Drop(w, s, g, p)
    BY <1>2 DEF RemovePartyLeader
  <2> QED
    BY <1>1, <2>1
<1>3. CASE heir \in Player
  <2>1. heir # None
    BY <1>3, PartyAssumption
  <2> PICK led : led = SetLeader(w, s, g, heir)
    OBVIOUS
  <2> PICK h : h = Led(g, heir)
    OBVIOUS
  <2>2. RemovePartyLeader(w, s, g, p, heir)
          = IF h.lead = p THEN DisbandParty(led, s, h, TRUE) ELSE Drop(led, s, h, p)
    BY <2>1 DEF RemovePartyLeader
  <2>3. Good(led, a, d)
    BY <1>0, <1>3, SetLeaderGood
  <2>4. h \in led.grp[s]
    BY <1>0, <1>3, SetLeaderGood
  <2>5. p \in h.members
    BY <1>0, <1>3, LedIs
  <2> QED
    BY <1>1, <2>2, <2>3, <2>4, <2>5
<1> QED
  BY <1>2, <1>3

\* A member goes.
LEMMA RemoveMemberGood ==
  ASSUME NEW w, NEW a, NEW d, Good(w, a, d), NEW s \in Server, NEW g \in w.grp[s], NEW p \in g.members,
         NEW heir \in Player \cup {None}
  PROVE  /\ Good(RemoveMember(w, s, g, p, heir), a, d)
         /\ ~Mates(RemoveMember(w, s, g, p, heir).grp[s], p, p)
<1>1. CASE g.lead = p
  <2> PICK v : v = RemovePartyLeader(w, s, g, p, heir)
    OBVIOUS
  <2>1. Good(v, a, d) /\ ~Mates(v.grp[s], p, p)
    BY RemovePartyLeaderGood
  <2>2. Good(Flag(v, {p}, TRUE), a, d) /\ Flag(v, {p}, TRUE).grp = v.grp
    BY <2>1, FlagGood
  <2>3. RemoveMember(w, s, g, p, heir) = Flag(v, {p}, TRUE)
    BY <1>1 DEF RemoveMember
  <2> QED
    BY <2>1, <2>2, <2>3
<1>2. CASE g.lead # p
  BY <1>2, DropGood DEF RemoveMember
<1> QED
  BY <1>1, <1>2

\* RefreshFlags finds the leader: no member moves.
LEMMA ReloadPartyGood ==
  ASSUME NEW w, NEW a, NEW d, Good(w, a, d), NEW s \in Server, NEW g \in Group, Fits(w.grp[s], g)
  PROVE  /\ Good(ReloadParty(w, s, g), a, d)
         /\ \A t \in Server : \A x, y \in Player :
              Mates(ReloadParty(w, s, g).grp[t], x, y) <=> Mates(w.grp[t], x, y)
<1>here. PICK here : here = LeadersOf(w.row, g.id) \cap g.members
  OBVIOUS
<1>lead. PICK lead : lead = IF here = {} THEN None ELSE CHOOSE q \in here : TRUE
  OBVIOUS
<1>h. PICK h : h = [g EXCEPT !.lead = lead]
  OBVIOUS
<1>1. here \subseteq Player
  BY <1>here DEF LeadersOf, RowsOf
<1>2. lead \in Player \cup {None}
  BY <1>1, <1>lead
<1>3. h \in Group /\ h.members = g.members
  BY <1>2, <1>h DEF Group
<1>u. PICK u : u = Replace(w, s, g, h)
  OBVIOUS
<1>4. w \in Worlds
  BY DEF Good
<1>5. Regroups(w, u, s, g, h) /\ u.pool = w.pool
  BY <1>3, <1>4, <1>u, ReplaceIs
<1>6. Good(u, a, d)
  BY <1>3, <1>5, KeepGood
<1>7. \A t \in Server : \A x, y \in Player : Mates(u.grp[t], x, y) <=> Mates(w.grp[t], x, y)
  BY <1>3, <1>5, KeepGood
<1>8. ReloadParty(w, s, g) = Flag(u, g.members, FALSE)
  BY <1>here, <1>lead, <1>h, <1>u DEF ReloadParty
<1>9. Good(Flag(u, g.members, FALSE), a, d) /\ Flag(u, g.members, FALSE).grp = u.grp
  BY <1>6, FlagGood
<1> QED
  BY <1>7, <1>8, <1>9

\* A member that the rows do not know goes.
LEMMA DelMemberGood ==
  ASSUME NEW w, NEW a, NEW d, Good(w, a, d), NEW s \in Server, NEW g \in w.grp[s], NEW p \in g.members,
         NEW heir \in Player \cup {None}
  PROVE  Good(DelMember(w, s, g, p, heir), a, d)
<1>0. w \in Worlds /\ g \in Group /\ Fits(w.grp[s], g) /\ g.members \subseteq Player
  BY ObjectIs
<1>1. CASE g.lead = p
  <2>l. PICK left : left = RemovePartyLeader(w, s, g, p, heir)
    OBVIOUS
  <2>h. PICK h : h = [Led(g, heir) EXCEPT !.members = @ \ {p}]
    OBVIOUS
  <2>1. Good(left, a, d)
    BY <2>l, RemovePartyLeaderGood
  <2>2. DelMember(w, s, g, p, heir) = IF h \in left.grp[s] THEN ReloadParty(left, s, h) ELSE left
    BY <1>1, <2>l, <2>h DEF DelMember
  <2>3. ASSUME h \in left.grp[s] PROVE Good(ReloadParty(left, s, h), a, d)
    <3>1. h \in Group /\ Fits(left.grp[s], h)
      BY <2>1, <2>3, ObjectIs
    <3> QED
      BY <2>1, <3>1, ReloadPartyGood
  <2> QED
    BY <2>1, <2>2, <2>3
<1>2. CASE g.lead # p
  <2>h. PICK h : h = [g EXCEPT !.members = g.members \ {p}]
    OBVIOUS
  <2>1. h \in Group /\ h.members = g.members \ {p}
    BY <1>0, <2>h DEF Group
  <2>u. PICK u : u = Replace(w, s, g, h)
    OBVIOUS
  <2>2. Regroups(w, u, s, g, h) /\ u \in Worlds /\ u.pool = w.pool
    BY <1>0, <2>1, <2>u, ReplaceIs
  <2>v. PICK v : v = OwnPool(u, {p})
    OBVIOUS
  <2>3. v \in Worlds /\ v.grp = u.grp /\ v.pool = Owned(w.pool, {p})
    BY <1>0, <2>2, <2>v, OwnPoolIs
  <2>4. Regroups(w, v, s, g, h)
    BY <2>2, <2>3 DEF Regroups
  <2>5. {p} \in SUBSET Player /\ {p} \subseteq g.members
    BY <1>0
  <2>6. Good(v, a, d) /\ (h.members # {} => h \in v.grp[s])
    BY <2>1, <2>3, <2>4, <2>5, LeaveGood
  <2>7. Fits(v.grp[s], h)
    BY <2>1, <2>6 DEF Fits
  <2>8. DelMember(w, s, g, p, heir) = ReloadParty(v, s, h)
    BY <1>2, <2>h, <2>u, <2>v DEF DelMember
  <2> QED
    BY <2>1, <2>6, <2>7, <2>8, ReloadPartyGood
<1> QED
  BY <1>1, <1>2

-----------------------------------------------------------------------------
(* Joining.                                                                  *)

\* The statement that adds a row, or fails.
LEMMA InsertIs ==
  ASSUME NEW w \in Worlds, NEW p \in Player, NEW id \in Player
  PROVE  /\ Insert(w, p, id) \in Worlds
         /\ Insert(w, p, id).grp = w.grp
         /\ Insert(w, p, id).pool = w.pool
<1>1. [party |-> id, lead |-> FALSE] \in Row
  BY DEF Row
<1>2. Insert(w, p, id) = IF w.row[p].party # None \/ ~Online(p) THEN w
                         ELSE WithRow(w, p, [party |-> id, lead |-> FALSE])
  BY DEF Insert, WithRow
<1> QED
  BY <1>1, <1>2, RowIs

\* The pools stay sets of players.
LEMMA RejoinedTyped ==
  ASSUME NEW P \in SUBSET SUBSET Player, NEW g, g.members \subseteq Player, NEW p \in Player
  PROVE  Rejoined(P, g, p) \in SUBSET SUBSET Player
<1>1. OutOfPool(P, p) \in SUBSET SUBSET Player
  BY DEF OutOfPool
<1>2. CASE Fellows(P, g, p) # {}
  <2>q. PICK q : q = CHOOSE r \in Fellows(P, g, p) : TRUE
    OBVIOUS
  <2>1. q \in UNION P /\ q # p
    BY <1>2, <2>q DEF Fellows
  <2>2. PICK ps \in P : q \in ps
    BY <2>1
  <2>3. ps \ {p} \in OutOfPool(P, p) /\ q \in ps \ {p}
    BY <2>1, <2>2 DEF OutOfPool
  <2>i. PICK its : its = CHOOSE ts \in OutOfPool(P, p) : q \in ts
    OBVIOUS
  <2>4. its \in OutOfPool(P, p)
    BY <2>3, <2>i
  <2>5. Rejoined(P, g, p) = (OutOfPool(P, p) \ {its}) \cup {its \cup {p}}
    BY <1>2, <2>q, <2>i DEF Rejoined
  <2> QED
    BY <1>1, <2>4, <2>5
<1>3. CASE Fellows(P, g, p) = {}
  BY <1>3 DEF Rejoined
<1> QED
  BY <1>2, <1>3

\* The object with one more member.
With(g, p) == [g EXCEPT !.members = g.members \cup {p}]

\* AddMember lets in one who stands on this server and is in no other object of it.
LEMMA AddMemberGood ==
  ASSUME NEW w, NEW d, Good(w, at, d), NEW s \in Server, NEW g \in Group, Fits(w.grp[s], g),
         NEW p \in Player, Stands(at, d, p), Host[at[p]] = s,
         \A k \in w.grp[s] : p \in k.members => k = g
  PROVE  /\ Good(AddMember(w, s, g, p), at, d)
         /\ With(g, p) \in AddMember(w, s, g, p).grp[s]
         /\ Newcomer(w, AddMember(w, s, g, p), s, p)
<1>h. PICK h : h = [g EXCEPT !.members = g.members \cup {p}]
  OBVIOUS
<1>1. w \in Worlds /\ g.id \in Player /\ h \in Group /\ h.members = g.members \cup {p}
  BY <1>h DEF Good, Group
<1>u. PICK u : u = Replace(w, s, g, h)
  OBVIOUS
<1>2. Regroups(w, u, s, g, h) /\ u \in Worlds /\ u.pool = w.pool
  BY <1>1, <1>u, ReplaceIs
<1>i. PICK i : i = Insert(u, p, g.id)
  OBVIOUS
<1>3. i \in Worlds /\ i.grp = u.grp /\ i.pool = w.pool
  BY <1>1, <1>2, <1>i, InsertIs
<1>m. PICK m : m = Reload(i, s, g)
  OBVIOUS
<1>4. m \in Worlds /\ m.grp = u.grp /\ m.pool = w.pool
  <2> PICK kind : kind = "reload"
    OBVIOUS
  <2>1. kind \in Kinds
    BY DEF Kinds
  <2>2. m = Send(i, s, kind, g.id, g.id)
    BY <1>m DEF Reload
  <2> QED
    BY <1>1, <1>3, <2>1, <2>2, SendIs
<1>t. PICK t : t = ReloadTreasurePool(m, h, p)
  OBVIOUS
<1>5. h.members \subseteq Player /\ m.pool \in SUBSET SUBSET Player
  BY <1>1, <1>4, WorldIs DEF Group
<1>6. Rejoined(m.pool, h, p) \in SUBSET SUBSET Player
  BY <1>5, RejoinedTyped
<1>7. t \in Worlds /\ t.grp = u.grp /\ t.pool = Rejoined(w.pool, h, p)
  BY <1>4, <1>5, <1>6, <1>t, ReloadTreasurePoolIs
<1>8. Regroups(w, t, s, g, h)
  BY <1>2, <1>7 DEF Regroups
<1>9. Good(t, at, d) /\ h \in t.grp[s] /\ Newcomer(w, t, s, p)
  <2>1. Good(t, at, d)
    BY <1>1, <1>7, <1>8, JoinGood
  <2>2. h \in t.grp[s]
    BY <1>1, <1>7, <1>8, JoinGood
  <2>3. Newcomer(w, t, s, p)
    BY <1>1, <1>7, <1>8, JoinGood
  <2> QED
    BY <2>1, <2>2, <2>3
<1>10. Good(Flag(t, {p}, TRUE), at, d) /\ Flag(t, {p}, TRUE).grp = t.grp
  BY <1>9, FlagGood
<1>11. AddMember(w, s, g, p) = Flag(t, {p}, TRUE)
  BY <1>h, <1>u, <1>i, <1>m, <1>t DEF AddMember
<1> QED
  BY <1>9, <1>10, <1>11, <1>h DEF With, Newcomer

\* A character is in a party exactly if it is a member of an object.
LEMMA PartyOfIs ==
  ASSUME NEW w, NEW s, NEW p
  PROVE  /\ HasParty(w, s, p) <=> Mates(w.grp[s], p, p)
         /\ HasParty(w, s, p) => PartyOf(w, s, p) \in w.grp[s] /\ p \in PartyOf(w, s, p).members
BY DEF HasParty, PartyOf, Mates

\* Whoever stands on this server gets a party, if he has none, and nobody else does.
LEMMA WithPartyGood ==
  ASSUME NEW w, NEW d, Good(w, at, d), NEW s \in Server,
         NEW p \in Player, Stands(at, d, p), Host[at[p]] = s
  PROVE  /\ Good(WithParty(w, s, p), at, d)
         /\ HasParty(WithParty(w, s, p), s, p)
         /\ Newcomer(w, WithParty(w, s, p), s, p)
<1>1. CASE HasParty(w, s, p)
  BY <1>1 DEF WithParty, Newcomer
<1>2. CASE ~HasParty(w, s, p)
  <2>b. PICK bare : bare = [id |-> p, members |-> {}, lead |-> None]
    OBVIOUS
  <2>1. bare \in Group /\ Fits(w.grp[s], bare) /\ bare.members = {}
    BY <2>b DEF Group, Fits
  <2>2. \A k \in w.grp[s] : p \in k.members => k = bare
    BY <1>2 DEF HasParty
  <2>m. PICK m : m = AddMember(w, s, bare, p)
    OBVIOUS
  <2>h. PICK h : h = [bare EXCEPT !.members = {p}]
    OBVIOUS
  <2>3. Good(m, at, d)
    BY <2>1, <2>2, <2>m, AddMemberGood
  <2>4. Newcomer(w, m, s, p)
    BY <2>1, <2>2, <2>m, AddMemberGood
  <2>5. h \in m.grp[s]
    <3>1. With(bare, p) \in m.grp[s]
      BY <2>1, <2>2, <2>m, AddMemberGood
    <3> QED
      BY <2>1, <2>h, <3>1 DEF With
  <2>6. h \in Group /\ Fits(m.grp[s], h)
    BY <2>3, <2>5, ObjectIs
  <2>v. PICK v : v = SetLeader(m, s, h, p)
    OBVIOUS
  <2>7. WithParty(w, s, p) = v
    BY <1>2, <2>b, <2>m, <2>h, <2>v DEF WithParty, Founded
  <2>8. Good(v, at, d)
    BY <2>3, <2>6, <2>v, SetLeaderGood
  <2>9. \A x, y \in Player : Mates(v.grp[s], x, y) <=> Mates(m.grp[s], x, y)
    BY <2>3, <2>6, <2>v, SetLeaderGood
  <2>10. Mates(m.grp[s], p, p)
    BY <2>1, <2>5, <2>b, <2>h DEF Mates
  <2> QED
    BY <2>4, <2>7, <2>8, <2>9, <2>10, PartyOfIs DEF Newcomer
<1> QED
  BY <1>1, <1>2

\* charutils::ReloadParty, for one who has a row: g is the object he is in, or one of the
\* party that he comes into, or a new one.
LEMMA ReloadedGood ==
  ASSUME Good(World, at, dest), NEW s \in Server, NEW g \in Group, Fits(grp[s], g),
         NEW p \in Player, Stands(at, dest, p), Host[at[p]] = s, row[p].party \in Player,
         \A k \in grp[s] : p \in k.members => k = g
  PROVE  Good(Reloaded(s, p, g), at, dest)
<1>i. PICK id : id = row[p].party
  OBVIOUS
<1>h. PICK h : h = [id |-> id, members |-> g.members \cup {p}, lead |-> g.lead]
  OBVIOUS
<1>0. id \in Player
  BY <1>i
<1>1. h \in Group /\ h.members = g.members \cup {p}
  BY <1>h, <1>0 DEF Group
<1>W. PICK W : W = World
  OBVIOUS
<1>2. Good(W, at, dest) /\ W \in Worlds /\ W.grp = grp
  BY <1>W DEF Good, World
<1>u. PICK u : u = Replace(W, s, g, h)
  OBVIOUS
<1>3. Regroups(W, u, s, g, h) /\ u \in Worlds /\ u.pool = W.pool
  BY <1>1, <1>2, <1>u, ReplaceIs
<1>v. PICK v : v = IF g.members # {} /\ p \in g.members THEN u ELSE ReloadTreasurePool(u, h, p)
  OBVIOUS
<1>4. Good(v, at, dest) /\ h \in v.grp[s]
  <2>1. CASE g.members # {} /\ p \in g.members
    <3>1. h.members = g.members /\ v = u
      BY <1>1, <1>v, <2>1
    <3>2. Fits(W.grp[s], g)
      BY <1>2
    <3>3. Good(u, at, dest)
      BY <1>1, <1>2, <1>3, <3>1, <3>2, KeepGood
    <3>4. h.members # {} => h \in u.grp[s]
      BY <1>1, <1>2, <1>3, <3>1, <3>2, KeepGood
    <3> QED
      BY <1>1, <3>1, <3>3, <3>4
  <2>2. CASE ~(g.members # {} /\ p \in g.members)
    <3>1. h.members \subseteq Player /\ u.pool \in SUBSET SUBSET Player
      BY <1>1, <1>3, WorldIs DEF Group
    <3>2. Rejoined(u.pool, h, p) \in SUBSET SUBSET Player
      BY <3>1, RejoinedTyped
    <3>3. v = ReloadTreasurePool(u, h, p)
      BY <1>v, <2>2
    <3>4. v \in Worlds /\ v.grp = u.grp /\ v.pool = Rejoined(W.pool, h, p)
      BY <1>3, <3>1, <3>2, <3>3, ReloadTreasurePoolIs
    <3>5. Regroups(W, v, s, g, h)
      BY <1>3, <3>4 DEF Regroups
    <3>6. Fits(W.grp[s], g) /\ \A k \in W.grp[s] : p \in k.members => k = g
      BY <1>2
    <3>7. Good(v, at, dest)
      BY <1>1, <1>2, <3>4, <3>5, <3>6, JoinGood
    <3>8. h \in v.grp[s]
      BY <1>1, <1>2, <3>4, <3>5, <3>6, JoinGood
    <3> QED
      BY <3>7, <3>8
  <2> QED
    BY <2>1, <2>2
<1>5. Fits(v.grp[s], h)
  BY <1>1, <1>4 DEF Fits
<1>r. PICK all : all = ReloadParty(v, s, h)
  OBVIOUS
<1>6. Good(all, at, dest)
  BY <1>1, <1>4, <1>5, <1>r, ReloadPartyGood
<1>7. \A x, y \in Player : Mates(all.grp[s], x, y) <=> Mates(v.grp[s], x, y)
  BY <1>1, <1>4, <1>5, <1>r, ReloadPartyGood
<1>8. HasParty(all, s, p)
  <2>1. Mates(v.grp[s], p, p)
    BY <1>1, <1>4 DEF Mates
  <2> QED
    BY <1>7, <2>1, PartyOfIs
<1>n. PICK now : now = PartyOf(all, s, p)
  OBVIOUS
<1>9. now \in all.grp[s]
  BY <1>8, <1>n, PartyOfIs
<1>10. Good(DisbandParty(all, s, now, TRUE), at, dest)
  BY <1>6, <1>9, DisbandGood
<1>11. Reloaded(s, p, g) = IF h.members = {p} /\ RowsOf(row, id) = {p}
                           THEN DisbandParty(all, s, now, TRUE) ELSE all
  BY <1>i, <1>h, <1>W, <1>u, <1>v, <1>r, <1>n DEF Reloaded
<1> QED
  BY <1>6, <1>10, <1>11

-----------------------------------------------------------------------------
(* Steps.                                                                    *)

\* What a handler worked out becomes the state.
LEMMA BecomeIs ==
  ASSUME NEW w \in Worlds, Become(w)
  PROVE  World' = w
BY WorldIs DEF Become, World

\* The invariant in the next state.
LEMMA NextInv ==
  ASSUME NEW w, Good(w, at', dest'), World' = w,
         \A p \in Player : at'[p] = None => dest'[p] = None,
         pending' \in [Player -> Player \cup {None}],
         inbox' \in [Server -> Seq(Mail)]
  PROVE  Inv'
BY DEF Inv

\* A handler that moves nobody.
LEMMA HandlerInv ==
  ASSUME Inv, NEW w, Good(w, at, dest), Become(w), UNCHANGED <<at, dest>>,
         pending' \in [Player -> Player \cup {None}],
         inbox' \in [Server -> Seq(Mail)]
  PROVE  Inv'
<1>1. World' = w
  BY BecomeIs DEF Good
<1>2. Good(w, at', dest')
  OBVIOUS
<1> QED
  BY <1>1, <1>2, NextInv DEF Inv

\* What the handlers find.
LEMMA Found ==
  ASSUME Inv
  PROVE  /\ Good(World, at, dest) /\ World \in Worlds /\ at \in Places /\ dest \in Places
         /\ World.grp = grp /\ World.row = row /\ World.pool = pool
         /\ row \in [Player -> Row] /\ grp \in [Server -> SUBSET Party]
         /\ pending \in [Player -> Player \cup {None}] /\ inbox \in [Server -> Seq(Mail)]
BY WorldIs DEF Inv, Good, World

\* Where a player stands.
LEMMA StandsIs ==
  ASSUME Inv, NEW p \in Player
  PROVE  /\ InZone(p) <=> Stands(at, dest, p)
         /\ Online(p) => ServerOf(p) \in Server /\ ServerOf(p) = Host[at[p]]
         /\ \A s \in Server : p \in Hosted(s) <=> Stands(at, dest, p) /\ Host[at[p]] = s
<1>1. at \in Places
  BY Found
<1>2. Online(p) => at[p] \in Zone
  BY <1>1 DEF Online, Places
<1> QED
  BY <1>2, PartyAssumption DEF InZone, Online, Stands, ServerOf, Hosted

\* The object of a player here.
LEMMA OwnParty ==
  ASSUME Inv, NEW p \in Player, NEW s \in Server, HasParty(World, s, p),
         NEW g, g = PartyOf(World, s, p)
  PROVE  /\ g \in World.grp[s] /\ p \in g.members /\ g \in Group /\ Fits(World.grp[s], g)
         /\ g \in grp[s] /\ g.members \subseteq Player
<1>1. g \in World.grp[s] /\ p \in g.members
  BY PartyOfIs
<1>2. Good(World, at, dest) /\ World.grp = grp
  BY Found
<1> QED
  BY <1>1, <1>2, ObjectIs

\* Who may lead next.
LEMMA HeirsAre ==
  ASSUME NEW w, NEW g, NEW heir \in Heirs(w, g)
  PROVE  heir \in Player \cup {None}
BY DEF Heirs, RowsOf

\* The initial places, rows and pools.
LEMMA InitInv == Init => Inv
<1> SUFFICES ASSUME Init PROVE Inv
  OBVIOUS
<1>1. World \in Worlds
  <2>1. row \in [Player -> Row]
    BY DEF Init, Row, NoRow
  <2>2. grp \in [Server -> SUBSET Party] /\ flag \in [Player -> BOOLEAN] /\ out \in [Server -> Seq(Mail)]
    BY DEF Init
  <2>3. pool \in SUBSET SUBSET Player
    BY DEF Init
  <2> QED
    BY <2>1, <2>2, <2>3 DEF World, Worlds
<1>2. World.grp = grp /\ World.pool = pool
  BY DEF World
<1>3. at \in Places /\ dest \in Places /\ \A p \in Player : Stands(at, dest, p)
  BY PartyAssumption DEF Init, Places, Stands
<1>4. \A s \in Server : \A p, q \in Player : ~Mates(World.grp[s], p, q)
  BY <1>2 DEF Init, Mates
<1>5. \A s \in Server : Apart(World.grp[s])
  BY <1>2 DEF Init, Apart
<1>6. Housed(World, at)
  BY <1>4 DEF Housed
<1>0. pool = {{p} : p \in Player}
  BY DEF Init
<1>7. ASSUME NEW p \in Player, NEW q \in Player PROVE Share(World.pool, p, q) <=> p = q
  <2>1. {p} \in pool
    BY <1>0
  <2>2. \A ps \in pool : p \in ps /\ q \in ps => p = q
    BY <1>0
  <2> QED
    BY <1>2, <2>1, <2>2 DEF Share
<1>8. Pools(World.pool, Standing(at, dest))
  <2>1. {} \notin pool
    BY <1>0
  <2>2. \A ps, qs \in pool : \A p \in Player : p \in ps /\ p \in qs => ps = qs
    BY <1>0
  <2>3. \A p \in Player : p \in Standing(at, dest) <=> Share(World.pool, p, p)
    BY <1>3, <1>7 DEF Standing
  <2> QED
    BY <1>2, <2>1, <2>2, <2>3 DEF Pools
<1>9. Agree(World, at, dest)
  <2> SUFFICES ASSUME NEW p \in Player, NEW q \in Player, p # q
               PROVE  Share(World.pool, p, q) <=> Near(at, dest, p, q) /\ Mates(World.grp[Host[at[p]]], p, q)
    BY DEF Agree
  <2>1. Host[at[p]] \in Server
    BY PartyAssumption DEF Init
  <2> QED
    BY <1>4, <1>7, <2>1
<1>10. pending \in [Player -> Player \cup {None}] /\ inbox \in [Server -> Seq(Mail)]
  BY DEF Init
<1>11. \A p \in Player : at[p] = None => dest[p] = None
  BY DEF Init
<1> QED
  BY <1>1, <1>3, <1>5, <1>6, <1>8, <1>9, <1>10, <1>11 DEF Inv, Good

\* 0x06e: an invitation, here or by mail.
LEMMA SolicitInv == ASSUME Inv, NEW p \in Player, NEW q \in Player, Solicit(p, q) PROVE Inv'
<1>s. PICK s : s = ServerOf(p)
  OBVIOUS
<1>1. s \in Server
  BY <1>s, StandsIs DEF Solicit, InZone
<1>2. Good(World, at, dest) /\ World \in Worlds /\ pending \in [Player -> Player \cup {None}] /\ inbox \in [Server -> Seq(Mail)]
  BY Found
<1>3. UNCHANGED <<at, dest, inbox>>
  BY DEF Solicit
<1>4. CASE q \in Hosted(s)
  <2>1. Become(World) /\ pending' = [pending EXCEPT ![q] = p]
    BY <1>s, <1>4 DEF Solicit
  <2>2. pending' \in [Player -> Player \cup {None}]
    BY <1>2, <2>1
  <2> QED
    BY <1>2, <1>3, <2>1, <2>2, HandlerInv
<1>5. CASE q \notin Hosted(s)
  <2>k. PICK kind : kind = "invite"
    OBVIOUS
  <2>1. Become(Send(World, s, kind, q, p)) /\ pending' = pending
    BY <1>s, <1>5, <2>k DEF Solicit
  <2>2. Good(Send(World, s, kind, q, p), at, dest)
    BY <1>1, <1>2, <2>k, SendGood DEF Kinds
  <2> QED
    BY <1>2, <1>3, <2>1, <2>2, HandlerInv
<1> QED
  BY <1>4, <1>5

\* 0x074, refused.
LEMMA DeclineInv == ASSUME Inv, NEW q \in Player, Decline(q) PROVE Inv'
<1>1. Good(World, at, dest) /\ pending \in [Player -> Player \cup {None}] /\ inbox \in [Server -> Seq(Mail)]
  BY Found
<1>2. pending' \in [Player -> Player \cup {None}]
  BY <1>1 DEF Decline
<1>3. Become(World) /\ UNCHANGED <<at, dest, inbox>>
  BY DEF Decline, Become, World
<1> QED
  BY <1>1, <1>2, <1>3, HandlerInv

\* 0x074, accepted: here, or by mail.
LEMMA AcceptInv == ASSUME Inv, NEW q \in Player, Accept(q) PROVE Inv'
<1>s. PICK s : s = ServerOf(q)
  OBVIOUS
<1>p. PICK p : p = pending[q]
  OBVIOUS
<1>w. PICK w : w = WithParty(World, s, p)
  OBVIOUS
<1>g. PICK g : g = PartyOf(w, s, p)
  OBVIOUS
<1>1. Stands(at, dest, q) /\ s \in Server /\ Host[at[q]] = s
  BY <1>s, StandsIs DEF Accept, InZone
<1>2. Good(World, at, dest) /\ World \in Worlds /\ pending \in [Player -> Player \cup {None}] /\ inbox \in [Server -> Seq(Mail)]
  BY Found
<1>3. p \in Player
  BY <1>2, <1>p DEF Accept
<1>4. UNCHANGED <<at, dest, inbox>> /\ pending' \in [Player -> Player \cup {None}]
  BY <1>2 DEF Accept
<1>5. IF p \notin Hosted(s) THEN Become(Send(World, s, "answer", p, q))
      ELSE IF HasParty(World, s, q) THEN Become(World)
      ELSE IF g.lead = p /\ ~IsFull(w, g) THEN Become(AddMember(w, s, g, q))
      ELSE Become(w)
  BY <1>s, <1>p, <1>w, <1>g DEF Accept
<1>6. CASE p \notin Hosted(s)
  <2>k. PICK kind : kind = "answer"
    OBVIOUS
  <2>1. Become(Send(World, s, kind, p, q))
    BY <1>5, <1>6, <2>k
  <2>2. Good(Send(World, s, kind, p, q), at, dest)
    BY <1>1, <1>2, <1>3, <2>k, SendGood DEF Kinds
  <2> QED
    BY <1>2, <1>4, <2>1, <2>2, HandlerInv
<1>7. CASE p \in Hosted(s)
  <2>1. Stands(at, dest, p) /\ Host[at[p]] = s
    BY <1>1, <1>3, <1>7, StandsIs
  <2>2. Good(w, at, dest) /\ HasParty(w, s, p) /\ Newcomer(World, w, s, p)
    BY <1>1, <1>2, <1>3, <1>w, <2>1, WithPartyGood
  <2>3. g \in w.grp[s] /\ p \in g.members
    BY <1>g, <2>2, PartyOfIs
  <2>4. g \in Group /\ Fits(w.grp[s], g) /\ Apart(w.grp[s])
    BY <1>1, <2>2, <2>3, ObjectIs DEF Good
  <2>5. ASSUME ~HasParty(World, s, q) PROVE \A k \in w.grp[s] : q \in k.members => k = g
    <3>1. ~Mates(World.grp[s], q, q)
      BY <2>5, PartyOfIs
    <3>2. Mates(w.grp[s], q, q) => q = p
      BY <2>2, <3>1 DEF Newcomer
    <3> QED
      BY <1>3, <2>3, <2>4, <3>2 DEF Mates, Apart
  <2>6. ASSUME ~HasParty(World, s, q) PROVE Good(AddMember(w, s, g, q), at, dest)
    BY <1>1, <2>2, <2>4, <2>5, <2>6, AddMemberGood
  <2>7. CASE HasParty(World, s, q)
    <3>1. Become(World)
      BY <1>5, <1>7, <2>7
    <3> QED
      BY <1>2, <1>4, <3>1, HandlerInv
  <2>8. CASE ~HasParty(World, s, q) /\ g.lead = p /\ ~IsFull(w, g)
    <3>1. Become(AddMember(w, s, g, q))
      BY <1>5, <1>7, <2>8
    <3> QED
      BY <1>2, <1>4, <2>6, <2>8, <3>1, HandlerInv
  <2>9. CASE ~HasParty(World, s, q) /\ ~(g.lead = p /\ ~IsFull(w, g))
    <3>1. Become(w)
      BY <1>5, <1>7, <2>9
    <3> QED
      BY <1>2, <1>4, <2>2, <3>1, HandlerInv
  <2> QED
    BY <2>7, <2>8, <2>9
<1> QED
  BY <1>6, <1>7

\* 0x06f, and 0x071 of a member here.
LEMMA LeaveInv == ASSUME Inv, NEW p \in Player, Leave(p) PROVE Inv'
<1>s. PICK s : s = ServerOf(p)
  OBVIOUS
<1>g. PICK g : g = PartyOf(World, s, p)
  OBVIOUS
<1>1. s \in Server /\ HasParty(World, s, p)
  BY <1>s, StandsIs DEF Leave, InZone
<1>2. Good(World, at, dest) /\ pending \in [Player -> Player \cup {None}] /\ inbox \in [Server -> Seq(Mail)]
  BY Found
<1>3. g \in World.grp[s] /\ p \in g.members
  BY <1>1, <1>g, OwnParty
<1>4. PICK heir \in Heirs(World, g) : Become(RemoveMember(World, s, g, p, heir))
  BY <1>s, <1>g DEF Leave
<1>5. heir \in Player \cup {None}
  BY HeirsAre
<1>6. Good(RemoveMember(World, s, g, p, heir), at, dest)
  BY <1>1, <1>2, <1>3, <1>5, RemoveMemberGood
<1>7. UNCHANGED <<at, dest, pending, inbox>>
  BY DEF Leave
<1> QED
  BY <1>2, <1>4, <1>6, <1>7, HandlerInv

\* The object of a leader.
LEMMA LeaderIs ==
  ASSUME Inv, NEW p \in Player, InZone(p), Leads(p), NEW s, s = ServerOf(p), NEW g, g = PartyOf(World, s, p)
  PROVE  /\ s \in Server /\ g \in World.grp[s] /\ g \in grp[s] /\ g \in Group /\ Fits(World.grp[s], g)
         /\ g.members \subseteq Player
<1>1. s \in Server /\ HasParty(World, s, p)
  BY StandsIs DEF InZone, Leads
<1> QED
  BY <1>1, OwnParty

\* 0x071 of a member here.
LEMMA KickInv == ASSUME Inv, NEW p \in Player, NEW q \in Player, Kick(p, q) PROVE Inv'
<1>s. PICK s : s = ServerOf(p)
  OBVIOUS
<1>g. PICK g : g = PartyOf(World, s, p)
  OBVIOUS
<1>1. s \in Server /\ g \in World.grp[s]
  BY <1>s, <1>g, LeaderIs DEF Kick
<1>2. Good(World, at, dest) /\ pending \in [Player -> Player \cup {None}] /\ inbox \in [Server -> Seq(Mail)]
  BY Found
<1>3. q \in g.members /\ \E heir \in Heirs(World, g) : Become(RemoveMember(World, s, g, q, heir))
  BY <1>s, <1>g DEF Kick
<1>4. PICK heir \in Heirs(World, g) : Become(RemoveMember(World, s, g, q, heir))
  BY <1>3
<1>5. heir \in Player \cup {None}
  BY HeirsAre
<1>6. Good(RemoveMember(World, s, g, q, heir), at, dest)
  BY <1>1, <1>2, <1>3, <1>5, RemoveMemberGood
<1>7. UNCHANGED <<at, dest, pending, inbox>>
  BY DEF Kick
<1> QED
  BY <1>2, <1>4, <1>6, <1>7, HandlerInv

\* 0x071 of a member elsewhere.
LEMMA KickAwayInv == ASSUME Inv, NEW p \in Player, NEW q \in Player, KickAway(p, q) PROVE Inv'
<1>s. PICK s : s = ServerOf(p)
  OBVIOUS
<1>g. PICK g : g = PartyOf(World, s, p)
  OBVIOUS
<1>1. s \in Server /\ g \in Group
  BY <1>s, <1>g, LeaderIs DEF KickAway
<1>2. Good(World, at, dest) /\ pending \in [Player -> Player \cup {None}] /\ inbox \in [Server -> Seq(Mail)]
  BY Found
<1>r. PICK r : r = WithRow(World, q, NoRow)
  OBVIOUS
<1>k. PICK kind : kind = "kicked"
  OBVIOUS
<1>3. Become(Send(Reload(r, s, g), s, kind, q, q))
  BY <1>s, <1>g, <1>r, <1>k DEF KickAway, WithRow
<1>4. Good(r, at, dest)
  BY <1>2, <1>r, RowGood DEF NoRow, Row
<1>5. Good(Reload(r, s, g), at, dest)
  BY <1>1, <1>4, ReloadGood
<1>6. Good(Send(Reload(r, s, g), s, kind, q, q), at, dest)
  BY <1>1, <1>5, <1>k, SendGood DEF Kinds
<1>7. UNCHANGED <<at, dest, pending, inbox>>
  BY DEF KickAway
<1> QED
  BY <1>2, <1>3, <1>6, <1>7, HandlerInv

\* 0x070.
LEMMA BreakupInv == ASSUME Inv, NEW p \in Player, Breakup(p) PROVE Inv'
<1>s. PICK s : s = ServerOf(p)
  OBVIOUS
<1>g. PICK g : g = PartyOf(World, s, p)
  OBVIOUS
<1>1. s \in Server /\ g \in World.grp[s]
  BY <1>s, <1>g, LeaderIs DEF Breakup
<1>2. Good(World, at, dest) /\ pending \in [Player -> Player \cup {None}] /\ inbox \in [Server -> Seq(Mail)]
  BY Found
<1>3. Become(DisbandParty(World, s, g, TRUE))
  BY <1>s, <1>g DEF Breakup
<1>4. Good(DisbandParty(World, s, g, TRUE), at, dest)
  BY <1>1, <1>2, DisbandGood
<1>5. UNCHANGED <<at, dest, pending, inbox>>
  BY DEF Breakup
<1> QED
  BY <1>2, <1>3, <1>4, <1>5, HandlerInv

\* 0x077.
LEMMA PassLeadInv == ASSUME Inv, NEW p \in Player, NEW q \in Player, PassLead(p, q) PROVE Inv'
<1>s. PICK s : s = ServerOf(p)
  OBVIOUS
<1>g. PICK g : g = PartyOf(World, s, p)
  OBVIOUS
<1>1. s \in Server /\ g \in Group /\ Fits(World.grp[s], g)
  BY <1>s, <1>g, LeaderIs DEF PassLead
<1>2. Good(World, at, dest) /\ pending \in [Player -> Player \cup {None}] /\ inbox \in [Server -> Seq(Mail)]
  BY Found
<1>3. Become(Reload(SetLeader(World, s, g, q), s, Led(g, q)))
  BY <1>s, <1>g DEF PassLead
<1>4. Good(SetLeader(World, s, g, q), at, dest)
  BY <1>1, <1>2, SetLeaderGood
<1>5. Led(g, q) \in Group
  BY <1>1, LedIs
<1>6. Good(Reload(SetLeader(World, s, g, q), s, Led(g, q)), at, dest)
  BY <1>1, <1>4, <1>5, ReloadGood
<1>7. UNCHANGED <<at, dest, pending, inbox>>
  BY DEF PassLead
<1> QED
  BY <1>2, <1>3, <1>6, <1>7, HandlerInv

-----------------------------------------------------------------------------
(* Coming and going.                                                         *)

\* One who stands in no zone is in no pool, so that his leaving an object changes no pool.
LEMMA OwnedNone ==
  ASSUME NEW P \in SUBSET SUBSET Player, NEW S, Pools(P, S), NEW p \in Player, p \notin S
  PROVE  Owned(P, {p}) = P
<1>1. p \notin UNION P
  BY DEF Pools, Share
<1>2. {p} \cap UNION P = {}
  BY <1>1
<1>3. Owned(P, {p}) = ({qs \ {} : qs \in P} \ {{}}) \cup {{q} : q \in {}}
  BY <1>2 DEF Owned
<1>4. {} \notin P
  BY DEF Pools
<1>5. {qs \ {} : qs \in P} = P
  <2>1. \A qs \in P : qs \ {} = qs
    OBVIOUS
  <2> QED
    BY <2>1
<1> QED
  BY <1>3, <1>4, <1>5

\* Only p moves.
Elsewhere(a, d, a2, d2, p) ==
  /\ a2 \in Places /\ d2 \in Places
  /\ \A q \in Player : q # p => a2[q] = a[q] /\ d2[q] = d[q]

\* p is a member nowhere.
Free(w, p) == \A s \in Server : ~Mates(w.grp[s], p, p)

\* One who leaves his zone leaves his pool; who goes offline is in no object any more.
LEMMA GoneGood ==
  ASSUME NEW w, NEW v \in Worlds, NEW a, NEW d, Good(w, a, d), NEW a2, NEW d2, NEW p \in Player,
         Elsewhere(a, d, a2, d2, p), v.grp = w.grp, v.pool = OutOfPool(w.pool, p),
         ~Stands(a2, d2, p), a2[p] = a[p] \/ Free(w, p)
  PROVE  Good(v, a2, d2)
<1>1. w.pool \in SUBSET SUBSET Player /\ Pools(w.pool, Standing(a, d))
  BY DEF Good, Worlds
<1>2. Pools(v.pool, Standing(a, d) \ {p})
  BY <1>1, OutOfPoolIs
<1>3. \A x, y \in Player : Share(v.pool, x, y) <=> Share(w.pool, x, y) /\ x # p /\ y # p
  <2>P. PICK P : P = w.pool
    OBVIOUS
  <2>S. PICK S : S = Standing(a, d)
    OBVIOUS
  <2>1. \A x, y \in Player : Share(OutOfPool(P, p), x, y) <=> Share(P, x, y) /\ x # p /\ y # p
    BY <1>1, <2>P, <2>S, OutOfPoolIs
  <2> QED
    BY <2>1, <2>P
<1>4. \A q \in Player : Stands(a2, d2, q) <=> Stands(a, d, q) /\ q # p
  BY DEF Elsewhere, Stands
<1>5. Standing(a2, d2) = Standing(a, d) \ {p}
  BY <1>4 DEF Standing
<1>6. Housed(v, a2)
  <2> SUFFICES ASSUME NEW s \in Server, NEW q \in Player, Mates(v.grp[s], q, q)
               PROVE  a2[q] # None /\ Host[a2[q]] = s
    BY DEF Housed
  <2>1. a[q] # None /\ Host[a[q]] = s
    BY DEF Good, Housed
  <2> QED
    BY <2>1 DEF Elsewhere, Free
<1>7. ASSUME NEW x \in Player, NEW y \in Player, x # y
      PROVE  Share(v.pool, x, y) <=> Near(a2, d2, x, y) /\ Mates(v.grp[Host[a2[x]]], x, y)
  <2>1. Share(w.pool, x, y) <=> Near(a, d, x, y) /\ Mates(w.grp[Host[a[x]]], x, y)
    BY <1>7 DEF Good, Agree
  <2>2. CASE x # p /\ y # p
    <3>1. a2[x] = a[x] /\ a2[y] = a[y]
      BY <2>2 DEF Elsewhere
    <3>2. Near(a2, d2, x, y) <=> Near(a, d, x, y)
      BY <1>4, <2>2, <3>1 DEF Near
    <3> QED
      BY <1>3, <2>1, <2>2, <3>1, <3>2
  <2>3. CASE x = p \/ y = p
    BY <1>3, <1>4, <2>3 DEF Near
  <2> QED
    BY <2>2, <2>3
<1>8. Agree(v, a2, d2)
  BY <1>7 DEF Agree
<1> QED
  BY <1>2, <1>5, <1>6, <1>8 DEF Good, Elsewhere

\* One who comes is in no object, and has a pool of his own.
LEMMA CameGood ==
  ASSUME NEW w, NEW v \in Worlds, NEW a, NEW d, Good(w, a, d), NEW a2, NEW d2, NEW p \in Player,
         Elsewhere(a, d, a2, d2, p), v.grp = w.grp, v.pool = w.pool \cup {{p}},
         ~Stands(a, d, p), Stands(a2, d2, p), Free(w, p)
  PROVE  Good(v, a2, d2)
<1>1. Pools(w.pool, Standing(a, d)) /\ p \notin Standing(a, d)
  BY DEF Good, Standing
<1>2. \A ps \in w.pool : p \notin ps
  BY <1>1 DEF Pools, Share
<1>3. ASSUME NEW x \in Player, NEW y \in Player
      PROVE  Share(v.pool, x, y) <=> Share(w.pool, x, y) \/ (x = p /\ y = p)
  BY DEF Share
<1>4. \A q \in Player : Stands(a2, d2, q) <=> Stands(a, d, q) \/ q = p
  BY DEF Elsewhere, Stands
<1>5. Pools(v.pool, Standing(a2, d2))
  <2>1. {} \notin v.pool
    BY <1>1 DEF Pools
  <2>2. ASSUME NEW ps \in v.pool, NEW qs \in v.pool, NEW q \in Player, q \in ps, q \in qs
        PROVE  ps = qs
    <3>0. (ps \in w.pool \/ ps = {p}) /\ (qs \in w.pool \/ qs = {p})
      OBVIOUS
    <3>1. CASE q = p
      BY <1>2, <2>2, <3>0, <3>1
    <3>2. CASE q # p
      BY <1>1, <2>2, <3>0, <3>2 DEF Pools
    <3> QED
      BY <3>1, <3>2
  <2>3. \A q \in Player : q \in Standing(a2, d2) <=> Share(v.pool, q, q)
    BY <1>1, <1>3, <1>4 DEF Pools, Standing
  <2> QED
    BY <2>1, <2>2, <2>3 DEF Pools
<1>6. Housed(v, a2)
  <2> SUFFICES ASSUME NEW s \in Server, NEW q \in Player, Mates(v.grp[s], q, q)
               PROVE  a2[q] # None /\ Host[a2[q]] = s
    BY DEF Housed
  <2>1. a[q] # None /\ Host[a[q]] = s
    BY DEF Good, Housed
  <2> QED
    BY <2>1 DEF Elsewhere, Free
<1>7. ASSUME NEW x \in Player, NEW y \in Player, x # y
      PROVE  Share(v.pool, x, y) <=> Near(a2, d2, x, y) /\ Mates(v.grp[Host[a2[x]]], x, y)
  <2>1. Share(w.pool, x, y) <=> Near(a, d, x, y) /\ Mates(w.grp[Host[a[x]]], x, y)
    BY <1>7 DEF Good, Agree
  <2>2. CASE x # p /\ y # p
    <3>1. a2[x] = a[x] /\ a2[y] = a[y]
      BY <2>2 DEF Elsewhere
    <3>2. Near(a2, d2, x, y) <=> Near(a, d, x, y)
      BY <1>4, <2>2, <3>1 DEF Near
    <3> QED
      BY <1>3, <2>1, <2>2, <3>1, <3>2
  <2>3. CASE x = p \/ y = p
    <3>1. ~Share(v.pool, x, y)
      BY <1>2, <1>3, <1>7, <2>3 DEF Share
    <3>2. ASSUME Near(a2, d2, x, y), Mates(v.grp[Host[a2[x]]], x, y) PROVE FALSE
      <4>1. Host[a2[x]] \in Server
        BY <3>2, PartyAssumption DEF Elsewhere, Places, Near, Stands
      <4>2. Mates(v.grp[Host[a2[x]]], p, p)
        BY <2>3, <3>2 DEF Mates
      <4> QED
        BY <4>1, <4>2 DEF Free
    <3> QED
      BY <3>1, <3>2
  <2> QED
    BY <2>2, <2>3
<1>8. Agree(v, a2, d2)
  BY <1>7 DEF Agree
<1> QED
  BY <1>5, <1>6, <1>8 DEF Good, Elsewhere

\* removeCharFromZone.
LEMMA ZoneOutInv == ASSUME Inv, NEW p \in Player, NEW z \in Zone, ZoneOut(p, z) PROVE Inv'
<1>v. PICK v : v = [World EXCEPT !.pool = OutOfPool(pool, p)]
  OBVIOUS
<1>1. Good(World, at, dest) /\ World \in Worlds /\ World.pool = pool /\ at \in Places /\ dest \in Places
      /\ pending \in [Player -> Player \cup {None}] /\ inbox \in [Server -> Seq(Mail)]
  BY Found
<1>2. OutOfPool(pool, p) \in SUBSET SUBSET Player
  BY <1>1, WorldIs DEF OutOfPool
<1>3. v \in Worlds /\ v.grp = World.grp /\ v.pool = OutOfPool(World.pool, p)
  BY <1>1, <1>2, <1>v DEF Worlds
<1>4. World' = v
  BY <1>v DEF World, ZoneOut
<1>5. /\ at' = at /\ dest' = [dest EXCEPT ![p] = z] /\ z # None /\ at[p] # None
      /\ pending' = [pending EXCEPT ![p] = None] /\ inbox' = inbox
  BY PartyAssumption DEF ZoneOut, InZone, Online
<1>6. Elsewhere(at, dest, at', dest', p) /\ ~Stands(at', dest', p)
  BY <1>1, <1>5 DEF Elsewhere, Places, Stands
<1>7. at'[p] = at[p]
  BY <1>5
<1>a. PICK a2 : a2 = at'
  OBVIOUS
<1>d. PICK d2 : d2 = dest'
  OBVIOUS
<1>8. Good(v, a2, d2)
  BY <1>1, <1>3, <1>6, <1>7, <1>a, <1>d, GoneGood
<1>9. \A q \in Player : at'[q] = None => dest'[q] = None
  BY <1>1, <1>5 DEF Inv, Places
<1>10. pending' \in [Player -> Player \cup {None}] /\ inbox' \in [Server -> Seq(Mail)]
  BY <1>1, <1>5
<1> QED
  BY <1>4, <1>8, <1>9, <1>10, <1>a, <1>d, NextInv

\* The old object of a character lets go of him, and no pool changes.
LEMMA PopMemberGood ==
  ASSUME Inv, NEW p \in Player, Online(p), ~InZone(p), NEW s, s = ServerOf(p), HasParty(World, s, p),
         NEW g, g = PartyOf(World, s, p), NEW h, h = [g EXCEPT !.members = g.members \ {p}],
         NEW w, w = Replace(Reload(World, s, g), s, g, h)
  PROVE  Good(w, at, dest) /\ ~Mates(w.grp[s], p, p) /\ w \in Worlds
<1>1. s \in Server
  BY StandsIs
<1>2. g \in World.grp[s] /\ p \in g.members /\ g \in Group
  BY <1>1, OwnParty
<1>3. Good(World, at, dest) /\ World \in Worlds
  BY Found
<1>m. PICK m : m = Reload(World, s, g)
  OBVIOUS
<1>4. Good(m, at, dest) /\ m.grp = World.grp /\ m \in Worlds
  BY <1>1, <1>2, <1>3, <1>m, ReloadGood DEF Good
<1>5. h \in Group /\ h.members = g.members \ {p}
  BY <1>2 DEF Group
<1>6. Regroups(m, w, s, g, h) /\ w \in Worlds /\ w.pool = m.pool
  BY <1>1, <1>4, <1>5, <1>m, ReplaceIs
<1>7. p \notin Standing(at, dest)
  BY StandsIs DEF Standing
<1>8. m.pool \in SUBSET SUBSET Player /\ Pools(m.pool, Standing(at, dest))
  BY <1>4 DEF Good, Worlds
<1>9. w.pool = Owned(m.pool, {p})
  BY <1>6, <1>7, <1>8, OwnedNone
<1>10. {p} \in SUBSET Player /\ {p} \subseteq g.members /\ g \in m.grp[s]
  BY <1>2, <1>4
<1>ps. PICK ps : ps = {p}
  OBVIOUS
<1>u. PICK u : u = w
  OBVIOUS
<1>11. /\ ps \in SUBSET Player /\ ps \subseteq g.members /\ h.members = g.members \ ps
       /\ Regroups(m, u, s, g, h) /\ u.pool = Owned(m.pool, ps)
  BY <1>5, <1>6, <1>9, <1>10, <1>ps, <1>u
<1>12. Good(u, at, dest) /\ \A x \in ps : ~Mates(u.grp[s], x, x)
  BY ONLY <1>1, <1>4, <1>5, <1>10, <1>11, LeaveGood
<1> QED
  BY <1>6, <1>12, <1>ps, <1>u

\* Who is out of the object of his own server is in none.
LEMMA FreeIs ==
  ASSUME NEW w, NEW d, Good(w, at, d), NEW p \in Player, ~Mates(w.grp[Host[at[p]]], p, p)
  PROVE  Free(w, p)
BY DEF Good, Housed, Free

\* The end of the old object of a character between zones.
LEMMA DestroyInv == ASSUME Inv, NEW p \in Player, Destroy(p) PROVE Inv'
<1>s. PICK s : s = ServerOf(p)
  OBVIOUS
<1>g. PICK g : g = PartyOf(World, s, p)
  OBVIOUS
<1>h. PICK h : h = [g EXCEPT !.members = g.members \ {p}]
  OBVIOUS
<1>w. PICK w : w = Replace(Reload(World, s, g), s, g, h)
  OBVIOUS
<1>1. pending \in [Player -> Player \cup {None}] /\ inbox \in [Server -> Seq(Mail)]
  BY Found
<1>2. Online(p) /\ ~InZone(p) /\ HasParty(World, s, p)
  BY <1>s DEF Destroy, InZone
<1>3. Good(w, at, dest)
  BY <1>2, <1>s, <1>g, <1>h, <1>w, PopMemberGood
<1>4. Become(w) /\ UNCHANGED <<at, dest, pending, inbox>>
  BY <1>s, <1>g, <1>h, <1>w DEF Destroy
<1> QED
  BY <1>1, <1>3, <1>4, HandlerInv

\* Who is between zones without an object is in none.
LEMMA AwayFree ==
  ASSUME Inv, NEW p \in Player, Online(p), ~HasParty(World, ServerOf(p), p)
  PROVE  Free(World, p)
<1>s. PICK s : s = ServerOf(p)
  OBVIOUS
<1>1. s \in Server /\ s = Host[at[p]] /\ Good(World, at, dest)
  BY <1>s, StandsIs, Found
<1>2. ~Mates(World.grp[s], p, p)
  BY <1>1, <1>s, PartyOfIs
<1> QED
  BY <1>1, <1>2, FreeIs

\* The end of the way from one zone to another.
LEMMA ZoneInInv == ASSUME Inv, NEW p \in Player, ZoneIn(p) PROVE Inv'
<1>w. PICK w : w = World
  OBVIOUS
<1>1. Good(w, at, dest) /\ w \in Worlds /\ at \in Places /\ dest \in Places /\ w.pool = pool
      /\ pending \in [Player -> Player \cup {None}] /\ inbox \in [Server -> Seq(Mail)]
  BY <1>w, Found
<1>2. Online(p) /\ dest[p] # None /\ dest[p] \in Zone /\ ~InZone(p)
  BY <1>1 DEF ZoneIn, Places, InZone
<1>5. Free(w, p)
  BY <1>2, <1>w, AwayFree DEF ZoneIn
<1>u. PICK u : u = [w EXCEPT !.pool = w.pool \cup {{p}}]
  OBVIOUS
<1>6. u \in Worlds /\ u.grp = w.grp /\ u.pool = w.pool \cup {{p}}
  BY <1>1, <1>u DEF Worlds
<1>f. PICK f : f = Flag(u, {p}, TRUE)
  OBVIOUS
<1>7. f \in Worlds /\ f.grp = w.grp /\ f.pool = w.pool \cup {{p}}
  BY <1>6, <1>f, FlagIs
<1>8. Become(f)
  BY <1>w, <1>u, <1>f DEF ZoneIn
<1>9. World' = f
  BY <1>7, <1>8, BecomeIs
<1>10. at' = [at EXCEPT ![p] = dest[p]] /\ dest' = [dest EXCEPT ![p] = None] /\ UNCHANGED <<pending, inbox>>
  BY DEF ZoneIn
<1>11. Elsewhere(at, dest, at', dest', p) /\ Stands(at', dest', p) /\ ~Stands(at, dest, p)
  BY <1>1, <1>2, <1>10 DEF Elsewhere, Places, Stands
<1>a. PICK a2 : a2 = at'
  OBVIOUS
<1>d. PICK d2 : d2 = dest'
  OBVIOUS
<1>12. Good(f, a2, d2)
  BY <1>1, <1>5, <1>7, <1>11, <1>a, <1>d, CameGood
<1>13. \A q \in Player : at'[q] = None => dest'[q] = None
  BY <1>1, <1>2, <1>10 DEF Inv, Places
<1> QED
  BY <1>1, <1>9, <1>10, <1>12, <1>13, <1>a, <1>d, NextInv

\* One who stands in no zone is in no pool, so that his leaving the pools changes none.
LEMMA OutNone ==
  ASSUME NEW P \in SUBSET SUBSET Player, NEW S, Pools(P, S), NEW p \in Player, p \notin S
  PROVE  OutOfPool(P, p) = P
<1>1. \A ps \in P : p \notin ps /\ ps # {}
  BY DEF Pools, Share
<1>2. \A ps \in P : ps \ {p} = ps
  BY <1>1
<1>3. {ps \ {p} : ps \in P} = P
  <2>c. PICK cut : cut = {p}
    OBVIOUS
  <2>1. \A ps \in P : ps \ cut = ps
    BY <1>2, <2>c
  <2>2. \A x : x \in {ps \ cut : ps \in P} <=> \E ps \in P : x = ps \ cut
    OBVIOUS
  <2>3. \A x : x \in {ps \ cut : ps \in P} <=> x \in P
    <3>1. ASSUME NEW x, NEW ps \in P, x = ps \ cut PROVE x \in P
      BY <2>1, <3>1
    <3>2. ASSUME NEW x \in P PROVE x = x \ cut
      BY <2>1
    <3> QED
      BY <2>2, <3>1, <3>2
  <2>4. {ps \ cut : ps \in P} = P
    BY <2>3
  <2> QED
    BY <2>c, <2>4
<1>4. OutOfPool(P, p) = {ps \ {p} : ps \in P} \ {{}}
  BY DEF OutOfPool
<1>5. {} \notin P
  BY <1>1
<1> QED
  BY <1>3, <1>4, <1>5

\* The end of the session that waits for one who never comes.
LEMMA VanishInv == ASSUME Inv, NEW p \in Player, Vanish(p) PROVE Inv'
<1>w. PICK w : w = World
  OBVIOUS
<1>1. Good(w, at, dest) /\ w \in Worlds /\ at \in Places /\ dest \in Places
      /\ pending \in [Player -> Player \cup {None}] /\ inbox \in [Server -> Seq(Mail)]
  BY <1>w, Found
<1>2. Free(w, p)
  BY <1>w, AwayFree DEF Vanish
<1>f. PICK f : f = Flag(w, {p}, FALSE)
  OBVIOUS
<1>3. f \in Worlds /\ f.grp = w.grp /\ f.pool = w.pool
  BY <1>1, <1>f, FlagIs
<1>v. PICK v : v = WithRow(f, p, NoRow)
  OBVIOUS
<1>4. v \in Worlds /\ v.grp = w.grp /\ v.pool = w.pool
  BY <1>3, <1>v, RowIs DEF NoRow, Row
<1>5. v.pool = OutOfPool(w.pool, p)
  <2>1. w.pool \in SUBSET SUBSET Player /\ Pools(w.pool, Standing(at, dest))
    BY <1>1 DEF Good, Worlds
  <2>2. p \notin Standing(at, dest)
    BY DEF Vanish, Standing, Stands
  <2> QED
    BY <1>4, <2>1, <2>2, OutNone
<1>6. World' = v
  BY <1>w, <1>f, <1>v, <1>4, BecomeIs DEF Vanish, WithRow
<1>7. /\ at' = [at EXCEPT ![p] = None] /\ dest' = [dest EXCEPT ![p] = None]
      /\ UNCHANGED <<pending, inbox>>
  BY DEF Vanish
<1>8. Elsewhere(at, dest, at', dest', p) /\ ~Stands(at', dest', p)
  BY <1>1, <1>7 DEF Elsewhere, Places, Stands
<1>a. PICK a2 : a2 = at'
  OBVIOUS
<1>d. PICK d2 : d2 = dest'
  OBVIOUS
<1>9. Good(v, a2, d2)
  BY <1>1, <1>2, <1>4, <1>5, <1>8, <1>a, <1>d, GoneGood
<1>10. \A q \in Player : at'[q] = None => dest'[q] = None
  BY <1>1, <1>7 DEF Inv, Places
<1> QED
  BY <1>1, <1>6, <1>7, <1>9, <1>10, <1>a, <1>d, NextInv

\* removeCharFromZone in Shutdown.
LEMMA LogoutInv == ASSUME Inv, NEW p \in Player, Logout(p) PROVE Inv'
<1>s. PICK s : s = ServerOf(p)
  OBVIOUS
<1>g. PICK g : g = PartyOf(World, s, p)
  OBVIOUS
<1>1. Good(World, at, dest) /\ World \in Worlds /\ at \in Places /\ dest \in Places
      /\ pending \in [Player -> Player \cup {None}] /\ inbox \in [Server -> Seq(Mail)]
  BY Found
<1>2. s \in Server /\ s = Host[at[p]]
  BY <1>s, StandsIs DEF Logout
<1>3. \E w : /\ Good(w, at, dest) /\ ~Mates(w.grp[s], p, p)
             /\ Become([Flag(w, {p}, FALSE) EXCEPT !.row[p] = NoRow, !.pool = OutOfPool(@, p)])
  <2>1. CASE HasParty(World, s, p)
    <3>1. PICK heir \in Heirs(World, g) :
            Become([Flag(RemoveMember(World, s, g, p, heir), {p}, FALSE)
                      EXCEPT !.row[p] = NoRow, !.pool = OutOfPool(@, p)])
      BY <1>s, <1>g, <2>1 DEF Logout
    <3>2. heir \in Player \cup {None} /\ g \in World.grp[s] /\ p \in g.members
      BY <1>2, <1>g, <2>1, HeirsAre, OwnParty
    <3>3. /\ Good(RemoveMember(World, s, g, p, heir), at, dest)
          /\ ~Mates(RemoveMember(World, s, g, p, heir).grp[s], p, p)
      BY <1>1, <1>2, <3>2, RemoveMemberGood
    <3> QED
      BY <3>1, <3>3
  <2>2. CASE ~HasParty(World, s, p)
    <3>1. Become([Flag(World, {p}, FALSE) EXCEPT !.row[p] = NoRow, !.pool = OutOfPool(@, p)])
      BY <1>s, <1>g, <2>2 DEF Logout
    <3>2. ~Mates(World.grp[s], p, p)
      BY <2>2, PartyOfIs
    <3> QED
      BY <1>1, <3>1, <3>2
  <2> QED
    BY <2>1, <2>2
<1>4. PICK w : /\ Good(w, at, dest) /\ ~Mates(w.grp[s], p, p)
               /\ Become([Flag(w, {p}, FALSE) EXCEPT !.row[p] = NoRow, !.pool = OutOfPool(@, p)])
  BY <1>3
<1>5. Free(w, p) /\ w \in Worlds
  BY <1>2, <1>4, FreeIs DEF Good
<1>f. PICK f : f = Flag(w, {p}, FALSE)
  OBVIOUS
<1>6. f \in Worlds /\ f.grp = w.grp /\ f.pool = w.pool
  BY <1>5, <1>f, FlagIs
<1>r. PICK r : r = WithRow(f, p, NoRow)
  OBVIOUS
<1>7. r \in Worlds /\ r.grp = w.grp /\ r.pool = w.pool
  BY <1>6, <1>r, RowIs DEF NoRow, Row
<1>v. PICK v : v = [r EXCEPT !.pool = OutOfPool(r.pool, p)]
  OBVIOUS
<1>8. OutOfPool(w.pool, p) \in SUBSET SUBSET Player
  BY <1>5, WorldIs DEF OutOfPool
<1>9. v \in Worlds /\ v.grp = w.grp /\ v.pool = OutOfPool(w.pool, p)
  BY <1>7, <1>8, <1>v DEF Worlds
<1>10. v = [f EXCEPT !.row[p] = NoRow, !.pool = OutOfPool(@, p)]
  BY <1>6, <1>7, <1>v, <1>r DEF WithRow
<1>11. World' = v
  BY <1>4, <1>9, <1>10, <1>f, BecomeIs
<1>12. /\ at' = [at EXCEPT ![p] = None] /\ dest' = [dest EXCEPT ![p] = None]
       /\ pending' = [pending EXCEPT ![p] = None] /\ inbox' = inbox
  BY DEF Logout
<1>13. Elsewhere(at, dest, at', dest', p) /\ ~Stands(at', dest', p)
  BY <1>1, <1>12 DEF Elsewhere, Places, Stands
<1>a. PICK a2 : a2 = at'
  OBVIOUS
<1>d. PICK d2 : d2 = dest'
  OBVIOUS
<1>14. Good(v, a2, d2)
  BY <1>4, <1>5, <1>9, <1>13, <1>a, <1>d, GoneGood
<1>15. \A q \in Player : at'[q] = None => dest'[q] = None
  BY <1>1, <1>12 DEF Inv, Places
<1>16. pending' \in [Player -> Player \cup {None}] /\ inbox' \in [Server -> Seq(Mail)]
  BY <1>1, <1>12
<1> QED
  BY <1>11, <1>14, <1>15, <1>16, <1>a, <1>d, NextInv

\* Entry of one who was offline.
LEMMA LoginInv == ASSUME Inv, NEW p \in Player, NEW z \in Zone, Login(p, z) PROVE Inv'
<1>1. Good(World, at, dest) /\ World \in Worlds /\ at \in Places /\ dest \in Places
      /\ pending \in [Player -> Player \cup {None}] /\ inbox \in [Server -> Seq(Mail)]
  BY Found
<1>2. at[p] = None /\ dest[p] = None
  BY DEF Inv, Login, Online
<1>3. Free(World, p)
  BY <1>1, <1>2 DEF Good, Housed, Free
<1>v. PICK v : v = [World EXCEPT !.pool = pool \cup {{p}}, !.flag = [flag EXCEPT ![p] = TRUE]]
  OBVIOUS
<1>4. pool \cup {{p}} \in SUBSET SUBSET Player /\ [flag EXCEPT ![p] = TRUE] \in [Player -> BOOLEAN]
  BY <1>1 DEF World, Worlds
<1>5. v \in Worlds /\ v.grp = World.grp /\ v.pool = World.pool \cup {{p}}
  BY <1>1, <1>4, <1>v DEF Worlds, World
<1>6. World' = v
  BY <1>v DEF World, Login
<1>7. at' = [at EXCEPT ![p] = z] /\ UNCHANGED <<dest, pending, inbox>> /\ z # None
  BY PartyAssumption DEF Login
<1>8. Elsewhere(at, dest, at', dest', p) /\ Stands(at', dest', p) /\ ~Stands(at, dest, p)
  BY <1>1, <1>2, <1>7 DEF Elsewhere, Places, Stands
<1>a. PICK a2 : a2 = at'
  OBVIOUS
<1>d. PICK d2 : d2 = dest'
  OBVIOUS
<1>9. Good(v, a2, d2)
  BY <1>1, <1>3, <1>5, <1>8, <1>a, <1>d, CameGood
<1>10. \A q \in Player : at'[q] = None => dest'[q] = None
  BY <1>1, <1>2, <1>7 DEF Inv, Places
<1> QED
  BY <1>1, <1>6, <1>7, <1>9, <1>10, <1>a, <1>d, NextInv

-----------------------------------------------------------------------------
(* The servers.                                                              *)

\* PostTick of one who has a row.
LEMMA TickMemberInv == ASSUME Inv, NEW p \in Player, TickMember(p) PROVE Inv'
<1>s. PICK s : s = ServerOf(p)
  OBVIOUS
<1>i. PICK id : id = row[p].party
  OBVIOUS
<1>1. /\ Good(World, at, dest) /\ World.grp = grp /\ row \in [Player -> Row]
      /\ pending \in [Player -> Player \cup {None}] /\ inbox \in [Server -> Seq(Mail)]
  BY Found
<1>2. s \in Server /\ Stands(at, dest, p) /\ Host[at[p]] = s
  BY <1>s, StandsIs DEF TickMember, InZone
<1>3. id \in Player
  BY <1>1, <1>i DEF TickMember, Row
<1>f. PICK found : found = IF HasParty(World, s, p) THEN {PartyOf(World, s, p)}
                           ELSE IF FoundHere(s, id) # {} THEN FoundHere(s, id)
                           ELSE {[id |-> id, members |-> {}, lead |-> None]}
  OBVIOUS
<1>4. PICK g \in found : Become(Reloaded(s, p, g))
  BY <1>s, <1>i, <1>f DEF TickMember
<1>5. g \in Group /\ Fits(grp[s], g) /\ \A k \in grp[s] : p \in k.members => k = g
  <2>1. CASE HasParty(World, s, p)
    <3>1. g = PartyOf(World, s, p)
      BY <1>f, <1>4, <2>1
    <3>2. g \in World.grp[s] /\ p \in g.members /\ g \in Group /\ Fits(World.grp[s], g)
      BY <1>2, <2>1, <3>1, OwnParty
    <3> QED
      BY <1>1, <1>2, <3>2 DEF Good, Apart
  <2>2. CASE ~HasParty(World, s, p)
    <3>1. \A k \in grp[s] : p \notin k.members
      BY <1>1, <2>2 DEF HasParty
    <3>2. CASE g \in grp[s]
      <4>1. g \in Group /\ Fits(grp[s], g)
        BY <1>1, <1>2, <3>2, ObjectIs
      <4> QED
        BY <3>1, <4>1
    <3>3. CASE g = [id |-> id, members |-> {}, lead |-> None]
      BY <1>3, <3>1, <3>3 DEF Group, Fits
    <3>4. g \in grp[s] \/ g = [id |-> id, members |-> {}, lead |-> None]
      BY <1>f, <1>4, <2>2 DEF FoundHere
    <3> QED
      BY <3>2, <3>3, <3>4
  <2> QED
    BY <2>1, <2>2
<1>6. Good(Reloaded(s, p, g), at, dest)
  BY <1>1, <1>2, <1>3, <1>i, <1>5, ReloadedGood
<1>7. UNCHANGED <<at, dest, pending, inbox>>
  BY DEF TickMember
<1> QED
  BY <1>1, <1>4, <1>6, <1>7, HandlerInv

\* PostTick of one who has none.
LEMMA TickStrangerInv == ASSUME Inv, NEW p \in Player, TickStranger(p) PROVE Inv'
<1>s. PICK s : s = ServerOf(p)
  OBVIOUS
<1>g. PICK g : g = PartyOf(World, s, p)
  OBVIOUS
<1>1. Good(World, at, dest) /\ pending \in [Player -> Player \cup {None}] /\ inbox \in [Server -> Seq(Mail)]
  BY Found
<1>2. s \in Server
  BY <1>s, StandsIs DEF TickStranger, InZone
<1>3. UNCHANGED <<at, dest, pending, inbox>>
  BY DEF TickStranger
<1>4. CASE HasParty(World, s, p)
  <2>1. PICK heir \in Heirs(World, g) : Become(Flag(DelMember(World, s, g, p, heir), {p}, FALSE))
    BY <1>s, <1>g, <1>4 DEF TickStranger
  <2>2. heir \in Player \cup {None} /\ g \in World.grp[s] /\ p \in g.members
    BY <1>2, <1>g, <1>4, HeirsAre, OwnParty
  <2>3. Good(DelMember(World, s, g, p, heir), at, dest)
    BY <1>1, <1>2, <2>2, DelMemberGood
  <2>4. Good(Flag(DelMember(World, s, g, p, heir), {p}, FALSE), at, dest)
    BY <2>3, FlagGood
  <2> QED
    BY <1>1, <1>3, <2>1, <2>4, HandlerInv
<1>5. CASE ~HasParty(World, s, p)
  <2>1. Become(Flag(World, {p}, FALSE))
    BY <1>s, <1>g, <1>5 DEF TickStranger
  <2>2. Good(Flag(World, {p}, FALSE), at, dest)
    BY <1>1, FlagGood
  <2> QED
    BY <1>1, <1>3, <2>1, <2>2, HandlerInv
<1> QED
  BY <1>4, <1>5

\* What is in a queue has the type of mail.
LEMMA QueueIs ==
  ASSUME NEW f \in [Server -> Seq(Mail)], NEW s \in Server, f[s] # << >>
  PROVE  /\ Head(f[s]) \in Mail /\ Head(f[s]).who \in Player /\ Head(f[s]).by \in Player
         /\ [f EXCEPT ![s] = Tail(f[s])] \in [Server -> Seq(Mail)]
<1>1. Head(f[s]) \in Mail
  OBVIOUS
<1>2. Tail(f[s]) \in Seq(Mail)
  OBVIOUS
<1> QED
  BY <1>1, <1>2 DEF Mail

\* The world server passes a message on.
LEMMA RouteInv == ASSUME Inv, NEW s \in Server, Route(s) PROVE Inv'
<1>1. /\ Good(World, at, dest) /\ World \in Worlds
      /\ pending \in [Player -> Player \cup {None}] /\ inbox \in [Server -> Seq(Mail)]
  BY Found
<1>2. out \in [Server -> Seq(Mail)] /\ out[s] # << >>
  BY <1>1, WorldIs DEF World, Route
<1>m. PICK m : m = Head(out[s])
  OBVIOUS
<1>3. m \in Mail /\ [out EXCEPT ![s] = Tail(out[s])] \in [Server -> Seq(Mail)]
  BY <1>2, <1>m, QueueIs
<1>4. PICK to : inbox' = [t \in Server |-> IF t \in to THEN Append(inbox[t], m) ELSE inbox[t]]
  BY <1>m DEF Route
<1>5. inbox' \in [Server -> Seq(Mail)]
  BY <1>1, <1>3, <1>4
<1>v. PICK v : v = [World EXCEPT !.out = [out EXCEPT ![s] = Tail(out[s])]]
  OBVIOUS
<1>6. v \in Worlds /\ v.grp = World.grp /\ v.pool = World.pool
  BY <1>1, <1>3, <1>v DEF Worlds
<1>7. Good(v, at, dest)
  BY <1>1, <1>6, SameGood
<1>8. Become(v) /\ UNCHANGED <<at, dest, pending>>
  BY <1>v DEF Route, Become, World
<1> QED
  BY <1>1, <1>5, <1>7, <1>8, HandlerInv

\* What a handler of a message finds and leaves.
LEMMA ReceiveIs ==
  ASSUME Inv, NEW s \in Server, NEW kind, Receive(s, kind)
  PROVE  /\ Head(inbox[s]).who \in Player /\ Head(inbox[s]).by \in Player
         /\ inbox' \in [Server -> Seq(Mail)] /\ UNCHANGED <<at, dest>>
<1>1. inbox \in [Server -> Seq(Mail)] /\ inbox[s] # << >>
  BY Found DEF Receive
<1> QED
  BY <1>1, QueueIs DEF Receive

\* PartyReload and PlayerKick raise flags.
LEMMA OnReloadInv == ASSUME Inv, NEW s \in Server, OnReload(s) PROVE Inv'
<1>1. Good(World, at, dest) /\ pending \in [Player -> Player \cup {None}]
  BY Found
<1>2. inbox' \in [Server -> Seq(Mail)] /\ UNCHANGED <<at, dest, pending>>
  BY ReceiveIs DEF OnReload
<1>ps. PICK ps : ps = RowsOf(row, Head(inbox[s]).who) \cap Hosted(s)
  OBVIOUS
<1>3. Become(Flag(World, ps, TRUE))
  BY <1>ps DEF OnReload
<1>4. Good(Flag(World, ps, TRUE), at, dest)
  BY <1>1, FlagGood
<1> QED
  BY <1>1, <1>2, <1>3, <1>4, HandlerInv

\* As OnReloadInv.
LEMMA OnKickedInv == ASSUME Inv, NEW s \in Server, OnKicked(s) PROVE Inv'
<1>1. Good(World, at, dest) /\ pending \in [Player -> Player \cup {None}]
  BY Found
<1>2. inbox' \in [Server -> Seq(Mail)] /\ UNCHANGED <<at, dest, pending>>
  BY ReceiveIs DEF OnKicked
<1>ps. PICK ps : ps = {Head(inbox[s]).who} \cap Hosted(s)
  OBVIOUS
<1>3. Become(Flag(World, ps, TRUE))
  BY <1>ps DEF OnKicked
<1>4. Good(Flag(World, ps, TRUE), at, dest)
  BY <1>1, FlagGood
<1> QED
  BY <1>1, <1>2, <1>3, <1>4, HandlerInv

\* PartyDisband ends the party here.
LEMMA OnDisbandInv == ASSUME Inv, NEW s \in Server, OnDisband(s) PROVE Inv'
<1>1. Good(World, at, dest) /\ pending \in [Player -> Player \cup {None}] /\ World.grp = grp
  BY Found
<1>2. inbox' \in [Server -> Seq(Mail)] /\ UNCHANGED <<at, dest, pending>>
  BY ReceiveIs DEF OnDisband
<1>f. PICK found : found = FoundHere(s, Head(inbox[s]).who)
  OBVIOUS
<1>3. IF found = {} THEN Become(World) ELSE \E g \in found : Become(DisbandParty(World, s, g, FALSE))
  BY <1>f DEF OnDisband
<1>4. CASE found = {}
  BY <1>1, <1>2, <1>3, <1>4, HandlerInv
<1>5. CASE found # {}
  <2>1. PICK g \in found : Become(DisbandParty(World, s, g, FALSE))
    BY <1>3, <1>5
  <2>2. g \in World.grp[s]
    BY <1>1, <1>f DEF FoundHere
  <2>3. Good(DisbandParty(World, s, g, FALSE), at, dest)
    BY <1>1, <2>2, DisbandGood
  <2> QED
    BY <1>1, <1>2, <2>1, <2>3, HandlerInv
<1> QED
  BY <1>4, <1>5

\* PartyInvite waits for an answer.
LEMMA OnInviteInv == ASSUME Inv, NEW s \in Server, OnInvite(s) PROVE Inv'
<1>1. Good(World, at, dest) /\ pending \in [Player -> Player \cup {None}]
  BY Found
<1>2. inbox' \in [Server -> Seq(Mail)] /\ UNCHANGED <<at, dest>> /\ Head(inbox[s]).by \in Player
  BY ReceiveIs DEF OnInvite
<1>3. Become(World)
  BY DEF OnInvite
<1>q. PICK q : q = Head(inbox[s]).who
  OBVIOUS
<1>b. PICK b : b = Head(inbox[s]).by
  OBVIOUS
<1>4. pending' = pending \/ pending' = [pending EXCEPT ![q] = b]
  BY <1>q, <1>b DEF OnInvite
<1>5. pending' \in [Player -> Player \cup {None}]
  BY <1>1, <1>2, <1>b, <1>4
<1> QED
  BY <1>1, <1>2, <1>3, <1>5, HandlerInv

\* PartyInviteResponse: the leader's server writes the row, and founds the party before.
LEMMA OnAnswerInv == ASSUME Inv, NEW s \in Server, OnAnswer(s) PROVE Inv'
<1>1. Good(World, at, dest) /\ pending \in [Player -> Player \cup {None}]
  BY Found
<1>p. PICK p : p = Head(inbox[s]).who
  OBVIOUS
<1>q. PICK q : q = Head(inbox[s]).by
  OBVIOUS
<1>w. PICK w : w = WithParty(World, s, p)
  OBVIOUS
<1>g. PICK g : g = PartyOf(w, s, p)
  OBVIOUS
<1>2. inbox' \in [Server -> Seq(Mail)] /\ UNCHANGED <<at, dest, pending>> /\ p \in Player /\ q \in Player
  BY <1>p, <1>q, ReceiveIs DEF OnAnswer
<1>3. IF p \notin Hosted(s) \/ (row[p].lead /\ row[q].lead) THEN Become(World)
      ELSE IF g.lead = p /\ w.row[q].party = None /\ ~IsFull(w, g)
      THEN Become(Reload(Insert(w, q, g.id), s, g))
      ELSE Become(w)
  BY <1>p, <1>q, <1>w, <1>g DEF OnAnswer
<1>4. CASE p \notin Hosted(s) \/ (row[p].lead /\ row[q].lead)
  BY <1>1, <1>2, <1>3, <1>4, HandlerInv
<1>5. CASE ~(p \notin Hosted(s) \/ (row[p].lead /\ row[q].lead))
  <2>1. Stands(at, dest, p) /\ Host[at[p]] = s
    BY <1>2, <1>5, StandsIs
  <2>2. Good(w, at, dest) /\ HasParty(w, s, p)
    BY <1>1, <1>2, <1>w, <2>1, WithPartyGood
  <2>3. g \in w.grp[s] /\ w \in Worlds
    BY <1>g, <2>2, PartyOfIs DEF Good
  <2>4. g \in Group /\ g.id \in Player
    BY <2>2, <2>3, ObjectIs
  <2>i. PICK i : i = Insert(w, q, g.id)
    OBVIOUS
  <2>5. Good(i, at, dest)
    <3>1. i \in Worlds /\ i.grp = w.grp /\ i.pool = w.pool
      BY <1>2, <2>i, <2>3, <2>4, InsertIs
    <3> QED
      BY <2>2, <3>1, SameGood
  <2>6. Good(Reload(i, s, g), at, dest)
    BY <2>4, <2>5, ReloadGood
  <2>7. Become(Reload(i, s, g)) \/ Become(w)
    BY <1>3, <1>5, <2>i
  <2>8. ASSUME Become(Reload(i, s, g)) PROVE Inv'
    BY <1>1, <1>2, <2>6, <2>8, HandlerInv
  <2>9. ASSUME Become(w) PROVE Inv'
    BY <1>1, <1>2, <2>2, <2>9, HandlerInv
  <2> QED
    BY <2>7, <2>8, <2>9
<1> QED
  BY <1>4, <1>5

\* Every step keeps the invariant.
LEMMA StepInv == Inv /\ [Next]_vars => Inv'
<1>1. ASSUME Inv, Next PROVE Inv'
  BY <1>1, SolicitInv, DeclineInv, AcceptInv, LeaveInv, KickInv, KickAwayInv, BreakupInv, PassLeadInv,
     ZoneOutInv, DestroyInv, ZoneInInv, VanishInv, LogoutInv, LoginInv, TickMemberInv, TickStrangerInv,
     RouteInv, OnReloadInv, OnKickedInv, OnDisbandInv, OnInviteInv, OnAnswerInv DEF Next, Common
<1>2. ASSUME Inv, UNCHANGED vars PROVE Inv'
  BY <1>2 DEF Inv, vars, World
<1> QED
  BY <1>1, <1>2

-----------------------------------------------------------------------------
\* The inductive invariant of the parties, whatever requests are hasty.
THEOREM Invariance == Spec => []Inv
BY InitInv, StepInv, PTL DEF Spec

\* What the invariant says of the types.
LEMMA InvTypes == Inv => TypeOK
<1> SUFFICES ASSUME Inv PROVE TypeOK
  OBVIOUS
<1>1. World \in Worlds /\ at \in Places /\ dest \in Places /\ pending \in [Player -> Player \cup {None}]
  BY Found
<1>2. World = [row |-> row, grp |-> grp, pool |-> pool, flag |-> flag, out |-> out]
  BY DEF World
<1>3. row \in [Player -> Row] /\ grp \in [Server -> SUBSET Party]
      /\ pool \in SUBSET SUBSET Player /\ flag \in [Player -> BOOLEAN]
  BY <1>1, <1>2, WorldIs
<1> QED
  BY <1>1, <1>3 DEF TypeOK, Row, Places

\* Rows, places, objects, pools, flags and invitations keep their types: no party loses its
\* last member without being deleted, and none leads that is nobody.
THEOREM TypeCorrect == Spec => []TypeOK
BY Invariance, InvTypes, PTL

\* What the invariant says of the pools.
LEMMA InvPools == Inv => PoolsFollowParties
<1> SUFFICES ASSUME Inv, NEW p \in Player, NEW q \in Player, p # q
             PROVE  Together(p, q) <=> \E ps \in pool : {p, q} \subseteq ps
  BY DEF PoolsFollowParties
<1>1. Good(World, at, dest) /\ World.grp = grp /\ World.pool = pool
  BY Found
<1>2. Share(pool, p, q) <=> \E ps \in pool : {p, q} \subseteq ps
  BY DEF Share
<1>3. Share(pool, p, q) <=> Near(at, dest, p, q) /\ Mates(grp[Host[at[p]]], p, q)
  BY <1>1 DEF Good, Agree
<1>4. Near(at, dest, p, q) <=> InZone(p) /\ InZone(q) /\ at[p] = at[q]
  BY DEF Near, Stands, InZone, Online
<1>5. Mates(grp[Host[at[p]]], p, q) <=> \E g \in grp[ServerOf(p)] : {p, q} \subseteq g.members
  BY DEF Mates, ServerOf
<1> QED
  BY <1>2, <1>3, <1>4, <1>5 DEF Together

\* Two players share a pool exactly when they stand in one zone as members of one CParty,
\* for any number of players, servers and zones, at every moment, and even if requests
\* never wait for the news of what happened elsewhere.
THEOREM PoolsAreParties == Spec => []PoolsFollowParties
BY Invariance, InvPools, PTL
=============================================================================
