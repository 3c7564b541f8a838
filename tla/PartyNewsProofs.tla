-------------------------- MODULE PartyNewsProofs --------------------------
(***************************************************************************)
(* The parties when requests wait for the news, for any players, servers,  *)
(* zones and sizes: once the news is heard, memory and pools follow the    *)
(* rows; no party has more rows than room; and one row of a party leads.   *)
(* CalmSpec leaves out the two steps after which this fails: the kick from *)
(* another server of one who has a fellow in his object, and the leader of *)
(* several who vanishes between zones.                                     *)
(*                                                                         *)
(* The argument: a request finds the objects of all servers in agreement   *)
(* with the rows.  It changes the rows of one party, tells the others of   *)
(* it, and the world fits the news from then on: what an object has not    *)
(* heard is on its way, or is about to be read by one of its members.      *)
(***************************************************************************)
EXTENDS PartyProofs, FiniteSetTheorems

-----------------------------------------------------------------------------
(* The news *)

\* A message of this kind about x is in the queue q; in some queue of out, or on its way to t;
\* anywhere.
Has(q, k, x) == \E i \in DOMAIN q : q[i].kind = k /\ q[i].who = x
Coming(o, b, t, k, x) == (\E s \in Server : Has(o[s], k, x)) \/ Has(b[t], k, x)
Around(o, b, k, x) == \E t \in Server : Has(o[t], k, x) \/ Has(b[t], k, x)

\* There is one message in all, in a queue of o or in one of b.
Alone(o, b) == \A s, t \in Server :
  /\ o[s] # <<>> => Len(o[s]) = 1 /\ b[t] = <<>> /\ (t # s => o[t] = <<>>)
  /\ b[s] # <<>> => Len(b[s]) = 1 /\ o[t] = <<>> /\ (t # s => b[t] = <<>>)

Still(d) == \A p \in Player : d[p] = None
Flagged(w, p) == w.flag[p]
Unflagged(w, a, d) == \A p \in Player : Stands(a, d, p) => ~Flagged(w, p)

\* Only who gave the party its name leads it, no row outlives its player, and there is room.
RowsFit(w, a) ==
  /\ \A p \in Player : w.row[p].lead => w.row[p].party = p
  /\ \A p \in Player : w.row[p].party # None => a[p] # None
  /\ \A x \in Player : IsFiniteSet(RowsOf(w.row, x)) /\ Cardinality(RowsOf(w.row, x)) <= Room

\* The members of an object have rows of one party; one without a row is alone in it.
Uniform(w) == \A s \in Server : \A g \in w.grp[s] : \A p, q \in g.members :
  w.row[p].party = w.row[q].party /\ (w.row[p].party = None => p = q)

\* Those of one party who stand in zones of one server are in one object, if in any.
OneEach(w, a, d) == \A s \in Server : \A g, h \in w.grp[s] :
  \A p \in g.members, q \in h.members :
    Stands(a, d, p) /\ Stands(a, d, q) /\ w.row[p].party = w.row[q].party
      /\ w.row[p].party # None => g = h

\* Every object has the name that the rows of its members have.
Clean(w) == \A s \in Server : \A g \in w.grp[s] : \A p \in g.members : g.id = w.row[p].party

\* Who has a row is in an object of his server.
Gathered(w, a) == \A p \in Player :
  w.row[p].party # None => Mates(w.grp[Host[a[p]]], p, p)

LeadOf(w, g) == IF g.id \in g.members /\ w.row[g.id].lead THEN g.id ELSE None
Fresh(w, g, p) == g.id = w.row[p].party /\ g.lead = LeadOf(w, g)

\* What an object has not heard is on its way.
News(w, b, a, d) == \A s \in Server : \A g \in w.grp[s] : \A p \in g.members :
  Stands(a, d, p) =>
    IF w.row[p].party = None
    THEN g.lead = None /\ (Flagged(w, p) \/ Coming(w.out, b, s, "kicked", p))
    ELSE \/ Fresh(w, g, p)
         \/ \E q \in g.members : Stands(a, d, q) /\ Flagged(w, q)
         \/ Coming(w.out, b, s, "reload", w.row[p].party)

\* So is what a member without an object has not heard.
Calls(w, b, a, d) == \A p \in Player :
  Stands(a, d, p) /\ w.row[p].party # None /\ ~Mates(w.grp[Host[a[p]]], p, p) =>
    Flagged(w, p) \/ Coming(w.out, b, Host[a[p]], "reload", w.row[p].party)

Leaderless(w, p) == w.row[p].party # None /\ ~w.row[w.row[p].party].lead

\* A party without a leader is being disbanded.
Orphans(w, b, a, d) == \A p \in Player : Leaderless(w, p) =>
  /\ Still(d) /\ Clean(w) /\ ~Flagged(w, p)
  /\ ~Around(w.out, b, "reload", w.row[p].party)
  /\ Coming(w.out, b, Host[a[p]], "disband", w.row[p].party)

MailFits(w, b, a, d) ==
  /\ \A p \in Player : Around(w.out, b, "kicked", p) => w.row[p].party = None
  /\ \A x \in Player : Around(w.out, b, "disband", x) => w.row[x].party = None
  /\ \A t \in Server : \A x \in Player : Has(b[t], "disband", x) => Clean(w)
  /\ \A x \in Player : Around(w.out, b, "invite", x) \/ Around(w.out, b, "answer", x) =>
       Alone(w.out, b) /\ Still(d) /\ Unflagged(w, a, d)

Fit(w, b, a, d) ==
  /\ RowsFit(w, a) /\ Uniform(w) /\ OneEach(w, a, d)
  /\ Clean(w) \/ (Still(d) /\ Gathered(w, a))
  /\ News(w, b, a, d) /\ Calls(w, b, a, d) /\ Orphans(w, b, a, d) /\ MailFits(w, b, a, d)

-----------------------------------------------------------------------------
(* Mail.                                                                     *)

\* A queue that is added to.
LEMMA HasAppend ==
  ASSUME NEW q \in Seq(Mail), NEW m \in Mail, NEW k, NEW x
  PROVE  Has(Append(q, m), k, x) <=> Has(q, k, x) \/ (m.kind = k /\ m.who = x)
<1>1. /\ DOMAIN Append(q, m) = 1..(Len(q) + 1) /\ DOMAIN q = 1..Len(q) /\ Len(q) \in Nat
      /\ \A i \in 1..(Len(q) + 1) : Append(q, m)[i] = IF i = Len(q) + 1 THEN m ELSE q[i]
  OBVIOUS
<1>2. 1..(Len(q) + 1) = 1..Len(q) \cup {Len(q) + 1} /\ Len(q) + 1 \notin 1..Len(q)
  BY <1>1
<1> QED
  BY <1>1, <1>2 DEF Has

\* A queue that loses its first message.
LEMMA HasTail ==
  ASSUME NEW q \in Seq(Mail), q # << >>, NEW k, NEW x
  PROVE  Has(q, k, x) <=> Has(Tail(q), k, x) \/ (Head(q).kind = k /\ Head(q).who = x)
<1>1. /\ Len(q) \in Nat /\ Len(q) > 0 /\ DOMAIN q = 1..Len(q)
      /\ DOMAIN Tail(q) = 1..(Len(q) - 1) /\ Head(q) = q[1]
      /\ \A i \in 1..(Len(q) - 1) : Tail(q)[i] = q[i + 1]
  OBVIOUS
<1>2. ASSUME Has(q, k, x)
      PROVE  Has(Tail(q), k, x) \/ (Head(q).kind = k /\ Head(q).who = x)
  <2>1. PICK i \in 1..Len(q) : q[i].kind = k /\ q[i].who = x
    BY <1>1, <1>2 DEF Has
  <2>2. CASE i = 1
    BY <1>1, <2>1, <2>2
  <2>3. CASE i # 1
    <3>1. i - 1 \in 1..(Len(q) - 1) /\ Tail(q)[i - 1] = q[i]
      BY <1>1, <2>3
    <3> QED
      BY <1>1, <2>1, <3>1 DEF Has
  <2> QED
    BY <2>2, <2>3
<1>3. ASSUME Has(Tail(q), k, x) PROVE Has(q, k, x)
  <2>1. PICK i \in 1..(Len(q) - 1) : Tail(q)[i].kind = k /\ Tail(q)[i].who = x
    BY <1>1, <1>3 DEF Has
  <2>2. i + 1 \in 1..Len(q)
    BY <1>1
  <2> QED
    BY <1>1, <2>1, <2>2 DEF Has
<1>4. ASSUME Head(q).kind = k, Head(q).who = x PROVE Has(q, k, x)
  <2>1. 1 \in 1..Len(q)
    BY <1>1
  <2> QED
    BY <1>1, <1>4, <2>1 DEF Has
<1> QED
  BY <1>2, <1>3, <1>4

\* No queue, no message.
LEMMA HasNone == \A k, x : ~Has(<< >>, k, x)
BY DEF Has

\* What is in no queue.
Silent(f) == \A t \in Server : \A k, x : ~Has(f[t], k, x)

\* The mail of v is that of w, and a message of server s.
Posts(w, v, s, kind, who) ==
  \A t \in Server : \A k, x :
    Has(v.out[t], k, x) <=> Has(w.out[t], k, x) \/ (t = s /\ k = kind /\ x = who)

SameMail(w, v) == v.out = w.out

-----------------------------------------------------------------------------
(* What the operators do to rows, flags and mail.                            *)

\* A message.
LEMMA SendFx ==
  ASSUME NEW w \in Worlds, NEW s \in Server, NEW kind \in Kinds, NEW who \in Player, NEW by \in Player,
         NEW v, v = Send(w, s, kind, who, by)
  PROVE  /\ v \in Worlds /\ v.row = w.row /\ v.grp = w.grp /\ v.flag = w.flag
         /\ Posts(w, v, s, kind, who)
<1> PICK m : m = [kind |-> kind, who |-> who, by |-> by]
  OBVIOUS
<1>1. m \in Mail /\ m.kind = kind /\ m.who = who
  BY DEF Mail
<1>2. v = [w EXCEPT !.out = [w.out EXCEPT ![s] = Append(w.out[s], m)]]
  BY DEF Send
<1>3. w.out \in [Server -> Seq(Mail)]
  BY WorldIs
<1>4. v.flag = w.flag /\ v.out = [w.out EXCEPT ![s] = Append(w.out[s], m)]
  BY <1>2 DEF Worlds
<1>5. ASSUME NEW t \in Server, NEW k, NEW x
      PROVE  Has(v.out[t], k, x) <=> Has(w.out[t], k, x) \/ (t = s /\ k = kind /\ x = who)
  <2>1. CASE t = s
    <3>1. v.out[t] = Append(w.out[t], m) /\ w.out[t] \in Seq(Mail)
      BY <1>3, <1>4, <2>1
    <3>2. Has(v.out[t], k, x) <=> Has(w.out[t], k, x) \/ (m.kind = k /\ m.who = x)
      BY <1>1, <3>1, HasAppend
    <3> QED
      BY <1>1, <2>1, <3>2
  <2>2. CASE t # s
    BY <1>3, <1>4, <2>2
  <2> QED
    BY <2>1, <2>2
<1>6. v \in Worlds /\ v.row = w.row /\ v.grp = w.grp
  BY SendIs
<1>7. Posts(w, v, s, kind, who)
  BY <1>5 DEF Posts
<1> QED
  BY <1>4, <1>6, <1>7

\* News of a party.
LEMMA ReloadFx ==
  ASSUME NEW w \in Worlds, NEW s \in Server, NEW g \in Group, NEW v, v = Reload(w, s, g)
  PROVE  /\ v \in Worlds /\ v.row = w.row /\ v.grp = w.grp /\ v.flag = w.flag
         /\ Posts(w, v, s, "reload", g.id)
<1> PICK kind : kind = "reload"
  OBVIOUS
<1>1. kind \in Kinds /\ g.id \in Player
  BY DEF Kinds, Group
<1>2. v = Send(w, s, kind, g.id, g.id)
  BY DEF Reload
<1> QED
  BY <1>1, <1>2, SendFx

\* Flags that go up.
LEMMA FlagUpFx ==
  ASSUME NEW w \in Worlds, NEW ps
  PROVE  /\ Flag(w, ps, TRUE) \in Worlds /\ Flag(w, ps, TRUE).row = w.row /\ Flag(w, ps, TRUE).grp = w.grp
         /\ SameMail(w, Flag(w, ps, TRUE))
         /\ \A x \in Player : Flagged(Flag(w, ps, TRUE), x) <=> x \in ps \/ Flagged(w, x)
<1>v. PICK v : v = Flag(w, ps, TRUE)
  OBVIOUS
<1> PICK f : f = [p \in Player |-> IF p \in ps THEN TRUE ELSE w.flag[p]]
  OBVIOUS
<1>1. v = [w EXCEPT !.flag = f]
  BY <1>v DEF Flag
<1>2. v.flag = f /\ v.out = w.out
  BY <1>1 DEF Worlds
<1>3. \A x \in Player : f[x] <=> x \in ps \/ w.flag[x]
  OBVIOUS
<1>4. \A x \in Player : Flagged(v, x) <=> x \in ps \/ Flagged(w, x)
  BY <1>2, <1>3 DEF Flagged
<1>5. SameMail(w, v)
  BY <1>2 DEF SameMail
<1>6. Flag(w, ps, TRUE) \in Worlds /\ Flag(w, ps, TRUE).row = w.row /\ Flag(w, ps, TRUE).grp = w.grp
  BY FlagIs
<1> QED
  BY <1>4, <1>5, <1>6, <1>v

\* Flags that go down.
LEMMA FlagDownFx ==
  ASSUME NEW w \in Worlds, NEW ps
  PROVE  /\ Flag(w, ps, FALSE) \in Worlds /\ Flag(w, ps, FALSE).row = w.row /\ Flag(w, ps, FALSE).grp = w.grp
         /\ SameMail(w, Flag(w, ps, FALSE))
         /\ \A x \in Player : Flagged(Flag(w, ps, FALSE), x) <=> x \notin ps /\ Flagged(w, x)
<1>v. PICK v : v = Flag(w, ps, FALSE)
  OBVIOUS
<1> PICK f : f = [p \in Player |-> IF p \in ps THEN FALSE ELSE w.flag[p]]
  OBVIOUS
<1>1. v = [w EXCEPT !.flag = f]
  BY <1>v DEF Flag
<1>2. v.flag = f /\ v.out = w.out
  BY <1>1 DEF Worlds
<1>3. \A x \in Player : f[x] <=> x \notin ps /\ w.flag[x]
  OBVIOUS
<1>4. \A x \in Player : Flagged(v, x) <=> x \notin ps /\ Flagged(w, x)
  BY <1>2, <1>3 DEF Flagged
<1>5. SameMail(w, v)
  BY <1>2 DEF SameMail
<1>6. Flag(w, ps, FALSE) \in Worlds /\ Flag(w, ps, FALSE).row = w.row /\ Flag(w, ps, FALSE).grp = w.grp
  BY FlagIs
<1> QED
  BY <1>4, <1>5, <1>6, <1>v

\* One row.
LEMMA RowFx ==
  ASSUME NEW w \in Worlds, NEW p \in Player, NEW r \in Row, NEW v, v = WithRow(w, p, r)
  PROVE  /\ v \in Worlds /\ v.grp = w.grp /\ v.flag = w.flag /\ SameMail(w, v)
         /\ v.row = [w.row EXCEPT ![p] = r]
BY RowIs DEF WithRow, SameMail, Worlds

\* All rows.
LEMMA RowsFx ==
  ASSUME NEW w \in Worlds, NEW r \in [Player -> Row], NEW v, v = WithRows(w, r)
  PROVE  /\ v \in Worlds /\ v.grp = w.grp /\ v.flag = w.flag /\ SameMail(w, v)
         /\ v.row = r
BY RowsAre DEF WithRows, SameMail, Worlds

\* An object.
LEMMA ReplaceFx ==
  ASSUME NEW w \in Worlds, NEW s \in Server, NEW g, NEW h \in Group, NEW v, v = Replace(w, s, g, h)
  PROVE  /\ v \in Worlds /\ v.row = w.row /\ v.flag = w.flag /\ SameMail(w, v)
         /\ Regroups(w, v, s, g, h) /\ v.pool = w.pool
<1> PICK f : f = [w.grp EXCEPT ![s] = Swapped(w.grp[s], g, h)]
  OBVIOUS
<1>1. v = [w EXCEPT !.grp = f]
  BY DEF Replace, Swapped
<1>2. v.flag = w.flag /\ v.out = w.out
  BY <1>1 DEF Worlds
<1> QED
  BY <1>2, ReplaceIs DEF SameMail

\* Pools.
LEMMA OwnPoolFx ==
  ASSUME NEW w \in Worlds, NEW ps \in SUBSET Player, NEW v, v = OwnPool(w, ps)
  PROVE  /\ v \in Worlds /\ v.row = w.row /\ v.grp = w.grp /\ v.flag = w.flag /\ SameMail(w, v)
<1>1. v = [w EXCEPT !.pool = Owned(w.pool, ps)]
  BY DEF OwnPool, Owned
<1>2. v.flag = w.flag /\ v.out = w.out
  BY <1>1 DEF Worlds
<1> QED
  BY <1>2, OwnPoolIs DEF SameMail

\* The pool of one who comes.
LEMMA PoolFx ==
  ASSUME NEW w \in Worlds, NEW g, g.members \subseteq Player, NEW p \in Player
  PROVE  /\ ReloadTreasurePool(w, g, p) \in Worlds
         /\ ReloadTreasurePool(w, g, p).row = w.row
         /\ ReloadTreasurePool(w, g, p).grp = w.grp
         /\ ReloadTreasurePool(w, g, p).flag = w.flag
         /\ SameMail(w, ReloadTreasurePool(w, g, p))
<1>v. PICK v : v = ReloadTreasurePool(w, g, p)
  OBVIOUS
<1>1. v = [w EXCEPT !.pool = Rejoined(w.pool, g, p)]
  <2>1. w = [w EXCEPT !.pool = w.pool]
    BY WorldIs
  <2> QED
    BY <1>v, <2>1 DEF ReloadTreasurePool, Rejoined, Fellows
<1>2. v.flag = w.flag /\ v.out = w.out
  BY <1>1 DEF Worlds
<1>3. Rejoined(w.pool, g, p) \in SUBSET SUBSET Player
  BY RejoinedTyped, WorldIs
<1> QED
  BY <1>2, <1>3, <1>v, ReloadTreasurePoolIs DEF SameMail


-----------------------------------------------------------------------------
(* Objects.                                                                  *)

\* From w to v the object g of server s gives way to h, or to none; g is deleted.
Swaps(w, v, s, g, h) == \A t \in Server : \A k :
  k \in v.grp[t] <=> \/ k \in w.grp[t] /\ ~(t = s /\ k = g)
                     \/ t = s /\ k = h /\ h.members # {}
Deletes(w, v, s, g) == \A t \in Server : \A k : k \in v.grp[t] <=> k \in w.grp[t] /\ ~(t = s /\ k = g)

\* What Replace does.
LEMMA SwapsIs ==
  ASSUME NEW w \in Worlds, NEW v, NEW s \in Server, NEW g, NEW h, Regroups(w, v, s, g, h)
  PROVE  Swaps(w, v, s, g, h)
<1> PICK G : G = Swapped(w.grp[s], g, h)
  OBVIOUS
<1>1. w.grp \in [Server -> SUBSET Party] /\ v.grp = [w.grp EXCEPT ![s] = G]
  BY WorldIs DEF Regroups
<1>2. \A k : k \in G <=> (k \in w.grp[s] /\ k # g) \/ (k = h /\ h.members # {})
  BY DEF Swapped
<1>3. \A t \in Server : v.grp[t] = IF t = s THEN G ELSE w.grp[t]
  BY <1>1
<1> QED
  BY <1>2, <1>3 DEF Swaps

\* What Replace does twice.
LEMMA SwapTwice ==
  ASSUME NEW w, NEW u, NEW v, NEW s \in Server, NEW g, NEW h, NEW k, Swaps(w, u, s, g, h), Swaps(u, v, s, h, k),
         h \in w.grp[s] => h = g
  PROVE  Swaps(w, v, s, g, k)
BY DEF Swaps

\* What Replace does before the object is deleted.
LEMMA SwapDelete ==
  ASSUME NEW w, NEW u, NEW v, NEW s \in Server, NEW g, NEW h, Swaps(w, u, s, g, h), Deletes(u, v, s, h),
         h \in w.grp[s] => h = g
  PROVE  Deletes(w, v, s, g)
BY DEF Swaps, Deletes

\* A member is on the server of his object, and in no other object.
LEMMA OneObject ==
  ASSUME NEW w, NEW a, NEW d, Good(w, a, d), NEW s \in Server, NEW g \in w.grp[s], NEW p \in g.members
  PROVE  /\ p \in Player /\ g \in Group /\ g.id \in Player /\ a[p] # None /\ Host[a[p]] = s
         /\ \A t \in Server : \A k \in w.grp[t] : p \in k.members => t = s /\ k = g
<1>1. g \in Group /\ g.members \subseteq Player /\ g.id \in Player
  BY ObjectIs
<1>2. p \in Player
  BY <1>1
<1>3. ASSUME NEW t \in Server, NEW k \in w.grp[t], p \in k.members
      PROVE  a[p] # None /\ Host[a[p]] = t
  BY <1>2, <1>3 DEF Good, Housed, Mates
<1>4. a[p] # None /\ Host[a[p]] = s
  BY <1>3
<1>5. Apart(w.grp[s])
  BY DEF Good
<1> QED
  BY <1>1, <1>2, <1>3, <1>4, <1>5 DEF Apart

\* Who stands does so on a server.
LEMMA StandServer ==
  ASSUME NEW w, NEW a, NEW d, Good(w, a, d), NEW p \in Player, a[p] # None
  PROVE  Host[a[p]] \in Server
BY PartyAssumption DEF Good, Places

-----------------------------------------------------------------------------
(* What the methods of CParty do to rows, objects, flags and mail.           *)

\* From w to v the rows of the party x go to q, who leads.
Hands(w, v, x, q) == \A y \in Player :
  /\ w.row[y].party # x => v.row[y] = w.row[y]
  /\ w.row[y].party = x => v.row[y].party = q /\ (v.row[y].lead <=> y = q)

\* The flags of w, and those of ps.
Raises(w, v, ps) == \A y \in Player : Flagged(v, y) <=> y \in ps \/ Flagged(w, y)

\* SetLeader, for one of the party.
LEMMA SetLeaderFx ==
  ASSUME NEW w \in Worlds, NEW s \in Server, NEW g \in Group, NEW q \in Player, w.row[q].party = g.id,
         NEW v, v = SetLeader(w, s, g, q)
  PROVE  /\ v \in Worlds /\ SameMail(w, v) /\ Swaps(w, v, s, g, Led(g, q))
         /\ Hands(w, v, g.id, q) /\ Raises(w, v, g.members)
<1>h. PICK h : h = Led(g, q)
  OBVIOUS
<1>0. h \in Group /\ h.members = g.members
  BY <1>h, LedIs
<1>u. PICK u : u = Replace(w, s, g, h)
  OBVIOUS
<1>1. u \in Worlds /\ u.row = w.row /\ u.flag = w.flag /\ SameMail(w, u) /\ Regroups(w, u, s, g, h)
  BY <1>0, <1>u, ReplaceFx
<1>f. PICK f : f = Flag(u, g.members, TRUE)
  OBVIOUS
<1>2. f \in Worlds /\ f.row = w.row /\ f.grp = u.grp /\ SameMail(u, f) /\ Raises(w, f, g.members)
  <2>1. Raises(u, f, g.members) /\ f \in Worlds /\ f.row = u.row /\ f.grp = u.grp /\ SameMail(u, f)
    BY <1>1, <1>f, FlagUpFx DEF Raises
  <2>2. \A x : Flagged(w, x) <=> Flagged(u, x)
    BY <1>1 DEF Flagged
  <2> QED
    BY <1>1, <2>1, <2>2 DEF Raises
<1>r. PICK r : r = [p \in Player |-> IF w.row[p].party = g.id
                                   THEN [party |-> q, lead |-> FALSE]
                                   ELSE w.row[p]]
  OBVIOUS
<1>3. r \in [Player -> Row]
  BY <1>0, <1>r, WorldIs DEF Row
<1>r2. PICK r2 : r2 = [r EXCEPT ![q].lead = r[q].party # None]
  OBVIOUS
<1>z. PICK z : z = [r[q] EXCEPT !.lead = r[q].party # None]
  OBVIOUS
<1>4. r2 = [r EXCEPT ![q] = z]
  BY <1>r2, <1>z
<1>5. z \in Row /\ z.party = q /\ z.lead
  <2>n. PICK n : n = r[q]
    OBVIOUS
  <2>1. n = [party |-> q, lead |-> FALSE]
    BY <1>r, <2>n
  <2>b. PICK b : b = (n.party # None)
    OBVIOUS
  <2>2. b /\ b \in BOOLEAN
    BY PartyAssumption, <2>1, <2>b
  <2>3. z = [n EXCEPT !.lead = b]
    BY <1>z, <2>n, <2>b
  <2>4. z = [party |-> q, lead |-> b]
    BY <2>1, <2>3
  <2> QED
    BY <2>2, <2>4 DEF Row
<1>6. r2 \in [Player -> Row]
  BY <1>3, <1>4, <1>5
<1>7. v = WithRows(f, r2)
  BY <1>h, <1>u, <1>f, <1>r, <1>r2 DEF SetLeader, WithRows
<1>8. v \in Worlds /\ v.grp = u.grp /\ v.flag = f.flag /\ SameMail(f, v) /\ v.row = r2
  BY <1>2, <1>6, <1>7, RowsFx
<1>9. Hands(w, v, g.id, q)
  <2>1. \A x \in Player : r2[x] = IF x = q THEN z ELSE r[x]
    BY <1>3, <1>4
  <2>2. \A x \in Player : r[x] = IF w.row[x].party = g.id THEN [party |-> q, lead |-> FALSE] ELSE w.row[x]
    BY <1>r
  <2>3. ASSUME NEW y \in Player, w.row[y].party # g.id PROVE v.row[y] = w.row[y]
    BY <1>8, <2>1, <2>2, <2>3
  <2>4. ASSUME NEW y \in Player, w.row[y].party = g.id PROVE v.row[y].party = q /\ (v.row[y].lead <=> y = q)
    <3>1. CASE y = q
      BY <1>5, <1>8, <2>1, <3>1
    <3>2. CASE y # q
      BY <1>8, <2>1, <2>2, <2>4, <3>2
    <3> QED
      BY <3>1, <3>2
  <2> QED
    BY <2>3, <2>4 DEF Hands
<1>10. Swaps(w, v, s, g, h)
  <2>1. Regroups(w, v, s, g, h)
    BY <1>1, <1>2, <1>8 DEF Regroups
  <2> QED
    BY <2>1, SwapsIs
<1>11. SameMail(w, v)
  BY <1>1, <1>2, <1>8 DEF SameMail
<1>12. Raises(w, v, g.members)
  <2>1. \A x : Flagged(v, x) <=> Flagged(f, x)
    BY <1>8 DEF Flagged
  <2> QED
    BY <1>2, <2>1 DEF Raises
<1> QED
  BY <1>8, <1>9, <1>10, <1>11, <1>12, <1>h

\* From w to v those of ps lose their rows.
Strikes(w, v, ps) == \A y \in Player :
  /\ y \in ps => v.row[y] = NoRow
  /\ y \notin ps => v.row[y] = w.row[y]

\* DisbandParty.
LEMMA DisbandFx ==
  ASSUME NEW w \in Worlds, NEW s \in Server, NEW g \in Group, NEW told \in BOOLEAN,
         NEW v, v = DisbandParty(w, s, g, told)
  PROVE  /\ v \in Worlds /\ Deletes(w, v, s, g) /\ Strikes(w, v, g.members) /\ Raises(w, v, g.members)
         /\ told => Posts(w, v, s, "disband", g.id)
         /\ ~told => SameMail(w, v)
<1>0. g.members \in SUBSET Player /\ g.id \in Player
  BY DEF Group
<1>f. PICK f : f = Flag(w, g.members, TRUE)
  OBVIOUS
<1>1. f \in Worlds /\ f.row = w.row /\ f.grp = w.grp /\ SameMail(w, f) /\ Raises(w, f, g.members)
  BY <1>f, FlagUpFx DEF Raises
<1>o. PICK o : o = OwnPool(f, g.members)
  OBVIOUS
<1>2. o \in Worlds /\ o.row = w.row /\ o.grp = w.grp /\ o.flag = f.flag /\ SameMail(f, o)
  BY <1>0, <1>1, <1>o, OwnPoolFx
<1>r. PICK r : r = [p \in Player |-> IF p \in g.members THEN NoRow ELSE o.row[p]]
  OBVIOUS
<1>3. r \in [Player -> Row]
  BY <1>2, <1>r, WorldIs DEF Row, NoRow
<1>o2. PICK o2 : o2 = WithRows(o, r)
  OBVIOUS
<1>4. o2 \in Worlds /\ o2.grp = w.grp /\ o2.flag = f.flag /\ SameMail(o, o2) /\ o2.row = r
  BY <1>2, <1>3, <1>o2, RowsFx
<1>e. PICK e : e = Without(o2, s, g)
  OBVIOUS
<1>5. e \in Worlds /\ e.grp = [w.grp EXCEPT ![s] = w.grp[s] \ {g}]
  BY <1>4, <1>e, DeleteIs
<1>6. e.row = r /\ e.flag = f.flag /\ SameMail(o2, e)
  BY <1>4, <1>e DEF Without, SameMail, Worlds
<1>7. Deletes(w, e, s, g)
  <2>1. w.grp \in [Server -> SUBSET Party]
    BY WorldIs
  <2>2. \A t \in Server : e.grp[t] = IF t = s THEN w.grp[s] \ {g} ELSE w.grp[t]
    BY <1>5, <2>1
  <2> QED
    BY <2>2 DEF Deletes
<1>8. e = [o EXCEPT !.row = r, !.grp[s] = @ \ {g}]
  BY <1>e, <1>o2 DEF WithRows, Without
<1>9. SameMail(w, e)
  BY <1>1, <1>2, <1>4, <1>6 DEF SameMail
<1>10. Strikes(w, e, g.members)
  BY <1>2, <1>6, <1>r DEF Strikes
<1>11. Raises(w, e, g.members)
  <2>1. \A x : Flagged(e, x) <=> Flagged(f, x)
    BY <1>6 DEF Flagged
  <2> QED
    BY <1>1, <2>1 DEF Raises
<1>12. CASE told
  <2>k. PICK kind : kind = "disband"
    OBVIOUS
  <2>1. v = Send(e, s, kind, g.id, g.id) /\ kind \in Kinds
    BY <1>8, <1>12, <1>f, <1>o, <1>r, <2>k DEF DisbandParty, Kinds
  <2>2. v \in Worlds /\ v.row = e.row /\ v.grp = e.grp /\ v.flag = e.flag /\ Posts(e, v, s, kind, g.id)
    BY <1>0, <1>5, <2>1, SendFx
  <2>3. Posts(w, v, s, kind, g.id)
    BY <1>9, <2>2 DEF Posts, SameMail
  <2>4. Deletes(w, v, s, g)
    BY <1>7, <2>2 DEF Deletes
  <2>5. Strikes(w, v, g.members)
    BY <1>10, <2>2 DEF Strikes
  <2>6. Raises(w, v, g.members)
    <3>1. \A x : Flagged(v, x) <=> Flagged(e, x)
      BY <2>2 DEF Flagged
    <3> QED
      BY <1>11, <3>1 DEF Raises
  <2> QED
    BY <1>12, <2>2, <2>3, <2>4, <2>5, <2>6, <2>k
<1>13. CASE ~told
  <2>1. v = e
    BY <1>8, <1>13, <1>f, <1>o, <1>r DEF DisbandParty
  <2> QED
    BY <1>5, <1>7, <1>9, <1>10, <1>11, <1>13, <2>1
<1> QED
  BY <1>12, <1>13

\* RemoveMember of one who does not lead.
LEMMA DropFx ==
  ASSUME NEW w \in Worlds, NEW s \in Server, NEW g \in Group, NEW p \in g.members,
         NEW h, h = [g EXCEPT !.members = g.members \ {p}],
         NEW v, v = Drop(w, s, g, p)
  PROVE  /\ v \in Worlds /\ Swaps(w, v, s, g, h) /\ Posts(w, v, s, "reload", g.id)
         /\ Strikes(w, v, {p}) /\ \A x \in Player : Flagged(v, x) <=> Flagged(w, x)
<1>0. p \in Player /\ h \in Group
  BY DEF Group
<1>u. PICK u : u = Replace(w, s, g, h)
  OBVIOUS
<1>1. u \in Worlds /\ u.row = w.row /\ u.flag = w.flag /\ SameMail(w, u) /\ Regroups(w, u, s, g, h)
  BY <1>0, <1>u, ReplaceFx
<1>n. PICK n : n = NoRow
  OBVIOUS
<1>r. PICK r : r = WithRow(u, p, n)
  OBVIOUS
<1>2. r \in Worlds /\ r.grp = u.grp /\ r.flag = w.flag /\ SameMail(u, r) /\ r.row = [w.row EXCEPT ![p] = n]
  <2>1. n \in Row
    BY <1>n DEF NoRow, Row
  <2>2. r \in Worlds /\ r.grp = u.grp /\ r.flag = u.flag /\ SameMail(u, r) /\ r.row = [u.row EXCEPT ![p] = n]
    BY <1>0, <1>1, <1>r, <2>1, RowFx
  <2> QED
    BY <1>1, <2>2
<1>m. PICK m : m = Reload(r, s, g)
  OBVIOUS
<1>3. m \in Worlds /\ m.row = r.row /\ m.grp = r.grp /\ m.flag = r.flag /\ Posts(r, m, s, "reload", g.id)
  BY <1>2, <1>m, ReloadFx
<1>4. v = OwnPool(m, {p})
  BY <1>u, <1>n, <1>r, <1>m DEF Drop, WithRow
<1>5. v \in Worlds /\ v.row = m.row /\ v.grp = m.grp /\ v.flag = m.flag /\ SameMail(m, v)
  BY <1>0, <1>3, <1>4, OwnPoolFx
<1>6. Regroups(w, v, s, g, h)
  BY <1>1, <1>2, <1>3, <1>5 DEF Regroups
<1>7. Swaps(w, v, s, g, h)
  BY <1>6, SwapsIs
<1>8. Posts(w, v, s, "reload", g.id)
  BY <1>1, <1>2, <1>3, <1>5 DEF Posts, SameMail
<1>9. Strikes(w, v, {p})
  <2>1. w.row \in [Player -> Row]
    BY WorldIs
  <2>2. v.row = [w.row EXCEPT ![p] = n]
    BY <1>2, <1>3, <1>5
  <2> QED
    BY <2>1, <2>2, <1>n DEF Strikes
<1>10. \A x \in Player : Flagged(v, x) <=> Flagged(w, x)
  BY <1>2, <1>3, <1>5 DEF Flagged
<1> QED
  BY <1>5, <1>7, <1>8, <1>9, <1>10

\* From w to v one row of party x is written, for p.
Writes(w, v, p, x) == \A y \in Player :
  /\ y = p => v.row[y] = [party |-> x, lead |-> FALSE]
  /\ y # p => v.row[y] = w.row[y]

\* The INSERT, of one without a row.
LEMMA InsertFx ==
  ASSUME NEW w \in Worlds, NEW p \in Player, NEW x \in Player, Online(p), w.row[p].party = None,
         NEW v, v = Insert(w, p, x)
  PROVE  v \in Worlds /\ v.grp = w.grp /\ v.flag = w.flag /\ SameMail(w, v) /\ Writes(w, v, p, x)
<1>n. PICK n : n = [party |-> x, lead |-> FALSE]
  OBVIOUS
<1>1. n \in Row
  BY <1>n DEF Row
<1>2. v = WithRow(w, p, n)
  BY <1>n DEF Insert, WithRow
<1>3. v \in Worlds /\ v.grp = w.grp /\ v.flag = w.flag /\ SameMail(w, v) /\ v.row = [w.row EXCEPT ![p] = n]
  BY <1>1, <1>2, RowFx
<1>4. w.row \in [Player -> Row]
  BY WorldIs
<1>5. Writes(w, v, p, x)
  BY <1>3, <1>4, <1>n DEF Writes
<1> QED
  BY <1>3, <1>5

\* AddMember of one without a row.
LEMMA AddMemberFx ==
  ASSUME NEW w \in Worlds, NEW s \in Server, NEW g \in Group, NEW p \in Player, Online(p), w.row[p].party = None,
         NEW v, v = AddMember(w, s, g, p)
  PROVE  /\ v \in Worlds /\ Swaps(w, v, s, g, With(g, p)) /\ Posts(w, v, s, "reload", g.id)
         /\ Writes(w, v, p, g.id)
<1>h. PICK h : h = With(g, p)
  OBVIOUS
<1>0. h \in Group /\ g.id \in Player /\ h.members \subseteq Player
  BY <1>h DEF Group, With
<1>u. PICK u : u = Replace(w, s, g, h)
  OBVIOUS
<1>1. u \in Worlds /\ u.row = w.row /\ SameMail(w, u) /\ Regroups(w, u, s, g, h)
  BY <1>0, <1>u, ReplaceFx
<1>x. PICK x : x = g.id
  OBVIOUS
<1>i. PICK i : i = Insert(u, p, x)
  OBVIOUS
<1>2. i \in Worlds /\ i.grp = u.grp /\ SameMail(u, i) /\ Writes(u, i, p, x)
  BY <1>0, <1>1, <1>i, <1>x, InsertFx
<1>m. PICK m : m = Reload(i, s, g)
  OBVIOUS
<1>4. m \in Worlds /\ m.row = i.row /\ m.grp = i.grp /\ Posts(i, m, s, "reload", g.id)
  BY <1>2, <1>m, ReloadFx
<1>t. PICK t : t = ReloadTreasurePool(m, h, p)
  OBVIOUS
<1>5. t \in Worlds /\ t.row = m.row /\ t.grp = m.grp /\ SameMail(m, t)
  BY <1>0, <1>4, <1>t, PoolFx
<1>6. v = Flag(t, {p}, TRUE)
  BY <1>h, <1>u, <1>i, <1>m, <1>t, <1>x DEF AddMember, With
<1>7. v \in Worlds /\ v.row = t.row /\ v.grp = t.grp /\ SameMail(t, v)
  <2>1. /\ Flag(t, {p}, TRUE) \in Worlds /\ Flag(t, {p}, TRUE).row = t.row
        /\ Flag(t, {p}, TRUE).grp = t.grp /\ SameMail(t, Flag(t, {p}, TRUE))
    BY <1>5, FlagUpFx
  <2> QED
    BY <1>6, <2>1
<1>8. Regroups(w, v, s, g, h)
  BY <1>1, <1>2, <1>4, <1>5, <1>7 DEF Regroups
<1>9. Swaps(w, v, s, g, h)
  BY <1>8, SwapsIs
<1>10. Posts(w, v, s, "reload", g.id)
  BY <1>1, <1>2, <1>4, <1>5, <1>7 DEF Posts, SameMail
<1>11. Writes(w, v, p, x)
  BY <1>1, <1>2, <1>4, <1>5, <1>7 DEF Writes
<1> QED
  BY <1>7, <1>9, <1>10, <1>11, <1>h, <1>x

\* The flags of w, without those of ps.
Lowers(w, v, ps) == \A y \in Player : Flagged(v, y) <=> y \notin ps /\ Flagged(w, y)

\* ReloadParty, where only who gave the party its name leads it.
LEMMA ReloadPartyFx ==
  ASSUME NEW w \in Worlds, NEW s \in Server, NEW g \in Group, \A x \in Player : w.row[x].lead => w.row[x].party = x,
         NEW v, v = ReloadParty(w, s, g)
  PROVE  /\ v \in Worlds /\ v.row = w.row /\ SameMail(w, v)
         /\ Swaps(w, v, s, g, [g EXCEPT !.lead = LeadOf(w, g)])
         /\ Lowers(w, v, g.members)
<1>here. PICK here : here = LeadersOf(w.row, g.id) \cap g.members
  OBVIOUS
<1>lead. PICK lead : lead = IF here = {} THEN None ELSE CHOOSE q \in here : TRUE
  OBVIOUS
<1>1. g.id \in Player /\ g.members \subseteq Player
  BY DEF Group
<1>2. \A x : x \in here <=> x = g.id /\ x \in g.members /\ w.row[x].lead
  BY <1>1, <1>here DEF LeadersOf, RowsOf
<1>3. lead = LeadOf(w, g)
  BY <1>2, <1>lead DEF LeadOf
<1>h. PICK h : h = [g EXCEPT !.lead = lead]
  OBVIOUS
<1>4. h \in Group
  BY <1>1, <1>3, <1>h DEF Group, LeadOf
<1>u. PICK u : u = Replace(w, s, g, h)
  OBVIOUS
<1>5. u \in Worlds /\ u.row = w.row /\ u.flag = w.flag /\ SameMail(w, u) /\ Regroups(w, u, s, g, h)
  BY <1>4, <1>u, ReplaceFx
<1>6. v = Flag(u, g.members, FALSE)
  BY <1>here, <1>lead, <1>h, <1>u DEF ReloadParty
<1>7. v \in Worlds /\ v.row = u.row /\ v.grp = u.grp /\ SameMail(u, v) /\ Lowers(u, v, g.members)
  <2>1. /\ Flag(u, g.members, FALSE) \in Worlds /\ Flag(u, g.members, FALSE).row = u.row
        /\ Flag(u, g.members, FALSE).grp = u.grp /\ SameMail(u, Flag(u, g.members, FALSE))
    BY <1>5, FlagDownFx
  <2>2. \A x \in Player : Flagged(Flag(u, g.members, FALSE), x) <=> x \notin g.members /\ Flagged(u, x)
    BY <1>5, FlagDownFx
  <2> QED
    BY <1>6, <2>1, <2>2 DEF Lowers
<1>8. Swaps(w, v, s, g, h)
  <2>1. Regroups(w, v, s, g, h)
    BY <1>5, <1>7 DEF Regroups
  <2> QED
    BY <2>1, SwapsIs
<1>9. SameMail(w, v)
  BY <1>5, <1>7 DEF SameMail
<1>10. Lowers(w, v, g.members)
  <2>1. \A x : Flagged(u, x) <=> Flagged(w, x)
    BY <1>5 DEF Flagged
  <2> QED
    BY <1>7, <2>1 DEF Lowers
<1> QED
  BY <1>3, <1>5, <1>7, <1>8, <1>9, <1>10, <1>h

-----------------------------------------------------------------------------
(* Agreement: where a request starts from, and what it leaves.               *)

\* No party is without a leader.
Rooted(w) == \A p \in Player : ~Leaderless(w, p)

\* The objects fit the rows, but for the party x.
Announced(w, a, d, x) ==
  /\ Still(d) /\ RowsFit(w, a) /\ Uniform(w) /\ OneEach(w, a, d)
  /\ Clean(w) \/ Gathered(w, a)
  /\ \A s \in Server : \A g \in w.grp[s] : \A p \in g.members :
       w.row[p].party # None /\ (w.row[p].party # x => Fresh(w, g, p))
  /\ \A p \in Player : w.row[p].party # None /\ w.row[p].party # x => Mates(w.grp[Host[a[p]]], p, p)

Agreed(w, a, d, x) == Announced(w, a, d, x) /\ Rooted(w)

\* What a world may send without telling a lie.
Harmless(w) == \A t \in Server : \A y \in Player :
  /\ Has(w.out[t], "kicked", y) => w.row[y].party = None
  /\ Has(w.out[t], "disband", y) => w.row[y].party = None
  /\ ~Has(w.out[t], "invite", y) /\ ~Has(w.out[t], "answer", y)

\* What has not come has not been sent.
LEMMA ComingAround ==
  ASSUME NEW o, NEW b, NEW t \in Server, NEW k, NEW x, Coming(o, b, t, k, x)
  PROVE  Around(o, b, k, x)
BY DEF Coming, Around

\* Once the news is heard all agree.
LEMMA AgreedOf ==
  ASSUME NEW w, NEW b, NEW a, NEW d, Good(w, a, d), Fit(w, b, a, d), Still(d), Unflagged(w, a, d),
         \A y \in Player : ~Around(w.out, b, "kicked", y) /\ ~Around(w.out, b, "reload", y)
                           /\ ~Around(w.out, b, "disband", y)
  PROVE  Agreed(w, a, d, None)
<1>1. RowsFit(w, a) /\ Uniform(w) /\ OneEach(w, a, d) /\ News(w, b, a, d) /\ Calls(w, b, a, d) /\ Orphans(w, b, a, d)
  BY DEF Fit
<1>2. w.row \in [Player -> Row]
  BY WorldIs DEF Good
<1>3. ASSUME NEW s \in Server, NEW g \in w.grp[s], NEW p \in g.members
      PROVE  w.row[p].party # None /\ Fresh(w, g, p)
  <2>1. p \in Player /\ a[p] # None /\ g.members \subseteq Player
    BY OneObject, ObjectIs
  <2>2. Stands(a, d, p)
    BY <2>1 DEF Stands, Still
  <2>3. \A q \in g.members : ~(Stands(a, d, q) /\ Flagged(w, q))
    BY <2>1 DEF Unflagged
  <2>4. ~Coming(w.out, b, s, "kicked", p)
    BY <2>1, ComingAround
  <2>5. w.row[p].party # None
    BY <1>1, <2>2, <2>3, <2>4 DEF News
  <2>6. w.row[p].party \in Player
    BY <1>2, <2>1, <2>5 DEF Row
  <2>7. ~Coming(w.out, b, s, "reload", w.row[p].party)
    BY <2>6, ComingAround
  <2> QED
    BY <1>1, <2>2, <2>3, <2>5, <2>7 DEF News
<1>4. ASSUME NEW p \in Player, w.row[p].party # None
      PROVE  Mates(w.grp[Host[a[p]]], p, p) /\ ~Leaderless(w, p)
  <2>1. w.row[p].party \in Player /\ a[p] # None
    BY <1>1, <1>2, <1>4 DEF Row, RowsFit
  <2>2. Stands(a, d, p) /\ Host[a[p]] \in Server
    BY <2>1, StandServer DEF Stands, Still
  <2>3. ~Flagged(w, p) /\ ~Coming(w.out, b, Host[a[p]], "reload", w.row[p].party)
    BY <2>1, <2>2, ComingAround DEF Unflagged
  <2>4. ~Coming(w.out, b, Host[a[p]], "disband", w.row[p].party)
    BY <2>1, <2>2, ComingAround
  <2> QED
    BY <1>1, <1>4, <2>2, <2>3, <2>4 DEF Calls, Orphans
<1>5. Rooted(w)
  BY <1>4 DEF Rooted, Leaderless
<1>6. Clean(w)
  BY <1>3 DEF Clean, Fresh
<1>7. Announced(w, a, d, None)
  BY <1>1, <1>3, <1>4, <1>6 DEF Announced
<1> QED
  BY <1>5, <1>7 DEF Agreed

\* A world that agrees but for x fits the news, if the news of x is under way.
LEMMA AnnouncedFit ==
  ASSUME NEW v, NEW b, NEW a, NEW d, Good(v, a, d), NEW x, Announced(v, a, d, x), Orphans(v, b, a, d),
         Silent(b), Harmless(v),
         x = None \/ \E s \in Server : Has(v.out[s], "reload", x)
  PROVE  Fit(v, b, a, d)
<1>1. /\ Still(d) /\ RowsFit(v, a) /\ Uniform(v) /\ OneEach(v, a, d)
      /\ Clean(v) \/ Gathered(v, a)
      /\ \A s \in Server : \A g \in v.grp[s] : \A p \in g.members :
           v.row[p].party # None /\ (v.row[p].party # x => Fresh(v, g, p))
      /\ \A p \in Player : v.row[p].party # None /\ v.row[p].party # x => Mates(v.grp[Host[a[p]]], p, p)
  BY DEF Announced
<1>2. \A t : x # None => Coming(v.out, b, t, "reload", x)
  BY DEF Coming
<1>3. News(v, b, a, d)
  BY <1>1, <1>2 DEF News
<1>4. Calls(v, b, a, d)
  BY <1>1, <1>2 DEF Calls
<1>5. MailFits(v, b, a, d)
  <2>1. \A k, y : Around(v.out, b, k, y) => \E t \in Server : Has(v.out[t], k, y)
    BY DEF Around, Silent
  <2>2. \A t \in Server : \A y \in Player : ~Has(b[t], "disband", y)
    BY DEF Silent
  <2>3. \A y \in Player : /\ Around(v.out, b, "kicked", y) => v.row[y].party = None
                          /\ Around(v.out, b, "disband", y) => v.row[y].party = None
    BY <2>1 DEF Harmless
  <2>4. \A y \in Player : ~Around(v.out, b, "invite", y) /\ ~Around(v.out, b, "answer", y)
    BY <2>1 DEF Harmless
  <2> QED
    BY <2>2, <2>3, <2>4 DEF MailFits
<1> QED
  BY <1>1, <1>3, <1>4, <1>5 DEF Fit

\* No orphans where all parties have a leader.
LEMMA AgreedFit ==
  ASSUME NEW v, NEW b, NEW a, NEW d, Good(v, a, d), NEW x, Agreed(v, a, d, x), Silent(b), Harmless(v),
         x = None \/ \E s \in Server : Has(v.out[s], "reload", x)
  PROVE  Fit(v, b, a, d)
<1>1. Announced(v, a, d, x) /\ Orphans(v, b, a, d)
  BY DEF Agreed, Rooted, Orphans
<1> QED
  BY <1>1, AnnouncedFit

-----------------------------------------------------------------------------
(* Rows.                                                                     *)

\* Rows that are struck leave no party fuller.
LEMMA StrikesRows ==
  ASSUME NEW w \in Worlds, NEW v, NEW a, NEW ps, RowsFit(w, a), Strikes(w, v, ps)
  PROVE  RowsFit(v, a)
<1>1. \A y \in Player : v.row[y] = w.row[y] \/ v.row[y] = NoRow
  BY DEF Strikes
<1>2. ~NoRow.lead /\ NoRow.party = None
  BY DEF NoRow
<1>3. \A y \in Player : /\ v.row[y].lead => v.row[y].party = y
                        /\ v.row[y].party # None => a[y] # None
  BY <1>1, <1>2 DEF RowsFit
<1>4. ASSUME NEW y \in Player
      PROVE  IsFiniteSet(RowsOf(v.row, y)) /\ Cardinality(RowsOf(v.row, y)) <= Room
  <2>0. y # None
    BY PartyAssumption
  <2>1. RowsOf(v.row, y) \subseteq RowsOf(w.row, y)
    BY <1>1, <1>2, <2>0 DEF RowsOf
  <2>2. IsFiniteSet(RowsOf(w.row, y)) /\ Cardinality(RowsOf(w.row, y)) <= Room
    BY DEF RowsFit
  <2>3. /\ IsFiniteSet(RowsOf(v.row, y))
        /\ Cardinality(RowsOf(v.row, y)) <= Cardinality(RowsOf(w.row, y))
    BY <2>1, <2>2, FS_Subset
  <2>4. Cardinality(RowsOf(v.row, y)) \in Nat /\ Cardinality(RowsOf(w.row, y)) \in Nat /\ Room \in Nat
    BY <2>2, <2>3, FS_CardinalityType, PartyAssumption
  <2> QED
    BY <2>2, <2>3, <2>4
<1> QED
  BY <1>3, <1>4 DEF RowsFit

\* One row more in a party with room.
LEMMA WritesRows ==
  ASSUME NEW w \in Worlds, NEW v, NEW a, NEW p \in Player, NEW x \in Player, RowsFit(w, a), Writes(w, v, p, x),
         w.row[p].party = None, a[p] # None, Cardinality(RowsOf(w.row, x)) < Room
  PROVE  RowsFit(v, a)
<1>n. PICK n : n = [party |-> x, lead |-> FALSE]
  OBVIOUS
<1>1. ~n.lead /\ n.party = x /\ v.row[p] = n /\ \A y \in Player : y # p => v.row[y] = w.row[y]
  BY <1>n DEF Writes
<1>2. \A y \in Player : /\ v.row[y].lead => v.row[y].party = y
                        /\ v.row[y].party # None => a[y] # None
  BY <1>1 DEF RowsFit
<1>3. ASSUME NEW y \in Player
      PROVE  IsFiniteSet(RowsOf(v.row, y)) /\ Cardinality(RowsOf(v.row, y)) <= Room
  <2>0. y # None
    BY PartyAssumption
  <2>2. IsFiniteSet(RowsOf(w.row, y)) /\ Cardinality(RowsOf(w.row, y)) <= Room
    BY DEF RowsFit
  <2>3. CASE y # x
    <3>1. RowsOf(v.row, y) = RowsOf(w.row, y)
      BY <1>1, <2>0, <2>3 DEF RowsOf
    <3> QED
      BY <2>2, <3>1
  <2>4. CASE y = x
    <3>1. RowsOf(v.row, y) = RowsOf(w.row, y) \cup {p} /\ p \notin RowsOf(w.row, y)
      BY <1>1, <2>0, <2>4 DEF RowsOf
    <3>2. /\ IsFiniteSet(RowsOf(v.row, y))
          /\ Cardinality(RowsOf(v.row, y)) = Cardinality(RowsOf(w.row, y)) + 1
      BY <2>2, <3>1, FS_AddElement
    <3>3. Cardinality(RowsOf(w.row, y)) \in Nat /\ Room \in Nat
      BY <2>2, FS_CardinalityType, PartyAssumption
    <3> QED
      BY <2>4, <3>2, <3>3
  <2> QED
    BY <2>3, <2>4
<1> QED
  BY <1>2, <1>3 DEF RowsFit
-----------------------------------------------------------------------------
(* What requests do to parties that agree.                                   *)

\* The parts of agreement, for use.
LEMMA AgreedIs ==
  ASSUME NEW w, NEW a, NEW d, Good(w, a, d), NEW x, Agreed(w, a, d, x)
  PROVE  /\ w \in Worlds /\ w.row \in [Player -> Row] /\ Still(d) /\ RowsFit(w, a) /\ Rooted(w)
         /\ Uniform(w) /\ OneEach(w, a, d) /\ (Clean(w) \/ Gathered(w, a))
         /\ \A p \in Player : w.row[p].party # None =>
              /\ w.row[p].party \in Player /\ w.row[w.row[p].party].lead
              /\ w.row[w.row[p].party].party = w.row[p].party
         /\ \A s \in Server : \A g \in w.grp[s] : \A p \in g.members :
              /\ p \in Player /\ a[p] # None /\ Stands(a, d, p) /\ Host[a[p]] = s
              /\ w.row[p].party # None /\ w.row[p].party \in Player
              /\ w.row[p].party # x => Fresh(w, g, p)
<1>1. w \in Worlds /\ w.row \in [Player -> Row]
  BY WorldIs DEF Good
<1>2. Still(d) /\ RowsFit(w, a) /\ Rooted(w) /\ Uniform(w) /\ OneEach(w, a, d) /\ (Clean(w) \/ Gathered(w, a))
  BY DEF Agreed, Announced
<1>3. ASSUME NEW p \in Player, w.row[p].party # None
      PROVE  /\ w.row[p].party \in Player /\ w.row[w.row[p].party].lead
             /\ w.row[w.row[p].party].party = w.row[p].party
  <2>1. w.row[p].party \in Player
    BY <1>1, <1>3 DEF Row
  <2>2. w.row[w.row[p].party].lead
    BY <1>2, <1>3 DEF Rooted, Leaderless
  <2> QED
    BY <1>2, <2>1, <2>2 DEF RowsFit
<1>4. ASSUME NEW s \in Server, NEW g \in w.grp[s], NEW p \in g.members
      PROVE  /\ p \in Player /\ a[p] # None /\ Stands(a, d, p) /\ Host[a[p]] = s
             /\ w.row[p].party # None /\ w.row[p].party \in Player
             /\ w.row[p].party # x => Fresh(w, g, p)
  <2>1. p \in Player /\ a[p] # None /\ Host[a[p]] = s
    BY OneObject
  <2>2. Stands(a, d, p)
    BY <1>2, <2>1 DEF Stands, Still
  <2>3. w.row[p].party # None /\ (w.row[p].party # x => Fresh(w, g, p))
    BY DEF Agreed, Announced
  <2> QED
    BY <1>3, <2>1, <2>2, <2>3
<1> QED
  BY <1>1, <1>2, <1>3, <1>4

\* One who does not give the party its name leaves.
LEMMA DropAgreed ==
  ASSUME NEW w, NEW a, NEW d, Good(w, a, d), NEW x, Agreed(w, a, d, x),
         NEW s \in Server, NEW g \in w.grp[s], NEW p \in g.members, Fresh(w, g, p), p # g.id,
         NEW h, h = [g EXCEPT !.members = g.members \ {p}],
         NEW v, Swaps(w, v, s, g, h), Strikes(w, v, {p})
  PROVE  Agreed(v, a, d, x)
<1>1. /\ w \in Worlds /\ Still(d) /\ RowsFit(w, a) /\ Rooted(w)
      /\ Uniform(w) /\ OneEach(w, a, d) /\ (Clean(w) \/ Gathered(w, a))
      /\ \A y \in Player : w.row[y].party # None =>
           /\ w.row[y].party \in Player /\ w.row[w.row[y].party].lead
           /\ w.row[w.row[y].party].party = w.row[y].party
  BY AgreedIs
<1>2. g \in Group /\ g.members \subseteq Player /\ p \in Player /\ a[p] # None /\ Host[a[p]] = s
  BY OneObject, ObjectIs
<1>3. w.row[p].party = g.id /\ w.row[p].party # None
  BY AgreedIs DEF Fresh
<1>4. h.id = g.id /\ h.lead = g.lead /\ h.members = g.members \ {p}
  BY <1>2 DEF Group
<1>5. /\ v.row[p] = NoRow /\ v.row[p].party = None /\ ~v.row[p].lead
      /\ \A y \in Player : y # p => v.row[y] = w.row[y]
  <2>1. v.row[p] = NoRow /\ \A y \in Player : y # p => v.row[y] = w.row[y]
    BY <1>2 DEF Strikes
  <2>2. NoRow.party = None /\ ~NoRow.lead
    BY DEF NoRow
  <2> QED
    BY <2>1, <2>2
<1>6. \A y \in Player : w.row[y].party # p
  <2> SUFFICES ASSUME NEW y \in Player, w.row[y].party = p PROVE FALSE
    OBVIOUS
  <2>1. p # None
    BY <1>2, PartyAssumption
  <2>2. w.row[p].party = p
    BY <1>1, <2>1
  <2> QED
    BY <1>3, <2>2
<1>7. ASSUME NEW t \in Server, NEW k \in v.grp[t]
      PROVE  /\ \A y \in k.members : y \in Player /\ y # p
             /\ \E k0 \in w.grp[t] : /\ k.id = k0.id /\ k.lead = k0.lead /\ k.members \subseteq k0.members
                                     /\ k0.members \subseteq k.members \cup {p}
                                     /\ (t = s /\ k0 = g /\ k = h) \/ k = k0
  <2>1. (t = s /\ k = h) \/ (k \in w.grp[t] /\ ~(t = s /\ k = g))
    BY <1>7 DEF Swaps
  <2>2. CASE t = s /\ k = h
    BY <1>2, <1>4, <2>2
  <2>3. CASE k \in w.grp[t] /\ ~(t = s /\ k = g)
    <3>1. \A y \in k.members : y \in Player
      BY <2>3, OneObject
    <3>2. p \notin k.members
      BY <2>3, OneObject
    <3> QED
      BY <2>3, <3>1, <3>2
  <2> QED
    BY <2>1, <2>2, <2>3
<1>8. RowsFit(v, a)
  BY <1>1, StrikesRows
<1>9. Rooted(v)
  <2> SUFFICES ASSUME NEW y \in Player, v.row[y].party # None PROVE v.row[v.row[y].party].lead
    BY DEF Rooted, Leaderless
  <2>1. y # p /\ v.row[y] = w.row[y]
    BY <1>5
  <2>2. w.row[y].party \in Player /\ w.row[y].party # p /\ w.row[w.row[y].party].lead
    BY <1>1, <1>6, <2>1
  <2> QED
    BY <1>5, <2>1, <2>2
<1>10. Uniform(v)
  <2> SUFFICES ASSUME NEW t \in Server, NEW k \in v.grp[t], NEW y \in k.members, NEW z \in k.members
               PROVE  v.row[y].party = v.row[z].party /\ (v.row[y].party = None => y = z)
    BY DEF Uniform
  <2>1. y \in Player /\ z \in Player /\ y # p /\ z # p
    BY <1>7
  <2>2. PICK k0 \in w.grp[t] : k.members \subseteq k0.members
    BY <1>7
  <2>3. y \in k0.members /\ z \in k0.members
    BY <2>2
  <2>4. w.row[y].party = w.row[z].party /\ (w.row[y].party = None => y = z)
    BY <1>1, <2>3 DEF Uniform
  <2> QED
    BY <1>5, <2>1, <2>4
<1>11. OneEach(v, a, d)
  <2> SUFFICES ASSUME NEW t \in Server, NEW k \in v.grp[t], NEW l \in v.grp[t], NEW y \in k.members, NEW z \in l.members,
                      Stands(a, d, y), Stands(a, d, z), v.row[y].party = v.row[z].party, v.row[y].party # None
               PROVE  k = l
    BY DEF OneEach
  <2>1. y \in Player /\ z \in Player /\ y # p /\ z # p
    BY <1>7
  <2>2. PICK k0 \in w.grp[t] : k.members \subseteq k0.members /\ ((t = s /\ k0 = g /\ k = h) \/ k = k0)
    BY <1>7
  <2>3. PICK l0 \in w.grp[t] : l.members \subseteq l0.members /\ ((t = s /\ l0 = g /\ l = h) \/ l = l0)
    BY <1>7
  <2>4. k0 = l0
    <3>1. y \in k0.members /\ z \in l0.members
      BY <2>2, <2>3
    <3>2. w.row[y].party = w.row[z].party /\ w.row[y].party # None
      BY <1>5, <2>1
    <3> QED
      BY <1>1, <3>1, <3>2 DEF OneEach
  <2>5. g \in v.grp[s] => g = h
    BY DEF Swaps
  <2> QED
    BY <2>2, <2>3, <2>4, <2>5
<1>12. Clean(v) \/ Gathered(v, a)
  <2>1. ASSUME Clean(w) PROVE Clean(v)
    <3> SUFFICES ASSUME NEW t \in Server, NEW k \in v.grp[t], NEW y \in k.members
                 PROVE  k.id = v.row[y].party
      BY DEF Clean
    <3>1. PICK k0 \in w.grp[t] : k.id = k0.id /\ k.members \subseteq k0.members
      BY <1>7
    <3>2. y \in Player /\ y # p
      BY <1>7
    <3> QED
      BY <1>5, <2>1, <3>1, <3>2 DEF Clean
  <2>2. ASSUME Gathered(w, a) PROVE Gathered(v, a)
    <3> SUFFICES ASSUME NEW y \in Player, v.row[y].party # None PROVE Mates(v.grp[Host[a[y]]], y, y)
      BY DEF Gathered
    <3>1. y # p /\ w.row[y].party # None
      BY <1>5
    <3>2. PICK k \in w.grp[Host[a[y]]] : y \in k.members
      BY <2>2, <3>1 DEF Gathered, Mates
    <3>3. Host[a[y]] \in Server
      BY <1>1, <3>1, StandServer DEF RowsFit
    <3>4. CASE Host[a[y]] = s /\ k = g
      BY <1>4, <3>1, <3>2, <3>4 DEF Swaps, Mates
    <3>5. CASE ~(Host[a[y]] = s /\ k = g)
      BY <3>2, <3>3, <3>5 DEF Swaps, Mates
    <3> QED
      BY <3>4, <3>5
  <2> QED
    BY <1>1, <2>1, <2>2
<1>13. ASSUME NEW t \in Server, NEW k \in v.grp[t], NEW y \in k.members
       PROVE  v.row[y].party # None /\ (v.row[y].party # x => Fresh(v, k, y))
  <2>1. PICK k0 \in w.grp[t] : /\ k.id = k0.id /\ k.lead = k0.lead /\ k.members \subseteq k0.members
                               /\ k0.members \subseteq k.members \cup {p}
                               /\ (t = s /\ k0 = g /\ k = h) \/ k = k0
    BY <1>7
  <2>2. y \in Player /\ y # p /\ v.row[y] = w.row[y]
    BY <1>5, <1>7
  <2>3. w.row[y].party # None /\ (w.row[y].party # x => Fresh(w, k0, y))
    BY <2>1, AgreedIs
  <2>4. k.id \in k.members <=> k0.id \in k0.members
    BY <1>4, <2>1
  <2>5. k.id \in k.members => v.row[k.id] = w.row[k.id]
    BY <1>5, <1>7
  <2>6. LeadOf(v, k) = LeadOf(w, k0)
    BY <2>1, <2>4, <2>5 DEF LeadOf
  <2> QED
    BY <2>1, <2>2, <2>3, <2>6 DEF Fresh
<1>14. ASSUME NEW y \in Player, v.row[y].party # None, v.row[y].party # x PROVE Mates(v.grp[Host[a[y]]], y, y)
  <2>1. y # p /\ w.row[y].party # None /\ w.row[y].party # x
    BY <1>5, <1>14
  <2>2. PICK k \in w.grp[Host[a[y]]] : y \in k.members
    BY <2>1 DEF Agreed, Announced, Mates
  <2>3. Host[a[y]] \in Server
    BY <1>1, <2>1, StandServer DEF RowsFit
  <2>4. CASE Host[a[y]] = s /\ k = g
    BY <1>4, <2>1, <2>2, <2>4 DEF Swaps, Mates
  <2>5. CASE ~(Host[a[y]] = s /\ k = g)
    BY <2>2, <2>3, <2>5 DEF Swaps, Mates
  <2> QED
    BY <2>4, <2>5
<1> QED
  BY <1>1, <1>8, <1>9, <1>10, <1>11, <1>12, <1>13, <1>14 DEF Agreed, Announced

\* The parts of agreement that say more where all agree.
LEMMA AllAgree ==
  ASSUME NEW w, NEW a, NEW d, Good(w, a, d), Agreed(w, a, d, None)
  PROVE  /\ Clean(w)
         /\ \A p \in Player : w.row[p].party # None =>
              /\ a[p] # None /\ Host[a[p]] \in Server
              /\ \E g \in w.grp[Host[a[p]]] : p \in g.members /\ g.id = w.row[p].party
         /\ \A s \in Server : \A g \in w.grp[s] : \A p \in g.members :
              /\ Fresh(w, g, p) /\ g.id = w.row[p].party /\ g.id # None /\ g.lead = LeadOf(w, g)
<1>1. \A s \in Server : \A g \in w.grp[s] : \A p \in g.members : w.row[p].party # None /\ Fresh(w, g, p)
  BY AgreedIs
<1>2. Clean(w)
  BY <1>1 DEF Clean, Fresh
<1>3. ASSUME NEW p \in Player, w.row[p].party # None
      PROVE  /\ a[p] # None /\ Host[a[p]] \in Server
             /\ \E g \in w.grp[Host[a[p]]] : p \in g.members /\ g.id = w.row[p].party
  <2>1. a[p] # None
    BY <1>3 DEF Agreed, Announced, RowsFit
  <2>2. Host[a[p]] \in Server
    BY <2>1, StandServer
  <2>3. PICK g \in w.grp[Host[a[p]]] : p \in g.members
    BY <1>3 DEF Agreed, Announced, Mates
  <2> QED
    BY <1>2, <2>1, <2>2, <2>3 DEF Clean
<1> QED
  BY <1>1, <1>2, <1>3 DEF Fresh

\* Another of the party gives it his name and leads it.
LEMMA HandoverAgreed ==
  ASSUME NEW w, NEW a, NEW d, Good(w, a, d), Agreed(w, a, d, None),
         NEW s \in Server, NEW g \in w.grp[s], NEW q \in Player, w.row[q].party = g.id, q # g.id,
         NEW v, Swaps(w, v, s, g, Led(g, q)), Hands(w, v, g.id, q)
  PROVE  /\ Agreed(v, a, d, q) /\ Led(g, q) \in v.grp[s]
         /\ \A y \in g.members : Fresh(v, Led(g, q), y)
<1>h. PICK h : h = Led(g, q)
  OBVIOUS
<1>1. /\ w \in Worlds /\ Still(d) /\ RowsFit(w, a)
      /\ Uniform(w) /\ OneEach(w, a, d)
      /\ \A y \in Player : w.row[y].party # None =>
           /\ w.row[y].party \in Player /\ w.row[w.row[y].party].lead
           /\ w.row[w.row[y].party].party = w.row[y].party
  BY AgreedIs
<1>2. g \in Group /\ g.members \subseteq Player /\ g.members # {} /\ g.id \in Player
  BY ObjectIs
<1>3. h.id = q /\ h.members = g.members /\ h.lead = (IF q \in g.members THEN q ELSE None)
  BY <1>2, <1>h DEF Led, Group
<1>4. g.id # None /\ q # None
  BY <1>2, PartyAssumption
<1>5. \A y \in Player : w.row[y].party # q
  BY <1>1, <1>4
<1>6. \A y \in Player : /\ w.row[y].party # g.id => v.row[y] = w.row[y]
                        /\ w.row[y].party = g.id => v.row[y].party = q /\ (v.row[y].lead <=> y = q)
  BY DEF Hands
<1>7. \A y \in Player : v.row[y].party = q <=> w.row[y].party = g.id
  BY <1>5, <1>6
<1>8. \A y \in g.members : w.row[y].party = g.id /\ y \in Player
  BY <1>2, AllAgree
<1>9. ASSUME NEW t \in Server, NEW k \in v.grp[t]
      PROVE  /\ \A y \in k.members : y \in Player
             /\ (t = s /\ k = h) \/ (k \in w.grp[t] /\ \A y \in k.members : k.id = w.row[y].party)
             /\ \E k0 \in w.grp[t] : k.members = k0.members /\ ((t = s /\ k0 = g /\ k = h) \/ k = k0)
  <2>1. (t = s /\ k = h) \/ (k \in w.grp[t] /\ ~(t = s /\ k = g))
    BY <1>9, <1>h DEF Swaps
  <2>2. CASE t = s /\ k = h
    BY <1>2, <1>3, <2>2
  <2>3. CASE k \in w.grp[t] /\ ~(t = s /\ k = g)
    <3>1. \A y \in k.members : y \in Player /\ k.id = w.row[y].party
      BY <2>3, OneObject, AllAgree
    <3> QED
      BY <2>3, <3>1
  <2> QED
    BY <2>1, <2>2, <2>3
<1>10. RowsFit(v, a)
  <2>1. ASSUME NEW y \in Player, v.row[y].lead PROVE v.row[y].party = y
    BY <1>1, <1>6, <2>1 DEF RowsFit
  <2>2. ASSUME NEW y \in Player, v.row[y].party # None PROVE a[y] # None
    BY <1>1, <1>4, <1>6, <2>2 DEF RowsFit
  <2>3. ASSUME NEW y \in Player
        PROVE  IsFiniteSet(RowsOf(v.row, y)) /\ Cardinality(RowsOf(v.row, y)) <= Room
    <3>1. CASE y = q
      <4>1. RowsOf(v.row, y) = RowsOf(w.row, g.id)
        BY <1>7, <3>1 DEF RowsOf
      <4> QED
        BY <1>1, <1>2, <4>1 DEF RowsFit
    <3>2. CASE y # q
      <4>1. RowsOf(v.row, y) \subseteq RowsOf(w.row, y)
        BY <1>6, <3>2 DEF RowsOf
      <4>2. IsFiniteSet(RowsOf(w.row, y)) /\ Cardinality(RowsOf(w.row, y)) <= Room
        BY <1>1 DEF RowsFit
      <4>3. /\ IsFiniteSet(RowsOf(v.row, y))
            /\ Cardinality(RowsOf(v.row, y)) <= Cardinality(RowsOf(w.row, y))
        BY <4>1, <4>2, FS_Subset
      <4>4. Cardinality(RowsOf(v.row, y)) \in Nat /\ Cardinality(RowsOf(w.row, y)) \in Nat /\ Room \in Nat
        BY <4>2, <4>3, FS_CardinalityType, PartyAssumption
      <4> QED
        BY <4>2, <4>3, <4>4
    <3> QED
      BY <3>1, <3>2
  <2> QED
    BY <2>1, <2>2, <2>3 DEF RowsFit
<1>11. Rooted(v)
  <2> SUFFICES ASSUME NEW y \in Player, v.row[y].party # None PROVE v.row[v.row[y].party].lead
    BY DEF Rooted, Leaderless
  <2>1. CASE w.row[y].party = g.id
    BY <1>6, <2>1
  <2>2. CASE w.row[y].party # g.id
    BY <1>1, <1>6, <2>2
  <2> QED
    BY <2>1, <2>2
<1>12. Uniform(v)
  <2> SUFFICES ASSUME NEW t \in Server, NEW k \in v.grp[t], NEW y \in k.members, NEW z \in k.members
               PROVE  v.row[y].party = v.row[z].party /\ (v.row[y].party = None => y = z)
    BY DEF Uniform
  <2>1. PICK k0 \in w.grp[t] : k.members = k0.members
    BY <1>9
  <2>2. y \in Player /\ z \in Player /\ y \in k0.members /\ z \in k0.members
    BY <1>9, <2>1
  <2>3. w.row[y].party = w.row[z].party /\ (w.row[y].party = None => y = z)
    BY <1>1, <2>2 DEF Uniform
  <2> QED
    BY <1>4, <1>6, <2>2, <2>3
<1>13. OneEach(v, a, d)
  <2> SUFFICES ASSUME NEW t \in Server, NEW k \in v.grp[t], NEW l \in v.grp[t], NEW y \in k.members, NEW z \in l.members,
                      Stands(a, d, y), Stands(a, d, z), v.row[y].party = v.row[z].party, v.row[y].party # None
               PROVE  k = l
    BY DEF OneEach
  <2>1. PICK k0 \in w.grp[t] : k.members = k0.members /\ ((t = s /\ k0 = g /\ k = h) \/ k = k0)
    BY <1>9
  <2>2. PICK l0 \in w.grp[t] : l.members = l0.members /\ ((t = s /\ l0 = g /\ l = h) \/ l = l0)
    BY <1>9
  <2>3. y \in Player /\ z \in Player /\ y \in k0.members /\ z \in l0.members
    BY <1>9, <2>1, <2>2
  <2>4. w.row[y].party = w.row[z].party /\ w.row[y].party # None
    BY <1>4, <1>6, <1>7, <2>3
  <2>5. k0 = l0
    BY <1>1, <2>3, <2>4 DEF OneEach
  <2>6. g \in v.grp[s] => g = h
    BY <1>h DEF Swaps
  <2> QED
    BY <2>1, <2>2, <2>5, <2>6
<1>14. \A y \in Player : Mates(w.grp[Host[a[y]]], y, y) /\ a[y] # None => Mates(v.grp[Host[a[y]]], y, y)
  <2> SUFFICES ASSUME NEW y \in Player, a[y] # None, NEW k \in w.grp[Host[a[y]]], y \in k.members
               PROVE  Mates(v.grp[Host[a[y]]], y, y)
    BY DEF Mates
  <2>1. Host[a[y]] \in Server
    BY StandServer
  <2>2. CASE Host[a[y]] = s /\ k = g
    <3>1. y \in h.members /\ h \in v.grp[s]
      BY <1>3, <1>h, <2>2 DEF Swaps
    <3> QED
      BY <2>2, <3>1 DEF Mates
  <2>3. CASE ~(Host[a[y]] = s /\ k = g)
    BY <2>1, <2>3 DEF Swaps, Mates
  <2> QED
    BY <2>2, <2>3
<1>15. Gathered(v, a)
  <2> SUFFICES ASSUME NEW y \in Player, v.row[y].party # None PROVE Mates(v.grp[Host[a[y]]], y, y)
    BY DEF Gathered
  <2>1. w.row[y].party # None
    BY <1>4, <1>6
  <2>2. a[y] # None /\ Mates(w.grp[Host[a[y]]], y, y)
    BY <2>1, AllAgree DEF Mates
  <2> QED
    BY <1>14, <2>2
<1>16. h \in v.grp[s]
  BY <1>2, <1>3, <1>h DEF Swaps
<1>17. ASSUME NEW y \in g.members PROVE Fresh(v, h, y)
  <2>1. q \in g.members => v.row[q].lead
    BY <1>6
  <2>2. h.lead = LeadOf(v, h)
    BY <1>3, <2>1 DEF LeadOf
  <2> QED
    BY <1>3, <1>6, <1>8, <2>2 DEF Fresh
<1>18. ASSUME NEW t \in Server, NEW k \in v.grp[t], NEW y \in k.members
       PROVE  v.row[y].party # None /\ (v.row[y].party # q => Fresh(v, k, y))
  <2>0. y \in Player
    BY <1>9
  <2>1. CASE t = s /\ k = h
    BY <1>3, <1>4, <1>6, <1>8, <2>1
  <2>2. CASE k \in w.grp[t] /\ \A z \in k.members : k.id = w.row[z].party
    <3>1. w.row[y].party # None /\ k.lead = LeadOf(w, k) /\ k.id = w.row[y].party
      BY <2>2, AllAgree
    <3>2. v.row[y].party # None
      BY <1>4, <1>6, <2>0, <3>1
    <3>3. ASSUME v.row[y].party # q PROVE Fresh(v, k, y)
      <4>1. k.id # g.id
        BY <1>7, <2>0, <3>1, <3>3
      <4>2. k.id \in k.members => k.id \in Player /\ w.row[k.id].party = k.id
        BY <1>9, <2>2
      <4>3. LeadOf(v, k) = LeadOf(w, k)
        BY <1>6, <4>1, <4>2 DEF LeadOf
      <4> QED
        BY <1>6, <2>0, <3>1, <4>1, <4>3 DEF Fresh
    <3> QED
      BY <3>2, <3>3
  <2> QED
    BY <1>9, <2>1, <2>2
<1>19. Agreed(v, a, d, q)
  BY <1>1, <1>10, <1>11, <1>12, <1>13, <1>15, <1>18 DEF Agreed, Announced, Gathered
<1> QED
  BY <1>h, <1>16, <1>17, <1>19

\* One without a row is in no object.
LEMMA RowlessFree ==
  ASSUME NEW w, NEW a, NEW d, Good(w, a, d), NEW x, Agreed(w, a, d, x), NEW p \in Player, w.row[p].party = None
  PROVE  /\ \A t \in Server : \A k \in w.grp[t] : p \notin k.members
         /\ \A y \in Player : w.row[y].party # p
<1>1. \A t \in Server : \A k \in w.grp[t] : p \notin k.members
  BY AgreedIs
<1>2. p # None
  BY PartyAssumption
<1> QED
  BY <1>1, <1>2, AgreedIs

\* The last of a party leaves: nothing is left of it.
LEMMA LoneAgreed ==
  ASSUME NEW w, NEW a, NEW d, Good(w, a, d), Agreed(w, a, d, None),
         NEW s \in Server, NEW g \in w.grp[s], RowsOf(w.row, g.id) = {g.id},
         NEW v, Deletes(w, v, s, g), Strikes(w, v, g.members)
  PROVE  Agreed(v, a, d, None) /\ g.members = {g.id}
<1>1. /\ w \in Worlds /\ Still(d) /\ RowsFit(w, a)
      /\ Uniform(w) /\ OneEach(w, a, d)
      /\ \A y \in Player : w.row[y].party # None =>
           /\ w.row[y].party \in Player /\ w.row[w.row[y].party].lead
           /\ w.row[w.row[y].party].party = w.row[y].party
  BY AgreedIs
<1>2. g \in Group /\ g.members \subseteq Player /\ g.members # {} /\ g.id \in Player
  BY ObjectIs
<1>3. g.members = {g.id}
  <2>1. \A y \in g.members : w.row[y].party = g.id /\ y \in Player
    BY <1>2, AllAgree
  <2>2. g.members \subseteq RowsOf(w.row, g.id)
    BY <2>1 DEF RowsOf
  <2> QED
    BY <1>2, <2>2
<1>4. \A y \in Player : w.row[y].party = g.id => y = g.id
  BY <1>2 DEF RowsOf
<1>n. NoRow.party = None /\ ~NoRow.lead
  BY DEF NoRow
<1>5. v.row[g.id].party = None /\ \A y \in Player : y # g.id => v.row[y] = w.row[y]
  BY <1>2, <1>3, <1>n DEF Strikes
<1>6. \A t \in Server : \A k \in v.grp[t] : k \in w.grp[t] /\ \A y \in k.members : y \in Player /\ y # g.id
  <2> SUFFICES ASSUME NEW t \in Server, NEW k \in v.grp[t]
               PROVE  k \in w.grp[t] /\ \A y \in k.members : y \in Player /\ y # g.id
    OBVIOUS
  <2>1. k \in w.grp[t] /\ ~(t = s /\ k = g)
    BY DEF Deletes
  <2>2. g.id \in g.members
    BY <1>3
  <2>3. \A y \in k.members : y \in Player /\ y # g.id
    BY <2>1, <2>2, OneObject
  <2> QED
    BY <2>1, <2>3
<1>7. RowsFit(v, a)
  BY <1>1, StrikesRows
<1>8. Rooted(v)
  <2> SUFFICES ASSUME NEW y \in Player, v.row[y].party # None PROVE v.row[v.row[y].party].lead
    BY DEF Rooted, Leaderless
  <2> QED
    BY <1>1, <1>4, <1>5
<1>9. Uniform(v)
  BY <1>1, <1>5, <1>6 DEF Uniform
<1>10. OneEach(v, a, d)
  <2> SUFFICES ASSUME NEW t \in Server, NEW k \in v.grp[t], NEW l \in v.grp[t], NEW y \in k.members, NEW z \in l.members,
                      Stands(a, d, y), Stands(a, d, z), v.row[y].party = v.row[z].party, v.row[y].party # None
               PROVE  k = l
    BY DEF OneEach
  <2> QED
    BY <1>1, <1>5, <1>6 DEF OneEach
<1>11. \A t \in Server : \A k \in v.grp[t] : \A y \in k.members : v.row[y].party # None /\ Fresh(v, k, y)
  <2> SUFFICES ASSUME NEW t \in Server, NEW k \in v.grp[t], NEW y \in k.members
               PROVE  v.row[y].party # None /\ Fresh(v, k, y)
    OBVIOUS
  <2>1. k \in w.grp[t] /\ y \in Player /\ y # g.id /\ (k.id \in k.members => k.id \in Player /\ k.id # g.id)
    BY <1>6
  <2>2. k.id = w.row[y].party /\ k.lead = LeadOf(w, k) /\ k.id # None
    BY <2>1, AllAgree
  <2>3. LeadOf(v, k) = LeadOf(w, k)
    BY <1>5, <2>1 DEF LeadOf
  <2> QED
    BY <1>5, <2>1, <2>2, <2>3 DEF Fresh
<1>12. Clean(v)
  BY <1>11 DEF Clean, Fresh
<1>13. ASSUME NEW y \in Player, v.row[y].party # None PROVE Mates(v.grp[Host[a[y]]], y, y)
  <2>1. y # g.id /\ w.row[y].party # None
    BY <1>5, <1>13
  <2>2. Host[a[y]] \in Server
    BY <2>1, AllAgree
  <2>3. PICK k \in w.grp[Host[a[y]]] : y \in k.members
    BY <2>1, AllAgree
  <2>4. k # g
    BY <1>3, <2>1, <2>3
  <2> QED
    BY <2>2, <2>3, <2>4 DEF Deletes, Mates
<1> QED
  BY <1>1, <1>3, <1>7, <1>8, <1>9, <1>10, <1>11, <1>12, <1>13 DEF Agreed, Announced

\* One without a row comes or goes.
LEMMA ElsewhereAgreed ==
  ASSUME NEW w, NEW a, NEW d, Good(w, a, d), NEW x, Agreed(w, a, d, x),
         NEW p \in Player, w.row[p].party = None, NEW a2, NEW d2, Elsewhere(a, d, a2, d2, p), d2[p] = None,
         NEW v, v.row = w.row, v.grp = w.grp
  PROVE  Agreed(v, a2, d2, x)
<1>1. /\ w \in Worlds /\ Still(d) /\ RowsFit(w, a) /\ Rooted(w)
      /\ Uniform(w) /\ OneEach(w, a, d) /\ (Clean(w) \/ Gathered(w, a))
  BY AgreedIs
<1>2. \A q \in Player : q # p => a2[q] = a[q] /\ d2[q] = d[q]
  BY DEF Elsewhere
<1>3. \A t \in Server : \A k \in w.grp[t] : \A y \in k.members : y \in Player /\ y # p
  BY AgreedIs
<1>4. Still(d2)
  BY <1>1, <1>2 DEF Still
<1>5. RowsFit(v, a2)
  BY <1>1, <1>2 DEF RowsFit
<1>6. Rooted(v) /\ Uniform(v)
  BY <1>1 DEF Rooted, Leaderless, Uniform
<1>7. OneEach(v, a2, d2)
  <2> SUFFICES ASSUME NEW t \in Server, NEW k \in v.grp[t], NEW l \in v.grp[t], NEW y \in k.members, NEW z \in l.members,
                      Stands(a2, d2, y), Stands(a2, d2, z), v.row[y].party = v.row[z].party, v.row[y].party # None
               PROVE  k = l
    BY DEF OneEach
  <2>1. Stands(a, d, y) /\ Stands(a, d, z)
    BY <1>2, <1>3 DEF Stands
  <2> QED
    BY <1>1, <2>1 DEF OneEach
<1>8. Clean(v) \/ Gathered(v, a2)
  <2>1. Clean(w) => Clean(v)
    BY DEF Clean
  <2>2. Gathered(w, a) => Gathered(v, a2)
    BY <1>2 DEF Gathered
  <2> QED
    BY <1>1, <2>1, <2>2
<1>9. \A t \in Server : \A g \in v.grp[t] : \A y \in g.members :
        v.row[y].party # None /\ (v.row[y].party # x => Fresh(v, g, y))
  BY DEF Agreed, Announced, Fresh, LeadOf
<1>10. \A y \in Player : v.row[y].party # None /\ v.row[y].party # x => Mates(v.grp[Host[a2[y]]], y, y)
  BY <1>2 DEF Agreed, Announced
<1> QED
  BY <1>4, <1>5, <1>6, <1>7, <1>8, <1>9, <1>10 DEF Agreed, Announced

\* A row more leaves every party with its leader.
LEMMA WritesRooted ==
  ASSUME NEW w, NEW a, NEW d, Good(w, a, d), Agreed(w, a, d, None), NEW p \in Player, w.row[p].party = None,
         NEW x \in Player, w.row[x].lead, NEW v, Writes(w, v, p, x)
  PROVE  /\ Rooted(v) /\ x # p
         /\ v.row[p].party = x /\ ~v.row[p].lead /\ \A y \in Player : y # p => v.row[y] = w.row[y]
<1>1. /\ RowsFit(w, a)
      /\ \A y \in Player : w.row[y].party # None =>
           /\ w.row[y].party \in Player /\ w.row[w.row[y].party].lead
           /\ w.row[w.row[y].party].party = w.row[y].party
  BY AgreedIs
<1>n. PICK n : n = [party |-> x, lead |-> FALSE]
  OBVIOUS
<1>2. ~n.lead /\ n.party = x /\ v.row[p] = n /\ \A y \in Player : y # p => v.row[y] = w.row[y]
  BY <1>n DEF Writes
<1>3. x # None
  BY PartyAssumption
<1>4. w.row[x].party = x
  BY <1>1 DEF RowsFit
<1>5. x # p
  BY <1>3, <1>4
<1>6. \A y \in Player : w.row[y].party # p
  BY RowlessFree
<1>7. Rooted(v)
  <2> SUFFICES ASSUME NEW y \in Player, v.row[y].party # None PROVE v.row[v.row[y].party].lead
    BY DEF Rooted, Leaderless
  <2>1. CASE y = p
    BY <1>2, <1>5, <2>1
  <2>2. CASE y # p
    BY <1>1, <1>2, <1>6, <2>2
  <2> QED
    BY <2>1, <2>2
<1> QED
  BY <1>2, <1>5, <1>7

\* A row more, for one on another server.
LEMMA InsertAgreed ==
  ASSUME NEW w, NEW a, NEW d, Good(w, a, d), Agreed(w, a, d, None),
         NEW p \in Player, w.row[p].party = None, a[p] # None,
         NEW x \in Player, w.row[x].lead, Cardinality(RowsOf(w.row, x)) < Room,
         NEW v, v.grp = w.grp, Writes(w, v, p, x)
  PROVE  Agreed(v, a, d, x)
<1>1. /\ w \in Worlds /\ Still(d) /\ RowsFit(w, a)
      /\ Uniform(w) /\ OneEach(w, a, d)
  BY AgreedIs
<1>2. Rooted(v) /\ v.row[p].party = x /\ \A y \in Player : y # p => v.row[y] = w.row[y]
  BY WritesRooted
<1>3. \A t \in Server : \A k \in v.grp[t] : k \in w.grp[t] /\ \A y \in k.members : y \in Player /\ y # p
  BY AgreedIs
<1>4. RowsFit(v, a)
  BY <1>1, WritesRows
<1>5. Uniform(v)
  BY <1>1, <1>2, <1>3 DEF Uniform
<1>6. OneEach(v, a, d)
  <2> SUFFICES ASSUME NEW t \in Server, NEW k \in v.grp[t], NEW l \in v.grp[t], NEW y \in k.members, NEW z \in l.members,
                      Stands(a, d, y), Stands(a, d, z), v.row[y].party = v.row[z].party, v.row[y].party # None
               PROVE  k = l
    BY DEF OneEach
  <2> QED
    BY <1>1, <1>2, <1>3 DEF OneEach
<1>7. \A t \in Server : \A k \in v.grp[t] : \A y \in k.members : v.row[y].party # None /\ Fresh(v, k, y)
  <2> SUFFICES ASSUME NEW t \in Server, NEW k \in v.grp[t], NEW y \in k.members
               PROVE  v.row[y].party # None /\ Fresh(v, k, y)
    OBVIOUS
  <2>1. k \in w.grp[t] /\ y \in Player /\ y # p /\ (k.id \in k.members => k.id \in Player /\ k.id # p)
    BY <1>3
  <2>2. k.id = w.row[y].party /\ k.lead = LeadOf(w, k) /\ k.id # None
    BY <2>1, AllAgree
  <2>3. LeadOf(v, k) = LeadOf(w, k)
    BY <1>2, <2>1 DEF LeadOf
  <2> QED
    BY <1>2, <2>1, <2>2, <2>3 DEF Fresh
<1>8. Clean(v)
  BY <1>7 DEF Clean, Fresh
<1>9. ASSUME NEW y \in Player, v.row[y].party # None, v.row[y].party # x PROVE Mates(v.grp[Host[a[y]]], y, y)
  <2>1. y # p /\ w.row[y].party # None
    BY <1>2, <1>9
  <2> QED
    BY <2>1, AllAgree DEF Mates
<1> QED
  BY <1>1, <1>2, <1>4, <1>5, <1>6, <1>7, <1>8, <1>9 DEF Agreed, Announced

\* One without a row joins the object of his server.
LEMMA AddAgreed ==
  ASSUME NEW w, NEW a, NEW d, Good(w, a, d), Agreed(w, a, d, None),
         NEW s \in Server, NEW g \in w.grp[s],
         NEW p \in Player, w.row[p].party = None, a[p] # None, Host[a[p]] = s,
         Cardinality(RowsOf(w.row, g.id)) < Room,
         NEW v, Swaps(w, v, s, g, With(g, p)), Writes(w, v, p, g.id)
  PROVE  Agreed(v, a, d, None)
<1>h. PICK h : h = With(g, p)
  OBVIOUS
<1>1. /\ w \in Worlds /\ Still(d) /\ RowsFit(w, a)
      /\ Uniform(w) /\ OneEach(w, a, d)
      /\ \A y \in Player : w.row[y].party # None =>
           /\ w.row[y].party \in Player /\ w.row[w.row[y].party].lead
           /\ w.row[w.row[y].party].party = w.row[y].party
  BY AgreedIs
<1>2. g \in Group /\ g.members \subseteq Player /\ g.members # {} /\ g.id \in Player
  BY ObjectIs
<1>3. h.id = g.id /\ h.lead = g.lead /\ h.members = g.members \cup {p}
  BY <1>2, <1>h DEF With, Group
<1>4. PICK z \in g.members : z \in Player /\ w.row[z].party = g.id /\ g.id # None /\ Stands(a, d, z)
  BY <1>2, AllAgree, AgreedIs
<1>5. w.row[g.id].lead
  BY <1>1, <1>4
<1>6. /\ Rooted(v) /\ g.id # p
      /\ v.row[p].party = g.id /\ \A y \in Player : y # p => v.row[y] = w.row[y]
  BY <1>2, <1>5, WritesRooted
<1>7. RowsFit(v, a)
  BY <1>1, <1>2, WritesRows
<1>8. \A y \in g.members : y \in Player /\ y # p /\ w.row[y].party = g.id
  BY AgreedIs, AllAgree
<1>9. ASSUME NEW t \in Server, NEW k \in v.grp[t]
      PROVE  (t = s /\ k = h) \/ (k \in w.grp[t] /\ ~(t = s /\ k = g) /\ \A y \in k.members : y \in Player /\ y # p)
  <2>1. (t = s /\ k = h) \/ (k \in w.grp[t] /\ ~(t = s /\ k = g))
    BY <1>9, <1>h DEF Swaps
  <2>2. k \in w.grp[t] => \A y \in k.members : y \in Player /\ y # p
    BY AgreedIs
  <2> QED
    BY <2>1, <2>2
<1>10. ASSUME NEW y \in h.members
       PROVE  v.row[y].party = g.id /\ y \in Player
  BY <1>3, <1>6, <1>8
<1>11. Uniform(v)
  <2> SUFFICES ASSUME NEW t \in Server, NEW k \in v.grp[t], NEW y \in k.members, NEW u \in k.members
               PROVE  v.row[y].party = v.row[u].party /\ (v.row[y].party = None => y = u)
    BY DEF Uniform
  <2>1. CASE t = s /\ k = h
    BY <1>4, <1>10, <2>1
  <2>2. CASE k \in w.grp[t] /\ \A o \in k.members : o \in Player /\ o # p
    BY <1>1, <1>6, <2>2 DEF Uniform
  <2> QED
    BY <1>9, <2>1, <2>2
<1>12. OneEach(v, a, d)
  <2>1. ASSUME NEW l \in w.grp[s], l # g, NEW u \in l.members, u # p, u \in Player, Stands(a, d, u), v.row[u].party = g.id
        PROVE  FALSE
    <3>1. w.row[u].party = w.row[z].party /\ w.row[u].party # None
      BY <1>4, <1>6, <2>1
    <3> QED
      BY <1>1, <1>4, <2>1, <3>1 DEF OneEach
  <2> SUFFICES ASSUME NEW t \in Server, NEW k \in v.grp[t], NEW l \in v.grp[t], NEW y \in k.members, NEW u \in l.members,
                      Stands(a, d, y), Stands(a, d, u), v.row[y].party = v.row[u].party, v.row[y].party # None
               PROVE  k = l
    BY DEF OneEach
  <2>2. CASE t = s /\ k = h /\ l # h
    <3>1. v.row[u].party = g.id
      BY <1>10, <2>2
    <3>2. l \in w.grp[s] /\ l # g /\ u \in Player /\ u # p
      BY <1>9, <2>2
    <3> QED
      BY <2>1, <3>1, <3>2
  <2>3. CASE t = s /\ l = h /\ k # h
    <3>1. v.row[y].party = g.id
      BY <1>10, <2>3
    <3>2. k \in w.grp[s] /\ k # g /\ y \in Player /\ y # p
      BY <1>9, <2>3
    <3> QED
      BY <2>1, <3>1, <3>2
  <2>4. CASE k \in w.grp[t] /\ l \in w.grp[t] /\ y \in Player /\ y # p /\ u \in Player /\ u # p
    <3>1. w.row[y].party = w.row[u].party /\ w.row[y].party # None
      BY <1>6, <2>4
    <3> QED
      BY <1>1, <2>4, <3>1 DEF OneEach
  <2> QED
    BY <1>9, <2>2, <2>3, <2>4
<1>13. \A t \in Server : \A k \in v.grp[t] : \A y \in k.members : v.row[y].party # None /\ Fresh(v, k, y)
  <2> SUFFICES ASSUME NEW t \in Server, NEW k \in v.grp[t], NEW y \in k.members
               PROVE  v.row[y].party # None /\ Fresh(v, k, y)
    OBVIOUS
  <2>1. CASE t = s /\ k = h
    <3>1. g.lead = LeadOf(w, g)
      BY <1>4, AllAgree
    <3>2. h.id \in h.members <=> g.id \in g.members
      BY <1>3, <1>6
    <3>3. LeadOf(v, h) = LeadOf(w, g)
      BY <1>2, <1>3, <1>6, <3>2 DEF LeadOf
    <3> QED
      BY <1>3, <1>4, <1>10, <2>1, <3>1, <3>3 DEF Fresh
  <2>2. CASE k \in w.grp[t] /\ \A o \in k.members : o \in Player /\ o # p
    <3>1. k.id = w.row[y].party /\ k.lead = LeadOf(w, k) /\ k.id # None
      BY <2>2, AllAgree
    <3>2. LeadOf(v, k) = LeadOf(w, k)
      BY <1>6, <2>2 DEF LeadOf
    <3> QED
      BY <1>6, <2>2, <3>1, <3>2 DEF Fresh
  <2> QED
    BY <1>9, <2>1, <2>2
<1>14. Clean(v)
  BY <1>13 DEF Clean, Fresh
<1>15. ASSUME NEW y \in Player, v.row[y].party # None PROVE Mates(v.grp[Host[a[y]]], y, y)
  <2>1. h \in v.grp[s] /\ p \in h.members
    BY <1>3, <1>h DEF Swaps
  <2>2. CASE y = p
    BY <2>1, <2>2 DEF Mates
  <2>3. CASE y # p
    <3>1. w.row[y].party # None
      BY <1>6, <1>15, <2>3
    <3>2. Host[a[y]] \in Server
      BY <3>1, AllAgree
    <3>3. PICK k \in w.grp[Host[a[y]]] : y \in k.members
      BY <3>1, AllAgree
    <3>4. CASE Host[a[y]] = s /\ k = g
      BY <1>3, <2>1, <3>3, <3>4 DEF Mates
    <3>5. CASE ~(Host[a[y]] = s /\ k = g)
      BY <3>2, <3>3, <3>5 DEF Swaps, Mates
    <3> QED
      BY <3>4, <3>5
  <2> QED
    BY <2>2, <2>3
<1> QED
  BY <1>1, <1>6, <1>7, <1>11, <1>12, <1>13, <1>14, <1>15 DEF Agreed, Announced

\* From w to v the row of p becomes that of a leader.
Founds(w, v, p) == \A y \in Player :
  /\ y = p => v.row[y].party = p /\ v.row[y].lead
  /\ y # p => v.row[y] = w.row[y]

\* One without a row founds a party.
LEMMA FoundAgreed ==
  ASSUME NEW w, NEW a, NEW d, Good(w, a, d), Agreed(w, a, d, None), NEW s \in Server,
         NEW p \in Player, w.row[p].party = None, a[p] # None, Host[a[p]] = s,
         NEW g, g.members = {}, NEW h, h = [id |-> p, members |-> {p}, lead |-> p],
         NEW v, Swaps(w, v, s, g, h), Founds(w, v, p)
  PROVE  Agreed(v, a, d, None) /\ Cardinality(RowsOf(v.row, p)) = 1
<1>1. /\ w \in Worlds /\ Still(d) /\ RowsFit(w, a)
      /\ Uniform(w) /\ OneEach(w, a, d)
      /\ \A y \in Player : w.row[y].party # None =>
           /\ w.row[y].party \in Player /\ w.row[w.row[y].party].lead
           /\ w.row[w.row[y].party].party = w.row[y].party
  BY AgreedIs
<1>2. p # None /\ \A y \in Player : w.row[y].party # p
  BY PartyAssumption, RowlessFree
<1>3. v.row[p].party = p /\ v.row[p].lead /\ \A y \in Player : y # p => v.row[y] = w.row[y]
  BY DEF Founds
<1>4. h.id = p /\ h.lead = p /\ h.members = {p}
  OBVIOUS
<1>5. ASSUME NEW t \in Server, NEW k \in v.grp[t]
      PROVE  (t = s /\ k = h) \/ (k \in w.grp[t] /\ \A y \in k.members : y \in Player /\ y # p)
  <2>1. (t = s /\ k = h) \/ k \in w.grp[t]
    BY <1>5 DEF Swaps
  <2>2. k \in w.grp[t] => \A y \in k.members : y \in Player /\ y # p
    BY AgreedIs
  <2> QED
    BY <2>1, <2>2
<1>6. RowsOf(v.row, p) = {p}
  BY <1>2, <1>3 DEF RowsOf
<1>7. IsFiniteSet({p}) /\ Cardinality({p}) = 1
  BY FS_Singleton
<1>8. RowsFit(v, a)
  <2>1. \A y \in Player : /\ v.row[y].lead => v.row[y].party = y
                          /\ v.row[y].party # None => a[y] # None
    BY <1>1, <1>3 DEF RowsFit
  <2>2. ASSUME NEW y \in Player
        PROVE  IsFiniteSet(RowsOf(v.row, y)) /\ Cardinality(RowsOf(v.row, y)) <= Room
    <3>1. CASE y = p
      <4>1. Room \in Nat /\ Room # 0
        BY PartyAssumption
      <4> QED
        BY <1>6, <1>7, <3>1, <4>1
    <3>2. CASE y # p
      <4>1. y # None
        BY PartyAssumption
      <4>2. RowsOf(v.row, y) = RowsOf(w.row, y)
        BY <1>2, <1>3, <3>2, <4>1 DEF RowsOf
      <4> QED
        BY <1>1, <4>2 DEF RowsFit
    <3> QED
      BY <3>1, <3>2
  <2> QED
    BY <2>1, <2>2 DEF RowsFit
<1>9. Rooted(v)
  <2> SUFFICES ASSUME NEW y \in Player, v.row[y].party # None PROVE v.row[v.row[y].party].lead
    BY DEF Rooted, Leaderless
  <2> QED
    BY <1>1, <1>2, <1>3
<1>10. Uniform(v)
  <2> SUFFICES ASSUME NEW t \in Server, NEW k \in v.grp[t], NEW y \in k.members, NEW u \in k.members
               PROVE  v.row[y].party = v.row[u].party /\ (v.row[y].party = None => y = u)
    BY DEF Uniform
  <2>1. CASE t = s /\ k = h
    BY <1>4, <2>1
  <2>2. CASE k \in w.grp[t] /\ \A o \in k.members : o \in Player /\ o # p
    BY <1>1, <1>3, <2>2 DEF Uniform
  <2> QED
    BY <1>5, <2>1, <2>2
<1>11. OneEach(v, a, d)
  <2> SUFFICES ASSUME NEW t \in Server, NEW k \in v.grp[t], NEW l \in v.grp[t], NEW y \in k.members, NEW u \in l.members,
                      Stands(a, d, y), Stands(a, d, u), v.row[y].party = v.row[u].party, v.row[y].party # None
               PROVE  k = l
    BY DEF OneEach
  <2>1. CASE y = p \/ u = p
    <3>1. \A o \in Player : o # p => v.row[o].party # p
      BY <1>2, <1>3
    <3>2. y \in Player /\ u \in Player
      BY <1>4, <1>5
    <3>3. y = p /\ u = p
      BY <1>3, <2>1, <3>1, <3>2
    <3> QED
      BY <1>5, <3>3
  <2>2. CASE y # p /\ u # p
    <3>1. k \in w.grp[t] /\ l \in w.grp[t] /\ y \in Player /\ u \in Player
      BY <1>4, <1>5, <2>2
    <3>2. w.row[y].party = w.row[u].party /\ w.row[y].party # None
      BY <1>3, <2>2, <3>1
    <3> QED
      BY <1>1, <3>1, <3>2 DEF OneEach
  <2> QED
    BY <2>1, <2>2
<1>12. \A t \in Server : \A k \in v.grp[t] : \A y \in k.members : v.row[y].party # None /\ Fresh(v, k, y)
  <2> SUFFICES ASSUME NEW t \in Server, NEW k \in v.grp[t], NEW y \in k.members
               PROVE  v.row[y].party # None /\ Fresh(v, k, y)
    OBVIOUS
  <2>1. CASE t = s /\ k = h
    BY <1>2, <1>3, <1>4, <2>1 DEF Fresh, LeadOf
  <2>2. CASE k \in w.grp[t] /\ \A o \in k.members : o \in Player /\ o # p
    <3>1. k.id = w.row[y].party /\ k.lead = LeadOf(w, k) /\ k.id # None
      BY <2>2, AllAgree
    <3>2. LeadOf(v, k) = LeadOf(w, k)
      BY <1>3, <2>2 DEF LeadOf
    <3> QED
      BY <1>3, <2>2, <3>1, <3>2 DEF Fresh
  <2> QED
    BY <1>5, <2>1, <2>2
<1>13. Clean(v)
  BY <1>12 DEF Clean, Fresh
<1>14. ASSUME NEW y \in Player, v.row[y].party # None PROVE Mates(v.grp[Host[a[y]]], y, y)
  <2>1. CASE y = p
    BY <1>4, <2>1 DEF Swaps, Mates
  <2>2. CASE y # p
    <3>1. w.row[y].party # None
      BY <1>3, <1>14, <2>2
    <3>2. Host[a[y]] \in Server
      BY <3>1, AllAgree
    <3>3. PICK k \in w.grp[Host[a[y]]] : y \in k.members
      BY <3>1, AllAgree
    <3>4. k # g
      BY <3>3
    <3> QED
      BY <3>2, <3>3, <3>4 DEF Swaps, Mates
  <2> QED
    BY <2>1, <2>2
<1> QED
  BY <1>1, <1>6, <1>7, <1>8, <1>9, <1>10, <1>11, <1>12, <1>13, <1>14 DEF Agreed, Announced

-----------------------------------------------------------------------------
(* The requests.                                                             *)

\* The mail is news of parties and nothing else.
NewsOnly(w) == \A t \in Server : \A k, y : Has(w.out[t], k, y) => k = "reload"

\* A world that agrees but for what it tells.
Told(w, a, d) ==
  /\ Harmless(w)
  /\ \E x \in Player \cup {None} :
       Agreed(w, a, d, x) /\ (x = None \/ \E s \in Server : Has(w.out[s], "reload", x))

\* Who tells, fits.
LEMMA ToldFit ==
  ASSUME NEW w, NEW b, NEW a, NEW d, Good(w, a, d), Told(w, a, d), Silent(b)
  PROVE  Fit(w, b, a, d)
<1>1. PICK x \in Player \cup {None} : Agreed(w, a, d, x) /\ (x = None \/ \E s \in Server : Has(w.out[s], "reload", x))
  BY DEF Told
<1>2. Harmless(w)
  BY DEF Told
<1> QED
  BY <1>1, <1>2, AgreedFit

\* Flags, pools and mail make no difference to agreement.
LEMMA SameAgreed ==
  ASSUME NEW w, NEW v, NEW a, NEW d, NEW x, Agreed(w, a, d, x), v.row = w.row, v.grp = w.grp
  PROVE  Agreed(v, a, d, x)
<1>1. \A p \in Player : Leaderless(v, p) <=> Leaderless(w, p)
  BY DEF Leaderless
<1>2. \A g, p : Fresh(v, g, p) <=> Fresh(w, g, p)
  BY DEF Fresh, LeadOf
<1> QED
  BY <1>1, <1>2 DEF Agreed, Announced, Rooted, RowsFit, Uniform, OneEach, Clean, Gathered

\* Nor do flags and pools to what is told.
LEMMA ToldSame ==
  ASSUME NEW w, NEW v, NEW a, NEW d, Told(w, a, d), v.row = w.row, v.grp = w.grp, SameMail(w, v)
  PROVE  Told(v, a, d)
<1>1. Harmless(v)
  BY DEF Told, Harmless, SameMail
<1>2. PICK x \in Player \cup {None} : Agreed(w, a, d, x) /\ (x = None \/ \E s \in Server : Has(w.out[s], "reload", x))
  BY DEF Told
<1>3. Agreed(v, a, d, x)
  BY <1>2, SameAgreed
<1> QED
  BY <1>1, <1>2, <1>3 DEF Told, SameMail

\* News does no harm.
LEMMA NewsHarmless == ASSUME NEW w, NewsOnly(w) PROVE Harmless(w)
BY DEF NewsOnly, Harmless

\* News and news.
LEMMA NewsPosts ==
  ASSUME NEW w, NEW v, NEW s \in Server, NEW x, NewsOnly(w), Posts(w, v, s, "reload", x)
  PROVE  NewsOnly(v) /\ Has(v.out[s], "reload", x)
BY DEF NewsOnly, Posts

\* News, and the end of a party that has none.
LEMMA LastPost ==
  ASSUME NEW w, NEW v, NEW s \in Server, NEW x, NewsOnly(w), Posts(w, v, s, "disband", x), v.row[x].party = None
  PROVE  Harmless(v)
<1>1. ASSUME NEW t \in Server, NEW k, NEW y, Has(v.out[t], k, y)
      PROVE  k = "reload" \/ (k = "disband" /\ y = x)
  <2>1. Has(w.out[t], k, y) \/ (t = s /\ k = "disband" /\ y = x)
    BY <1>1 DEF Posts
  <2> QED
    BY <2>1 DEF NewsOnly
<1> SUFFICES ASSUME NEW t \in Server, NEW y \in Player
             PROVE  /\ Has(v.out[t], "kicked", y) => v.row[y].party = None
                    /\ Has(v.out[t], "disband", y) => v.row[y].party = None
                    /\ ~Has(v.out[t], "invite", y) /\ ~Has(v.out[t], "answer", y)
  BY DEF Harmless
<1>2. ~Has(v.out[t], "kicked", y) /\ ~Has(v.out[t], "invite", y) /\ ~Has(v.out[t], "answer", y)
  BY <1>1
<1>3. Has(v.out[t], "disband", y) => y = x
  BY <1>1
<1> QED
  BY <1>2, <1>3

\* One without a row, or an object to his name, founds a party.
LEMMA FoundedFx ==
  ASSUME NEW w \in Worlds, NEW s \in Server, NEW p \in Player, Online(p), w.row[p].party = None,
         \A y \in Player : w.row[y].party # p, \A k \in w.grp[s] : p \notin k.members,
         NEW v, v = Founded(w, s, p)
  PROVE  /\ v \in Worlds /\ Posts(w, v, s, "reload", p) /\ Founds(w, v, p)
         /\ \E g : g.members = {} /\ Swaps(w, v, s, g, [id |-> p, members |-> {p}, lead |-> p])
<1>g. PICK g : g = [id |-> p, members |-> {}, lead |-> None]
  OBVIOUS
<1>h. PICK h : h = With(g, p)
  OBVIOUS
<1>1. g \in Group /\ g.id = p /\ g.members = {}
  BY <1>g DEF Group
<1>2. h = [id |-> p, members |-> {p}, lead |-> None] /\ h \in Group /\ h.id = p /\ h.members = {p}
  BY <1>g, <1>h DEF With, Group
<1>m. PICK m : m = AddMember(w, s, g, p)
  OBVIOUS
<1>3. m \in Worlds /\ Swaps(w, m, s, g, h) /\ Posts(w, m, s, "reload", g.id) /\ Writes(w, m, p, g.id)
  BY <1>1, <1>h, <1>m, AddMemberFx
<1>n. PICK n : n = [party |-> g.id, lead |-> FALSE]
  OBVIOUS
<1>4. m.row[p] = n /\ m.row[p].party = p /\ \A y \in Player : y # p => m.row[y] = w.row[y]
  <2>1. m.row[p] = n /\ \A y \in Player : y # p => m.row[y] = w.row[y]
    BY <1>3, <1>n DEF Writes
  <2>2. n.party = g.id
    BY <1>n
  <2> QED
    BY <1>1, <2>1, <2>2
<1>5. v = SetLeader(m, s, h, p)
  <2>1. h = [g EXCEPT !.members = {p}]
    BY <1>g, <1>2
  <2> QED
    BY <1>g, <1>m, <2>1 DEF Founded
<1>6. v \in Worlds /\ SameMail(m, v) /\ Swaps(m, v, s, h, Led(h, p)) /\ Hands(m, v, h.id, p)
  BY <1>2, <1>3, <1>4, <1>5, SetLeaderFx
<1>7. Led(h, p) = [id |-> p, members |-> {p}, lead |-> p]
  <2>1. Led(h, p) = [h EXCEPT !.id = p, !.lead = p]
    BY <1>2 DEF Led
  <2> QED
    BY <1>2, <2>1
<1>8. h \notin w.grp[s]
  BY <1>2
<1>9. Swaps(w, v, s, g, Led(h, p))
  BY <1>3, <1>6, <1>8, SwapTwice
<1>10. Founds(w, v, p)
  BY <1>2, <1>4, <1>6 DEF Founds, Hands
<1>11. Posts(w, v, s, "reload", p)
  BY <1>1, <1>3, <1>6 DEF Posts, SameMail
<1> QED
  BY <1>1, <1>6, <1>7, <1>9, <1>10, <1>11

\* The party of one who stands: he has one from then on, and all agree.
LEMMA WithPartyAgreed ==
  ASSUME NEW w, NEW d, Good(w, at, d), Agreed(w, at, d, None), NewsOnly(w), NEW s \in Server,
         NEW p \in Player, Stands(at, d, p), Host[at[p]] = s,
         NEW v, v = WithParty(w, s, p)
  PROVE  Agreed(v, at, d, None) /\ NewsOnly(v) /\ \A y \in Player : y # p => v.row[y] = w.row[y]
<1>1. CASE HasParty(w, s, p)
  BY <1>1 DEF WithParty
<1>2. CASE ~HasParty(w, s, p)
  <2>1. v = Founded(w, s, p) /\ ~Mates(w.grp[s], p, p)
    BY <1>2, PartyOfIs DEF WithParty
  <2>2. Online(p) /\ w \in Worlds
    BY DEF Stands, Online, Good
  <2>3. w.row[p].party = None
    BY <2>1, AllAgree DEF Mates
  <2>4. \A y \in Player : w.row[y].party # p
    BY <2>3, RowlessFree
  <2>5. \A k \in w.grp[s] : p \notin k.members
    BY <2>1 DEF Mates
  <2>h. PICK h : h = [id |-> p, members |-> {p}, lead |-> p]
    OBVIOUS
  <2>6. v \in Worlds /\ Posts(w, v, s, "reload", p) /\ Founds(w, v, p) /\ \E g : g.members = {} /\ Swaps(w, v, s, g, h)
    BY <2>1, <2>2, <2>3, <2>4, <2>5, <2>h, FoundedFx
  <2>7. PICK g : g.members = {} /\ Swaps(w, v, s, g, h)
    BY <2>6
  <2>8. at[p] # None
    BY DEF Stands
  <2>9. Agreed(v, at, d, None)
    BY <2>3, <2>6, <2>7, <2>8, <2>h, FoundAgreed
  <2>10. NewsOnly(v)
    BY <2>6, NewsPosts
  <2>11. \A y \in Player : y # p => v.row[y] = w.row[y]
    BY <2>6 DEF Founds
  <2> QED
    BY <2>9, <2>10, <2>11
<1> QED
  BY <1>1, <1>2

\* RemoveMember.
LEMMA RemoveTold ==
  ASSUME NEW w, NEW d, Good(w, at, d), Agreed(w, at, d, None), NewsOnly(w), NEW s \in Server,
         NEW g \in w.grp[s], NEW p \in g.members, NEW heir \in Heirs(w, g),
         NEW v, v = RemoveMember(w, s, g, p, heir)
  PROVE  Told(v, at, d) /\ v.row[p] = NoRow
<1>1. w \in Worlds /\ g \in Group /\ Fits(w.grp[s], g) /\ g.members \subseteq Player /\ p \in Player /\ g.id \in Player
  BY ObjectIs
<1>2. w.row[p].party = g.id /\ g.id # None /\ g.lead = LeadOf(w, g) /\ Fresh(w, g, p) /\ w.row[g.id].lead /\ RowsFit(w, at)
  BY <1>1, AllAgree, AgreedIs
<1>n. NoRow.party = None
  BY DEF NoRow
<1>3. CASE g.lead # p
  <2>1. v = Drop(w, s, g, p)
    BY <1>3 DEF RemoveMember
  <2>h. PICK h : h = [g EXCEPT !.members = g.members \ {p}]
    OBVIOUS
  <2>2. p # g.id
    BY <1>2, <1>3 DEF LeadOf
  <2>3. Swaps(w, v, s, g, h) /\ Posts(w, v, s, "reload", g.id) /\ Strikes(w, v, {p})
    BY <1>1, <2>1, <2>h, DropFx
  <2>4. Agreed(v, at, d, None)
    BY <1>2, <2>2, <2>3, <2>h, DropAgreed
  <2>5. Harmless(v)
    BY <2>3, NewsPosts, NewsHarmless
  <2>6. v.row[p] = NoRow
    BY <1>1, <2>3 DEF Strikes
  <2> QED
    BY <2>4, <2>5, <2>6 DEF Told
<1>4. CASE g.lead = p
  <2>u. PICK u : u = RemovePartyLeader(w, s, g, p, heir)
    OBVIOUS
  <2>1. v = Flag(u, {p}, TRUE)
    BY <1>4, <2>u DEF RemoveMember
  <2>2. p = g.id /\ p # None
    <3>1. p # None
      BY <1>1, PartyAssumption
    <3>2. LeadOf(w, g) = g.id \/ LeadOf(w, g) = None
      BY DEF LeadOf
    <3> QED
      BY <1>2, <1>4, <3>1, <3>2
  <2>o. PICK others : others = {q \in RowsOf(w.row, g.id) : ~w.row[q].lead /\ Online(q)}
    OBVIOUS
  <2>3. (others = {} /\ heir = None) \/ (heir \in others /\ heir # None /\ heir \in Player)
    BY <2>o, PartyAssumption DEF Heirs, RowsOf
  <2>4. Told(u, at, d) /\ u.row[p] = NoRow /\ u \in Worlds
    <3>1. CASE heir = None
      <4>1. u = DisbandParty(w, s, g, TRUE)
        BY <1>4, <2>u, <3>1 DEF RemovePartyLeader
      <4>t. PICK told : told = TRUE
        OBVIOUS
      <4>2. /\ u \in Worlds /\ Deletes(w, u, s, g) /\ Strikes(w, u, g.members)
            /\ Posts(w, u, s, "disband", g.id)
        BY <1>1, <4>1, <4>t, DisbandFx
      <4>3. RowsOf(w.row, g.id) = {g.id}
        <5>1. \A y \in RowsOf(w.row, g.id) : y \in Player /\ w.row[y].party = g.id
          BY DEF RowsOf
        <5>2. \A y \in RowsOf(w.row, g.id) : at[y] # None
          BY <1>2, <5>1 DEF RowsFit
        <5>3. \A y \in RowsOf(w.row, g.id) : w.row[y].lead
          BY <2>3, <2>o, <3>1, <5>2 DEF Online
        <5>4. \A y \in RowsOf(w.row, g.id) : y = g.id
          BY <1>2, <5>1, <5>3 DEF RowsFit
        <5>5. g.id \in RowsOf(w.row, g.id)
          BY <1>1, <1>2, <2>2 DEF RowsOf
        <5> QED
          BY <5>4, <5>5
      <4>4. Agreed(u, at, d, None)
        BY <4>2, <4>3, LoneAgreed
      <4>5. u.row[p] = NoRow /\ u.row[p].party = None
        BY <1>1, <1>n, <4>2 DEF Strikes
      <4>6. Harmless(u)
        BY <2>2, <4>2, <4>5, LastPost
      <4> QED
        BY <4>2, <4>4, <4>5, <4>6 DEF Told
    <3>2. CASE heir # None
      <4>1. heir \in Player /\ w.row[heir].party = g.id /\ ~w.row[heir].lead
        BY <2>3, <2>o, <3>2 DEF RowsOf
      <4>2. heir # g.id
        BY <1>2, <4>1
      <4>l. PICK l : l = SetLeader(w, s, g, heir)
        OBVIOUS
      <4>k. PICK k : k = Led(g, heir)
        OBVIOUS
      <4>3. k \in Group /\ k.members = g.members /\ k.id = heir /\ k.lead \in {heir, None}
        BY <1>1, <4>1, <4>k, LedIs
      <4>4. u = Drop(l, s, k, p)
        <5>1. k.lead # p
          BY <2>2, <4>2, <4>3
        <5> QED
          BY <2>u, <3>2, <4>l, <4>k, <5>1 DEF RemovePartyLeader
      <4>5. Good(l, at, d)
        BY <1>1, <4>1, <4>l, SetLeaderGood
      <4>6. l \in Worlds /\ SameMail(w, l) /\ Swaps(w, l, s, g, Led(g, heir)) /\ Hands(w, l, g.id, heir)
        BY <1>1, <4>1, <4>l, SetLeaderFx
      <4>7. Agreed(l, at, d, heir) /\ k \in l.grp[s] /\ Fresh(l, k, p)
        BY <4>1, <4>2, <4>6, <4>k, HandoverAgreed
      <4>h. PICK h : h = [k EXCEPT !.members = k.members \ {p}]
        OBVIOUS
      <4>8. u \in Worlds /\ Swaps(l, u, s, k, h) /\ Posts(l, u, s, "reload", k.id) /\ Strikes(l, u, {p})
        BY <4>3, <4>4, <4>6, <4>h, DropFx
      <4>9. Agreed(u, at, d, heir)
        BY <2>2, <4>2, <4>3, <4>5, <4>7, <4>8, <4>h, DropAgreed
      <4>10. NewsOnly(l)
        BY <4>6 DEF NewsOnly, SameMail
      <4>11. NewsOnly(u) /\ Has(u.out[s], "reload", heir)
        BY <4>3, <4>8, <4>10, NewsPosts
      <4>12. u.row[p] = NoRow
        BY <1>1, <4>8 DEF Strikes
      <4>13. Harmless(u)
        BY <4>11, NewsHarmless
      <4> QED
        BY <4>1, <4>8, <4>9, <4>11, <4>12, <4>13 DEF Told
    <3> QED
      BY <3>1, <3>2
  <2>5. /\ Flag(u, {p}, TRUE).row = u.row /\ Flag(u, {p}, TRUE).grp = u.grp
        /\ SameMail(u, Flag(u, {p}, TRUE))
    BY <2>4, FlagUpFx
  <2>6. v.row = u.row /\ v.grp = u.grp /\ SameMail(u, v)
    BY <2>1, <2>5
  <2>7. Told(v, at, d)
    BY <2>4, <2>6, ToldSame
  <2> QED
    BY <2>4, <2>6, <2>7
<1> QED
  BY <1>3, <1>4

\* The news fits, at every moment.
Heard == Fit(World, inbox, at, dest)

\* What a request finds.
LEMMA SettledIs ==
  ASSUME Inv, Heard, Settled
  PROVE  /\ Good(World, at, dest) /\ Agreed(World, at, dest, None) /\ NewsOnly(World)
         /\ Silent(inbox) /\ Still(dest) /\ Unflagged(World, at, dest)
         /\ \A t \in Server : out[t] = << >> /\ inbox[t] = << >>
<1>1. /\ \A t \in Server : out[t] = << >> /\ inbox[t] = << >>
      /\ \A p \in Player : InZone(p) => ~flag[p]
      /\ Still(dest)
  BY DEF Settled, Quiet, Still
<1>2. World.out = out /\ World.flag = flag
  BY DEF World
<1>3. Good(World, at, dest)
  BY Found
<1>4. \A t \in Server : \A k, x : ~Has(World.out[t], k, x) /\ ~Has(inbox[t], k, x)
  BY <1>1, <1>2, HasNone
<1>5. Silent(inbox) /\ NewsOnly(World)
  BY <1>4 DEF Silent, NewsOnly
<1>6. \A k, x : ~Around(World.out, inbox, k, x)
  BY <1>4 DEF Around
<1>7. Unflagged(World, at, dest)
  BY <1>1, <1>2 DEF Unflagged, Flagged, InZone, Online, Stands
<1>8. Fit(World, inbox, at, dest)
  BY DEF Heard
<1>9. Agreed(World, at, dest, None)
  BY <1>1, <1>3, <1>6, <1>7, <1>8, AgreedOf
<1> QED
  BY <1>1, <1>3, <1>5, <1>7, <1>9

\* What a request leaves.
LEMMA ToldNext ==
  ASSUME Inv', NEW v, World' = v, Told(v, at', dest'), Silent(inbox')
  PROVE  Heard'
<1>a. PICK a2 : a2 = at'
  OBVIOUS
<1>d. PICK d2 : d2 = dest'
  OBVIOUS
<1>b. PICK b2 : b2 = inbox'
  OBVIOUS
<1>1. Good(v, a2, d2)
  BY <1>a, <1>d DEF Inv
<1>2. Fit(v, b2, a2, d2)
  BY <1>1, <1>a, <1>d, <1>b, ToldFit
<1> QED
  BY <1>2, <1>a, <1>d, <1>b DEF Heard

\* What a handler leaves that moves nobody and reads no mail.
LEMMA HandlerTold ==
  ASSUME Inv', Silent(inbox), NEW v, Become(v), v \in Worlds, Told(v, at, dest), UNCHANGED <<at, dest, inbox>>
  PROVE  Heard'
<1>1. World' = v
  BY BecomeIs
<1>2. at' = at /\ dest' = dest /\ inbox' = inbox
  OBVIOUS
<1>3. Told(v, at', dest') /\ Silent(inbox')
  BY <1>2
<1> QED
  BY <1>1, <1>3, ToldNext

\* The requests wait.
LEMMA Waits == ASSUME Hasty = {}, NEW kind, May(kind) PROVE Settled
BY DEF May

\* 0x06f GROUP_LEAVE.
LEMMA LeaveHeard == ASSUME Inv, Heard, Hasty = {}, NEW p \in Player, Leave(p) PROVE Heard'
<1>1. Settled
  BY Waits DEF Leave
<1>2. Inv'
  BY LeaveInv
<1>3. Good(World, at, dest) /\ Agreed(World, at, dest, None) /\ NewsOnly(World) /\ Silent(inbox)
  BY <1>1, SettledIs
<1>s. PICK s : s = ServerOf(p)
  OBVIOUS
<1>g. PICK g : g = PartyOf(World, s, p)
  OBVIOUS
<1>4. PICK heir \in Heirs(World, g) : Become(RemoveMember(World, s, g, p, heir))
  BY <1>s, <1>g DEF Leave
<1>5. s \in Server /\ HasParty(World, s, p)
  BY <1>s, StandsIs DEF Leave, InZone
<1>6. g \in World.grp[s] /\ p \in g.members
  BY <1>5, <1>g, PartyOfIs
<1>v. PICK v : v = RemoveMember(World, s, g, p, heir)
  OBVIOUS
<1>7. Told(v, at, dest)
  BY <1>3, <1>5, <1>6, <1>v, RemoveTold
<1>8. v \in Worlds
  BY <1>3, <1>5, <1>6, <1>v, HeirsAre, RemoveMemberGood DEF Good
<1> QED
  BY <1>2, <1>3, <1>4, <1>7, <1>8, <1>v, HandlerTold DEF Leave

\* 0x071 GROUP_STRIKE of a member here.
LEMMA KickHereHeard == ASSUME Inv, Heard, Hasty = {}, NEW p \in Player, NEW q \in Player, Kick(p, q) PROVE Heard'
<1>1. Settled
  BY Waits DEF Kick
<1>2. Inv'
  BY KickInv
<1>3. Good(World, at, dest) /\ Agreed(World, at, dest, None) /\ NewsOnly(World) /\ Silent(inbox)
  BY <1>1, SettledIs
<1>s. PICK s : s = ServerOf(p)
  OBVIOUS
<1>g. PICK g : g = PartyOf(World, s, p)
  OBVIOUS
<1>4. PICK heir \in Heirs(World, g) : Become(RemoveMember(World, s, g, q, heir))
  BY <1>s, <1>g DEF Kick
<1>5. s \in Server /\ g \in World.grp[s] /\ q \in g.members
  BY <1>s, <1>g, LeaderIs DEF Kick
<1>v. PICK v : v = RemoveMember(World, s, g, q, heir)
  OBVIOUS
<1>6. Told(v, at, dest)
  BY <1>3, <1>5, <1>v, RemoveTold
<1>7. v \in Worlds
  BY <1>3, <1>5, <1>v, HeirsAre, RemoveMemberGood DEF Good
<1> QED
  BY <1>2, <1>3, <1>4, <1>6, <1>7, <1>v, HandlerTold DEF Kick

\* The leader's object, where all agree.
LEMMA LeadsIs ==
  ASSUME Inv, Agreed(World, at, dest, None), NEW p \in Player, InZone(p), Leads(p), NEW s, s = ServerOf(p),
         NEW g, g = PartyOf(World, s, p)
  PROVE  /\ s \in Server /\ g \in World.grp[s] /\ g \in Group /\ p \in g.members /\ g.id = p /\ g.lead = p
         /\ row[p].lead /\ row[p].party = p
<1>1. s \in Server /\ g \in World.grp[s] /\ g \in Group /\ Good(World, at, dest) /\ World.row = row
  BY LeaderIs, Found
<1>2. p \in g.members /\ g.lead = p
  BY PartyOfIs DEF Leads
<1>3. g.lead = LeadOf(World, g) /\ World.row[p].party = g.id
  BY <1>1, <1>2, AllAgree
<1>4. p # None
  BY PartyAssumption
<1>5. LeadOf(World, g) # None => g.id \in g.members /\ World.row[g.id].lead /\ LeadOf(World, g) = g.id
  BY DEF LeadOf
<1> QED
  BY <1>1, <1>2, <1>3, <1>4, <1>5

\* 0x077 GROUP_CHANGE2, SetPartyLeader.
LEMMA PassLeadHeard == ASSUME Inv, Heard, Hasty = {}, NEW p \in Player, NEW q \in Player, PassLead(p, q) PROVE Heard'
<1>1. Settled
  BY Waits DEF PassLead
<1>2. Inv'
  BY PassLeadInv
<1>3. Good(World, at, dest) /\ Agreed(World, at, dest, None) /\ NewsOnly(World) /\ Silent(inbox) /\ World.row = row
      /\ World \in Worlds
  BY <1>1, SettledIs, Found
<1>s. PICK s : s = ServerOf(p)
  OBVIOUS
<1>g. PICK g : g = PartyOf(World, s, p)
  OBVIOUS
<1>4. s \in Server /\ g \in World.grp[s] /\ g \in Group /\ g.id = p
  BY <1>3, <1>s, <1>g, LeadsIs DEF PassLead
<1>5. World.row[q].party = g.id /\ q # g.id
  BY <1>3, <1>4, <1>s, <1>g DEF PassLead
<1>u. PICK u : u = SetLeader(World, s, g, q)
  OBVIOUS
<1>6. u \in Worlds /\ SameMail(World, u) /\ Swaps(World, u, s, g, Led(g, q)) /\ Hands(World, u, g.id, q)
  BY <1>3, <1>4, <1>5, <1>u, SetLeaderFx
<1>7. Agreed(u, at, dest, q) /\ NewsOnly(u)
  BY <1>3, <1>4, <1>5, <1>6, HandoverAgreed DEF NewsOnly, SameMail
<1>h. PICK h : h = Led(g, q)
  OBVIOUS
<1>8. h \in Group /\ h.id = q
  BY <1>4, <1>h, LedIs
<1>v. PICK v : v = Reload(u, s, h)
  OBVIOUS
<1>9. v \in Worlds /\ v.row = u.row /\ v.grp = u.grp /\ Posts(u, v, s, "reload", h.id)
  BY <1>4, <1>6, <1>8, <1>v, ReloadFx
<1>10. NewsOnly(v) /\ Has(v.out[s], "reload", q)
  BY <1>4, <1>7, <1>8, <1>9, NewsPosts
<1>11. Agreed(v, at, dest, q)
  BY <1>7, <1>9, SameAgreed
<1>12. Told(v, at, dest)
  BY <1>4, <1>10, <1>11, NewsHarmless DEF Told
<1>13. Become(v) /\ UNCHANGED <<at, dest, inbox>>
  BY <1>s, <1>g, <1>u, <1>h, <1>v DEF PassLead
<1> QED
  BY <1>2, <1>3, <1>9, <1>12, <1>13, HandlerTold

\* AddMember of one who has a row: it is kept.
LEMMA AddAgainFx ==
  ASSUME NEW w \in Worlds, NEW s \in Server, NEW g \in Group, NEW p \in Player, w.row[p].party # None,
         NEW v, v = AddMember(w, s, g, p)
  PROVE  /\ v \in Worlds /\ Swaps(w, v, s, g, With(g, p)) /\ Posts(w, v, s, "reload", g.id)
         /\ v.row = w.row
<1>h. PICK h : h = With(g, p)
  OBVIOUS
<1>0. h \in Group /\ g.id \in Player /\ h.members \subseteq Player
  BY <1>h DEF Group, With
<1>u. PICK u : u = Replace(w, s, g, h)
  OBVIOUS
<1>1. u \in Worlds /\ u.row = w.row /\ SameMail(w, u) /\ Regroups(w, u, s, g, h)
  BY <1>0, <1>u, ReplaceFx
<1>i. PICK i : i = Insert(u, p, g.id)
  OBVIOUS
<1>2. i = u
  BY <1>1, <1>i DEF Insert
<1>m. PICK m : m = Reload(i, s, g)
  OBVIOUS
<1>3. m \in Worlds /\ m.row = i.row /\ m.grp = i.grp /\ Posts(i, m, s, "reload", g.id)
  BY <1>1, <1>2, <1>m, ReloadFx
<1>t. PICK t : t = ReloadTreasurePool(m, h, p)
  OBVIOUS
<1>4. t \in Worlds /\ t.row = m.row /\ t.grp = m.grp /\ SameMail(m, t)
  BY <1>0, <1>3, <1>t, PoolFx
<1>5. v = Flag(t, {p}, TRUE)
  BY <1>h, <1>u, <1>i, <1>m, <1>t DEF AddMember, With
<1>6. v \in Worlds /\ v.row = t.row /\ v.grp = t.grp /\ SameMail(t, v)
  <2>1. /\ Flag(t, {p}, TRUE) \in Worlds /\ Flag(t, {p}, TRUE).row = t.row
        /\ Flag(t, {p}, TRUE).grp = t.grp /\ SameMail(t, Flag(t, {p}, TRUE))
    BY <1>4, FlagUpFx
  <2> QED
    BY <1>5, <2>1
<1>7. Swaps(w, v, s, g, h)
  <2>1. Regroups(w, v, s, g, h)
    BY <1>1, <1>2, <1>3, <1>4, <1>6 DEF Regroups
  <2> QED
    BY <2>1, SwapsIs
<1>8. Posts(w, v, s, "reload", g.id)
  BY <1>1, <1>2, <1>3, <1>4, <1>6 DEF Posts, SameMail
<1>9. v.row = w.row
  BY <1>1, <1>2, <1>3, <1>4, <1>6
<1> QED
  BY <1>6, <1>7, <1>8, <1>9, <1>h

\* An object that gives way to itself.
LEMMA SwapSelf ==
  ASSUME NEW w \in Worlds, NEW v \in Worlds, NEW s \in Server, NEW g \in w.grp[s], Swaps(w, v, s, g, g)
  PROVE  v.grp = w.grp
<1>1. w.grp \in [Server -> SUBSET Party] /\ v.grp \in [Server -> SUBSET Party]
  BY WorldIs
<1>2. g \in Party
  BY <1>1
<1>3. g.members # {}
  BY <1>2 DEF Party
<1>4. ASSUME NEW t \in Server PROVE v.grp[t] = w.grp[t]
  <2>1. \A k : k \in v.grp[t] <=> k \in w.grp[t]
    BY <1>3 DEF Swaps
  <2> QED
    BY <2>1
<1> QED
  BY <1>1, <1>4

\* A party with room.
LEMMA RoomIs ==
  ASSUME NEW w, NEW a, RowsFit(w, a), NEW g, g.id \in Player, ~IsFull(w, g)
  PROVE  Cardinality(RowsOf(w.row, g.id)) < Room
<1>1. IsFiniteSet(RowsOf(w.row, g.id))
  BY DEF RowsFit
<1>2. Cardinality(RowsOf(w.row, g.id)) \in Nat /\ Room \in Nat
  BY <1>1, FS_CardinalityType, PartyAssumption
<1>3. ~(Cardinality(RowsOf(w.row, g.id)) >= Room)
  BY DEF IsFull
<1> QED
  BY <1>2, <1>3

\* AddMember, where all agree: one who is in no object joins, one who is in this one stays.
LEMMA AddTold ==
  ASSUME NEW w, NEW d, Good(w, at, d), Agreed(w, at, d, None), NewsOnly(w), NEW s \in Server,
         NEW g \in w.grp[s], ~IsFull(w, g),
         NEW q \in Player, Stands(at, d, q), Host[at[q]] = s, q \in g.members \/ w.row[q].party = None,
         NEW v, v = AddMember(w, s, g, q)
  PROVE  Told(v, at, d)
<1>1. w \in Worlds /\ g \in Group /\ g.id \in Player /\ RowsFit(w, at)
  BY ObjectIs, AgreedIs
<1>2. Online(q)
  BY DEF Stands, Online
<1>3. CASE w.row[q].party = None
  <2>1. Swaps(w, v, s, g, With(g, q)) /\ Posts(w, v, s, "reload", g.id) /\ Writes(w, v, q, g.id)
    BY <1>1, <1>2, <1>3, AddMemberFx
  <2>2. Cardinality(RowsOf(w.row, g.id)) < Room
    BY <1>1, RoomIs
  <2>3. Agreed(v, at, d, None)
    BY <1>2, <1>3, <2>1, <2>2, AddAgreed DEF Online
  <2>4. Harmless(v)
    BY <2>1, NewsPosts, NewsHarmless
  <2> QED
    BY <2>3, <2>4 DEF Told
<1>4. CASE w.row[q].party # None
  <2>1. With(g, q) = g
    <3>1. g.members \cup {q} = g.members
      BY <1>4
    <3> QED
      BY <1>1, <3>1 DEF With, Group
  <2>2. v \in Worlds /\ Swaps(w, v, s, g, g) /\ Posts(w, v, s, "reload", g.id) /\ v.row = w.row
    BY <1>1, <1>4, <2>1, AddAgainFx
  <2>3. v.grp = w.grp
    BY <1>1, <2>2, SwapSelf
  <2>4. Agreed(v, at, d, None)
    BY <2>2, <2>3, SameAgreed
  <2>5. Harmless(v)
    BY <2>2, NewsPosts, NewsHarmless
  <2> QED
    BY <2>4, <2>5 DEF Told
<1> QED
  BY <1>3, <1>4

\* A letter from one player to another, when all have heard the news.
LEMMA LetterFit ==
  ASSUME NEW w, NEW b, NEW a, NEW d, Good(w, a, d), Agreed(w, a, d, None), Unflagged(w, a, d),
         \A t \in Server : w.out[t] = << >> /\ b[t] = << >>,
         NEW s \in Server, NEW kind \in {"invite", "answer"}, NEW who \in Player, NEW by \in Player,
         NEW v, v = Send(w, s, kind, who, by)
  PROVE  Fit(v, b, a, d)
<1>m. PICK m : m = [kind |-> kind, who |-> who, by |-> by]
  OBVIOUS
<1>0. kind \in Kinds /\ w \in Worlds /\ m \in Mail
  BY <1>m DEF Kinds, Mail, Good
<1>1. v.row = w.row /\ v.grp = w.grp /\ v.flag = w.flag /\ Posts(w, v, s, kind, who)
  BY <1>0, SendFx
<1>2. Agreed(v, a, d, None)
  BY <1>1, SameAgreed
<1>3. /\ RowsFit(v, a) /\ Uniform(v) /\ OneEach(v, a, d) /\ Clean(v) /\ Still(d)
      /\ \A t \in Server : \A g \in v.grp[t] : \A p \in g.members : v.row[p].party # None /\ Fresh(v, g, p)
      /\ \A p \in Player : v.row[p].party # None => Mates(v.grp[Host[a[p]]], p, p)
      /\ \A p \in Player : ~Leaderless(v, p)
  <2>1. Still(d) /\ RowsFit(v, a) /\ Uniform(v) /\ OneEach(v, a, d) /\ \A p \in Player : ~Leaderless(v, p)
    BY <1>2 DEF Agreed, Announced, Rooted
  <2>2. \A t \in Server : \A g \in v.grp[t] : \A p \in g.members : v.row[p].party # None /\ Fresh(v, g, p)
    BY <1>2 DEF Agreed, Announced
  <2>3. \A p \in Player : v.row[p].party # None => Mates(v.grp[Host[a[p]]], p, p)
    BY <1>2 DEF Agreed, Announced
  <2>4. Clean(v)
    BY <2>2 DEF Clean, Fresh
  <2> QED
    BY <2>1, <2>2, <2>3, <2>4
<1>4. News(v, b, a, d)
  BY <1>3 DEF News
<1>5. Calls(v, b, a, d) /\ Orphans(v, b, a, d)
  BY <1>3 DEF Calls, Orphans
<1>6. Alone(v.out, b)
  <2>1. w.out \in [Server -> Seq(Mail)]
    BY <1>0, WorldIs
  <2>2. v.out = [w.out EXCEPT ![s] = Append(w.out[s], m)]
    BY <1>0, <1>m DEF Send, Worlds
  <2>3. v.out[s] = Append(<< >>, m) /\ \A t \in Server : t # s => v.out[t] = << >>
    BY <2>1, <2>2
  <2>4. Len(v.out[s]) = 1
    BY <2>3
  <2> QED
    BY <2>3, <2>4 DEF Alone
<1>7. MailFits(v, b, a, d)
  <2>1. \A t \in Server : \A k, x : ~Has(w.out[t], k, x) /\ ~Has(b[t], k, x)
    BY HasNone
  <2>2. \A t \in Server : \A k, x : Has(v.out[t], k, x) => k = kind
    BY <1>1, <2>1 DEF Posts
  <2>3. \A x : ~Around(v.out, b, "kicked", x) /\ ~Around(v.out, b, "disband", x)
    BY <2>1, <2>2 DEF Around
  <2>4. Unflagged(v, a, d)
    BY <1>1 DEF Unflagged, Flagged
  <2> QED
    BY <1>3, <1>6, <2>1, <2>3, <2>4 DEF MailFits
<1> QED
  BY <1>3, <1>4, <1>5, <1>7 DEF Fit

\* What a handler leaves that moves nobody.
LEMMA FitNext ==
  ASSUME NEW v \in Worlds, Become(v), UNCHANGED <<at, dest>>, Fit(v, inbox', at, dest)
  PROVE  Heard'
<1>1. World' = v
  BY BecomeIs
<1>2. at' = at /\ dest' = dest
  OBVIOUS
<1> QED
  BY <1>1, <1>2 DEF Heard

\* 0x06e GROUP_SOLICIT_REQ.
LEMMA SolicitHeard == ASSUME Inv, Heard, Hasty = {}, NEW p \in Player, NEW q \in Player, Solicit(p, q) PROVE Heard'
<1>1. Settled
  BY Waits DEF Solicit
<1>2. /\ Good(World, at, dest) /\ Agreed(World, at, dest, None) /\ Unflagged(World, at, dest)
      /\ World \in Worlds /\ \A t \in Server : World.out[t] = << >> /\ inbox[t] = << >>
  BY <1>1, SettledIs, Found DEF World
<1>s. PICK s : s = ServerOf(p)
  OBVIOUS
<1>3. s \in Server
  BY <1>s, StandsIs DEF Solicit, InZone
<1>4. UNCHANGED <<at, dest, inbox>>
  BY DEF Solicit
<1>5. Become(World) \/ Become(Send(World, s, "invite", q, p))
  BY <1>s DEF Solicit
<1>6. CASE Become(World)
  BY <1>2, <1>4, <1>6, FitNext DEF Heard
<1>7. CASE Become(Send(World, s, "invite", q, p))
  <2>k. PICK kind \in {"invite", "answer"} : kind = "invite"
    OBVIOUS
  <2>v. PICK v : v = Send(World, s, kind, q, p)
    OBVIOUS
  <2>1. Fit(v, inbox, at, dest)
    BY <1>2, <1>3, <2>v, LetterFit
  <2>2. v \in Worlds
    BY <1>2, <1>3, <2>v, SendIs DEF Kinds
  <2> QED
    BY <1>4, <1>7, <2>k, <2>v, <2>1, <2>2, FitNext
<1> QED
  BY <1>5, <1>6, <1>7

\* 0x074 GROUP_SOLICIT_RES, refused.
LEMMA DeclineHeard == ASSUME Inv, Heard, NEW q \in Player, Decline(q) PROVE Heard'
<1>1. World \in Worlds
  BY Found
<1>2. Become(World) /\ UNCHANGED <<at, dest, inbox>>
  BY DEF Decline, Become, World
<1> QED
  BY <1>1, <1>2, FitNext DEF Heard

\* What a handler leaves that moves nobody and may read the last mail.
LEMMA ReaderTold ==
  ASSUME Inv', Silent(inbox'), NEW v, Become(v), v \in Worlds, Told(v, at, dest), UNCHANGED <<at, dest>>
  PROVE  Heard'
<1>1. World' = v
  BY BecomeIs
<1>2. at' = at /\ dest' = dest
  OBVIOUS
<1>3. Told(v, at', dest')
  BY <1>2
<1> QED
  BY <1>1, <1>3, ToldNext

\* A world where all agree and nothing is to be heard tells no lie.
LEMMA AgreedTold ==
  ASSUME NEW w, NEW a, NEW d, Agreed(w, a, d, None), NewsOnly(w)
  PROVE  Told(w, a, d)
BY NewsHarmless DEF Told

\* AddMember, where all agree, of one who has no party on his server.
LEMMA AcceptTold ==
  ASSUME NEW w0, NEW d, Good(w0, at, d), Agreed(w0, at, d, None), NewsOnly(w0), NEW s \in Server,
         NEW p \in Player, Stands(at, d, p), Host[at[p]] = s,
         NEW q \in Player, Stands(at, d, q), Host[at[q]] = s, ~HasParty(w0, s, q),
         NEW w, w = WithParty(w0, s, p), NEW g, g = PartyOf(w, s, p), ~IsFull(w, g),
         NEW v, v = AddMember(w, s, g, q)
  PROVE  Told(v, at, d) /\ v \in Worlds
<1>1. Good(w, at, d) /\ HasParty(w, s, p) /\ Newcomer(w0, w, s, p)
  BY WithPartyGood
<1>2. Agreed(w, at, d, None) /\ NewsOnly(w) /\ \A y \in Player : y # p => w.row[y] = w0.row[y]
  BY WithPartyAgreed
<1>3. g \in w.grp[s] /\ p \in g.members
  BY <1>1, PartyOfIs
<1>4. w0.row[q].party = None
  <2>1. ~Mates(w0.grp[s], q, q)
    BY PartyOfIs
  <2>2. w0.row[q].party # None => \E k \in w0.grp[Host[at[q]]] : q \in k.members /\ k.id = w0.row[q].party
    BY AllAgree
  <2> QED
    BY <2>1, <2>2 DEF Mates
<1>5. q \in g.members \/ w.row[q].party = None
  BY <1>2, <1>3, <1>4
<1>6. Told(v, at, d)
  BY <1>1, <1>2, <1>3, <1>5, AddTold
<1>7. w \in Worlds /\ g \in Group
  BY <1>1, <1>3, ObjectIs
<1>8. Online(q)
  BY DEF Online, Stands
<1>9. v \in Worlds
  <2>1. CASE w.row[q].party = None
    BY <1>7, <1>8, <2>1, AddMemberFx
  <2>2. CASE w.row[q].party # None
    BY <1>7, <2>2, AddAgainFx
  <2> QED
    BY <2>1, <2>2
<1> QED
  BY <1>6, <1>9

\* 0x074 GROUP_SOLICIT_RES, accepted.
LEMMA AcceptHeard == ASSUME Inv, Heard, Hasty = {}, NEW q \in Player, Accept(q) PROVE Heard'
<1>1. Settled
  BY Waits DEF Accept
<1>2. Inv'
  BY AcceptInv
<1>3. /\ Good(World, at, dest) /\ Agreed(World, at, dest, None) /\ NewsOnly(World) /\ Silent(inbox)
      /\ Unflagged(World, at, dest)
      /\ World \in Worlds /\ \A t \in Server : World.out[t] = << >> /\ inbox[t] = << >>
  BY <1>1, SettledIs, Found DEF World
<1>p. PICK p : p = pending[q]
  OBVIOUS
<1>s. PICK s : s = ServerOf(q)
  OBVIOUS
<1>4. s \in Server /\ Stands(at, dest, q) /\ Host[at[q]] = s
  BY <1>s, StandsIs DEF Accept, InZone
<1>5. p \in Player
  BY <1>p, Found DEF Accept
<1>6. p \in Hosted(s) => Stands(at, dest, p) /\ Host[at[p]] = s
  BY <1>4, <1>5, StandsIs
<1>7. UNCHANGED <<at, dest, inbox>>
  BY DEF Accept
<1>w. PICK w : w = WithParty(World, s, p)
  OBVIOUS
<1>g. PICK g : g = PartyOf(w, s, p)
  OBVIOUS
<1>8. \/ p \notin Hosted(s) /\ Become(Send(World, s, "answer", p, q))
      \/ Become(World)
      \/ p \in Hosted(s) /\ ~HasParty(World, s, q) /\ ~IsFull(w, g) /\ Become(AddMember(w, s, g, q))
      \/ p \in Hosted(s) /\ Become(w)
  BY <1>p, <1>s, <1>w, <1>g DEF Accept
<1>9. CASE p \notin Hosted(s) /\ Become(Send(World, s, "answer", p, q))
  <2>k. PICK kind \in {"invite", "answer"} : kind = "answer"
    OBVIOUS
  <2>v. PICK v : v = Send(World, s, kind, p, q)
    OBVIOUS
  <2>1. Fit(v, inbox, at, dest)
    BY <1>3, <1>4, <1>5, <2>v, LetterFit
  <2>2. v \in Worlds
    BY <1>3, <1>4, <1>5, <2>v, SendIs DEF Kinds
  <2> QED
    BY <1>7, <1>9, <2>k, <2>v, <2>1, <2>2, FitNext
<1>10. CASE Become(World)
  BY <1>3, <1>7, <1>10, FitNext DEF Heard
<1>11. CASE p \in Hosted(s) /\ ~HasParty(World, s, q) /\ ~IsFull(w, g) /\ Become(AddMember(w, s, g, q))
  <2>v. PICK v : v = AddMember(w, s, g, q)
    OBVIOUS
  <2>1. Told(v, at, dest) /\ v \in Worlds
    BY <1>3, <1>4, <1>5, <1>6, <1>w, <1>g, <1>11, <2>v, AcceptTold
  <2> QED
    BY <1>2, <1>3, <1>7, <1>11, <2>v, <2>1, HandlerTold
<1>12. CASE p \in Hosted(s) /\ Become(w)
  <2>1. Agreed(w, at, dest, None) /\ NewsOnly(w)
    BY <1>3, <1>4, <1>5, <1>6, <1>w, <1>12, WithPartyAgreed
  <2>2. w \in Worlds
    BY <1>3, <1>4, <1>5, <1>6, <1>w, <1>12, WithPartyGood DEF Good
  <2> QED
    BY <1>2, <1>3, <1>7, <1>12, <2>1, <2>2, AgreedTold, HandlerTold
<1> QED
  BY <1>8, <1>9, <1>10, <1>11, <1>12

\* A letter that is read is the only mail: its reader is in the same position as one who makes a request.
LEMMA LetterRead ==
  ASSUME Inv, Heard, NEW s \in Server, NEW kind \in {"invite", "answer"}, Receive(s, kind)
  PROVE  /\ Good(World, at, dest) /\ Agreed(World, at, dest, None) /\ NewsOnly(World) /\ Silent(inbox')
         /\ UNCHANGED <<at, dest>>
<1>1. Good(World, at, dest) /\ World \in Worlds /\ World.out = out /\ inbox \in [Server -> Seq(Mail)]
  BY Found DEF World
<1>m. PICK m : m = Head(inbox[s])
  OBVIOUS
<1>2. inbox[s] # << >> /\ m.kind = kind /\ m.who \in Player /\ UNCHANGED <<at, dest>>
      /\ inbox' = [inbox EXCEPT ![s] = Tail(inbox[s])]
  BY <1>m, ReceiveIs DEF Receive
<1>3. inbox[s] \in Seq(Mail)
  BY <1>1
<1>4. \A k, x : Has(inbox[s], k, x) <=> Has(Tail(inbox[s]), k, x) \/ (m.kind = k /\ m.who = x)
  BY <1>2, <1>3, <1>m, HasTail
<1>5. Around(World.out, inbox, kind, m.who)
  BY <1>2, <1>4 DEF Around
<1>6. Alone(World.out, inbox) /\ Still(dest) /\ Unflagged(World, at, dest)
  BY <1>2, <1>5 DEF Heard, Fit, MailFits
<1>7. /\ Len(inbox[s]) = 1 /\ \A t \in Server : World.out[t] = << >>
      /\ \A t \in Server : t # s => inbox[t] = << >>
  BY <1>2, <1>6 DEF Alone
<1>8. \A k, x : ~Has(Tail(inbox[s]), k, x)
  <2>1. Tail(inbox[s]) \in Seq(Mail) /\ Len(Tail(inbox[s])) = 0
    BY <1>2, <1>3, <1>7
  <2>r. PICK r \in Seq(Mail) : r = Tail(inbox[s])
    BY <2>1
  <2>2. DOMAIN r = 1..Len(r) /\ Len(r) = 0
    BY <2>1, <2>r
  <2>3. DOMAIN r = {}
    BY <2>2
  <2> QED
    BY <2>r, <2>3 DEF Has
<1>9. \A t \in Server : inbox'[t] = IF t = s THEN Tail(inbox[s]) ELSE << >>
  BY <1>1, <1>2, <1>7
<1>10. Silent(inbox')
  <2>1. \A t \in Server : \A k, x : ~Has(inbox'[t], k, x)
    BY <1>8, <1>9, HasNone
  <2> QED
    BY <2>1 DEF Silent
<1>11. NewsOnly(World)
  BY <1>7, HasNone DEF NewsOnly
<1>12. \A k, x : k # kind => ~Around(World.out, inbox, k, x)
  <2>1. \A t \in Server : \A k, x : ~Has(World.out[t], k, x)
    BY <1>7, HasNone
  <2>2. \A t \in Server : \A k, x : t # s => ~Has(inbox[t], k, x)
    BY <1>7, HasNone
  <2>3. \A k, x : k # kind => ~Has(inbox[s], k, x)
    BY <1>2, <1>4, <1>8
  <2> QED
    BY <2>1, <2>2, <2>3 DEF Around
<1>13. Agreed(World, at, dest, None)
  <2>1. kind # "kicked" /\ kind # "reload" /\ kind # "disband"
    OBVIOUS
  <2>2. Fit(World, inbox, at, dest)
    BY DEF Heard
  <2>3. \A y \in Player : ~Around(World.out, inbox, "kicked", y) /\ ~Around(World.out, inbox, "reload", y)
                           /\ ~Around(World.out, inbox, "disband", y)
    BY <1>12, <2>1
  <2> QED
    BY <1>1, <1>6, <2>2, <2>3, AgreedOf
<1> QED
  BY <1>1, <1>2, <1>10, <1>11, <1>13

\* 0x074 GROUP_SOLICIT_RES, accepted, as the inviter's server hears of it.
LEMMA OnAnswerHeard == ASSUME Inv, Heard, NEW s \in Server, OnAnswer(s) PROVE Heard'
<1>k. PICK kind \in {"invite", "answer"} : kind = "answer"
  OBVIOUS
<1>1. Inv'
  BY OnAnswerInv
<1>2. Receive(s, kind)
  BY <1>k DEF OnAnswer
<1>3. /\ Good(World, at, dest) /\ Agreed(World, at, dest, None) /\ NewsOnly(World) /\ Silent(inbox')
      /\ UNCHANGED <<at, dest>> /\ World \in Worlds
  BY <1>2, LetterRead, Found
<1>p. PICK p : p = Head(inbox[s]).who
  OBVIOUS
<1>q. PICK q : q = Head(inbox[s]).by
  OBVIOUS
<1>w. PICK w : w = WithParty(World, s, p)
  OBVIOUS
<1>g. PICK g : g = PartyOf(w, s, p)
  OBVIOUS
<1>4. p \in Player /\ q \in Player
  BY <1>2, <1>p, <1>q, ReceiveIs
<1>5. \/ Become(World)
      \/ /\ p \in Hosted(s) /\ g.lead = p /\ w.row[q].party = None /\ ~IsFull(w, g)
         /\ Become(Reload(Insert(w, q, g.id), s, g))
      \/ p \in Hosted(s) /\ Become(w)
  BY <1>p, <1>q, <1>w, <1>g DEF OnAnswer
<1>6. CASE Become(World)
  BY <1>1, <1>3, <1>6, AgreedTold, ReaderTold
<1>7. CASE p \in Hosted(s)
  <2>1. Stands(at, dest, p) /\ Host[at[p]] = s
    BY <1>4, <1>7, StandsIs
  <2>2. Good(w, at, dest) /\ HasParty(w, s, p) /\ w \in Worlds
    BY <1>3, <1>4, <1>w, <2>1, WithPartyGood DEF Good
  <2>3. Agreed(w, at, dest, None) /\ NewsOnly(w)
    BY <1>3, <1>4, <1>w, <2>1, WithPartyAgreed
  <2>4. CASE Become(w)
    BY <1>1, <1>3, <2>2, <2>3, <2>4, AgreedTold, ReaderTold
  <2>5. CASE /\ g.lead = p /\ w.row[q].party = None /\ ~IsFull(w, g)
             /\ Become(Reload(Insert(w, q, g.id), s, g))
    <3>i. PICK i : i = Insert(w, q, g.id)
      OBVIOUS
    <3>v. PICK v : v = Reload(i, s, g)
      OBVIOUS
    <3>1. g \in w.grp[s] /\ p \in g.members
      BY <1>g, <2>2, PartyOfIs
    <3>2. g \in Group /\ g.id \in Player /\ g.lead = LeadOf(w, g)
      BY <2>2, <2>3, <3>1, ObjectIs, AllAgree
    <3>3. w.row[g.id].lead
      BY <1>4, <2>5, <3>2, PartyAssumption DEF LeadOf
    <3>4. Cardinality(RowsOf(w.row, g.id)) < Room
      BY <2>3, <2>5, <3>2, RoomIs DEF Agreed, Announced
    <3>5. i \in Worlds /\ SameMail(w, i) /\ \E x \in {None, g.id} : Agreed(i, at, dest, x)
      <4>1. CASE Online(q)
        <5>1. i \in Worlds /\ i.grp = w.grp /\ SameMail(w, i) /\ Writes(w, i, q, g.id)
          BY <1>4, <2>2, <2>5, <3>2, <3>i, <4>1, InsertFx
        <5>2. at[q] # None
          BY <4>1 DEF Online
        <5>3. Agreed(i, at, dest, g.id)
          BY <1>4, <2>2, <2>3, <2>5, <3>2, <3>3, <3>4, <5>1, <5>2, InsertAgreed
        <5> QED
          BY <5>1, <5>3
      <4>2. CASE ~Online(q)
        <5>1. i = w
          BY <3>i, <4>2 DEF Insert
        <5> QED
          BY <2>2, <2>3, <5>1 DEF SameMail
      <4> QED
        BY <4>1, <4>2
    <3>6. v \in Worlds /\ v.row = i.row /\ v.grp = i.grp /\ Posts(i, v, s, "reload", g.id)
      BY <3>2, <3>5, <3>v, ReloadFx
    <3>7. NewsOnly(i)
      BY <2>3, <3>5 DEF NewsOnly, SameMail
    <3>8. NewsOnly(v) /\ Has(v.out[s], "reload", g.id)
      BY <3>6, <3>7, NewsPosts
    <3>9. PICK x \in {None, g.id} : Agreed(i, at, dest, x)
      BY <3>5
    <3>10. Agreed(v, at, dest, x)
      BY <3>6, <3>9, SameAgreed
    <3>11. Told(v, at, dest)
      BY <3>2, <3>8, <3>10, NewsHarmless DEF Told
    <3> QED
      BY <1>1, <1>3, <2>5, <3>i, <3>v, <3>6, <3>11, ReaderTold
  <2> QED
    BY <1>5, <1>6, <2>4, <2>5
<1> QED
  BY <1>5, <1>6, <1>7

\* One without a row comes or goes, and what is told stays told.
LEMMA ElsewhereTold ==
  ASSUME NEW w, NEW v, NEW a, NEW d, Good(w, a, d), Told(w, a, d), NEW p \in Player, w.row[p].party = None,
         NEW a2, NEW d2, Elsewhere(a, d, a2, d2, p), d2[p] = None,
         v.row = w.row, v.grp = w.grp, SameMail(w, v)
  PROVE  Told(v, a2, d2)
<1>1. PICK x \in Player \cup {None} :
        Agreed(w, a, d, x) /\ (x = None \/ \E s \in Server : Has(w.out[s], "reload", x))
  BY DEF Told
<1>2. Agreed(v, a2, d2, x)
  BY <1>1, ElsewhereAgreed
<1>3. Harmless(v)
  BY DEF Told, Harmless, SameMail
<1>4. x = None \/ \E s \in Server : Has(v.out[s], "reload", x)
  BY <1>1 DEF SameMail
<1> QED
  BY <1>2, <1>3, <1>4 DEF Told

\* removeCharFromZone in Shutdown.
LEMMA LogoutHeard == ASSUME Inv, Heard, Hasty = {}, NEW p \in Player, Logout(p) PROVE Heard'
<1>s. PICK s : s = ServerOf(p)
  OBVIOUS
<1>g. PICK g : g = PartyOf(World, s, p)
  OBVIOUS
<1>0. Settled
  BY Waits DEF Logout
<1>1. Inv'
  BY LogoutInv
<1>2. /\ Good(World, at, dest) /\ Agreed(World, at, dest, None) /\ NewsOnly(World) /\ Silent(inbox)
      /\ Still(dest) /\ World \in Worlds /\ at \in Places /\ dest \in Places
  BY <1>0, SettledIs, Found
<1>3. s \in Server /\ s = Host[at[p]] /\ at[p] # None
  BY <1>s, StandsIs DEF Logout, Online
<1>n. NoRow.party = None /\ NoRow \in Row /\ NoRow = [party |-> None, lead |-> FALSE]
  BY DEF NoRow, Row
<1>4. \E w : /\ Good(w, at, dest) /\ w \in Worlds /\ Told(w, at, dest) /\ w.row[p] = NoRow
             /\ Become([Flag(w, {p}, FALSE) EXCEPT !.row[p] = NoRow, !.pool = OutOfPool(@, p)])
  <2>1. CASE HasParty(World, s, p)
    <3>1. PICK heir \in Heirs(World, g) :
            Become([Flag(RemoveMember(World, s, g, p, heir), {p}, FALSE)
                      EXCEPT !.row[p] = NoRow, !.pool = OutOfPool(@, p)])
      BY <1>s, <1>g, <2>1 DEF Logout
    <3>2. heir \in Player \cup {None} /\ g \in World.grp[s] /\ p \in g.members
      BY <1>3, <1>g, <2>1, HeirsAre, OwnParty
    <3>w. PICK w : w = RemoveMember(World, s, g, p, heir)
      OBVIOUS
    <3>3. Good(w, at, dest) /\ w \in Worlds
      BY <1>2, <1>3, <3>2, <3>w, RemoveMemberGood DEF Good
    <3>4. Told(w, at, dest) /\ w.row[p] = NoRow
      BY <1>2, <1>3, <3>2, <3>w, RemoveTold
    <3> QED
      BY <3>1, <3>3, <3>4, <3>w
  <2>2. CASE ~HasParty(World, s, p)
    <3>1. Become([Flag(World, {p}, FALSE) EXCEPT !.row[p] = NoRow, !.pool = OutOfPool(@, p)])
      BY <1>s, <1>g, <2>2 DEF Logout
    <3>2. ~Mates(World.grp[s], p, p)
      BY <2>2, PartyOfIs
    <3>3. World.row[p].party = None
      <4>1. World.row[p].party # None =>
              \E k \in World.grp[Host[at[p]]] : p \in k.members /\ k.id = World.row[p].party
        BY <1>2, AllAgree
      <4> QED
        BY <1>3, <3>2, <4>1 DEF Mates
    <3>4. World.row[p].lead = FALSE
      <4>1. World.row[p].lead => World.row[p].party = p
        BY <1>2 DEF Agreed, Announced, RowsFit
      <4>2. p # None
        BY PartyAssumption
      <4>3. World.row[p].lead \in BOOLEAN
        BY <1>2, WorldIs DEF Row
      <4> QED
        BY <3>3, <4>1, <4>2, <4>3
    <3>5. World.row[p] = NoRow
      <4>1. World.row[p] \in Row
        BY <1>2, WorldIs
      <4> QED
        BY <1>n, <3>3, <3>4, <4>1 DEF Row
    <3> QED
      BY <1>2, <3>1, <3>5, AgreedTold
  <2> QED
    BY <2>1, <2>2
<1>5. PICK w : /\ Good(w, at, dest) /\ w \in Worlds /\ Told(w, at, dest) /\ w.row[p] = NoRow
               /\ Become([Flag(w, {p}, FALSE) EXCEPT !.row[p] = NoRow, !.pool = OutOfPool(@, p)])
  BY <1>4
<1>f. PICK f : f = Flag(w, {p}, FALSE)
  OBVIOUS
<1>6. f \in Worlds /\ f.row = w.row /\ f.grp = w.grp /\ SameMail(w, f)
  <2>1. /\ Flag(w, {p}, FALSE) \in Worlds /\ Flag(w, {p}, FALSE).row = w.row
        /\ Flag(w, {p}, FALSE).grp = w.grp /\ SameMail(w, Flag(w, {p}, FALSE))
    BY <1>5, FlagDownFx
  <2> QED
    BY <1>f, <2>1
<1>r. PICK r : r = WithRow(f, p, NoRow)
  OBVIOUS
<1>7. r \in Worlds /\ r.grp = w.grp /\ SameMail(w, r) /\ r.row = w.row /\ r.pool = f.pool
  <2>0. NoRow \in Row
    BY <1>n
  <2>m. PICK none : none = NoRow
    OBVIOUS
  <2>1. r \in Worlds /\ r.grp = f.grp /\ SameMail(f, r) /\ r.row = [f.row EXCEPT ![p] = none]
    BY <1>6, <2>0, <2>m, <1>r, RowFx
  <2>3. r.pool = f.pool
    BY <1>6, <1>r DEF WithRow, Worlds
  <2>2. f.row \in [Player -> Row] /\ f.row[p] = NoRow
    BY <1>5, <1>6, WorldIs
  <2> QED
    BY <1>6, <2>m, <2>1, <2>2, <2>3 DEF SameMail
<1>v. PICK v : v = [r EXCEPT !.pool = OutOfPool(r.pool, p)]
  OBVIOUS
<1>8. OutOfPool(r.pool, p) \in SUBSET SUBSET Player
  BY <1>7, WorldIs DEF OutOfPool
<1>9. v \in Worlds /\ v.grp = w.grp /\ v.row = w.row /\ SameMail(w, v)
  BY <1>7, <1>8, <1>v DEF Worlds, SameMail
<1>10. v = [f EXCEPT !.row[p] = NoRow, !.pool = OutOfPool(@, p)]
  BY <1>6, <1>7, <1>v, <1>r DEF WithRow
<1>11. World' = v
  BY <1>5, <1>9, <1>10, <1>f, BecomeIs
<1>12. at' = [at EXCEPT ![p] = None] /\ dest' = [dest EXCEPT ![p] = None] /\ inbox' = inbox
  BY DEF Logout
<1>13. Elsewhere(at, dest, at', dest', p) /\ dest'[p] = None
  BY <1>2, <1>12 DEF Elsewhere, Places
<1>a. PICK a2 : a2 = at'
  OBVIOUS
<1>d. PICK d2 : d2 = dest'
  OBVIOUS
<1>14. Told(v, a2, d2)
  BY <1>5, <1>9, <1>13, <1>a, <1>d, <1>n, ElsewhereTold
<1> QED
  BY <1>1, <1>2, <1>11, <1>12, <1>14, <1>a, <1>d, ToldNext

\* A character logs in.
LEMMA LoginHeard == ASSUME Inv, Heard, Hasty = {}, NEW p \in Player, NEW z \in Zone, Login(p, z) PROVE Heard'
<1>0. Settled
  BY Waits DEF Login
<1>1. Inv'
  BY LoginInv
<1>2. /\ Good(World, at, dest) /\ Agreed(World, at, dest, None) /\ NewsOnly(World) /\ Silent(inbox)
      /\ World \in Worlds /\ at \in Places /\ dest \in Places
  BY <1>0, SettledIs, Found
<1>3. at[p] = None /\ dest[p] = None
  BY DEF Inv, Login, Online
<1>4. World.row[p].party = None
  BY <1>2, <1>3 DEF Agreed, Announced, RowsFit
<1>v. PICK v : v = [World EXCEPT !.pool = pool \cup {{p}}, !.flag = [flag EXCEPT ![p] = TRUE]]
  OBVIOUS
<1>5. v.row = World.row /\ v.grp = World.grp /\ SameMail(World, v)
  BY <1>v DEF World, SameMail
<1>6. World' = v
  BY <1>v DEF World, Login
<1>7. at' = [at EXCEPT ![p] = z] /\ UNCHANGED <<dest, inbox>> /\ z # None
  BY PartyAssumption DEF Login
<1>8. Elsewhere(at, dest, at', dest', p) /\ dest'[p] = None
  BY <1>2, <1>3, <1>7 DEF Elsewhere, Places
<1>a. PICK a2 : a2 = at'
  OBVIOUS
<1>d. PICK d2 : d2 = dest'
  OBVIOUS
<1>9. Told(World, at, dest)
  BY <1>2, AgreedTold
<1>10. Told(v, a2, d2)
  BY <1>2, <1>4, <1>5, <1>8, <1>9, <1>a, <1>d, ElsewhereTold
<1> QED
  BY <1>1, <1>2, <1>6, <1>7, <1>10, <1>a, <1>d, ToldNext

-----------------------------------------------------------------------------
(* The end of a party.                                                       *)
\* Nobody has written to another.
NoLetters(o, b) == \A x \in Player : ~Around(o, b, "invite", x) /\ ~Around(o, b, "answer", x)

\* The mail of v is that of w, and perhaps the end of parties that have none.
Closes(w, v) == \A t \in Server : \A k, y :
  /\ Has(w.out[t], k, y) => Has(v.out[t], k, y)
  /\ Has(v.out[t], k, y) => Has(w.out[t], k, y) \/ (k = "disband" /\ v.row[y].party = None)

\* An object is deleted, and its members lose their rows: the world still fits the news, if those who
\* have lost their leader hear of it.
LEMMA DeletedFit ==
  ASSUME NEW w, NEW b, NEW a, NEW d, Good(w, a, d), Fit(w, b, a, d), NoLetters(w.out, b),
         NEW s \in Server, NEW g \in w.grp[s],
         NEW v, Deletes(w, v, s, g), Strikes(w, v, g.members), Closes(w, v),
         \A y \in Player : y \notin g.members => (Flagged(v, y) <=> Flagged(w, y)),
         \A y \in Player : Leaderless(v, y) /\ ~Leaderless(w, y) =>
           /\ Still(d) /\ Clean(w) /\ ~Flagged(w, y)
           /\ ~Around(w.out, b, "reload", v.row[y].party)
           /\ Coming(v.out, b, Host[a[y]], "disband", v.row[y].party)
  PROVE  Fit(v, b, a, d)
<1>1. /\ w \in Worlds /\ RowsFit(w, a) /\ Uniform(w) /\ OneEach(w, a, d) /\ (Clean(w) \/ (Still(d) /\ Gathered(w, a)))
      /\ News(w, b, a, d) /\ Calls(w, b, a, d) /\ Orphans(w, b, a, d) /\ MailFits(w, b, a, d)
  BY DEF Fit, Good
<1>2. g.members \subseteq Player
  BY ObjectIs
<1>n. NoRow.party = None /\ ~NoRow.lead
  BY DEF NoRow
<1>3. /\ \A y \in Player : y \in g.members => v.row[y].party = None /\ ~v.row[y].lead
      /\ \A y \in Player : y \notin g.members => v.row[y] = w.row[y]
  BY <1>n DEF Strikes
<1>4. \A t \in Server : \A k \in v.grp[t] : k \in w.grp[t] /\ \A y \in k.members : y \in Player /\ y \notin g.members
  <2> SUFFICES ASSUME NEW t \in Server, NEW k \in v.grp[t]
               PROVE  k \in w.grp[t] /\ \A y \in k.members : y \in Player /\ y \notin g.members
    OBVIOUS
  <2>1. k \in w.grp[t] /\ ~(t = s /\ k = g)
    BY DEF Deletes
  <2>2. ASSUME NEW y \in k.members PROVE y \in Player /\ y \notin g.members
    BY <2>1, OneObject
  <2> QED
    BY <2>1, <2>2
<1>5. RowsFit(v, a)
  BY <1>1, StrikesRows
<1>6. Uniform(v)
  <2> SUFFICES ASSUME NEW t \in Server, NEW k \in v.grp[t], NEW y \in k.members, NEW z \in k.members
               PROVE  v.row[y].party = v.row[z].party /\ (v.row[y].party = None => y = z)
    BY DEF Uniform
  <2>1. k \in w.grp[t] /\ v.row[y] = w.row[y] /\ v.row[z] = w.row[z]
    BY <1>3, <1>4
  <2> QED
    BY <1>1, <2>1 DEF Uniform
<1>7. OneEach(v, a, d)
  <2> SUFFICES ASSUME NEW t \in Server, NEW k \in v.grp[t], NEW l \in v.grp[t], NEW y \in k.members, NEW z \in l.members,
                      Stands(a, d, y), Stands(a, d, z), v.row[y].party = v.row[z].party, v.row[y].party # None
               PROVE  k = l
    BY DEF OneEach
  <2>1. k \in w.grp[t] /\ l \in w.grp[t] /\ v.row[y] = w.row[y] /\ v.row[z] = w.row[z]
    BY <1>3, <1>4
  <2> QED
    BY <1>1, <2>1 DEF OneEach
<1>8. Clean(w) => Clean(v)
  <2> SUFFICES ASSUME Clean(w), NEW t \in Server, NEW k \in v.grp[t], NEW y \in k.members PROVE k.id = v.row[y].party
    BY DEF Clean
  <2>1. k \in w.grp[t] /\ v.row[y] = w.row[y]
    BY <1>3, <1>4
  <2> QED
    BY <2>1 DEF Clean
<1>9. \A y \in Player : v.row[y].party # None => y \notin g.members /\ v.row[y] = w.row[y] /\ w.row[y].party # None
  BY <1>3
<1>10. ASSUME NEW y \in Player, NEW t \in Server, y \notin g.members
       PROVE  Mates(w.grp[t], y, y) => Mates(v.grp[t], y, y)
  <2> SUFFICES ASSUME NEW k \in w.grp[t], y \in k.members PROVE k \in v.grp[t]
    BY DEF Mates
  <2>1. k # g
    BY <1>10
  <2> QED
    BY <2>1 DEF Deletes
<1>11. \A y \in Player : v.row[y].party # None => Host[a[y]] \in Server
  BY <1>1, <1>9, StandServer DEF RowsFit
<1>12. Gathered(w, a) => Gathered(v, a)
  BY <1>9, <1>10, <1>11 DEF Gathered
<1>13. \A t \in Server : \A k, y : Coming(w.out, b, t, k, y) => Coming(v.out, b, t, k, y)
  BY DEF Coming, Closes
<1>14. News(v, b, a, d)
  <2> SUFFICES ASSUME NEW t \in Server, NEW k \in v.grp[t], NEW y \in k.members, Stands(a, d, y)
               PROVE  IF v.row[y].party = None
                      THEN k.lead = None /\ (Flagged(v, y) \/ Coming(v.out, b, t, "kicked", y))
                      ELSE \/ Fresh(v, k, y)
                           \/ \E q \in k.members : Stands(a, d, q) /\ Flagged(v, q)
                           \/ Coming(v.out, b, t, "reload", v.row[y].party)
    BY DEF News
  <2>1. k \in w.grp[t] /\ v.row[y] = w.row[y] /\ \A z \in k.members : z \in Player /\ z \notin g.members
    BY <1>3, <1>4
  <2>2. \A z \in k.members : v.row[z] = w.row[z] /\ (Flagged(v, z) <=> Flagged(w, z))
    BY <1>3, <2>1
  <2>3. Fresh(w, k, y) => Fresh(v, k, y)
    <3>1. LeadOf(v, k) = LeadOf(w, k)
      BY <2>2 DEF LeadOf
    <3> QED
      BY <2>1, <3>1 DEF Fresh
  <2>4. IF w.row[y].party = None
        THEN k.lead = None /\ (Flagged(w, y) \/ Coming(w.out, b, t, "kicked", y))
        ELSE \/ Fresh(w, k, y)
             \/ \E q \in k.members : Stands(a, d, q) /\ Flagged(w, q)
             \/ Coming(w.out, b, t, "reload", w.row[y].party)
    BY <1>1, <2>1 DEF News
  <2> QED
    BY <1>13, <2>1, <2>2, <2>3, <2>4
<1>15. Calls(v, b, a, d)
  <2> SUFFICES ASSUME NEW y \in Player, Stands(a, d, y), v.row[y].party # None, ~Mates(v.grp[Host[a[y]]], y, y)
               PROVE  Flagged(v, y) \/ Coming(v.out, b, Host[a[y]], "reload", v.row[y].party)
    BY DEF Calls
  <2>1. y \notin g.members /\ v.row[y] = w.row[y] /\ Host[a[y]] \in Server
    BY <1>9, <1>11
  <2>2. ~Mates(w.grp[Host[a[y]]], y, y)
    BY <1>10, <2>1
  <2>3. Flagged(w, y) \/ Coming(w.out, b, Host[a[y]], "reload", w.row[y].party)
    BY <1>1, <2>1, <2>2 DEF Calls
  <2> QED
    BY <1>13, <2>1, <2>3
<1>16. \A y \in Player : ~Around(w.out, b, "reload", y) => ~Around(v.out, b, "reload", y)
  BY DEF Around, Closes
<1>17. Orphans(v, b, a, d)
  <2> SUFFICES ASSUME NEW y \in Player, Leaderless(v, y)
               PROVE  /\ Still(d) /\ Clean(v) /\ ~Flagged(v, y)
                      /\ ~Around(v.out, b, "reload", v.row[y].party)
                      /\ Coming(v.out, b, Host[a[y]], "disband", v.row[y].party)
    BY DEF Orphans
  <2>1. y \notin g.members /\ v.row[y] = w.row[y] /\ Host[a[y]] \in Server /\ v.row[y].party \in Player
    <3>1. v.row[y].party # None
      BY DEF Leaderless
    <3>2. w.row[y] \in Row
      BY <1>1, WorldIs
    <3> QED
      BY <1>9, <1>11, <3>1, <3>2 DEF Row
  <2>2. Flagged(v, y) <=> Flagged(w, y)
    BY <2>1
  <2>3. CASE Leaderless(w, y)
    <3>1. /\ Still(d) /\ Clean(w) /\ ~Flagged(w, y)
          /\ ~Around(w.out, b, "reload", w.row[y].party)
          /\ Coming(w.out, b, Host[a[y]], "disband", w.row[y].party)
      BY <1>1, <2>3 DEF Orphans
    <3> QED
      BY <1>8, <1>13, <1>16, <2>1, <2>2, <3>1
  <2>4. CASE ~Leaderless(w, y)
    BY <1>8, <1>16, <2>1, <2>2, <2>4
  <2> QED
    BY <2>3, <2>4
<1>18. MailFits(v, b, a, d)
  <2>1. \A y \in Player : Around(v.out, b, "kicked", y) => Around(w.out, b, "kicked", y)
    BY DEF Around, Closes
  <2>2. \A y \in Player : Around(v.out, b, "disband", y) => Around(w.out, b, "disband", y) \/ v.row[y].party = None
    BY DEF Around, Closes
  <2>3. NoLetters(v.out, b)
    BY DEF NoLetters, Around, Closes
  <2>4. \A y \in Player : w.row[y].party = None => v.row[y].party = None
    BY <1>3
  <2> QED
    BY <1>1, <1>8, <2>1, <2>2, <2>3, <2>4 DEF MailFits, NoLetters
<1> QED
  BY <1>1, <1>5, <1>6, <1>7, <1>8, <1>12, <1>14, <1>15, <1>17, <1>18 DEF Fit

\* 0x070 GROUP_BREAKUP.
LEMMA BreakupHeard == ASSUME Inv, Heard, Hasty = {}, NEW p \in Player, Breakup(p) PROVE Heard'
<1>1. Settled
  BY Waits DEF Breakup
<1>2. /\ Good(World, at, dest) /\ Agreed(World, at, dest, None) /\ Unflagged(World, at, dest) /\ Still(dest)
      /\ World.row = row /\ World \in Worlds /\ NewsOnly(World)
      /\ \A t \in Server : World.out[t] = << >> /\ inbox[t] = << >>
  BY <1>1, SettledIs, Found DEF World
<1>w. PICK w : w = World
  OBVIOUS
<1>s. PICK s : s = ServerOf(p)
  OBVIOUS
<1>g. PICK g : g = PartyOf(World, s, p)
  OBVIOUS
<1>3. s \in Server /\ g \in w.grp[s] /\ g \in Group /\ g.id = p /\ p \in g.members
  BY <1>2, <1>s, <1>g, <1>w, LeadsIs DEF Breakup
<1>t. PICK told \in BOOLEAN : told = TRUE
  OBVIOUS
<1>v. PICK v : v = DisbandParty(w, s, g, told)
  OBVIOUS
<1>4. /\ v \in Worlds /\ Deletes(w, v, s, g) /\ Strikes(w, v, g.members) /\ Raises(w, v, g.members)
      /\ Posts(w, v, s, "disband", p)
  BY <1>2, <1>3, <1>t, <1>v, <1>w, DisbandFx
<1>5. v.row[p].party = None
  BY <1>3, <1>4 DEF Strikes, NoRow
<1>6. Closes(w, v)
  BY <1>4, <1>5 DEF Closes, Posts
<1>7. \A k, x : ~Around(w.out, inbox, k, x)
  BY <1>2, <1>w, HasNone DEF Around
<1>8. \A y \in Player : y \notin g.members => (Flagged(v, y) <=> Flagged(w, y))
  BY <1>4 DEF Raises
<1>9. Agreed(w, at, dest, None) /\ Clean(w) /\ Good(w, at, dest) /\ Fit(w, inbox, at, dest)
  BY <1>2, <1>w, AllAgree DEF Heard
<1>10. ASSUME NEW y \in Player, Leaderless(v, y)
       PROVE  /\ Still(dest) /\ Clean(w) /\ ~Flagged(w, y)
              /\ ~Around(w.out, inbox, "reload", v.row[y].party)
              /\ Coming(v.out, inbox, Host[at[y]], "disband", v.row[y].party)
  <2>1. v.row[y].party # None /\ ~v.row[v.row[y].party].lead
    BY <1>10 DEF Leaderless
  <2>2. y \notin g.members /\ v.row[y] = w.row[y]
    BY <1>4, <2>1 DEF Strikes, NoRow
  <2>x. PICK x : x = w.row[y].party
    OBVIOUS
  <2>3. x \in Player /\ w.row[x].lead /\ w.row[x].party = x /\ at[y] # None
    BY <1>9, <2>1, <2>2, <2>x, AgreedIs, AllAgree
  <2>4. x \in g.members
    BY <1>4, <2>1, <2>2, <2>3, <2>x DEF Strikes
  <2>5. x = p
    BY <1>3, <1>9, <2>3, <2>4, AllAgree
  <2>6. Stands(at, dest, y)
    BY <1>2, <2>3 DEF Stands, Still
  <2>7. ~Flagged(w, y)
    BY <1>2, <1>w, <2>6 DEF Unflagged
  <2>8. Has(v.out[s], "disband", p)
    BY <1>3, <1>4 DEF Posts
  <2>9. Coming(v.out, inbox, Host[at[y]], "disband", v.row[y].party)
    BY <1>3, <2>2, <2>5, <2>8, <2>x DEF Coming
  <2> QED
    BY <1>2, <1>7, <1>9, <2>7, <2>9
<1>11. Fit(v, inbox, at, dest)
  <2>1. NoLetters(w.out, inbox)
    BY <1>7 DEF NoLetters
  <2> QED
    BY <1>3, <1>4, <1>6, <1>8, <1>9, <1>10, <2>1, DeletedFit
<1>12. Become(v) /\ UNCHANGED <<at, dest, inbox>>
  BY <1>s, <1>g, <1>t, <1>v, <1>w DEF Breakup
<1> QED
  BY <1>4, <1>11, <1>12, FitNext

\* 0x071 GROUP_STRIKE of a member elsewhere: his object waits for the letter, the others for the news.
LEMMA KickAwayHeard ==
  ASSUME Inv, Heard, Hasty = {}, NEW p \in Player, NEW q \in Player, KickAway(p, q), Lonely(q)
  PROVE  Heard'
<1>1. Settled
  BY Waits DEF KickAway
<1>2. /\ Good(World, at, dest) /\ Agreed(World, at, dest, None) /\ Unflagged(World, at, dest) /\ Still(dest)
      /\ World.row = row /\ World.grp = grp /\ World \in Worlds /\ NewsOnly(World) /\ Silent(inbox)
  BY <1>1, SettledIs, Found DEF World
<1>w. PICK w : w = World
  OBVIOUS
<1>s. PICK s : s = ServerOf(p)
  OBVIOUS
<1>g. PICK g : g = PartyOf(World, s, p)
  OBVIOUS
<1>3. s \in Server /\ g \in w.grp[s] /\ g \in Group /\ g.id = p /\ p \in g.members
  BY <1>2, <1>s, <1>g, <1>w, LeadsIs DEF KickAway
<1>4. /\ q \notin g.members /\ w.row[q].party = p
      /\ \A h \in w.grp[ServerOf(q)] : q \in h.members => h.members = {q}
  BY <1>2, <1>s, <1>g, <1>w DEF KickAway, Lonely
<1>5. /\ w \in Worlds /\ Good(w, at, dest) /\ Agreed(w, at, dest, None) /\ RowsFit(w, at) /\ Rooted(w)
      /\ Uniform(w) /\ OneEach(w, at, dest) /\ NewsOnly(w)
      /\ \A y \in Player : w.row[y].party # None =>
           /\ w.row[y].party \in Player /\ w.row[w.row[y].party].lead
           /\ at[y] # None /\ \E k \in w.grp[Host[at[y]]] : y \in k.members /\ k.id = w.row[y].party
  BY <1>2, <1>w, AgreedIs, AllAgree
<1>6. \A t \in Server : \A k \in w.grp[t] : \A y \in k.members :
        y \in Player /\ k.id = w.row[y].party /\ k.id # None /\ k.lead = LeadOf(w, k)
  BY <1>5, AgreedIs, AllAgree
<1>7. p # q /\ ~w.row[q].lead
  BY <1>3, <1>4, <1>5 DEF RowsFit
<1>8. \A t \in Server : \A k \in w.grp[t] : q \in k.members => k.members = {q}
  <2> SUFFICES ASSUME NEW t \in Server, NEW k \in w.grp[t], q \in k.members PROVE k.members = {q}
    OBVIOUS
  <2>1. Host[at[q]] = t
    BY <1>5, OneObject
  <2> QED
    BY <1>4, <2>1 DEF ServerOf
<1>u. PICK u : u = WithRow(w, q, NoRow)
  OBVIOUS
<1>n. NoRow \in Row /\ NoRow.party = None /\ ~NoRow.lead
  BY DEF NoRow, Row
<1>9. u \in Worlds /\ u.grp = w.grp /\ u.flag = w.flag /\ SameMail(w, u) /\ Strikes(w, u, {q})
  <2>m. PICK none \in Row : none = NoRow
    BY <1>n
  <2>1. u \in Worlds /\ u.grp = w.grp /\ u.flag = w.flag /\ SameMail(w, u) /\ u.row = [w.row EXCEPT ![q] = none]
    BY <1>5, <1>u, <2>m, RowFx
  <2>2. w.row \in [Player -> Row]
    BY <1>5, WorldIs
  <2> QED
    BY <2>m, <2>1, <2>2 DEF Strikes
<1>m. PICK m : m = Reload(u, s, g)
  OBVIOUS
<1>10. m \in Worlds /\ m.row = u.row /\ m.grp = u.grp /\ m.flag = u.flag /\ Posts(u, m, s, "reload", p)
  BY <1>3, <1>9, <1>m, ReloadFx
<1>k. PICK kind \in Kinds : kind = "kicked"
  BY DEF Kinds
<1>v. PICK v : v = Send(m, s, kind, q, q)
  OBVIOUS
<1>11. v \in Worlds /\ v.row = m.row /\ v.grp = m.grp /\ v.flag = m.flag /\ Posts(m, v, s, kind, q)
  BY <1>3, <1>10, <1>v, SendFx
<1>12. /\ v.row[q] = NoRow /\ \A y \in Player : y # q => v.row[y] = w.row[y]
       /\ v.grp = w.grp /\ v.flag = w.flag /\ Strikes(w, v, {q})
  BY <1>9, <1>10, <1>11 DEF Strikes
<1>13. \A t \in Server : \A k, x : Has(v.out[t], k, x) <=>
         Has(w.out[t], k, x) \/ (t = s /\ k = "reload" /\ x = p) \/ (t = s /\ k = "kicked" /\ x = q)
  BY <1>k, <1>9, <1>10, <1>11 DEF Posts, SameMail
<1>14. RowsFit(v, at)
  BY <1>5, <1>12, StrikesRows
<1>15. Uniform(v)
  <2> SUFFICES ASSUME NEW t \in Server, NEW k \in v.grp[t], NEW y \in k.members, NEW z \in k.members
               PROVE  v.row[y].party = v.row[z].party /\ (v.row[y].party = None => y = z)
    BY DEF Uniform
  <2>1. k \in w.grp[t] /\ y \in Player /\ z \in Player /\ w.row[y].party = w.row[z].party /\ w.row[y].party # None
    BY <1>5, <1>6, <1>12 DEF Uniform
  <2>2. CASE y = q \/ z = q
    BY <1>8, <2>1, <2>2
  <2>3. CASE ~(y = q \/ z = q)
    BY <1>12, <2>1, <2>3
  <2> QED
    BY <2>2, <2>3
<1>16. OneEach(v, at, dest)
  <2> SUFFICES ASSUME NEW t \in Server, NEW k \in v.grp[t], NEW l \in v.grp[t], NEW y \in k.members, NEW z \in l.members,
                      Stands(at, dest, y), Stands(at, dest, z), v.row[y].party = v.row[z].party, v.row[y].party # None
               PROVE  k = l
    BY DEF OneEach
  <2>1. k \in w.grp[t] /\ l \in w.grp[t] /\ y \in Player /\ z \in Player
    BY <1>6, <1>12
  <2>2. y # q /\ z # q
    BY <1>n, <1>12
  <2> QED
    BY <1>5, <1>12, <2>1, <2>2 DEF OneEach
<1>17. Gathered(v, at)
  <2> SUFFICES ASSUME NEW y \in Player, v.row[y].party # None PROVE Mates(v.grp[Host[at[y]]], y, y)
    BY DEF Gathered
  <2>1. y # q /\ w.row[y].party # None
    BY <1>n, <1>12
  <2> QED
    BY <1>5, <1>12, <2>1 DEF Mates
<1>18. News(v, inbox, at, dest)
  <2> SUFFICES ASSUME NEW t \in Server, NEW k \in v.grp[t], NEW y \in k.members, Stands(at, dest, y)
               PROVE  IF v.row[y].party = None
                      THEN k.lead = None /\ Coming(v.out, inbox, t, "kicked", y)
                      ELSE Fresh(v, k, y)
    BY DEF News
  <2>1. k \in w.grp[t] /\ y \in Player /\ k.id = w.row[y].party /\ k.id # None /\ k.lead = LeadOf(w, k)
    BY <1>6, <1>12
  <2>2. CASE y = q
    <3>1. k.members = {q} /\ k.id = p
      BY <1>4, <1>8, <2>1, <2>2
    <3>2. k.lead = None
      BY <1>7, <2>1, <3>1 DEF LeadOf
    <3>3. Coming(v.out, inbox, t, "kicked", q)
      BY <1>3, <1>13 DEF Coming
    <3> QED
      BY <1>n, <1>12, <2>2, <3>2, <3>3
  <2>3. CASE y # q
    <3>1. LeadOf(v, k) = LeadOf(w, k)
      <4>1. k.id = q => ~v.row[k.id].lead /\ ~w.row[k.id].lead
        BY <1>7, <1>12, <1>n
      <4>2. k.id \in k.members => k.id \in Player
        BY <1>6, <2>1
      <4>3. k.id \in Player /\ k.id # q => v.row[k.id] = w.row[k.id]
        BY <1>12
      <4> QED
        BY <4>1, <4>2, <4>3 DEF LeadOf
    <3>2. v.row[y] = w.row[y]
      BY <1>12, <2>1, <2>3
    <3> QED
      BY <2>1, <3>1, <3>2 DEF Fresh
  <2> QED
    BY <2>2, <2>3
<1>19. Calls(v, inbox, at, dest)
  BY <1>17 DEF Calls, Gathered
<1>20. Orphans(v, inbox, at, dest)
  <2> SUFFICES ASSUME NEW y \in Player, Leaderless(v, y) PROVE FALSE
    BY DEF Orphans
  <2>1. v.row[y].party # None /\ ~v.row[v.row[y].party].lead
    BY DEF Leaderless
  <2>2. y # q /\ v.row[y] = w.row[y]
    BY <1>n, <1>12, <2>1
  <2>3. w.row[y].party \in Player /\ w.row[w.row[y].party].lead
    BY <1>5, <2>1, <2>2
  <2>4. w.row[y].party # q
    BY <1>7, <2>3
  <2> QED
    BY <1>12, <2>1, <2>2, <2>3, <2>4
<1>21. MailFits(v, inbox, at, dest)
  <2>1. \A t \in Server : \A k, x : ~Has(inbox[t], k, x)
    BY <1>2 DEF Silent
  <2>2. \A t \in Server : \A k, x : Has(w.out[t], k, x) => k = "reload"
    BY <1>5 DEF NewsOnly
  <2>3. \A x : /\ Around(v.out, inbox, "kicked", x) => x = q
               /\ ~Around(v.out, inbox, "disband", x)
               /\ ~Around(v.out, inbox, "invite", x)
               /\ ~Around(v.out, inbox, "answer", x)
    <3>1. \A t \in Server : \A k, x : Has(v.out[t], k, x) => k = "reload" \/ (k = "kicked" /\ x = q)
      BY <1>13, <2>2
    <3>2. \A t \in Server : \A x : /\ Has(v.out[t], "kicked", x) => x = q
                                   /\ ~Has(v.out[t], "disband", x)
                                   /\ ~Has(v.out[t], "invite", x)
                                   /\ ~Has(v.out[t], "answer", x)
      <4> SUFFICES ASSUME NEW t \in Server, NEW x
                   PROVE  /\ Has(v.out[t], "kicked", x) => x = q
                          /\ ~Has(v.out[t], "disband", x)
                          /\ ~Has(v.out[t], "invite", x)
                          /\ ~Has(v.out[t], "answer", x)
        OBVIOUS
      <4>1. Has(v.out[t], "kicked", x) => x = q
        BY <3>1
      <4>2. ~Has(v.out[t], "disband", x) /\ ~Has(v.out[t], "invite", x)
        BY <3>1
      <4>3. ~Has(v.out[t], "answer", x)
        BY <3>1
      <4> QED
        BY <4>1, <4>2, <4>3
    <3> QED
      BY <2>1, <3>2 DEF Around
  <2> QED
    BY <1>n, <1>12, <2>1, <2>3 DEF MailFits
<1>22. Fit(v, inbox, at, dest)
  BY <1>2, <1>14, <1>15, <1>16, <1>17, <1>18, <1>19, <1>20, <1>21 DEF Fit
<1>23. Become(v) /\ UNCHANGED <<at, dest, inbox>>
  <2>1. WithRow(World, q, NoRow) = [World EXCEPT !.row[q] = NoRow]
    BY DEF WithRow
  <2> QED
    BY <1>s, <1>g, <1>k, <1>u, <1>m, <1>v, <1>w, <2>1 DEF KickAway
<1> QED
  BY <1>11, <1>22, <1>23, FitNext

-----------------------------------------------------------------------------
(* Nothing to be heard.                                                      *)
\* Once the news is heard, whether or not somebody is between zones.
LEMMA QuietIs ==
  ASSUME Inv, Heard, Quiet
  PROVE  /\ \A k, x : ~Around(World.out, inbox, k, x)
         /\ \A t \in Server : \A k, x : ~Coming(World.out, inbox, t, k, x)
         /\ Unflagged(World, at, dest) /\ Rooted(World) /\ Clean(World)
         /\ \A t \in Server : \A g \in World.grp[t] : \A p \in g.members :
              Stands(at, dest, p) => World.row[p].party # None /\ Fresh(World, g, p)
         /\ \A p \in Player : Stands(at, dest, p) /\ World.row[p].party # None =>
              Host[at[p]] \in Server /\ Mates(World.grp[Host[at[p]]], p, p)
<1>1. /\ \A t \in Server : World.out[t] = << >> /\ inbox[t] = << >>
      /\ \A p \in Player : InZone(p) => ~Flagged(World, p)
  BY DEF Quiet, World, Flagged
<1>2. \A t \in Server : \A k, x : ~Has(World.out[t], k, x) /\ ~Has(inbox[t], k, x)
  BY <1>1, HasNone
<1>3. /\ \A k, x : ~Around(World.out, inbox, k, x)
      /\ \A t \in Server : \A k, x : ~Coming(World.out, inbox, t, k, x)
  BY <1>2 DEF Around, Coming
<1>4. Unflagged(World, at, dest)
  BY <1>1 DEF Unflagged, InZone, Online, Stands
<1>5. Good(World, at, dest) /\ World \in Worlds /\ Fit(World, inbox, at, dest)
  BY Found DEF Heard
<1>6. \A p \in Player : World.row[p].party # None => Host[at[p]] \in Server
  BY <1>5, StandServer DEF Fit, RowsFit
<1>7. Rooted(World)
  <2> SUFFICES ASSUME NEW p \in Player, Leaderless(World, p) PROVE FALSE
    BY DEF Rooted
  <2>1. World.row[p].party # None
    BY DEF Leaderless
  <2>2. Coming(World.out, inbox, Host[at[p]], "disband", World.row[p].party)
    BY <1>5 DEF Fit, Orphans
  <2> QED
    BY <1>3, <1>6, <2>1, <2>2
<1>8. ASSUME NEW t \in Server, NEW g \in World.grp[t], NEW p \in g.members, Stands(at, dest, p)
      PROVE  World.row[p].party # None /\ Fresh(World, g, p)
  <2>1. \A q \in g.members : q \in Player
    BY <1>5, OneObject
  <2>2. IF World.row[p].party = None
        THEN g.lead = None /\ (Flagged(World, p) \/ Coming(World.out, inbox, t, "kicked", p))
        ELSE \/ Fresh(World, g, p)
             \/ \E q \in g.members : Stands(at, dest, q) /\ Flagged(World, q)
             \/ Coming(World.out, inbox, t, "reload", World.row[p].party)
    BY <1>5, <1>8 DEF Fit, News
  <2> QED
    BY <1>3, <1>4, <1>8, <2>1, <2>2 DEF Unflagged
<1>9. ASSUME NEW p \in Player, Stands(at, dest, p), World.row[p].party # None
      PROVE  Host[at[p]] \in Server /\ Mates(World.grp[Host[at[p]]], p, p)
  <2>1. Host[at[p]] \in Server
    BY <1>6, <1>9
  <2>2. ~Mates(World.grp[Host[at[p]]], p, p) =>
          Flagged(World, p) \/ Coming(World.out, inbox, Host[at[p]], "reload", World.row[p].party)
    BY <1>5, <1>9 DEF Fit, Calls
  <2> QED
    BY <1>3, <1>4, <1>9, <2>1, <2>2 DEF Unflagged
<1>10. Clean(World)
  <2>1. CASE Still(dest)
    <3>1. Agreed(World, at, dest, None)
      BY <1>3, <1>4, <1>5, <2>1, AgreedOf
    <3> QED
      BY <1>5, <3>1, AllAgree
  <2>2. CASE ~Still(dest)
    BY <1>5, <2>2 DEF Fit
  <2> QED
    BY <2>1, <2>2
<1> QED
  BY <1>3, <1>4, <1>7, <1>8, <1>9, <1>10

\* removeCharFromZone.
LEMMA ZoneOutHeard == ASSUME Inv, Heard, Hasty = {}, NEW p \in Player, NEW z \in Zone, ZoneOut(p, z) PROVE Heard'
<1>1. Quiet
  BY DEF ZoneOut
<1>2. /\ Good(World, at, dest) /\ World \in Worlds /\ Fit(World, inbox, at, dest)
      /\ at \in Places /\ dest \in Places
  BY Found DEF Heard
<1>w. PICK w : w = World
  OBVIOUS
<1>3. /\ \A k, x : ~Around(w.out, inbox, k, x)
      /\ Rooted(w) /\ Clean(w)
      /\ \A t \in Server : \A g \in w.grp[t] : \A y \in g.members :
           Stands(at, dest, y) => w.row[y].party # None /\ Fresh(w, g, y)
      /\ \A y \in Player : Stands(at, dest, y) /\ w.row[y].party # None => Mates(w.grp[Host[at[y]]], y, y)
  BY <1>1, <1>w, QuietIs
<1>v. PICK v : v = [World EXCEPT !.pool = OutOfPool(pool, p)]
  OBVIOUS
<1>4. World' = v /\ at' = at /\ inbox' = inbox /\ dest' = [dest EXCEPT ![p] = z] /\ z # None
  BY <1>v, PartyAssumption DEF World, ZoneOut
<1>5. v.row = w.row /\ v.grp = w.grp /\ v.flag = w.flag /\ v.out = w.out
  BY <1>2, <1>v, <1>w DEF Worlds
<1>d. PICK d2 : d2 = dest'
  OBVIOUS
<1>6. \A y \in Player : Stands(at, d2, y) => Stands(at, dest, y)
  BY <1>2, <1>4, <1>d DEF Stands, Places
<1>7. RowsFit(v, at) /\ Uniform(v) /\ OneEach(v, at, d2)
  <2>1. RowsFit(w, at) /\ Uniform(w) /\ OneEach(w, at, dest)
    BY <1>2, <1>w DEF Fit
  <2>2. RowsFit(v, at) /\ Uniform(v)
    BY <1>5, <2>1 DEF RowsFit, Uniform
  <2>3. \A t \in Server : \A g \in v.grp[t] : \A y \in g.members : y \in Player
    BY <1>2, <1>5, <1>w, OneObject
  <2>4. OneEach(v, at, d2)
    BY <1>5, <1>6, <2>1, <2>3 DEF OneEach
  <2> QED
    BY <2>2, <2>4
<1>8. Clean(v)
  BY <1>3, <1>5 DEF Clean
<1>9. News(v, inbox, at, d2)
  <2> SUFFICES ASSUME NEW t \in Server, NEW g \in v.grp[t], NEW y \in g.members, Stands(at, d2, y)
               PROVE  v.row[y].party # None /\ Fresh(v, g, y)
    BY DEF News
  <2>1. y \in Player /\ g \in w.grp[t]
    BY <1>2, <1>5, <1>w, OneObject
  <2>2. w.row[y].party # None /\ Fresh(w, g, y)
    BY <1>3, <1>6, <2>1
  <2> QED
    BY <1>5, <2>2 DEF Fresh, LeadOf
<1>10. Calls(v, inbox, at, d2)
  BY <1>3, <1>5, <1>6 DEF Calls
<1>11. Orphans(v, inbox, at, d2)
  BY <1>3, <1>5 DEF Orphans, Rooted, Leaderless
<1>12. MailFits(v, inbox, at, d2)
  <2>1. \A k, x : ~Around(v.out, inbox, k, x)
    BY <1>3, <1>5
  <2> QED
    BY <1>8, <2>1 DEF MailFits
<1>13. Fit(v, inbox, at, d2)
  BY <1>7, <1>8, <1>9, <1>10, <1>11, <1>12 DEF Fit
<1> QED
  BY <1>4, <1>13, <1>d DEF Heard

\* From w to v the objects lose p.
Pops(w, v, p) == \A t \in Server : \A k :
  k \in v.grp[t] <=> \E l \in w.grp[t] : /\ k = [l EXCEPT !.members = l.members \ {p}]
                                        /\ k.members # {}

\* An object that had another name for p.
LEMMA PopIs ==
  ASSUME NEW l \in Party, NEW p, NEW k, k = [l EXCEPT !.members = l.members \ {p}]
  PROVE  k.id = l.id /\ k.lead = l.lead /\ k.members = l.members \ {p} /\ (p \notin l.members => k = l)
<1>1. k.id = l.id /\ k.lead = l.lead /\ k.members = l.members \ {p}
  BY DEF Party
<1>2. p \notin l.members => l.members \ {p} = l.members
  OBVIOUS
<1> QED
  BY <1>1, <1>2 DEF Party

\* The objects lose who is between zones, who may arrive with his flag up.
LEMMA ArriveFit ==
  ASSUME NEW w, NEW b, NEW a, NEW d, Good(w, a, d), Fit(w, b, a, d), NEW p \in Player, d[p] # None, a[p] # None,
         NEW a2, NEW d2, Elsewhere(a, d, a2, d2, p), a2[p] # None,
         NEW v, v.row = w.row, Pops(w, v, p), Stands(a2, d2, p) => Flagged(v, p), \A y \in Player : y # p => (Flagged(v, y) <=> Flagged(w, y)),
         \A t \in Server : \A k, x : /\ Has(w.out[t], k, x) => Has(v.out[t], k, x)
                                     /\ Has(v.out[t], k, x) => Has(w.out[t], k, x) \/ k = "reload",
         \A t \in Server : \A g \in w.grp[t] : p \in g.members => \E u \in Server : Has(v.out[u], "reload", g.id)
  PROVE  Fit(v, b, a2, d2)
<1>1. ~Still(d)
  BY DEF Still
<1>2. /\ RowsFit(w, a) /\ Uniform(w) /\ OneEach(w, a, d) /\ Clean(w)
      /\ News(w, b, a, d) /\ Calls(w, b, a, d) /\ MailFits(w, b, a, d) /\ \A y \in Player : ~Leaderless(w, y)
      /\ NoLetters(w.out, b) /\ w \in Worlds
  BY <1>1 DEF Fit, Orphans, MailFits, NoLetters, Good
<1>3. \A t \in Server : \A k \in v.grp[t] : \E l \in w.grp[t] :
        /\ k = [l EXCEPT !.members = l.members \ {p}] /\ l \in Party
        /\ k.id = l.id /\ k.lead = l.lead /\ k.members = l.members \ {p} /\ (p \notin l.members => k = l)
        /\ \A y \in l.members : y \in Player
  <2> SUFFICES ASSUME NEW t \in Server, NEW k \in v.grp[t]
               PROVE  \E l \in w.grp[t] :
                 /\ k = [l EXCEPT !.members = l.members \ {p}] /\ l \in Party
                 /\ k.id = l.id /\ k.lead = l.lead /\ k.members = l.members \ {p} /\ (p \notin l.members => k = l)
                 /\ \A y \in l.members : y \in Player
    OBVIOUS
  <2>1. PICK l \in w.grp[t] : k = [l EXCEPT !.members = l.members \ {p}]
    BY DEF Pops
  <2>2. l \in Party
    BY <1>2, <2>1, WorldIs, SMTT(30)
  <2>3. k.id = l.id /\ k.lead = l.lead /\ k.members = l.members \ {p} /\ (p \notin l.members => k = l)
    <3>1. k.id = l.id /\ k.lead = l.lead /\ k.members = l.members \ {p}
      BY <2>1, <2>2 DEF Party
    <3>2. p \notin l.members => l.members \ {p} = l.members
      OBVIOUS
    <3> QED
      BY <2>1, <2>2, <3>1, <3>2 DEF Party
  <2>4. \A y \in l.members : y \in Player
    BY <2>2 DEF Party
  <2> QED
    BY <2>1, <2>2, <2>3, <2>4
<1>4. \A y \in Player : y # p => a2[y] = a[y] /\ d2[y] = d[y] /\ (Stands(a2, d2, y) <=> Stands(a, d, y))
  BY DEF Elsewhere, Stands
<1>5. RowsFit(v, a2)
  <2>1. \A y \in Player : w.row[y].party # None => a2[y] # None
    BY <1>2, <1>4 DEF RowsFit
  <2> QED
    BY <1>2, <2>1 DEF RowsFit
<1>6. Uniform(v)
  BY <1>2, <1>3 DEF Uniform
<1>7. OneEach(v, a2, d2)
  <2> SUFFICES ASSUME NEW t \in Server, NEW k \in v.grp[t], NEW l \in v.grp[t], NEW y \in k.members, NEW z \in l.members,
                      Stands(a2, d2, y), Stands(a2, d2, z), v.row[y].party = v.row[z].party, v.row[y].party # None
               PROVE  k = l
    BY DEF OneEach
  <2>1. PICK k0 \in w.grp[t] : /\ k = [k0 EXCEPT !.members = k0.members \ {p}] /\ k.members = k0.members \ {p}
                               /\ \A x \in k0.members : x \in Player
    BY <1>3
  <2>2. PICK l0 \in w.grp[t] : /\ l = [l0 EXCEPT !.members = l0.members \ {p}] /\ l.members = l0.members \ {p}
                               /\ \A x \in l0.members : x \in Player
    BY <1>3
  <2>3. y \in k0.members /\ z \in l0.members /\ y # p /\ z # p /\ y \in Player /\ z \in Player
    BY <2>1, <2>2
  <2>4. k0 = l0
    BY <1>2, <1>4, <2>3 DEF OneEach
  <2> QED
    BY <2>1, <2>2, <2>4
<1>8. Clean(v)
  BY <1>2, <1>3 DEF Clean
<1>9. \A t \in Server : \A k, y : Coming(w.out, b, t, k, y) => Coming(v.out, b, t, k, y)
  BY DEF Coming
<1>10. News(v, b, a2, d2)
  <2> SUFFICES ASSUME NEW t \in Server, NEW k \in v.grp[t], NEW y \in k.members, Stands(a2, d2, y)
               PROVE  /\ v.row[y].party # None
                      /\ \/ Fresh(v, k, y)
                         \/ \E q \in k.members : Stands(a2, d2, q) /\ Flagged(v, q)
                         \/ Coming(v.out, b, t, "reload", v.row[y].party)
    BY DEF News
  <2>1. PICK l \in w.grp[t] : /\ l \in Party /\ k.id = l.id /\ k.lead = l.lead /\ k.members = l.members \ {p}
                              /\ (p \notin l.members => k = l)
                              /\ \A x \in l.members : x \in Player
    BY <1>3
  <2>2. y \in l.members /\ y # p /\ y \in Player
    BY <2>1
  <2>3. l.id = w.row[y].party /\ l.id # None
    BY <1>2, <2>1, <2>2, PartyAssumption DEF Clean, Party
  <2>4. CASE p \in l.members
    <3>1. \E u \in Server : Has(v.out[u], "reload", w.row[y].party)
      BY <2>3, <2>4
    <3> QED
      BY <2>3, <3>1 DEF Coming
  <2>5. CASE p \notin l.members
    <3>1. k = l
      BY <2>1, <2>5
    <3>2. \/ Fresh(w, l, y)
          \/ \E q \in l.members : Stands(a, d, q) /\ Flagged(w, q)
          \/ Coming(w.out, b, t, "reload", w.row[y].party)
      BY <1>2, <1>4, <2>2, <2>3 DEF News
    <3>3. Fresh(w, l, y) => Fresh(v, k, y)
      BY <3>1 DEF Fresh, LeadOf
    <3>4. \A q \in l.members : q \in Player /\ q # p
      BY <2>1, <2>5
    <3> QED
      BY <1>4, <1>9, <2>3, <3>1, <3>2, <3>3, <3>4
  <2> QED
    BY <2>4, <2>5
<1>11. Calls(v, b, a2, d2)
  <2> SUFFICES ASSUME NEW y \in Player, Stands(a2, d2, y), v.row[y].party # None, ~Mates(v.grp[Host[a2[y]]], y, y), y # p
               PROVE  Flagged(v, y) \/ Coming(v.out, b, Host[a2[y]], "reload", v.row[y].party)
    BY DEF Calls
  <2>1. Stands(a, d, y) /\ a2[y] = a[y]
    BY <1>4
  <2>2. Host[a[y]] \in Server
    BY <2>1, StandServer DEF Stands
  <2>3. ~Mates(w.grp[Host[a[y]]], y, y)
    <3> SUFFICES ASSUME NEW l \in w.grp[Host[a[y]]], y \in l.members PROVE FALSE
      BY DEF Mates
    <3>k. PICK k : k = [l EXCEPT !.members = l.members \ {p}]
      OBVIOUS
    <3>1. l \in Party
      BY <1>2, <2>2, WorldIs
    <3>2. y \in k.members
      BY <3>1, <3>k, PopIs
    <3>3. k \in v.grp[Host[a[y]]]
      BY <2>2, <3>k, <3>2 DEF Pops
    <3> QED
      BY <2>1, <3>2, <3>3 DEF Mates
  <2>4. Flagged(w, y) \/ Coming(w.out, b, Host[a[y]], "reload", w.row[y].party)
    BY <1>2, <2>1, <2>3 DEF Calls
  <2> QED
    BY <1>9, <2>1, <2>2, <2>4
<1>12. Orphans(v, b, a2, d2)
  BY <1>2 DEF Orphans, Leaderless
<1>13. MailFits(v, b, a2, d2)
  <2>1. \A k, y : k # "reload" => (Around(v.out, b, k, y) => Around(w.out, b, k, y))
    BY DEF Around
  <2>2. \A y \in Player : /\ Around(v.out, b, "kicked", y) => v.row[y].party = None
                          /\ Around(v.out, b, "disband", y) => v.row[y].party = None
    BY <1>2, <2>1 DEF MailFits
  <2>3. NoLetters(v.out, b)
    BY <1>2, <2>1 DEF NoLetters
  <2> QED
    BY <1>8, <2>2, <2>3 DEF MailFits, NoLetters
<1> QED
  BY <1>5, <1>6, <1>7, <1>8, <1>10, <1>11, <1>12, <1>13 DEF Fit

\* Who is in no object leaves none.
LEMMA NoPops ==
  ASSUME NEW w \in Worlds, NEW p, \A t \in Server : \A k \in w.grp[t] : p \notin k.members,
         NEW v, v.grp = w.grp
  PROVE  Pops(w, v, p)
<1>1. \A t \in Server : \A l \in w.grp[t] : l = [l EXCEPT !.members = l.members \ {p}] /\ l.members # {}
  <2> SUFFICES ASSUME NEW t \in Server, NEW l \in w.grp[t]
               PROVE  l = [l EXCEPT !.members = l.members \ {p}] /\ l.members # {}
    OBVIOUS
  <2>1. l \in Party
    BY WorldIs
  <2>e. PICK e : e = [l EXCEPT !.members = l.members \ {p}]
    OBVIOUS
  <2>2. e = l
    BY <2>1, <2>e, PopIs
  <2> QED
    BY <2>1, <2>2, <2>e DEF Party
<1> QED
  BY <1>1 DEF Pops

\* Who is between zones without an object.
LEMMA AwayIs ==
  ASSUME Inv, NEW p \in Player, Online(p), ~HasParty(World, ServerOf(p), p)
  PROVE  \A t \in Server : \A k \in World.grp[t] : p \notin k.members
<1>1. Good(World, at, dest) /\ Free(World, p)
  BY AwayFree, Found
<1> QED
  BY <1>1 DEF Free, Mates

\* ~CCharEntity between zones.
LEMMA DestroyHeard == ASSUME Inv, Heard, NEW p \in Player, Destroy(p) PROVE Heard'
<1>s. PICK s : s = ServerOf(p)
  OBVIOUS
<1>g. PICK g : g = PartyOf(World, s, p)
  OBVIOUS
<1>h. PICK h : h = [g EXCEPT !.members = g.members \ {p}]
  OBVIOUS
<1>z. PICK z : z = World
  OBVIOUS
<1>w. PICK w : w = Replace(Reload(z, s, g), s, g, h)
  OBVIOUS
<1>1. Good(z, at, dest) /\ z \in Worlds /\ at \in Places /\ dest \in Places /\ Fit(z, inbox, at, dest)
  BY <1>z, Found DEF Heard
<1>2. Online(p) /\ dest[p] # None /\ HasParty(z, s, p)
  BY <1>s, <1>z DEF Destroy
<1>3. s \in Server /\ s = Host[at[p]] /\ at[p] # None
  BY <1>2, <1>s, StandsIs DEF Online
<1>4. g \in z.grp[s] /\ p \in g.members /\ g \in Group /\ g \in Party
  BY <1>1, <1>2, <1>3, <1>g, <1>z, PartyOfIs, ObjectIs, WorldIs
<1>5. h \in Group /\ h.members = g.members \ {p}
  BY <1>4, <1>h DEF Group
<1>m. PICK m : m = Reload(z, s, g)
  OBVIOUS
<1>6. m \in Worlds /\ m.row = z.row /\ m.grp = z.grp /\ m.flag = z.flag /\ Posts(z, m, s, "reload", g.id)
  BY <1>1, <1>3, <1>4, <1>m, ReloadFx
<1>7. w \in Worlds /\ w.row = m.row /\ w.flag = m.flag /\ SameMail(m, w) /\ Regroups(m, w, s, g, h)
  BY <1>3, <1>w, <1>5, <1>6, <1>m, ReplaceFx
<1>8. Swaps(z, w, s, g, h)
  <2>1. Swaps(m, w, s, g, h)
    BY <1>3, <1>6, <1>7, SwapsIs
  <2> QED
    BY <1>6, <2>1 DEF Swaps
<1>9. \A t \in Server : \A k \in z.grp[t] : p \in k.members => t = s /\ k = g
  BY <1>1, <1>3, <1>4, OneObject
<1>10. Pops(z, w, p)
  <2>1. ASSUME NEW t \in Server, NEW k \in w.grp[t]
        PROVE  \E l \in z.grp[t] : k = [l EXCEPT !.members = l.members \ {p}] /\ k.members # {}
    <3>1. CASE t = s /\ k = h /\ h.members # {}
      BY <1>h, <1>4, <3>1
    <3>2. CASE k \in z.grp[t] /\ ~(t = s /\ k = g)
      <4>1. p \notin k.members
        BY <1>9, <3>2
      <4>2. k \in Party
        BY <1>1, <3>2, WorldIs
      <4>e. PICK e : e = [k EXCEPT !.members = k.members \ {p}]
        OBVIOUS
      <4>3. e = k
        BY <4>1, <4>2, <4>e, PopIs
      <4>4. k.members # {}
        BY <4>2 DEF Party
      <4> QED
        BY <3>2, <4>3, <4>4, <4>e
    <3> QED
      BY <1>8, <3>1, <3>2 DEF Swaps
  <2>2. ASSUME NEW t \in Server, NEW k, NEW l \in z.grp[t], k = [l EXCEPT !.members = l.members \ {p}], k.members # {}
        PROVE  k \in w.grp[t]
    <3>1. l \in Party
      BY <1>1, WorldIs
    <3>2. CASE p \in l.members
      BY <1>h, <1>8, <1>9, <2>2, <3>2 DEF Swaps
    <3>3. CASE p \notin l.members
      <4>1. k = l
        BY <2>2, <3>1, <3>3, PopIs
      <4> QED
        BY <1>4, <1>8, <3>3, <4>1 DEF Swaps
    <3> QED
      BY <3>2, <3>3
  <2> QED
    BY <2>1, <2>2 DEF Pops
<1>11. \A t \in Server : \A k, x : Has(w.out[t], k, x) <=> Has(z.out[t], k, x) \/ (t = s /\ k = "reload" /\ x = g.id)
  BY <1>6, <1>7 DEF Posts, SameMail
<1>12. /\ \A t \in Server : \A k, x : /\ Has(z.out[t], k, x) => Has(w.out[t], k, x)
                                      /\ Has(w.out[t], k, x) => Has(z.out[t], k, x) \/ k = "reload"
       /\ \A t \in Server : \A k \in z.grp[t] : p \in k.members => \E x \in Server : Has(w.out[x], "reload", k.id)
  BY <1>3, <1>9, <1>11
<1>13. Elsewhere(at, dest, at, dest, p) /\ ~Stands(at, dest, p)
  BY <1>1, <1>2 DEF Elsewhere, Stands
<1>14. w.row = z.row /\ \A y \in Player : y # p => (Flagged(w, y) <=> Flagged(z, y))
  BY <1>6, <1>7 DEF Flagged
<1>a. PICK a2 : a2 = at
  OBVIOUS
<1>d. PICK d2 : d2 = dest
  OBVIOUS
<1>15. Fit(w, inbox, a2, d2)
  BY <1>1, <1>2, <1>3, <1>10, <1>12, <1>13, <1>14, <1>a, <1>d, ArriveFit
<1>16. Become(w) /\ UNCHANGED <<at, dest, inbox>>
  BY <1>s, <1>g, <1>h, <1>w, <1>z DEF Destroy
<1> QED
  BY <1>7, <1>15, <1>16, <1>a, <1>d, FitNext

\* The character arrives.
LEMMA ZoneInHeard == ASSUME Inv, Heard, NEW p \in Player, ZoneIn(p) PROVE Heard'
<1>z. PICK z : z = World
  OBVIOUS
<1>1. Good(z, at, dest) /\ z \in Worlds /\ at \in Places /\ dest \in Places /\ Fit(z, inbox, at, dest)
  BY <1>z, Found DEF Heard
<1>2. Online(p) /\ dest[p] # None /\ dest[p] \in Zone /\ at[p] # None
  BY <1>1 DEF ZoneIn, Places, Online
<1>3. \A t \in Server : \A k \in z.grp[t] : p \notin k.members
  BY <1>2, <1>z, AwayIs DEF ZoneIn
<1>u. PICK u : u = [z EXCEPT !.pool = z.pool \cup {{p}}]
  OBVIOUS
<1>6. u \in Worlds /\ u.row = z.row /\ u.grp = z.grp /\ u.flag = z.flag /\ u.out = z.out
  BY <1>1, <1>u DEF Worlds
<1>f. PICK f : f = Flag(u, {p}, TRUE)
  OBVIOUS
<1>7. f \in Worlds /\ f.row = z.row /\ f.grp = z.grp /\ f.out = z.out
      /\ \A x \in Player : Flagged(f, x) <=> x = p \/ Flagged(z, x)
  <2>1. /\ Flag(u, {p}, TRUE) \in Worlds /\ Flag(u, {p}, TRUE).row = u.row /\ Flag(u, {p}, TRUE).grp = u.grp
        /\ SameMail(u, Flag(u, {p}, TRUE))
        /\ \A x \in Player : Flagged(Flag(u, {p}, TRUE), x) <=> x \in {p} \/ Flagged(u, x)
    BY <1>6, FlagUpFx
  <2> QED
    BY <1>6, <1>f, <2>1 DEF SameMail, Flagged
<1>8. Become(f)
  <2>1. z.pool = pool
    BY <1>z DEF World
  <2> QED
    BY <1>u, <1>f, <1>z, <2>1 DEF ZoneIn
<1>9. World' = f
  BY <1>7, <1>8, BecomeIs
<1>10. at' = [at EXCEPT ![p] = dest[p]] /\ dest' = [dest EXCEPT ![p] = None] /\ UNCHANGED inbox
  BY DEF ZoneIn
<1>11. Elsewhere(at, dest, at', dest', p) /\ at'[p] # None
  BY <1>1, <1>2, <1>10 DEF Elsewhere, Places
<1>a. PICK a2 : a2 = at'
  OBVIOUS
<1>d. PICK d2 : d2 = dest'
  OBVIOUS
<1>12. Pops(z, f, p) /\ f.row = z.row /\ Flagged(f, p) /\ \A y \in Player : y # p => (Flagged(f, y) <=> Flagged(z, y))
  BY <1>1, <1>3, <1>7, NoPops
<1>13. /\ \A t \in Server : \A k, x : /\ Has(z.out[t], k, x) => Has(f.out[t], k, x)
                                      /\ Has(f.out[t], k, x) => Has(z.out[t], k, x) \/ k = "reload"
       /\ \A t \in Server : \A k \in z.grp[t] : p \in k.members => \E x \in Server : Has(f.out[x], "reload", k.id)
  BY <1>3, <1>7
<1>14. Fit(f, inbox, a2, d2)
  BY <1>1, <1>2, <1>11, <1>12, <1>13, <1>a, <1>d, ArriveFit
<1> QED
  BY <1>9, <1>10, <1>14, <1>a, <1>d DEF Heard

\* A row is gone that no object knows of, and that led no other.
LEMMA VanishFit ==
  ASSUME NEW w, NEW b, NEW a, NEW d, Good(w, a, d), Fit(w, b, a, d), NEW p \in Player, d[p] # None, a[p] # None,
         w.row[p].lead => RowsOf(w.row, w.row[p].party) = {p},
         \A t \in Server : \A k \in w.grp[t] : p \notin k.members,
         NEW a2, NEW d2, Elsewhere(a, d, a2, d2, p), ~Stands(a2, d2, p),
         NEW v, Strikes(w, v, {p}), v.grp = w.grp, v.out = w.out,
         \A y \in Player : y # p => (Flagged(v, y) <=> Flagged(w, y))
  PROVE  Fit(v, b, a2, d2)
<1>1. ~Still(d)
  BY DEF Still
<1>2. /\ RowsFit(w, a) /\ Uniform(w) /\ OneEach(w, a, d) /\ Clean(w)
      /\ News(w, b, a, d) /\ Calls(w, b, a, d) /\ MailFits(w, b, a, d) /\ \A y \in Player : ~Leaderless(w, y)
      /\ NoLetters(w.out, b) /\ w \in Worlds
  BY <1>1 DEF Fit, Orphans, MailFits, NoLetters, Good
<1>3. v.row[p] = NoRow /\ NoRow.party = None /\ \A y \in Player : y # p => v.row[y] = w.row[y]
  BY DEF Strikes, NoRow
<1>4. \A y \in Player : y # p => a2[y] = a[y] /\ d2[y] = d[y] /\ (Stands(a2, d2, y) <=> Stands(a, d, y))
  BY DEF Elsewhere, Stands
<1>5. \A t \in Server : \A k \in w.grp[t] : \A y \in k.members :
        y \in Player /\ y # p /\ k.id = w.row[y].party /\ k.id # None /\ v.row[y] = w.row[y]
  <2> SUFFICES ASSUME NEW t \in Server, NEW k \in w.grp[t], NEW y \in k.members
               PROVE  y \in Player /\ y # p /\ k.id = w.row[y].party /\ k.id # None
    BY <1>3
  <2>1. k.id \in Player /\ y \in Player
    BY OneObject
  <2> QED
    BY <1>2, <2>1, PartyAssumption DEF Clean
<1>6. RowsFit(v, a2)
  <2>1. RowsFit(v, a)
    BY <1>2, StrikesRows
  <2>2. \A y \in Player : v.row[y].party # None => a2[y] # None
    BY <1>3, <1>4, <2>1 DEF RowsFit
  <2> QED
    BY <2>1, <2>2 DEF RowsFit
<1>7. Uniform(v) /\ Clean(v)
  BY <1>2, <1>5 DEF Uniform, Clean
<1>8. OneEach(v, a2, d2)
  BY <1>2, <1>4, <1>5 DEF OneEach
<1>9. News(v, b, a2, d2)
  <2> SUFFICES ASSUME NEW t \in Server, NEW k \in w.grp[t], NEW y \in k.members, Stands(a2, d2, y)
               PROVE  /\ v.row[y].party # None
                      /\ \/ Fresh(v, k, y)
                         \/ \E q \in k.members : Stands(a2, d2, q) /\ Flagged(v, q)
                         \/ Coming(v.out, b, t, "reload", v.row[y].party)
    BY DEF News
  <2>1. y \in Player /\ y # p /\ v.row[y] = w.row[y] /\ w.row[y].party # None /\ Stands(a, d, y)
    BY <1>4, <1>5
  <2>2. \/ Fresh(w, k, y)
        \/ \E q \in k.members : Stands(a, d, q) /\ Flagged(w, q)
        \/ Coming(w.out, b, t, "reload", w.row[y].party)
    BY <1>2, <2>1 DEF News
  <2>3. LeadOf(v, k) = LeadOf(w, k)
    BY <1>5 DEF LeadOf
  <2>4. Fresh(w, k, y) => Fresh(v, k, y)
    BY <2>1, <2>3 DEF Fresh
  <2> QED
    BY <1>4, <1>5, <2>1, <2>2, <2>4
<1>10. Calls(v, b, a2, d2)
  <2> SUFFICES ASSUME NEW y \in Player, Stands(a2, d2, y), v.row[y].party # None, ~Mates(v.grp[Host[a2[y]]], y, y)
               PROVE  Flagged(v, y) \/ Coming(v.out, b, Host[a2[y]], "reload", v.row[y].party)
    BY DEF Calls
  <2>1. y # p /\ Stands(a, d, y) /\ a2[y] = a[y] /\ v.row[y] = w.row[y]
    BY <1>3, <1>4
  <2> QED
    BY <1>2, <2>1 DEF Calls
<1>11. Orphans(v, b, a2, d2)
  <2> SUFFICES ASSUME NEW y \in Player, Leaderless(v, y) PROVE FALSE
    BY DEF Orphans
  <2>1. y # p /\ v.row[y] = w.row[y] /\ w.row[y].party # None
    BY <1>3 DEF Leaderless
  <2>2. w.row[y].party \in Player /\ w.row[w.row[y].party].lead
    <3>1. w.row[y].party \in Player
      BY <1>2, <2>1, WorldIs DEF Row
    <3> QED
      BY <1>2, <2>1, <3>1 DEF Leaderless
  <2>3. w.row[y].party # p
    <3> SUFFICES ASSUME w.row[y].party = p PROVE FALSE
      OBVIOUS
    <3>1. w.row[p].party = p /\ RowsOf(w.row, p) = {p}
      BY <1>2, <2>2 DEF RowsFit
    <3> QED
      BY <2>1, <3>1 DEF RowsOf
  <2> QED
    BY <1>3, <2>1, <2>2, <2>3 DEF Leaderless
<1>12. MailFits(v, b, a2, d2)
  <2>1. \A y \in Player : /\ Around(v.out, b, "kicked", y) => v.row[y].party = None
                          /\ Around(v.out, b, "disband", y) => v.row[y].party = None
    BY <1>2, <1>3 DEF MailFits
  <2> QED
    BY <1>2, <1>7, <2>1 DEF MailFits, NoLetters
<1> QED
  BY <1>6, <1>7, <1>8, <1>9, <1>10, <1>11, <1>12 DEF Fit

\* The session that waits for the character expires.
LEMMA VanishHeard == ASSUME Inv, Heard, NEW p \in Player, Vanish(p), Dispensable(p) PROVE Heard'
<1>w. PICK w : w = World
  OBVIOUS
<1>1. /\ Good(w, at, dest) /\ w \in Worlds /\ at \in Places /\ dest \in Places /\ Fit(w, inbox, at, dest)
      /\ w.row = row
  BY <1>w, Found DEF Heard
<1>2. Online(p) /\ dest[p] # None /\ at[p] # None
  BY DEF Vanish, Online
<1>3. \A t \in Server : \A k \in w.grp[t] : p \notin k.members
  BY <1>2, <1>w, AwayIs DEF Vanish
<1>4. w.row[p].lead => RowsOf(w.row, w.row[p].party) = {p}
  BY <1>1 DEF Dispensable
<1>f. PICK f : f = Flag(w, {p}, FALSE)
  OBVIOUS
<1>5. f \in Worlds /\ f.row = w.row /\ f.grp = w.grp /\ SameMail(w, f)
      /\ \A x \in Player : Flagged(f, x) <=> x # p /\ Flagged(w, x)
  <2>1. /\ Flag(w, {p}, FALSE) \in Worlds /\ Flag(w, {p}, FALSE).row = w.row /\ Flag(w, {p}, FALSE).grp = w.grp
        /\ SameMail(w, Flag(w, {p}, FALSE))
        /\ \A x \in Player : Flagged(Flag(w, {p}, FALSE), x) <=> x \notin {p} /\ Flagged(w, x)
    BY <1>1, FlagDownFx
  <2> QED
    BY <1>f, <2>1
<1>v. PICK v : v = WithRow(f, p, NoRow)
  OBVIOUS
<1>6. v \in Worlds /\ v.grp = w.grp /\ v.out = w.out /\ v.flag = f.flag /\ Strikes(w, v, {p})
  <2>m. PICK none \in Row : none = NoRow
    BY DEF NoRow, Row
  <2>1. v \in Worlds /\ v.grp = f.grp /\ v.flag = f.flag /\ SameMail(f, v) /\ v.row = [f.row EXCEPT ![p] = none]
    BY <1>5, <1>v, <2>m, RowFx
  <2>2. f.row \in [Player -> Row]
    BY <1>5, WorldIs
  <2> QED
    BY <1>5, <2>m, <2>1, <2>2 DEF Strikes, SameMail
<1>7. World' = v
  BY <1>w, <1>f, <1>v, <1>6, BecomeIs DEF Vanish, WithRow
<1>8. at' = [at EXCEPT ![p] = None] /\ dest' = [dest EXCEPT ![p] = None] /\ UNCHANGED inbox
  BY DEF Vanish
<1>9. Elsewhere(at, dest, at', dest', p) /\ ~Stands(at', dest', p)
  BY <1>1, <1>8 DEF Elsewhere, Places, Stands
<1>10. \A y \in Player : y # p => (Flagged(v, y) <=> Flagged(w, y))
  BY <1>5, <1>6 DEF Flagged
<1>a. PICK a2 : a2 = at'
  OBVIOUS
<1>d. PICK d2 : d2 = dest'
  OBVIOUS
<1>11. Fit(v, inbox, a2, d2)
  BY <1>1, <1>2, <1>3, <1>4, <1>6, <1>9, <1>10, <1>a, <1>d, VanishFit
<1> QED
  BY <1>7, <1>8, <1>11, <1>a, <1>d DEF Heard

-----------------------------------------------------------------------------
(* The ticks.                                                                *)
\* A member reads the rows and brings the object he is in, or comes to, into line.
LEMMA RefreshFit ==
  ASSUME NEW w, NEW b, NEW a, NEW d, Good(w, a, d), Fit(w, b, a, d),
         NEW p \in Player, Stands(a, d, p), Flagged(w, p), w.row[p].party # None,
         NEW s \in Server, Host[a[p]] = s, NEW g, g.members \subseteq Player,
         \/ g \in w.grp[s] /\ p \in g.members
         \/ /\ \A l \in w.grp[s] : p \notin l.members
            /\ \/ /\ g \in w.grp[s] /\ g.id = w.row[p].party
                  /\ \E q \in g.members : Stands(a, d, q)
               \/ /\ g.members = {}
                  /\ \A l \in w.grp[s] : \A q \in l.members : l.id = w.row[p].party => ~Stands(a, d, q),
         NEW k, k.id = w.row[p].party, k.members = g.members \cup {p}, k.lead = LeadOf(w, k),
         NEW v, v.row = w.row, SameMail(w, v), Swaps(w, v, s, g, k), Lowers(w, v, k.members)
  PROVE  Fit(v, b, a, d)
<1>x. PICK x : x = w.row[p].party
  OBVIOUS
<1>1. /\ w \in Worlds /\ RowsFit(w, a) /\ Uniform(w) /\ OneEach(w, a, d) /\ (Clean(w) \/ (Still(d) /\ Gathered(w, a)))
      /\ News(w, b, a, d) /\ Calls(w, b, a, d) /\ Orphans(w, b, a, d) /\ MailFits(w, b, a, d)
  BY DEF Fit, Good
<1>2. (\A l \in w.grp[s] : p \notin l.members) => Clean(w)
  <2>1. Gathered(w, a) => \E l \in w.grp[s] : p \in l.members
    BY DEF Gathered, Mates
  <2> QED
    BY <1>1, <2>1
<1>3. \A y \in k.members : y \in Player /\ w.row[y].party = x
  <2>1. CASE g \in w.grp[s] /\ p \in g.members
    BY <1>1, <1>x, <2>1 DEF Uniform
  <2>2. CASE /\ \A l \in w.grp[s] : p \notin l.members
             /\ g \in w.grp[s] /\ g.id = w.row[p].party
    BY <1>2, <1>x, <2>2 DEF Clean
  <2>3. CASE g.members = {}
    BY <1>x, <2>3
  <2> QED
    BY <2>1, <2>2, <2>3
<1>4. \A t \in Server : \A l \in v.grp[t] :
        \/ t = s /\ l = k
        \/ l \in w.grp[t] /\ \A y \in l.members : y \in Player /\ y \notin k.members
  <2> SUFFICES ASSUME NEW t \in Server, NEW l \in v.grp[t], ~(t = s /\ l = k)
               PROVE  l \in w.grp[t] /\ \A y \in l.members : y \in Player /\ y \notin k.members
    OBVIOUS
  <2>1. l \in w.grp[t] /\ ~(t = s /\ l = g)
    BY DEF Swaps
  <2>2. ASSUME NEW y \in l.members PROVE y \in Player /\ y \notin k.members
    <3>1. y \in Player /\ Host[a[y]] = t /\ \A u \in Server : \A m \in w.grp[u] : y \in m.members => u = t /\ m = l
      BY <2>1, OneObject
    <3>2. y \in g.members => g \in w.grp[s]
      OBVIOUS
    <3>3. y \notin g.members
      BY <2>1, <3>1, <3>2
    <3>4. y = p => t = s /\ l \in w.grp[s] /\ p \in l.members
      BY <2>1, <3>1
    <3>5. p \in l.members /\ l \in w.grp[s] => g \in w.grp[s] /\ p \in g.members
      OBVIOUS
    <3>6. y # p
      BY <3>3, <3>4, <3>5
    <3> QED
      BY <3>1, <3>3, <3>6
  <2> QED
    BY <2>1, <2>2
<1>5. \A t \in Server : \A l \in w.grp[t] : l \in v.grp[t] \/ (t = s /\ l = g)
  BY DEF Swaps
<1>6. k \in v.grp[s]
  BY DEF Swaps
<1>7. ASSUME NEW y \in Player, NEW t \in Server PROVE Mates(w.grp[t], y, y) => Mates(v.grp[t], y, y)
  <2> SUFFICES ASSUME NEW l \in w.grp[t], y \in l.members PROVE Mates(v.grp[t], y, y)
    BY DEF Mates
  <2>1. CASE l \in v.grp[t]
    BY <2>1 DEF Mates
  <2>2. CASE t = s /\ l = g
    BY <1>6, <2>2 DEF Mates
  <2> QED
    BY <1>5, <2>1, <2>2
<1>8. RowsFit(v, a)
  BY <1>1 DEF RowsFit
<1>9. Uniform(v)
  <2> SUFFICES ASSUME NEW t \in Server, NEW l \in v.grp[t], NEW y \in l.members, NEW z \in l.members
               PROVE  v.row[y].party = v.row[z].party /\ (v.row[y].party = None => y = z)
    BY DEF Uniform
  <2>1. CASE l = k
    BY <1>3, <1>x, <2>1
  <2>2. CASE l \in w.grp[t]
    BY <1>1, <2>2 DEF Uniform
  <2> QED
    BY <1>4, <2>1, <2>2
<1>10. ASSUME NEW l \in v.grp[s], NEW z \in l.members, Stands(a, d, z), w.row[z].party = x PROVE l = k
  <2> SUFFICES ASSUME l # k PROVE FALSE
    OBVIOUS
  <2>1. l \in w.grp[s] /\ z \in Player /\ z \notin k.members
    BY <1>4
  <2>2. l # g
    BY <2>1
  <2>3. ASSUME g \in w.grp[s], NEW q \in g.members, Stands(a, d, q) PROVE FALSE
    <3>1. w.row[q].party = x /\ q \in Player
      BY <1>3
    <3>2. g = l
      BY <1>1, <1>10, <1>x, <2>1, <2>3, <3>1 DEF OneEach
    <3> QED
      BY <2>2, <3>2
  <2>4. CASE g \in w.grp[s] /\ p \in g.members
    BY <2>3, <2>4
  <2>5. CASE g \in w.grp[s] /\ \E q \in g.members : Stands(a, d, q)
    BY <2>3, <2>5
  <2>6. CASE /\ \A m \in w.grp[s] : p \notin m.members
             /\ \A m \in w.grp[s] : \A q \in m.members : m.id = w.row[p].party => ~Stands(a, d, q)
    <3>1. l.id = x
      BY <1>2, <1>10, <2>1, <2>6 DEF Clean
    <3> QED
      BY <1>10, <1>x, <2>1, <2>6, <3>1
  <2> QED
    BY <2>4, <2>5, <2>6
<1>11. OneEach(v, a, d)
  <2> SUFFICES ASSUME NEW t \in Server, NEW l \in v.grp[t], NEW m \in v.grp[t], NEW y \in l.members, NEW z \in m.members,
                      Stands(a, d, y), Stands(a, d, z), v.row[y].party = v.row[z].party, v.row[y].party # None
               PROVE  l = m
    BY DEF OneEach
  <2>1. CASE t = s /\ l = k
    BY <1>3, <1>10, <2>1
  <2>2. CASE t = s /\ m = k
    BY <1>3, <1>10, <2>2
  <2>3. CASE l \in w.grp[t] /\ m \in w.grp[t]
    BY <1>1, <2>3 DEF OneEach
  <2> QED
    BY <1>4, <2>1, <2>2, <2>3
<1>12. Clean(w) => Clean(v)
  <2> SUFFICES ASSUME Clean(w), NEW t \in Server, NEW l \in v.grp[t], NEW y \in l.members PROVE l.id = v.row[y].party
    BY DEF Clean
  <2>1. CASE l = k
    BY <1>3, <1>x, <2>1
  <2>2. CASE l \in w.grp[t]
    BY <2>2 DEF Clean
  <2> QED
    BY <1>4, <2>1, <2>2
<1>13. Gathered(w, a) => Gathered(v, a)
  <2> SUFFICES ASSUME Gathered(w, a), NEW y \in Player, w.row[y].party # None PROVE Mates(v.grp[Host[a[y]]], y, y)
    BY DEF Gathered
  <2>1. Host[a[y]] \in Server
    BY <1>1, StandServer DEF RowsFit
  <2> QED
    BY <1>7, <2>1 DEF Gathered
<1>14. \A t : \A kind, y : Coming(v.out, b, t, kind, y) <=> Coming(w.out, b, t, kind, y)
  BY DEF SameMail
<1>15. News(v, b, a, d)
  <2> SUFFICES ASSUME NEW t \in Server, NEW l \in v.grp[t], NEW y \in l.members, Stands(a, d, y)
               PROVE  IF v.row[y].party = None
                      THEN l.lead = None /\ (Flagged(v, y) \/ Coming(v.out, b, t, "kicked", y))
                      ELSE \/ Fresh(v, l, y)
                           \/ \E q \in l.members : Stands(a, d, q) /\ Flagged(v, q)
                           \/ Coming(v.out, b, t, "reload", v.row[y].party)
    BY DEF News
  <2>1. CASE l = k
    <3>1. Fresh(v, l, y)
      BY <1>3, <1>x, <2>1 DEF Fresh, LeadOf
    <3> QED
      BY <1>3, <1>x, <2>1, <3>1
  <2>2. CASE l \in w.grp[t] /\ \A z \in l.members : z \in Player /\ z \notin k.members
    <3>1. \A z \in l.members : Flagged(v, z) <=> Flagged(w, z)
      BY <2>2 DEF Lowers
    <3>2. Fresh(w, l, y) => Fresh(v, l, y)
      BY DEF Fresh, LeadOf
    <3>3. IF w.row[y].party = None
          THEN l.lead = None /\ (Flagged(w, y) \/ Coming(w.out, b, t, "kicked", y))
          ELSE \/ Fresh(w, l, y)
               \/ \E q \in l.members : Stands(a, d, q) /\ Flagged(w, q)
               \/ Coming(w.out, b, t, "reload", w.row[y].party)
      BY <1>1, <2>2 DEF News
    <3> QED
      BY <1>14, <3>1, <3>2, <3>3
  <2> QED
    BY <1>4, <2>1, <2>2
<1>16. Calls(v, b, a, d)
  <2> SUFFICES ASSUME NEW y \in Player, Stands(a, d, y), v.row[y].party # None, ~Mates(v.grp[Host[a[y]]], y, y)
               PROVE  Flagged(v, y) \/ Coming(v.out, b, Host[a[y]], "reload", v.row[y].party)
    BY DEF Calls
  <2>1. Host[a[y]] \in Server
    BY StandServer DEF Stands
  <2>2. ~Mates(w.grp[Host[a[y]]], y, y)
    BY <1>7, <2>1
  <2>3. y \notin k.members
    <3>1. y = p => Mates(v.grp[Host[a[y]]], y, y)
      BY <1>6 DEF Mates
    <3>2. y \in g.members => g \in w.grp[s]
      OBVIOUS
    <3>3. y \in g.members => Host[a[y]] = s
      BY <3>2, OneObject
    <3>4. y \in g.members => Mates(w.grp[s], y, y)
      BY <3>2 DEF Mates
    <3> QED
      BY <2>2, <3>1, <3>3, <3>4
  <2>4. Flagged(w, y) \/ Coming(w.out, b, Host[a[y]], "reload", w.row[y].party)
    BY <1>1, <2>2 DEF Calls
  <2> QED
    BY <1>14, <2>3, <2>4 DEF Lowers
<1>17. Orphans(v, b, a, d)
  <2> SUFFICES ASSUME NEW y \in Player, Leaderless(v, y)
               PROVE  /\ Still(d) /\ Clean(v) /\ ~Flagged(v, y)
                      /\ ~Around(v.out, b, "reload", v.row[y].party)
                      /\ Coming(v.out, b, Host[a[y]], "disband", v.row[y].party)
    BY DEF Orphans
  <2>1. Leaderless(w, y)
    BY DEF Leaderless
  <2>2. /\ Still(d) /\ Clean(w) /\ ~Flagged(w, y)
        /\ ~Around(w.out, b, "reload", w.row[y].party)
        /\ Coming(w.out, b, Host[a[y]], "disband", w.row[y].party)
    BY <1>1, <2>1 DEF Orphans
  <2>3. ~Flagged(v, y)
    BY <2>2 DEF Lowers
  <2> QED
    BY <1>12, <1>14, <2>2, <2>3 DEF SameMail
<1>18. MailFits(v, b, a, d)
  <2>1. NoLetters(w.out, b)
    BY <1>1 DEF MailFits, NoLetters, Unflagged
  <2> QED
    BY <1>1, <1>12, <2>1 DEF MailFits, SameMail, NoLetters
<1> QED
  BY <1>1, <1>8, <1>9, <1>11, <1>12, <1>13, <1>15, <1>16, <1>17, <1>18 DEF Fit

\* The object k takes the place of g when p reads the rows; v is the world before a party of one is disbanded.
Refreshes(s, p, g, k, v) ==
  /\ k.id = row[p].party /\ k.members = g.members \cup {p} /\ k.lead = LeadOf(World, k)
  /\ Good(v, at, dest) /\ v.row = row /\ SameMail(World, v) /\ Swaps(World, v, s, g, k)
  /\ Lowers(World, v, k.members)
  /\ Reloaded(s, p, g) = IF k.members = {p} /\ RowsOf(row, k.id) = {p}
                         THEN DisbandParty(v, s, k, TRUE) ELSE v

\* What charutils::ReloadParty does before it thinks of disbanding.
LEMMA RefreshFx ==
  ASSUME Good(World, at, dest), \A y \in Player : row[y].lead => row[y].party = y,
         NEW s \in Server, NEW g \in Group, Fits(grp[s], g),
         NEW p \in Player, Stands(at, dest, p), Host[at[p]] = s, row[p].party \in Player,
         \A l \in grp[s] : p \in l.members => l = g
  PROVE  \E k \in Group : \E v : Refreshes(s, p, g, k, v)
<1>i. PICK id : id = row[p].party
  OBVIOUS
<1>h. PICK h : h = [id |-> id, members |-> g.members \cup {p}, lead |-> g.lead]
  OBVIOUS
<1>k. PICK k : k = [h EXCEPT !.lead = LeadOf(World, h)]
  OBVIOUS
<1>0. id \in Player
  BY <1>i
<1>1. h \in Group /\ h.members = g.members \cup {p} /\ h.id = id
  BY <1>0, <1>h DEF Group
<1>W. PICK W : W = World
  OBVIOUS
<1>2. Good(W, at, dest) /\ W \in Worlds /\ W.grp = grp /\ W.row = row
  BY <1>W DEF Good, World
<1>3. k \in Group /\ k.id = id /\ k.members = h.members /\ k.lead = LeadOf(W, h) /\ LeadOf(W, h) = LeadOf(W, k)
  <2>1. LeadOf(W, h) \in Player \cup {None}
    BY <1>1, <1>0 DEF LeadOf
  <2>2. k \in Group /\ k.id = h.id /\ k.members = h.members /\ k.lead = LeadOf(W, h)
    BY <1>1, <1>W, <1>k, <2>1 DEF Group
  <2> QED
    BY <1>1, <2>2 DEF LeadOf
<1>u. PICK u : u = Replace(W, s, g, h)
  OBVIOUS
<1>4. Regroups(W, u, s, g, h) /\ u \in Worlds /\ u.pool = W.pool
  BY <1>1, <1>2, <1>u, ReplaceIs
<1>14. u.row = W.row /\ u.flag = W.flag /\ SameMail(W, u)
  BY <1>1, <1>2, <1>u, ReplaceFx
<1>v. PICK v : v = IF g.members # {} /\ p \in g.members THEN u ELSE ReloadTreasurePool(u, h, p)
  OBVIOUS
<1>5. /\ Good(v, at, dest) /\ h \in v.grp[s] /\ v \in Worlds
      /\ v.row = W.row /\ v.flag = W.flag /\ SameMail(W, v) /\ Swaps(W, v, s, g, h)
  <2>1. CASE g.members # {} /\ p \in g.members
    <3>1. h.members = g.members /\ v = u
      BY <1>1, <1>v, <2>1
    <3>2. Fits(W.grp[s], g)
      BY <1>2
    <3>6. Good(W, at, dest) /\ s \in Server /\ h \in Group /\ Regroups(W, u, s, g, h) /\ u.pool = W.pool
      BY <1>1, <1>2, <1>4
    <3>3. Good(u, at, dest) /\ (h.members # {} => h \in u.grp[s])
      BY ONLY <3>1, <3>2, <3>6, KeepGood
    <3>5. Swaps(W, u, s, g, h)
      BY <1>2, <1>4, SwapsIs
    <3> QED
      BY <1>1, <1>4, <1>14, <3>1, <3>3, <3>5
  <2>2. CASE ~(g.members # {} /\ p \in g.members)
    <3>1. h.members \subseteq Player /\ u.pool \in SUBSET SUBSET Player
      BY <1>1, <1>4, WorldIs DEF Group
    <3>2. Rejoined(u.pool, h, p) \in SUBSET SUBSET Player
      BY <3>1, RejoinedTyped
    <3>3. v = ReloadTreasurePool(u, h, p)
      BY <1>v, <2>2
    <3>4. v \in Worlds /\ v.grp = u.grp /\ v.pool = Rejoined(W.pool, h, p)
      BY <1>4, <3>1, <3>2, <3>3, ReloadTreasurePoolIs
    <3>5. v.row = u.row /\ v.flag = u.flag /\ SameMail(u, v)
      <4>1. /\ ReloadTreasurePool(u, h, p).row = u.row /\ ReloadTreasurePool(u, h, p).flag = u.flag
            /\ SameMail(u, ReloadTreasurePool(u, h, p))
        BY <1>4, <3>1, PoolFx
      <4> QED
        BY <3>3, <4>1
    <3>6. Regroups(W, v, s, g, h)
      BY <1>4, <3>4 DEF Regroups
    <3>7. Fits(W.grp[s], g) /\ \A l \in W.grp[s] : p \in l.members => l = g
      BY <1>2
    <3>8. Good(v, at, dest)
      BY <1>1, <1>2, <3>4, <3>6, <3>7, JoinGood
    <3>9. h \in v.grp[s]
      BY <1>1, <1>2, <3>4, <3>6, <3>7, JoinGood
    <3>10. Swaps(W, v, s, g, h)
      BY <1>2, <3>6, SwapsIs
    <3> QED
      BY <1>4, <1>14, <3>4, <3>5, <3>8, <3>9, <3>10 DEF SameMail
  <2> QED
    BY <2>1, <2>2
<1>6. Fits(v.grp[s], h)
  BY <1>1, <1>5 DEF Fits
<1>r. PICK all : all = ReloadParty(v, s, h)
  OBVIOUS
<1>7. Good(all, at, dest)
  BY <1>1, <1>5, <1>6, <1>r, ReloadPartyGood
<1>8. /\ all.row = v.row /\ SameMail(v, all) /\ Swaps(v, all, s, h, k) /\ Lowers(v, all, k.members)
  <2>1. \A y \in Player : v.row[y].lead => v.row[y].party = y
    BY <1>2, <1>5
  <2>k. PICK l : l = [h EXCEPT !.lead = LeadOf(v, h)]
    OBVIOUS
  <2>4. v \in Worlds /\ h \in Group
    BY <1>1, <1>5
  <2>2. all.row = v.row /\ SameMail(v, all) /\ Swaps(v, all, s, h, l) /\ Lowers(v, all, h.members)
    BY <1>r, <2>1, <2>4, <2>k, ReloadPartyFx
  <2>3. LeadOf(v, h) = LeadOf(World, h)
    BY <1>5, <1>W DEF LeadOf
  <2> QED
    BY <1>3, <1>k, <2>k, <2>2, <2>3
<1>9. Swaps(W, all, s, g, k)
  <2>1. h \in W.grp[s] => h = g
    BY <1>1, <1>2
  <2> QED
    BY <1>5, <1>8, <2>1, SwapTwice
<1>10. all.row = row /\ SameMail(W, all) /\ Lowers(W, all, k.members)
  BY <1>2, <1>5, <1>8 DEF SameMail, Lowers, Flagged
<1>11. PartyOf(all, s, p) = k
  <2>1. k \in all.grp[s] /\ p \in k.members
    BY <1>1, <1>3, <1>9 DEF Swaps
  <2>2. HasParty(all, s, p)
    BY <2>1 DEF HasParty
  <2>3. PartyOf(all, s, p) \in all.grp[s] /\ p \in PartyOf(all, s, p).members
    BY <2>2, PartyOfIs
  <2> QED
    BY <1>7, <2>1, <2>3, OneObject
<1>12. Reloaded(s, p, g) = IF h.members = {p} /\ RowsOf(row, id) = {p}
                           THEN DisbandParty(all, s, PartyOf(all, s, p), TRUE) ELSE all
  BY <1>i, <1>h, <1>W, <1>u, <1>v, <1>r DEF Reloaded
<1>13. Reloaded(s, p, g) = IF k.members = {p} /\ RowsOf(row, k.id) = {p}
                           THEN DisbandParty(all, s, k, TRUE) ELSE all
  BY <1>3, <1>11, <1>12
<1>15. Refreshes(s, p, g, k, all)
  BY <1>1, <1>3, <1>7, <1>9, <1>10, <1>13, <1>i, <1>W DEF Refreshes
<1> QED
  BY <1>3, <1>15

\* Where a member finds the object he comes to.
LEMMA TickFinds ==
  ASSUME Inv, NEW p \in Player, TickMember(p), NEW s, s = ServerOf(p)
  PROVE  /\ s \in Server /\ Stands(at, dest, p) /\ Host[at[p]] = s /\ row[p].party \in Player /\ Flagged(World, p)
         /\ \E g \in Group :
              /\ Become(Reloaded(s, p, g)) /\ Fits(grp[s], g) /\ \A k \in grp[s] : p \in k.members => k = g
              /\ \/ g \in grp[s] /\ p \in g.members
                 \/ /\ \A l \in grp[s] : p \notin l.members
                    /\ \/ /\ g \in grp[s] /\ g.id = row[p].party
                          /\ \E q \in g.members : Stands(at, dest, q)
                       \/ /\ g.members = {}
                          /\ \A l \in grp[s] : \A q \in l.members : l.id = row[p].party => ~Stands(at, dest, q)
<1>i. PICK id : id = row[p].party
  OBVIOUS
<1>1. Good(World, at, dest) /\ World.grp = grp /\ row \in [Player -> Row]
  BY Found
<1>2. s \in Server /\ Stands(at, dest, p) /\ Host[at[p]] = s
  BY StandsIs DEF TickMember, InZone
<1>3. id \in Player /\ Flagged(World, p)
  BY <1>1, <1>i DEF TickMember, Row, World, Flagged
<1>f. PICK found : found = IF HasParty(World, s, p) THEN {PartyOf(World, s, p)}
                           ELSE IF FoundHere(s, id) # {} THEN FoundHere(s, id)
                           ELSE {[id |-> id, members |-> {}, lead |-> None]}
  OBVIOUS
<1>4. PICK g \in found : Become(Reloaded(s, p, g))
  BY <1>i, <1>f DEF TickMember
<1>5. CASE HasParty(World, s, p)
  <2>1. g = PartyOf(World, s, p)
    BY <1>f, <1>4, <1>5
  <2>2. g \in World.grp[s] /\ p \in g.members /\ g \in Group /\ Fits(World.grp[s], g)
    BY <1>2, <1>5, <2>1, OwnParty
  <2>3. \A k \in grp[s] : p \in k.members => k = g
    BY <1>1, <1>2, <2>2, OneObject
  <2> QED
    BY <1>1, <1>2, <1>3, <1>4, <1>i, <2>2, <2>3
<1>6. CASE ~HasParty(World, s, p)
  <2>1. \A k \in grp[s] : p \notin k.members
    BY <1>1, <1>6 DEF HasParty
  <2>2. CASE FoundHere(s, id) # {}
    <3>1. g \in grp[s] /\ g.id = id /\ g.members \cap Hosted(s) # {}
      BY <1>f, <1>4, <1>6, <2>2 DEF FoundHere
    <3>2. g \in Group /\ Fits(grp[s], g) /\ g.members \subseteq Player
      BY <1>1, <1>2, <3>1, ObjectIs
    <3>3. PICK q \in g.members : q \in Hosted(s)
      BY <3>1
    <3>4. Stands(at, dest, q)
      BY <1>2, <3>2, <3>3, StandsIs
    <3> QED
      BY <1>2, <1>3, <1>4, <1>i, <2>1, <3>1, <3>2, <3>4
  <2>3. CASE FoundHere(s, id) = {}
    <3>1. g = [id |-> id, members |-> {}, lead |-> None]
      BY <1>f, <1>4, <1>6, <2>3
    <3>2. g \in Group /\ Fits(grp[s], g) /\ g.members = {}
      BY <1>3, <3>1 DEF Group, Fits
    <3>3. ASSUME NEW l \in grp[s], NEW q \in l.members, l.id = id, Stands(at, dest, q) PROVE FALSE
      <4>1. q \in Player /\ Host[at[q]] = s
        BY <1>1, <1>2, OneObject
      <4>2. q \in Hosted(s)
        BY <1>2, <3>3, <4>1, StandsIs
      <4>3. l \in FoundHere(s, id)
        BY <3>3, <4>2 DEF FoundHere
      <4> QED
        BY <2>3, <4>3
    <3> QED
      BY <1>2, <1>3, <1>4, <1>i, <2>1, <3>2, <3>3
  <2> QED
    BY <2>2, <2>3
<1> QED
  BY <1>5, <1>6

\* PostTick of a member whose flag is up.
LEMMA TickMemberHeard == ASSUME Inv, Heard, NEW p \in Player, TickMember(p) PROVE Heard'
<1>s. PICK s : s = ServerOf(p)
  OBVIOUS
<1>w. PICK w : w = World
  OBVIOUS
<1>1. /\ Good(w, at, dest) /\ w \in Worlds /\ w.grp = grp /\ w.row = row
      /\ Fit(w, inbox, at, dest) /\ RowsFit(w, at) /\ Orphans(w, inbox, at, dest) /\ MailFits(w, inbox, at, dest)
  BY <1>w, Found DEF Heard, Fit
<1>2. s \in Server /\ Stands(at, dest, p) /\ Host[at[p]] = s /\ row[p].party \in Player /\ Flagged(w, p)
  BY <1>s, <1>w, TickFinds
<1>3. PICK g \in Group :
              /\ Become(Reloaded(s, p, g)) /\ Fits(grp[s], g) /\ \A k \in grp[s] : p \in k.members => k = g
              /\ \/ g \in grp[s] /\ p \in g.members
                 \/ /\ \A l \in grp[s] : p \notin l.members
                    /\ \/ /\ g \in grp[s] /\ g.id = row[p].party
                          /\ \E q \in g.members : Stands(at, dest, q)
                       \/ /\ g.members = {}
                          /\ \A l \in grp[s] : \A q \in l.members : l.id = row[p].party => ~Stands(at, dest, q)
  BY <1>s, TickFinds
<1>4. \A y \in Player : row[y].lead => row[y].party = y
  BY <1>1 DEF RowsFit
<1>k. PICK k \in Group : \E u : Refreshes(s, p, g, k, u)
  <2>1. Good(World, at, dest)
    BY Found
  <2> QED
    BY ONLY <1>2, <1>3, <1>4, <2>1, g \in Group, p \in Player, RefreshFx
<1>5. PICK u :
           /\ k.id = row[p].party /\ k.members = g.members \cup {p} /\ k.lead = LeadOf(w, k)
           /\ Good(u, at, dest) /\ u.row = row /\ SameMail(w, u) /\ Swaps(w, u, s, g, k)
           /\ Lowers(w, u, k.members)
           /\ Reloaded(s, p, g) = IF k.members = {p} /\ RowsOf(row, k.id) = {p}
                                  THEN DisbandParty(u, s, k, TRUE) ELSE u
  BY <1>k, <1>w DEF Refreshes
<1>6. row[p].party # None /\ g.members \subseteq Player
  BY <1>2, PartyAssumption DEF Group
<1>7. Fit(u, inbox, at, dest)
  BY <1>1, <1>2, <1>3, <1>5, <1>6, RefreshFit
<1>8. UNCHANGED <<at, dest, inbox>>
  BY DEF TickMember
<1>9. CASE ~(k.members = {p} /\ RowsOf(row, k.id) = {p})
  BY <1>3, <1>5, <1>7, <1>8, <1>9, FitNext DEF Good
<1>10. CASE k.members = {p} /\ RowsOf(row, k.id) = {p}
  <2>t. PICK told \in BOOLEAN : told = TRUE
    OBVIOUS
  <2>v. PICK v : v = DisbandParty(u, s, k, told)
    OBVIOUS
  <2>1. /\ v \in Worlds /\ Deletes(u, v, s, k) /\ Strikes(u, v, k.members) /\ Raises(u, v, k.members)
        /\ Posts(u, v, s, "disband", k.id)
    BY <1>2, <1>5, <2>t, <2>v, DisbandFx DEF Good
  <2>2. k.id = p /\ k \in u.grp[s]
    <3>1. ~Leaderless(w, p)
      BY <1>1, <1>2 DEF Orphans
    <3>2. row[k.id].lead
      BY <1>1, <1>5, <1>6, <3>1 DEF Leaderless
    <3>3. k.id \in RowsOf(row, k.id)
      BY <1>2, <1>4, <1>5, <3>2 DEF RowsOf
    <3>4. k \in u.grp[s]
      BY <1>2, <1>5 DEF Swaps
    <3> QED
      BY <1>10, <3>3, <3>4
  <2>3. v.row[k.id].party = None
    BY <1>10, <2>1, <2>2 DEF Strikes, NoRow
  <2>4. Closes(u, v)
    BY <2>1, <2>3 DEF Closes, Posts
  <2>5. NoLetters(u.out, inbox)
    <3>1. ~Unflagged(w, at, dest)
      BY <1>2 DEF Unflagged
    <3>2. NoLetters(w.out, inbox)
      BY <1>1, <3>1 DEF MailFits, NoLetters
    <3> QED
      BY <1>5, <3>2 DEF SameMail
  <2>6. \A y \in Player : y \notin k.members => (Flagged(v, y) <=> Flagged(u, y))
    BY <2>1 DEF Raises
  <2>7. ASSUME NEW y \in Player, Leaderless(v, y), ~Leaderless(u, y) PROVE FALSE
    <3>1. v.row[y].party # None /\ ~v.row[v.row[y].party].lead
      BY <2>7 DEF Leaderless
    <3>2. y \notin k.members /\ v.row[y] = row[y]
      BY <1>5, <2>1, <3>1 DEF Strikes, NoRow
    <3>z. PICK z : z = row[y].party
      OBVIOUS
    <3>3. row[z].lead /\ z \in Player
      <4>1. row[y] \in Row
        BY <1>1, WorldIs
      <4> QED
        BY <1>5, <2>7, <3>1, <3>2, <3>z, <4>1 DEF Leaderless, Row
    <3>4. z = p
      BY <1>5, <1>10, <2>1, <3>1, <3>2, <3>3, <3>z DEF Strikes
    <3>5. y \in RowsOf(row, k.id)
      BY <2>2, <3>4, <3>z DEF RowsOf
    <3> QED
      BY <1>10, <3>2, <3>5
  <2>8. Fit(v, inbox, at, dest)
    BY <1>2, <1>5, <1>7, <2>1, <2>2, <2>4, <2>5, <2>6, <2>7, DeletedFit
  <2>9. Become(v)
    BY <1>3, <1>5, <1>10, <2>t, <2>v
  <2> QED
    BY <1>8, <2>1, <2>8, <2>9, FitNext
<1> QED
  BY <1>9, <1>10

\* Who has no row has no flag.
LEMMA RowlessIs ==
  ASSUME NEW w \in Worlds, NEW a, RowsFit(w, a), NEW p \in Player, w.row[p].party = None
  PROVE  w.row[p] = NoRow
<1>1. w.row[p] \in Row /\ w.row[p].lead \in BOOLEAN
  BY WorldIs DEF Row
<1>2. p # None
  BY PartyAssumption
<1>3. w.row[p].lead = FALSE
  BY <1>1, <1>2 DEF RowsFit
<1> QED
  BY <1>1, <1>3 DEF NoRow, Row

\* The flag of one with neither a row nor an object makes no difference.
LEMMA UnflagFit ==
  ASSUME NEW w, NEW b, NEW a, NEW d, Good(w, a, d), Fit(w, b, a, d), NEW p \in Player, w.row[p].party = None,
         \A t \in Server : \A k \in w.grp[t] : p \notin k.members,
         NEW v, v.row = w.row, v.grp = w.grp, SameMail(w, v), Lowers(w, v, {p})
  PROVE  Fit(v, b, a, d)
<1>1. /\ w \in Worlds /\ RowsFit(w, a) /\ Uniform(w) /\ OneEach(w, a, d) /\ (Clean(w) \/ (Still(d) /\ Gathered(w, a)))
      /\ News(w, b, a, d) /\ Calls(w, b, a, d) /\ Orphans(w, b, a, d) /\ MailFits(w, b, a, d)
  BY DEF Fit, Good
<1>2. RowsFit(v, a) /\ Uniform(v) /\ OneEach(v, a, d) /\ (Clean(v) <=> Clean(w)) /\ (Gathered(v, a) <=> Gathered(w, a))
  <2>1. RowsFit(v, a) /\ Uniform(v)
    BY <1>1 DEF RowsFit, Uniform
  <2>2. OneEach(v, a, d)
    BY <1>1 DEF OneEach
  <2> QED
    BY <2>1, <2>2 DEF Clean, Gathered
<1>3. News(v, b, a, d)
  <2> SUFFICES ASSUME NEW t \in Server, NEW k \in v.grp[t], NEW y \in k.members, Stands(a, d, y)
               PROVE  IF v.row[y].party = None
                      THEN k.lead = None /\ (Flagged(v, y) \/ Coming(v.out, b, t, "kicked", y))
                      ELSE \/ Fresh(v, k, y)
                           \/ \E q \in k.members : Stands(a, d, q) /\ Flagged(v, q)
                           \/ Coming(v.out, b, t, "reload", v.row[y].party)
    BY DEF News
  <2>1. \A z \in k.members : z \in Player /\ z # p
    BY OneObject
  <2>2. \A z \in k.members : Flagged(v, z) <=> Flagged(w, z)
    BY <2>1 DEF Lowers
  <2>3. Fresh(v, k, y) <=> Fresh(w, k, y)
    BY DEF Fresh, LeadOf
  <2>4. IF w.row[y].party = None
        THEN k.lead = None /\ (Flagged(w, y) \/ Coming(w.out, b, t, "kicked", y))
        ELSE \/ Fresh(w, k, y)
             \/ \E q \in k.members : Stands(a, d, q) /\ Flagged(w, q)
             \/ Coming(w.out, b, t, "reload", w.row[y].party)
    BY <1>1 DEF News
  <2> QED
    BY <2>2, <2>3, <2>4 DEF SameMail
<1>4. Calls(v, b, a, d)
  BY <1>1 DEF Calls, Lowers, SameMail
<1>5. Orphans(v, b, a, d)
  BY <1>1, <1>2 DEF Orphans, Lowers, SameMail, Leaderless
<1>6. MailFits(v, b, a, d)
  <2>1. Unflagged(w, a, d) => Unflagged(v, a, d)
    BY DEF Unflagged, Lowers
  <2> QED
    BY <1>1, <1>2, <2>1 DEF MailFits, SameMail
<1> QED
  BY <1>1, <1>2, <1>3, <1>4, <1>5, <1>6 DEF Fit

\* PostTick of one without a row.
LEMMA TickStrangerHeard == ASSUME Inv, Heard, NEW p \in Player, TickStranger(p) PROVE Heard'
<1>s. PICK s : s = ServerOf(p)
  OBVIOUS
<1>g. PICK g : g = PartyOf(World, s, p)
  OBVIOUS
<1>w. PICK w : w = World
  OBVIOUS
<1>1. /\ Good(w, at, dest) /\ w \in Worlds /\ w.grp = grp /\ w.row = row
      /\ Fit(w, inbox, at, dest) /\ RowsFit(w, at) /\ Uniform(w) /\ News(w, inbox, at, dest) /\ MailFits(w, inbox, at, dest)
  BY <1>w, Found DEF Heard, Fit
<1>2. s \in Server /\ Stands(at, dest, p) /\ Host[at[p]] = s /\ w.row[p].party = None /\ Flagged(w, p)
  <2>1. s \in Server /\ Stands(at, dest, p) /\ Host[at[p]] = s
    BY <1>s, StandsIs DEF TickStranger, InZone
  <2>2. row[p].party = None /\ flag[p]
    BY DEF TickStranger
  <2> QED
    BY <1>1, <1>w, <2>1, <2>2 DEF Flagged, World
<1>3. UNCHANGED <<at, dest, inbox>>
  BY DEF TickStranger
<1>4. CASE ~HasParty(World, s, p)
  <2>v. PICK v : v = Flag(World, {p}, FALSE)
    OBVIOUS
  <2>1. Become(v)
    BY <1>s, <1>4, <2>v DEF TickStranger
  <2>2. v \in Worlds /\ v.row = w.row /\ v.grp = w.grp /\ SameMail(w, v) /\ Lowers(w, v, {p})
    <3>1. /\ Flag(w, {p}, FALSE) \in Worlds /\ Flag(w, {p}, FALSE).row = w.row /\ Flag(w, {p}, FALSE).grp = w.grp
          /\ SameMail(w, Flag(w, {p}, FALSE))
          /\ \A x \in Player : Flagged(Flag(w, {p}, FALSE), x) <=> x \notin {p} /\ Flagged(w, x)
      BY <1>1, FlagDownFx
    <3> QED
      BY <1>w, <2>v, <3>1 DEF Lowers
  <2>3. \A t \in Server : \A k \in w.grp[t] : p \notin k.members
    <3>1. ~Mates(w.grp[s], p, p)
      BY <1>4, <1>w, PartyOfIs
    <3> QED
      BY <1>1, <1>2, <3>1, OneObject DEF Mates
  <2>4. Fit(v, inbox, at, dest)
    BY <1>1, <1>2, <2>2, <2>3, UnflagFit
  <2> QED
    BY <1>3, <2>1, <2>2, <2>4, FitNext
<1>5. CASE HasParty(World, s, p)
  <2>1. g \in w.grp[s] /\ p \in g.members /\ g \in Group /\ g \in Party
    BY <1>1, <1>2, <1>5, <1>g, <1>w, PartyOfIs, ObjectIs, WorldIs
  <2>2. g.lead = None /\ g.members = {p}
    <3>1. g.lead = None
      BY <1>1, <1>2, <2>1 DEF News
    <3>2. \A y \in g.members : y = p
      BY <1>1, <1>2, <2>1 DEF Uniform
    <3> QED
      BY <2>1, <3>1, <3>2
  <2>3. PICK heir \in Heirs(World, g) : Become(Flag(DelMember(World, s, g, p, heir), {p}, FALSE))
    BY <1>s, <1>g, <1>5 DEF TickStranger
  <2>h. PICK h : h = [g EXCEPT !.members = g.members \ {p}]
    OBVIOUS
  <2>4. h \in Group /\ h.members = {}
    BY <2>1, <2>2, <2>h DEF Group
  <2>u. PICK u : u = Replace(w, s, g, h)
    OBVIOUS
  <2>5. u \in Worlds /\ u.row = w.row /\ u.flag = w.flag /\ SameMail(w, u) /\ Swaps(w, u, s, g, h)
    <3>1. u \in Worlds /\ u.row = w.row /\ u.flag = w.flag /\ SameMail(w, u) /\ Regroups(w, u, s, g, h)
      BY <1>1, <1>2, <2>4, <2>u, ReplaceFx
    <3> QED
      BY <1>1, <1>2, <3>1, SwapsIs
  <2>o. PICK o : o = OwnPool(u, {p})
    OBVIOUS
  <2>6. o \in Worlds /\ o.row = u.row /\ o.grp = u.grp /\ o.flag = u.flag /\ SameMail(u, o)
    <3>ps. PICK ps \in SUBSET Player : ps = {p}
      OBVIOUS
    <3> QED
      BY <2>5, <2>o, <3>ps, OwnPoolFx
  <2>r. PICK r : r = ReloadParty(o, s, h)
    OBVIOUS
  <2>k. PICK k : k = [h EXCEPT !.lead = LeadOf(o, h)]
    OBVIOUS
  <2>7. r \in Worlds /\ r.row = o.row /\ SameMail(o, r) /\ Swaps(o, r, s, h, k) /\ Lowers(o, r, h.members)
    <3>1. \A y \in Player : o.row[y].lead => o.row[y].party = y
      BY <1>1, <2>5, <2>6 DEF RowsFit
    <3> QED
      BY <1>2, <2>4, <2>6, <2>r, <2>k, <3>1, ReloadPartyFx
  <2>8. Deletes(w, r, s, g)
    <3>1. k.members = {}
      BY <2>4, <2>k DEF Group
    <3>2. Swaps(u, r, s, h, k)
      BY <2>6, <2>7 DEF Swaps
    <3>3. h \notin w.grp[s]
      BY <1>1, <1>2, <2>4, ObjectIs
    <3>4. Swaps(w, r, s, g, k)
      BY <1>2, <2>5, <3>2, <3>3, SwapTwice
    <3> QED
      BY <3>1, <3>4 DEF Swaps, Deletes
  <2>9. r.row = w.row /\ SameMail(w, r) /\ \A x \in Player : Flagged(r, x) <=> Flagged(w, x)
    BY <2>4, <2>5, <2>6, <2>7 DEF SameMail, Lowers, Flagged
  <2>v. PICK v : v = Flag(r, {p}, FALSE)
    OBVIOUS
  <2>10. v \in Worlds /\ v.row = r.row /\ v.grp = r.grp /\ SameMail(r, v)
         /\ \A x \in Player : Flagged(v, x) <=> x # p /\ Flagged(r, x)
    <3>1. /\ Flag(r, {p}, FALSE) \in Worlds /\ Flag(r, {p}, FALSE).row = r.row /\ Flag(r, {p}, FALSE).grp = r.grp
          /\ SameMail(r, Flag(r, {p}, FALSE))
          /\ \A x \in Player : Flagged(Flag(r, {p}, FALSE), x) <=> x \notin {p} /\ Flagged(r, x)
      BY <2>7, FlagDownFx
    <3> QED
      BY <2>v, <3>1
  <2>11. Become(v)
    <3>1. p # None
      BY PartyAssumption
    <3>2. DelMember(w, s, g, p, heir) = r
      BY <2>2, <2>h, <2>u, <2>o, <2>r, <3>1 DEF DelMember
    <3> QED
      BY <1>w, <2>3, <2>v, <3>2
  <2>12. Deletes(w, v, s, g) /\ Strikes(w, v, g.members) /\ Closes(w, v)
    <3>1. Deletes(w, v, s, g)
      BY <2>8, <2>10 DEF Deletes
    <3>2. w.row[p] = NoRow
      BY <1>1, <1>2, RowlessIs
    <3>3. Strikes(w, v, g.members)
      BY <2>2, <2>9, <2>10, <3>2 DEF Strikes
    <3> QED
      BY <2>9, <2>10, <3>1, <3>3 DEF Closes, SameMail
  <2>13. \A y \in Player : y \notin g.members => (Flagged(v, y) <=> Flagged(w, y))
    BY <2>2, <2>9, <2>10
  <2>14. NoLetters(w.out, inbox)
    <3>1. ~Unflagged(w, at, dest)
      BY <1>2 DEF Unflagged
    <3> QED
      BY <1>1, <3>1 DEF MailFits, NoLetters
  <2>15. \A y \in Player : Leaderless(v, y) => Leaderless(w, y)
    BY <2>9, <2>10 DEF Leaderless
  <2>16. Fit(v, inbox, at, dest)
    BY <1>1, <1>2, <2>1, <2>12, <2>13, <2>14, <2>15, DeletedFit
  <2> QED
    BY <1>3, <2>10, <2>11, <2>16, FitNext
<1> QED
  BY <1>4, <1>5

-----------------------------------------------------------------------------
(* The mail.                                                                 *)
\* From b to b2 server s takes a message out of its queue.
Reads(b, b2, s, kind, x) == \A t \in Server : \A k, y :
  Has(b[t], k, y) <=> Has(b2[t], k, y) \/ (t = s /\ k = kind /\ y = x)

\* A queue of one message has that message.
LEMMA OneMail ==
  ASSUME NEW q \in Seq(Mail), q # << >>, Len(q) = 1, NEW k, NEW x, Has(q, k, x)
  PROVE  Head(q).kind = k /\ Head(q).who = x
<1>1. PICK i \in DOMAIN q : q[i].kind = k /\ q[i].who = x
  BY DEF Has
<1>2. i = 1
  <2>1. DOMAIN q = 1..Len(q)
    OBVIOUS
  <2> QED
    BY <1>1, <2>1
<1>3. Head(q) = q[1]
  OBVIOUS
<1> QED
  BY <1>1, <1>2, <1>3

\* What a message that is no letter says of the others.
LEMMA NewsReader ==
  ASSUME Inv, Heard, NEW s \in Server, NEW kind \in {"reload", "kicked", "disband"}, Receive(s, kind),
         NEW x, x = Head(inbox[s]).who
  PROVE  /\ x \in Player /\ Reads(inbox, inbox', s, kind, x) /\ Has(inbox[s], kind, x)
         /\ NoLetters(World.out, inbox) /\ UNCHANGED <<at, dest>>
<1>1. inbox \in [Server -> Seq(Mail)]
  BY Found
<1>m. PICK m : m = Head(inbox[s])
  OBVIOUS
<1>2. /\ inbox[s] # << >> /\ m.kind = kind /\ x \in Player /\ m.who = x /\ UNCHANGED <<at, dest>>
      /\ inbox' = [inbox EXCEPT ![s] = Tail(inbox[s])]
  BY <1>m, ReceiveIs DEF Receive
<1>3. inbox[s] \in Seq(Mail)
  BY <1>1
<1>4. \A k, y : Has(inbox[s], k, y) <=> Has(Tail(inbox[s]), k, y) \/ (m.kind = k /\ m.who = y)
  BY <1>2, <1>3, <1>m, HasTail
<1>5. \A t \in Server : inbox'[t] = IF t = s THEN Tail(inbox[s]) ELSE inbox[t]
  BY <1>1, <1>2
<1>6. Reads(inbox, inbox', s, kind, x)
  BY <1>2, <1>4, <1>5 DEF Reads
<1>7. ASSUME NEW k \in {"invite", "answer"}, NEW y \in Player, Around(World.out, inbox, k, y) PROVE FALSE
  <2>1. Alone(World.out, inbox)
    BY <1>7 DEF Heard, Fit, MailFits
  <2>2. /\ Len(inbox[s]) = 1 /\ \A t \in Server : World.out[t] = << >>
        /\ \A t \in Server : t # s => inbox[t] = << >>
    BY <1>2, <2>1 DEF Alone
  <2>3. Has(inbox[s], k, y)
    BY <1>7, <2>2, HasNone DEF Around
  <2>4. m.kind = k
    BY <1>2, <1>3, <1>m, <2>2, <2>3, OneMail
  <2> QED
    BY <1>2, <2>4
<1>8. NoLetters(World.out, inbox)
  <2>i. PICK k \in {"invite", "answer"} : k = "invite"
    OBVIOUS
  <2>a. PICK l \in {"invite", "answer"} : l = "answer"
    OBVIOUS
  <2>1. \A y \in Player : ~Around(World.out, inbox, k, y) /\ ~Around(World.out, inbox, l, y)
    BY <1>7
  <2> QED
    BY <2>i, <2>a, <2>1 DEF NoLetters
<1> QED
  BY <1>2, <1>4, <1>6, <1>8

\* A server reads a message and raises flags: the world still fits the news, if those concerned tick.
LEMMA ReadFit ==
  ASSUME NEW w, NEW b, NEW a, NEW d, Good(w, a, d), Fit(w, b, a, d), NoLetters(w.out, b),
         NEW b2, NEW s \in Server, NEW kind, NEW x, Reads(b, b2, s, kind, x),
         NEW v, v.row = w.row, v.grp = w.grp, SameMail(w, v), NEW ps, Raises(w, v, ps),
         \A y \in Player : y \in ps => ~Leaderless(w, y),
         kind = "reload" => \A y \in Player : Stands(a, d, y) /\ Host[a[y]] = s /\ w.row[y].party = x => y \in ps,
         kind = "kicked" => \A y \in Player : Stands(a, d, y) /\ Host[a[y]] = s /\ y = x => y \in ps,
         kind = "disband" => \A y \in Player : Leaderless(w, y) => w.row[y].party # x \/ Host[a[y]] # s
  PROVE  Fit(v, b2, a, d)
<1>1. /\ w \in Worlds /\ RowsFit(w, a) /\ Uniform(w) /\ OneEach(w, a, d) /\ (Clean(w) \/ (Still(d) /\ Gathered(w, a)))
      /\ News(w, b, a, d) /\ Calls(w, b, a, d) /\ Orphans(w, b, a, d) /\ MailFits(w, b, a, d)
  BY DEF Fit, Good
<1>2. RowsFit(v, a) /\ Uniform(v) /\ OneEach(v, a, d) /\ (Clean(v) <=> Clean(w)) /\ (Gathered(v, a) <=> Gathered(w, a))
  <2>1. RowsFit(v, a) /\ Uniform(v)
    BY <1>1 DEF RowsFit, Uniform
  <2>2. OneEach(v, a, d)
    BY <1>1 DEF OneEach
  <2> QED
    BY <2>1, <2>2 DEF Clean, Gathered
<1>3. \A t \in Server : \A k, y : Coming(w.out, b, t, k, y) => Coming(v.out, b2, t, k, y) \/ (t = s /\ k = kind /\ y = x)
  BY DEF Coming, SameMail, Reads
<1>4. \A k, y : Around(v.out, b2, k, y) => Around(w.out, b, k, y)
  BY DEF Around, SameMail, Reads
<1>5. News(v, b2, a, d)
  <2> SUFFICES ASSUME NEW t \in Server, NEW k \in v.grp[t], NEW y \in k.members, Stands(a, d, y)
               PROVE  IF v.row[y].party = None
                      THEN k.lead = None /\ (Flagged(v, y) \/ Coming(v.out, b2, t, "kicked", y))
                      ELSE \/ Fresh(v, k, y)
                           \/ \E q \in k.members : Stands(a, d, q) /\ Flagged(v, q)
                           \/ Coming(v.out, b2, t, "reload", v.row[y].party)
    BY DEF News
  <2>1. \A z \in k.members : z \in Player /\ Host[a[z]] = t
    BY OneObject
  <2>2. \A z \in k.members : Flagged(w, z) => Flagged(v, z)
    BY <2>1 DEF Raises
  <2>3. Fresh(v, k, y) <=> Fresh(w, k, y)
    BY DEF Fresh, LeadOf
  <2>4. IF w.row[y].party = None
        THEN k.lead = None /\ (Flagged(w, y) \/ Coming(w.out, b, t, "kicked", y))
        ELSE \/ Fresh(w, k, y)
             \/ \E q \in k.members : Stands(a, d, q) /\ Flagged(w, q)
             \/ Coming(w.out, b, t, "reload", w.row[y].party)
    BY <1>1 DEF News
  <2>5. Coming(w.out, b, t, "kicked", y) => Flagged(v, y) \/ Coming(v.out, b2, t, "kicked", y)
    BY <1>3, <2>1 DEF Raises
  <2>6. Coming(w.out, b, t, "reload", w.row[y].party) => Flagged(v, y) \/ Coming(v.out, b2, t, "reload", w.row[y].party)
    BY <1>3, <2>1 DEF Raises
  <2> QED
    BY <2>2, <2>3, <2>4, <2>5, <2>6
<1>6. Calls(v, b2, a, d)
  <2> SUFFICES ASSUME NEW y \in Player, Stands(a, d, y), v.row[y].party # None, ~Mates(v.grp[Host[a[y]]], y, y)
               PROVE  Flagged(v, y) \/ Coming(v.out, b2, Host[a[y]], "reload", v.row[y].party)
    BY DEF Calls
  <2>1. Host[a[y]] \in Server
    BY StandServer DEF Stands
  <2>2. Flagged(w, y) \/ Coming(w.out, b, Host[a[y]], "reload", w.row[y].party)
    BY <1>1 DEF Calls
  <2> QED
    BY <1>3, <2>1, <2>2 DEF Raises
<1>7. Orphans(v, b2, a, d)
  <2> SUFFICES ASSUME NEW y \in Player, Leaderless(v, y)
               PROVE  /\ Still(d) /\ Clean(v) /\ ~Flagged(v, y)
                      /\ ~Around(v.out, b2, "reload", v.row[y].party)
                      /\ Coming(v.out, b2, Host[a[y]], "disband", v.row[y].party)
    BY DEF Orphans
  <2>1. Leaderless(w, y) /\ w.row[y].party # None
    BY DEF Leaderless
  <2>2. /\ Still(d) /\ Clean(w) /\ ~Flagged(w, y)
        /\ ~Around(w.out, b, "reload", w.row[y].party)
        /\ Coming(w.out, b, Host[a[y]], "disband", w.row[y].party)
    BY <1>1, <2>1 DEF Orphans
  <2>3. ~Flagged(v, y)
    BY <2>1, <2>2 DEF Raises
  <2>4. Host[a[y]] \in Server
    BY <1>1, <2>1, StandServer DEF RowsFit
  <2>5. Coming(v.out, b2, Host[a[y]], "disband", w.row[y].party)
    BY <1>3, <2>1, <2>2, <2>4
  <2> QED
    BY <1>2, <1>4, <2>2, <2>3, <2>5
<1>8. MailFits(v, b2, a, d)
  <2>1. \A t \in Server : \A y : Has(b2[t], "disband", y) => Has(b[t], "disband", y)
    BY DEF Reads
  <2>2. NoLetters(v.out, b2)
    BY <1>4 DEF NoLetters
  <2>3. \A y \in Player : /\ Around(v.out, b2, "kicked", y) => v.row[y].party = None
                          /\ Around(v.out, b2, "disband", y) => v.row[y].party = None
    BY <1>1, <1>4 DEF MailFits
  <2> QED
    BY <1>1, <1>2, <2>1, <2>2, <2>3 DEF MailFits, NoLetters
<1> QED
  BY <1>1, <1>2, <1>5, <1>6, <1>7, <1>8 DEF Fit

\* handleMessage_PartyReload.
LEMMA OnReloadHeard == ASSUME Inv, Heard, NEW s \in Server, OnReload(s) PROVE Heard'
<1>k. PICK kind \in {"reload", "kicked", "disband"} : kind = "reload"
  OBVIOUS
<1>x. PICK x : x = Head(inbox[s]).who
  OBVIOUS
<1>b. PICK b2 : b2 = inbox'
  OBVIOUS
<1>w. PICK w : w = World
  OBVIOUS
<1>1. Receive(s, kind)
  BY <1>k DEF OnReload
<1>2. /\ x \in Player /\ Reads(inbox, b2, s, kind, x) /\ Has(inbox[s], kind, x)
      /\ NoLetters(w.out, inbox) /\ UNCHANGED <<at, dest>>
  BY <1>1, <1>x, <1>b, <1>w, NewsReader
<1>3. Good(w, at, dest) /\ w \in Worlds /\ w.row = row /\ Fit(w, inbox, at, dest)
  BY <1>w, Found DEF Heard
<1>ps. PICK ps : ps = RowsOf(row, x) \cap Hosted(s)
  OBVIOUS
<1>v. PICK v : v = Flag(w, ps, TRUE)
  OBVIOUS
<1>4. v \in Worlds /\ v.row = w.row /\ v.grp = w.grp /\ SameMail(w, v) /\ Raises(w, v, ps)
  <2>1. /\ Flag(w, ps, TRUE) \in Worlds /\ Flag(w, ps, TRUE).row = w.row /\ Flag(w, ps, TRUE).grp = w.grp
        /\ SameMail(w, Flag(w, ps, TRUE))
        /\ \A y \in Player : Flagged(Flag(w, ps, TRUE), y) <=> y \in ps \/ Flagged(w, y)
    BY <1>3, FlagUpFx
  <2> QED
    BY <1>v, <2>1 DEF Raises
<1>5. Become(v)
  BY <1>x, <1>w, <1>ps, <1>v DEF OnReload
<1>6. Around(w.out, inbox, "reload", x)
  BY <1>2, <1>k DEF Around
<1>7. \A y \in Player : y \in ps => ~Leaderless(w, y)
  BY <1>3, <1>6, <1>ps DEF Fit, Orphans, RowsOf
<1>8. \A y \in Player : Stands(at, dest, y) /\ Host[at[y]] = s /\ w.row[y].party = x => y \in ps
  <2>1. \A y \in Player : Stands(at, dest, y) /\ Host[at[y]] = s => y \in Hosted(s)
    BY StandsIs
  <2> QED
    BY <1>3, <1>ps, <2>1 DEF RowsOf
<1>9. kind # "kicked" /\ kind # "disband"
  BY <1>k
<1>10. Fit(v, b2, at, dest)
  <2>1. kind = "reload" => \A y \in Player : Stands(at, dest, y) /\ Host[at[y]] = s /\ w.row[y].party = x => y \in ps
    BY <1>8
  <2>2. kind = "kicked" => \A y \in Player : Stands(at, dest, y) /\ Host[at[y]] = s /\ y = x => y \in ps
    BY <1>9
  <2>3. kind = "disband" => \A y \in Player : Leaderless(w, y) => w.row[y].party # x \/ Host[at[y]] # s
    BY <1>9
  <2> QED
    BY <1>2, <1>3, <1>4, <1>7, <2>1, <2>2, <2>3, ReadFit
<1> QED
  BY <1>b, <1>2, <1>4, <1>5, <1>10, FitNext

\* handleMessage_PlayerKick.
LEMMA OnKickedHeard == ASSUME Inv, Heard, NEW s \in Server, OnKicked(s) PROVE Heard'
<1>k. PICK kind \in {"reload", "kicked", "disband"} : kind = "kicked"
  OBVIOUS
<1>x. PICK x : x = Head(inbox[s]).who
  OBVIOUS
<1>b. PICK b2 : b2 = inbox'
  OBVIOUS
<1>w. PICK w : w = World
  OBVIOUS
<1>1. Receive(s, kind)
  BY <1>k DEF OnKicked
<1>2. /\ x \in Player /\ Reads(inbox, b2, s, kind, x) /\ Has(inbox[s], kind, x)
      /\ NoLetters(w.out, inbox) /\ UNCHANGED <<at, dest>>
  BY <1>1, <1>x, <1>b, <1>w, NewsReader
<1>3. Good(w, at, dest) /\ w \in Worlds /\ w.row = row /\ Fit(w, inbox, at, dest)
  BY <1>w, Found DEF Heard
<1>ps. PICK ps : ps = {x} \cap Hosted(s)
  OBVIOUS
<1>v. PICK v : v = Flag(w, ps, TRUE)
  OBVIOUS
<1>4. v \in Worlds /\ v.row = w.row /\ v.grp = w.grp /\ SameMail(w, v) /\ Raises(w, v, ps)
  <2>1. /\ Flag(w, ps, TRUE) \in Worlds /\ Flag(w, ps, TRUE).row = w.row /\ Flag(w, ps, TRUE).grp = w.grp
        /\ SameMail(w, Flag(w, ps, TRUE))
        /\ \A y \in Player : Flagged(Flag(w, ps, TRUE), y) <=> y \in ps \/ Flagged(w, y)
    BY <1>3, FlagUpFx
  <2> QED
    BY <1>v, <2>1 DEF Raises
<1>5. Become(v)
  BY <1>x, <1>w, <1>ps, <1>v DEF OnKicked
<1>6. Around(w.out, inbox, "kicked", x)
  BY <1>2, <1>k DEF Around
<1>7. \A y \in Player : y \in ps => ~Leaderless(w, y)
  <2>1. w.row[x].party = None
    BY <1>2, <1>3, <1>6 DEF Fit, MailFits
  <2> QED
    BY <1>ps, <2>1 DEF Leaderless
<1>8. \A y \in Player : Stands(at, dest, y) /\ Host[at[y]] = s /\ y = x => y \in ps
  BY <1>ps, StandsIs
<1>9. kind # "reload" /\ kind # "disband"
  BY <1>k
<1>10. Fit(v, b2, at, dest)
  BY <1>2, <1>3, <1>4, <1>7, <1>8, <1>9, ReadFit
<1> QED
  BY <1>b, <1>2, <1>4, <1>5, <1>10, FitNext

\* handleMessage_PartyDisband: who has lost the leader loses the party.
LEMMA OnDisbandHeard == ASSUME Inv, Heard, NEW s \in Server, OnDisband(s) PROVE Heard'
<1>k. PICK kind \in {"reload", "kicked", "disband"} : kind = "disband"
  OBVIOUS
<1>x. PICK x : x = Head(inbox[s]).who
  OBVIOUS
<1>b. PICK b2 : b2 = inbox'
  OBVIOUS
<1>w. PICK w : w = World
  OBVIOUS
<1>1. Receive(s, kind)
  BY <1>k DEF OnDisband
<1>2. /\ x \in Player /\ Reads(inbox, b2, s, kind, x) /\ Has(inbox[s], kind, x)
      /\ NoLetters(w.out, inbox) /\ UNCHANGED <<at, dest>>
  BY <1>1, <1>x, <1>b, <1>w, NewsReader
<1>3. /\ Good(w, at, dest) /\ w \in Worlds /\ w.row = row /\ w.grp = grp /\ Fit(w, inbox, at, dest)
      /\ RowsFit(w, at) /\ OneEach(w, at, dest) /\ Calls(w, inbox, at, dest) /\ Orphans(w, inbox, at, dest)
      /\ MailFits(w, inbox, at, dest)
  BY <1>w, Found DEF Heard, Fit
<1>4. Clean(w) /\ w.row[x].party = None
  <2>1. Has(inbox[s], "disband", x)
    BY <1>2, <1>k
  <2>2. Around(w.out, inbox, "disband", x)
    BY <2>1 DEF Around
  <2> QED
    BY <1>2, <1>3, <2>1, <2>2 DEF MailFits
<1>5. ASSUME NEW y \in Player, Leaderless(w, y), w.row[y].party = x, Host[at[y]] = s
      PROVE  \E g \in FoundHere(s, x) : y \in g.members
  <2>1. /\ Still(dest) /\ ~Flagged(w, y) /\ ~Around(w.out, inbox, "reload", x) /\ x # None /\ at[y] # None
    BY <1>3, <1>5 DEF Orphans, Leaderless, RowsFit
  <2>2. Stands(at, dest, y)
    BY <2>1 DEF Still, Stands
  <2>3. ~Coming(w.out, inbox, s, "reload", x)
    BY <2>1, ComingAround
  <2>4. Mates(w.grp[s], y, y)
    BY <1>3, <1>5, <2>1, <2>2, <2>3 DEF Calls
  <2>5. PICK g \in w.grp[s] : y \in g.members
    BY <2>4 DEF Mates
  <2>6. g.id = x
    BY <1>4, <1>5, <2>5 DEF Clean
  <2>7. y \in Hosted(s)
    BY <1>5, <2>2, StandsIs
  <2> QED
    BY <1>3, <2>5, <2>6, <2>7 DEF FoundHere
<1>6. CASE FoundHere(s, x) = {}
  <2>1. Become(w)
    BY <1>x, <1>w, <1>6 DEF OnDisband
  <2>2. SameMail(w, w) /\ Raises(w, w, {})
    BY DEF SameMail, Raises
  <2>3. \A y \in Player : Leaderless(w, y) => w.row[y].party # x \/ Host[at[y]] # s
    BY <1>5, <1>6
  <2>4. kind # "reload" /\ kind # "kicked"
    BY <1>k
  <2>ps. PICK ps : ps = {}
    OBVIOUS
  <2>v. PICK v : v = w
    OBVIOUS
  <2>5. v.row = w.row /\ v.grp = w.grp /\ SameMail(w, v) /\ Raises(w, v, ps) /\ \A y \in Player : y \notin ps
    BY <2>2, <2>ps, <2>v
  <2>6. Fit(v, b2, at, dest)
    BY <1>2, <1>3, <2>3, <2>4, <2>5, ReadFit
  <2> QED
    BY <1>b, <1>2, <1>3, <2>1, <2>v, <2>6, FitNext
<1>7. CASE FoundHere(s, x) # {}
  <2>1. PICK g \in FoundHere(s, x) : Become(DisbandParty(World, s, g, FALSE))
    BY <1>x, <1>7 DEF OnDisband
  <2>2. g \in w.grp[s] /\ g.id = x /\ g \in Group /\ g.members \cap Hosted(s) # {}
    BY <1>3, <2>1, ObjectIs DEF FoundHere
  <2>t. PICK told \in BOOLEAN : told = FALSE
    OBVIOUS
  <2>v. PICK v : v = DisbandParty(w, s, g, told)
    OBVIOUS
  <2>3. /\ v \in Worlds /\ Deletes(w, v, s, g) /\ Strikes(w, v, g.members) /\ Raises(w, v, g.members)
        /\ SameMail(w, v) /\ Become(v)
    <3>1. /\ v \in Worlds /\ Deletes(w, v, s, g) /\ Strikes(w, v, g.members) /\ Raises(w, v, g.members)
          /\ SameMail(w, v)
      BY <1>3, <2>2, <2>t, <2>v, DisbandFx
    <3> QED
      BY <1>w, <2>1, <2>t, <2>v, <3>1
  <2>4. Closes(w, v)
    BY <2>3 DEF Closes, SameMail
  <2>5. \A y \in Player : y \notin g.members => (Flagged(v, y) <=> Flagged(w, y))
    BY <2>3 DEF Raises
  <2>6. ASSUME NEW y \in Player, Leaderless(v, y)
        PROVE  Leaderless(w, y) /\ y \notin g.members /\ v.row[y] = w.row[y]
    <3>1. v.row[y].party # None /\ ~v.row[v.row[y].party].lead
      BY <2>6 DEF Leaderless
    <3>2. y \notin g.members /\ v.row[y] = w.row[y]
      BY <2>3, <3>1 DEF Strikes, NoRow
    <3>z. PICK z : z = w.row[y].party
      OBVIOUS
    <3>3. z \in Player
      <4>1. w.row[y] \in Row
        BY <1>3, WorldIs
      <4> QED
        BY <3>1, <3>2, <3>z, <4>1 DEF Row
    <3>4. ~v.row[z].lead
      BY <3>1, <3>2, <3>z
    <3>5. ~w.row[z].lead
      <4>1. CASE z \in g.members
        <5>1. w.row[z].party = x
          BY <1>4, <2>2, <4>1 DEF Clean
        <5>2. w.row[z].lead => w.row[z].party = z
          BY <1>3, <3>3 DEF RowsFit
        <5>3. x # None
          BY <1>2, PartyAssumption
        <5> QED
          BY <1>4, <5>1, <5>2, <5>3
      <4>2. CASE z \notin g.members
        BY <2>3, <3>3, <3>4, <4>2 DEF Strikes
      <4> QED
        BY <4>1, <4>2
    <3> QED
      BY <3>1, <3>2, <3>5, <3>z DEF Leaderless
  <2>7. Fit(v, inbox, at, dest)
    BY <1>2, <1>3, <2>2, <2>3, <2>4, <2>5, <2>6, DeletedFit
  <2>8. ASSUME NEW y \in Player, Leaderless(v, y), v.row[y].party = x, Host[at[y]] = s PROVE FALSE
    <3>1. Leaderless(w, y) /\ y \notin g.members /\ w.row[y].party = x
      BY <2>6, <2>8
    <3>2. PICK h \in FoundHere(s, x) : y \in h.members
      BY <1>5, <2>8, <3>1
    <3>3. h \in w.grp[s]
      BY <1>3 DEF FoundHere
    <3>4. Stands(at, dest, y)
      <4>1. Still(dest) /\ at[y] # None
        BY <1>3, <3>1 DEF Orphans, Leaderless, RowsFit
      <4> QED
        BY <4>1 DEF Still, Stands
    <3>5. PICK q \in g.members : q \in Hosted(s)
      BY <2>2
    <3>6. q \in Player /\ Stands(at, dest, q) /\ w.row[q].party = x
      <4>1. q \in Player
        BY <2>2 DEF Group
      <4>2. w.row[q].party = x
        BY <1>4, <2>2 DEF Clean
      <4> QED
        BY <3>5, <4>1, <4>2, StandsIs
    <3>7. x # None
      BY <1>2, PartyAssumption
    <3>8. g = h
      BY <1>3, <2>2, <3>1, <3>2, <3>3, <3>4, <3>6, <3>7 DEF OneEach
    <3> QED
      BY <3>1, <3>2, <3>8
  <2>9. Good(v, at, dest)
    BY <1>3, <2>2, <2>v, DisbandGood
  <2>10. NoLetters(v.out, inbox)
    BY <1>2, <2>3 DEF SameMail
  <2>ps. PICK ps : ps = {}
    OBVIOUS
  <2>u. PICK u : u = v
    OBVIOUS
  <2>11. u.row = v.row /\ u.grp = v.grp /\ SameMail(v, u) /\ Raises(v, u, ps) /\ \A y \in Player : y \notin ps
    BY <2>ps, <2>u DEF SameMail, Raises
  <2>12. kind # "reload" /\ kind # "kicked" /\ \A y \in Player : Leaderless(v, y) => v.row[y].party # x \/ Host[at[y]] # s
    BY <1>k, <2>8
  <2>13. Fit(u, b2, at, dest)
    BY <1>2, <2>7, <2>9, <2>10, <2>11, <2>12, ReadFit
  <2> QED
    BY <1>b, <1>2, <2>3, <2>u, <2>13, FitNext
<1> QED
  BY <1>6, <1>7

\* handleMessage_PartyInvite.
LEMMA OnInviteHeard == ASSUME Inv, Heard, NEW s \in Server, OnInvite(s) PROVE Heard'
<1>k. PICK kind \in {"invite", "answer"} : kind = "invite"
  OBVIOUS
<1>1. Inv'
  BY OnInviteInv
<1>2. Receive(s, kind)
  BY <1>k DEF OnInvite
<1>3. /\ Good(World, at, dest) /\ Agreed(World, at, dest, None) /\ NewsOnly(World) /\ Silent(inbox')
      /\ UNCHANGED <<at, dest>> /\ World \in Worlds
  BY <1>2, LetterRead, Found
<1>4. Become(World)
  BY DEF OnInvite
<1> QED
  BY <1>1, <1>3, <1>4, AgreedTold, ReaderTold

\* The world server takes a message out of the queue of s, and puts it into those of `to'.
Routes(o, o2, b, b2, s, to, kind, x) == \A t \in Server : \A k, y :
  /\ Has(o[t], k, y) <=> Has(o2[t], k, y) \/ (t = s /\ k = kind /\ y = x)
  /\ Has(b2[t], k, y) <=> Has(b[t], k, y) \/ (t \in to /\ k = kind /\ y = x)

\* Whom a message must reach: those of the party it is about, or the one.
Reaches(w, a, d, to, kind, x) ==
  /\ kind = "reload" => \A y \in Player : Stands(a, d, y) /\ w.row[y].party = x => Host[a[y]] \in to
  /\ kind = "kicked" => \A y \in Player : Stands(a, d, y) /\ y = x => Host[a[y]] \in to
  /\ kind = "disband" /\ Still(d) => \A y \in Player : a[y] # None /\ w.row[y].party = x => Host[a[y]] \in to
  /\ kind = "disband" => \A t \in Server : t \in to => \E y \in Player : w.row[y].party = x

\* A message that reaches all it concerns: the world still fits the news.
LEMMA RouteFit ==
  ASSUME NEW w, NEW b, NEW a, NEW d, Good(w, a, d), Fit(w, b, a, d),
         NEW v, v.row = w.row, v.grp = w.grp, v.flag = w.flag,
         NEW b2, NEW s \in Server, NEW to, NEW kind, NEW x \in Player, Routes(w.out, v.out, b, b2, s, to, kind, x),
         Reaches(w, a, d, to, kind, x),
         \A y \in Player : Around(v.out, b2, "invite", y) \/ Around(v.out, b2, "answer", y) => Alone(v.out, b2)
  PROVE  Fit(v, b2, a, d)
<1>1. /\ w \in Worlds /\ RowsFit(w, a) /\ Uniform(w) /\ OneEach(w, a, d) /\ (Clean(w) \/ (Still(d) /\ Gathered(w, a)))
      /\ News(w, b, a, d) /\ Calls(w, b, a, d) /\ Orphans(w, b, a, d) /\ MailFits(w, b, a, d)
  BY DEF Fit, Good
<1>2. RowsFit(v, a) /\ Uniform(v) /\ OneEach(v, a, d) /\ (Clean(v) <=> Clean(w)) /\ (Gathered(v, a) <=> Gathered(w, a))
  <2>1. RowsFit(v, a) /\ Uniform(v)
    BY <1>1 DEF RowsFit, Uniform
  <2>2. OneEach(v, a, d)
    BY <1>1 DEF OneEach
  <2> QED
    BY <2>1, <2>2 DEF Clean, Gathered
<1>0. /\ kind = "reload" => \A y \in Player : Stands(a, d, y) /\ w.row[y].party = x => Host[a[y]] \in to
      /\ kind = "kicked" => \A y \in Player : Stands(a, d, y) /\ y = x => Host[a[y]] \in to
      /\ kind = "disband" /\ Still(d) => \A y \in Player : a[y] # None /\ w.row[y].party = x => Host[a[y]] \in to
      /\ kind = "disband" => \A t \in Server : t \in to => \E y \in Player : w.row[y].party = x
  BY DEF Reaches
<1>3. \A t \in Server : \A k, y : Coming(w.out, b, t, k, y) => Coming(v.out, b2, t, k, y) \/ (k = kind /\ y = x /\ t \notin to)
  BY DEF Coming, Routes
<1>4. \A k, y : Around(v.out, b2, k, y) => Around(w.out, b, k, y)
  BY DEF Around, Routes
<1>5. \A y \in Player : (Flagged(v, y) <=> Flagged(w, y)) /\ (Leaderless(v, y) <=> Leaderless(w, y))
  BY DEF Flagged, Leaderless
<1>6. News(v, b2, a, d)
  <2> SUFFICES ASSUME NEW t \in Server, NEW g \in v.grp[t], NEW y \in g.members, Stands(a, d, y)
               PROVE  IF v.row[y].party = None
                      THEN g.lead = None /\ (Flagged(v, y) \/ Coming(v.out, b2, t, "kicked", y))
                      ELSE \/ Fresh(v, g, y)
                           \/ \E q \in g.members : Stands(a, d, q) /\ Flagged(v, q)
                           \/ Coming(v.out, b2, t, "reload", v.row[y].party)
    BY DEF News
  <2>1. \A z \in g.members : z \in Player /\ Host[a[z]] = t
    BY OneObject
  <2>2. \A z \in g.members : Flagged(w, z) => Flagged(v, z)
    BY <1>5, <2>1
  <2>3. Fresh(v, g, y) <=> Fresh(w, g, y)
    BY DEF Fresh, LeadOf
  <2>4. IF w.row[y].party = None
        THEN g.lead = None /\ (Flagged(w, y) \/ Coming(w.out, b, t, "kicked", y))
        ELSE \/ Fresh(w, g, y)
             \/ \E q \in g.members : Stands(a, d, q) /\ Flagged(w, q)
             \/ Coming(w.out, b, t, "reload", w.row[y].party)
    BY <1>1 DEF News
  <2>5. Coming(w.out, b, t, "kicked", y) => Coming(v.out, b2, t, "kicked", y)
    BY <1>0, <1>3, <2>1
  <2>6. Coming(w.out, b, t, "reload", w.row[y].party) => Coming(v.out, b2, t, "reload", w.row[y].party)
    BY <1>0, <1>3, <2>1
  <2> QED
    BY <2>2, <2>3, <2>4, <2>5, <2>6
<1>7. Calls(v, b2, a, d)
  <2> SUFFICES ASSUME NEW y \in Player, Stands(a, d, y), v.row[y].party # None, ~Mates(v.grp[Host[a[y]]], y, y)
               PROVE  Flagged(v, y) \/ Coming(v.out, b2, Host[a[y]], "reload", v.row[y].party)
    BY DEF Calls
  <2>1. Host[a[y]] \in Server
    BY StandServer DEF Stands
  <2>2. Flagged(w, y) \/ Coming(w.out, b, Host[a[y]], "reload", w.row[y].party)
    BY <1>1 DEF Calls
  <2> QED
    BY <1>0, <1>3, <1>5, <2>1, <2>2
<1>8. Orphans(v, b2, a, d)
  <2> SUFFICES ASSUME NEW y \in Player, Leaderless(v, y)
               PROVE  /\ Still(d) /\ Clean(v) /\ ~Flagged(v, y)
                      /\ ~Around(v.out, b2, "reload", v.row[y].party)
                      /\ Coming(v.out, b2, Host[a[y]], "disband", v.row[y].party)
    BY DEF Orphans
  <2>1. Leaderless(w, y) /\ w.row[y].party # None
    BY DEF Leaderless
  <2>2. /\ Still(d) /\ Clean(w) /\ ~Flagged(w, y)
        /\ ~Around(w.out, b, "reload", w.row[y].party)
        /\ Coming(w.out, b, Host[a[y]], "disband", w.row[y].party)
    BY <1>1, <2>1 DEF Orphans
  <2>3. a[y] # None /\ Host[a[y]] \in Server
    BY <1>1, <2>1, StandServer DEF RowsFit
  <2>4. Coming(v.out, b2, Host[a[y]], "disband", w.row[y].party)
    BY <1>0, <1>3, <2>2, <2>3
  <2> QED
    BY <1>2, <1>4, <1>5, <2>2, <2>4
<1>9. ASSUME NEW t \in Server, NEW y \in Player, Has(b2[t], "disband", y) PROVE Clean(v)
  <2>1. CASE Has(b[t], "disband", y)
    BY <1>1, <1>2, <2>1 DEF MailFits
  <2>2. CASE ~Has(b[t], "disband", y)
    <3>1. t \in to /\ kind = "disband" /\ y = x
      BY <1>9, <2>2 DEF Routes
    <3>2. PICK z \in Player : w.row[z].party = x
      BY <1>0, <3>1
    <3>3. Around(v.out, b2, "disband", x)
      BY <1>9, <3>1 DEF Around
    <3>4. w.row[x].party = None /\ x # None
      BY <1>1, <1>4, <3>3, PartyAssumption DEF MailFits
    <3>5. ~w.row[x].lead
      BY <1>1, <3>4 DEF RowsFit
    <3>6. Leaderless(w, z)
      BY <3>2, <3>4, <3>5 DEF Leaderless
    <3> QED
      BY <1>1, <1>2, <3>6 DEF Orphans
  <2> QED
    BY <2>1, <2>2
<1>10. MailFits(v, b2, a, d)
  <2>1. \A y \in Player : /\ Around(v.out, b2, "kicked", y) => v.row[y].party = None
                          /\ Around(v.out, b2, "disband", y) => v.row[y].party = None
    BY <1>1, <1>4 DEF MailFits
  <2>2. ASSUME NEW y \in Player, Around(v.out, b2, "invite", y) \/ Around(v.out, b2, "answer", y)
        PROVE  Alone(v.out, b2) /\ Still(d) /\ Unflagged(v, a, d)
    <3>1. Around(w.out, b, "invite", y) \/ Around(w.out, b, "answer", y)
      BY <1>4, <2>2
    <3>2. Still(d) /\ Unflagged(w, a, d)
      BY <1>1, <3>1 DEF MailFits
    <3> QED
      BY <1>5, <2>2, <3>2 DEF Unflagged
  <2> QED
    BY <1>9, <2>1, <2>2 DEF MailFits
<1> QED
  BY <1>1, <1>2, <1>6, <1>7, <1>8, <1>10 DEF Fit

\* A queue of one message, and one without.
LEMMA OneLeft ==
  ASSUME NEW q \in Seq(Mail)
  PROVE  (q # << >> /\ Len(q) = 1 => Tail(q) = << >>) /\ \A m \in Mail : q = << >> => Len(Append(q, m)) = 1
<1>1. ASSUME q # << >>, Len(q) = 1 PROVE Tail(q) = << >>
  <2>1. Tail(q) \in Seq(Mail)
    BY <1>1
  <2>r. PICK r : r = Tail(q)
    OBVIOUS
  <2>2. r \in Seq(Mail) /\ Len(r) = 0
    BY <1>1, <2>1, <2>r
  <2>3. r = << >>
    BY <2>2
  <2> QED
    BY <2>3, <2>r
<1>2. ASSUME NEW m \in Mail, q = << >> PROVE Len(Append(q, m)) = 1
  BY <1>2
<1> QED
  BY <1>1, <1>2

\* The queues without the first message of s, and those that get m.
Takes(o, o2, s) == \A t \in Server : o2[t] = IF t = s THEN Tail(o[s]) ELSE o[t]
Gives(b, b2, to, m) == \A t \in Server : b2[t] = IF t \in to THEN Append(b[t], m) ELSE b[t]

\* A letter goes to one server at most, and is still the only message.
LEMMA LetterRouted ==
  ASSUME NEW o \in [Server -> Seq(Mail)], NEW b \in [Server -> Seq(Mail)], Alone(o, b),
         NEW s \in Server, o[s] # << >>, NEW m \in Mail,
         NEW o2, Takes(o, o2, s), NEW to, NEW u, \A t \in to : t = u,
         NEW b2, Gives(b, b2, to, m)
  PROVE  Alone(o2, b2)
<1>1. Len(o[s]) = 1 /\ \A t \in Server : b[t] = << >> /\ (t # s => o[t] = << >>)
  BY DEF Alone
<1>2. Tail(o[s]) = << >>
  BY <1>1, OneLeft
<1>3. \A t \in Server : o2[t] = << >>
  BY <1>1, <1>2 DEF Takes
<1>4. \A t \in Server : Len(Append(b[t], m)) = 1
  BY <1>1, OneLeft
<1>5. \A t \in Server : /\ t \notin to => b2[t] = << >>
                        /\ t \in to => Len(b2[t]) = 1 /\ t = u
  BY <1>1, <1>4 DEF Gives
<1> QED
  BY <1>3, <1>5 DEF Alone

\* The world server passes a message on to the servers of those it concerns.
LEMMA RouteHeard == ASSUME Inv, Heard, NEW s \in Server, Route(s) PROVE Heard'
<1>1. /\ Good(World, at, dest) /\ World \in Worlds /\ World.row = row /\ World.out = out
      /\ inbox \in [Server -> Seq(Mail)]
  BY Found DEF World
<1>2. out \in [Server -> Seq(Mail)] /\ out[s] # << >>
  BY <1>1, WorldIs DEF Route
<1>m. PICK m : m = Head(out[s])
  OBVIOUS
<1>3. m \in Mail /\ [out EXCEPT ![s] = Tail(out[s])] \in [Server -> Seq(Mail)] /\ out[s] \in Seq(Mail)
  BY <1>2, <1>m, QueueIs
<1>kind. PICK kind : kind = m.kind
  OBVIOUS
<1>x. PICK x : x = m.who
  OBVIOUS
<1>4. kind \in Kinds /\ x \in Player
  BY <1>3, <1>kind, <1>x DEF Mail
<1>cs. PICK cs : cs = IF kind \in {"reload", "disband"} THEN RowsOf(row, x) ELSE {x}
  OBVIOUS
<1>to. PICK to : to = {SessionServer(p) : p \in {q \in cs : Online(q)}}
  OBVIOUS
<1>b2. PICK b2 : b2 = [t \in Server |-> IF t \in to THEN Append(inbox[t], m) ELSE inbox[t]]
  OBVIOUS
<1>o2. PICK o2 : o2 = [out EXCEPT ![s] = Tail(out[s])]
  OBVIOUS
<1>5. inbox' = b2 /\ out' = o2 /\ UNCHANGED <<row, at, dest, grp, pool, flag, pending>>
  BY <1>m, <1>kind, <1>x, <1>cs, <1>to, <1>b2, <1>o2 DEF Route
<1>w. PICK w : w = World
  OBVIOUS
<1>v. PICK v : v = [w EXCEPT !.out = o2]
  OBVIOUS
<1>6. v \in Worlds /\ v.row = w.row /\ v.grp = w.grp /\ v.pool = w.pool /\ v.flag = w.flag /\ v.out = o2
  BY <1>1, <1>3, <1>o2, <1>w, <1>v DEF Worlds
<1>7. Become(v)
  BY <1>5, <1>v, <1>w DEF Become, World
<1>8. Routes(out, o2, inbox, b2, s, to, kind, x)
  <2> SUFFICES ASSUME NEW t \in Server, NEW k, NEW y
               PROVE  /\ Has(out[t], k, y) <=> Has(o2[t], k, y) \/ (t = s /\ k = kind /\ y = x)
                      /\ Has(b2[t], k, y) <=> Has(inbox[t], k, y) \/ (t \in to /\ k = kind /\ y = x)
    BY DEF Routes
  <2>1. Has(out[s], k, y) <=> Has(Tail(out[s]), k, y) \/ (m.kind = k /\ m.who = y)
    BY <1>2, <1>3, <1>m, HasTail
  <2>2. o2[t] = IF t = s THEN Tail(out[s]) ELSE out[t]
    BY <1>2, <1>o2
  <2>3. inbox[t] \in Seq(Mail)
    BY <1>1
  <2>4. Has(Append(inbox[t], m), k, y) <=> Has(inbox[t], k, y) \/ (m.kind = k /\ m.who = y)
    BY <1>3, <2>3, HasAppend
  <2>5. b2[t] = IF t \in to THEN Append(inbox[t], m) ELSE inbox[t]
    BY <1>b2
  <2>6. Has(out[t], k, y) <=> Has(o2[t], k, y) \/ (t = s /\ k = kind /\ y = x)
    BY <1>kind, <1>x, <2>1, <2>2
  <2>7. Has(b2[t], k, y) <=> Has(inbox[t], k, y) \/ (t \in to /\ k = kind /\ y = x)
    BY <1>kind, <1>x, <2>4, <2>5
  <2> QED
    BY <2>6, <2>7
<1>9. ASSUME NEW y \in cs, y \in Player, at[y] # None, dest[y] = None PROVE Host[at[y]] \in to
  <2>1. Online(y) /\ SessionServer(y) = Host[at[y]]
    BY <1>9 DEF Online, SessionServer
  <2> QED
    BY <1>9, <1>to, <2>1
<1>10. kind = "reload" => \A y \in Player : Stands(at, dest, y) /\ w.row[y].party = x => Host[at[y]] \in to
  BY <1>1, <1>w, <1>cs, <1>9 DEF Stands, RowsOf
<1>11. kind = "kicked" => \A y \in Player : Stands(at, dest, y) /\ y = x => Host[at[y]] \in to
  BY <1>cs, <1>9 DEF Stands
<1>12. kind = "disband" /\ Still(dest) =>
         \A y \in Player : at[y] # None /\ w.row[y].party = x => Host[at[y]] \in to
  BY <1>1, <1>w, <1>cs, <1>9 DEF Still, RowsOf
<1>13. kind = "disband" => \A t \in Server : t \in to => \E y \in Player : w.row[y].party = x
  BY <1>1, <1>w, <1>cs, <1>to DEF RowsOf
<1>14. Fit(w, inbox, at, dest) /\ w.out = out
  BY <1>1, <1>w DEF Heard
<1>15. ASSUME NEW y \in Player, NEW k \in {"invite", "answer"}, Around(v.out, b2, k, y)
       PROVE  Alone(v.out, b2)
  <2>1. Around(out, inbox, k, y)
    BY <1>6, <1>8, <1>15 DEF Around, Routes
  <2>2. Alone(out, inbox)
    BY <1>14, <2>1 DEF Fit, MailFits
  <2>3. /\ Len(out[s]) = 1 /\ \A t \in Server : inbox[t] = << >> /\ (t # s => out[t] = << >>)
    BY <1>2, <2>2 DEF Alone
  <2>4. Has(out[s], k, y)
    BY <2>1, <2>3, HasNone DEF Around
  <2>5. kind = k
    BY <1>2, <1>3, <1>m, <1>kind, <2>3, <2>4, OneMail
  <2>6. cs = {x}
    BY <1>cs, <2>5
  <2>u. PICK u : u = SessionServer(x)
    OBVIOUS
  <2>7. \A t \in to : t = u
    BY <1>to, <2>6, <2>u
  <2>8. Takes(out, o2, s) /\ Gives(inbox, b2, to, m)
    BY <1>2, <1>o2, <1>b2 DEF Takes, Gives
  <2>9. Alone(o2, b2)
    BY <1>1, <1>2, <1>3, <2>2, <2>7, <2>8, LetterRouted
  <2> QED
    BY <1>6, <2>9
<1>16. \A y \in Player : Around(v.out, b2, "invite", y) \/ Around(v.out, b2, "answer", y) => Alone(v.out, b2)
  BY <1>15
<1>r. Reaches(w, at, dest, to, kind, x)
  BY <1>10, <1>11, <1>12, <1>13 DEF Reaches
<1>17. Routes(w.out, v.out, inbox, b2, s, to, kind, x) /\ Good(w, at, dest)
  BY <1>1, <1>6, <1>8, <1>14, <1>w
<1>18. Fit(v, b2, at, dest)
  BY <1>4, <1>6, <1>14, <1>16, <1>17, <1>r, RouteFit
<1> QED
  BY <1>5, <1>6, <1>7, <1>18, FitNext

-----------------------------------------------------------------------------
(* The invariant.                                                            *)

\* At the start there is nothing to hear.
LEMMA InitHeard == Init => Heard
<1> SUFFICES ASSUME Init PROVE Heard
  OBVIOUS
<1>w. PICK w : w = World
  OBVIOUS
<1>1. w.row = row /\ w.grp = grp /\ w.out = out /\ w.flag = flag
  BY <1>w DEF World
<1>2. \A p \in Player : /\ w.row[p].party = None /\ ~w.row[p].lead
                        /\ ~Flagged(w, p) /\ dest[p] = None
  BY <1>1 DEF Init, NoRow, Flagged
<1>3. \A s \in Server : w.grp[s] = {} /\ w.out[s] = << >> /\ inbox[s] = << >>
  BY <1>1 DEF Init
<1>4. \A k, x : ~Around(w.out, inbox, k, x)
  BY <1>3, HasNone DEF Around
<1>5. RowsFit(w, at)
  <2>1. ASSUME NEW x \in Player
        PROVE  IsFiniteSet(RowsOf(w.row, x)) /\ Cardinality(RowsOf(w.row, x)) <= Room
    <3>1. RowsOf(w.row, x) = {}
      BY <1>2, PartyAssumption DEF RowsOf
    <3>2. Room \in Nat
      BY PartyAssumption
    <3> QED
      BY <3>1, <3>2, FS_EmptySet
  <2> QED
    BY <1>2, <2>1 DEF RowsFit
<1>6. Uniform(w) /\ OneEach(w, at, dest) /\ Clean(w) /\ News(w, inbox, at, dest)
  BY <1>3 DEF Uniform, OneEach, Clean, News
<1>7. Calls(w, inbox, at, dest) /\ Orphans(w, inbox, at, dest)
  BY <1>2 DEF Calls, Orphans, Leaderless
<1>8. MailFits(w, inbox, at, dest)
  BY <1>3, <1>4, HasNone DEF MailFits
<1> QED
  BY <1>5, <1>6, <1>7, <1>8, <1>w DEF Fit, Heard

\* The world fits the news after every step, if no request is hasty and nobody is misled.
LEMMA StepHeard == ASSUME Hasty = {} PROVE Inv /\ Heard /\ [CalmNext]_vars => Heard'
<1>1. ASSUME Inv, Heard, Common PROVE Heard'
  BY <1>1, SolicitHeard, DeclineHeard, AcceptHeard, LeaveHeard, KickHereHeard, BreakupHeard, PassLeadHeard,
     ZoneOutHeard, DestroyHeard, ZoneInHeard, LogoutHeard, LoginHeard, TickMemberHeard, TickStrangerHeard,
     RouteHeard, OnReloadHeard, OnKickedHeard, OnDisbandHeard, OnInviteHeard, OnAnswerHeard DEF Common
<1>2. ASSUME Inv, Heard, CalmNext PROVE Heard'
  BY <1>1, <1>2, KickAwayHeard, VanishHeard DEF CalmNext
<1>3. ASSUME Heard, UNCHANGED vars PROVE Heard'
  <2>1. World' = World /\ inbox' = inbox /\ at' = at /\ dest' = dest
    BY <1>3 DEF vars, World
  <2>w. PICK w : w = World
    OBVIOUS
  <2>2. World' = w /\ Fit(w, inbox, at, dest)
    BY <1>3, <2>1, <2>w DEF Heard
  <2>3. Fit(World', inbox', at', dest')
    BY <2>1, <2>2
  <2> QED
    BY <2>3 DEF Heard
<1> QED
  BY <1>2, <1>3

\* At every moment what the CParty objects of a server have not heard of the rows is on its way to it, or
\* is about to be read at the next tick of a member there, if requests wait for the news, a member struck
\* from afar has no fellow in his object, and no leader of others vanishes between zones.
THEOREM NewsInvariance == ASSUME Hasty = {} PROVE CalmSpec => [](Inv /\ Heard)
<1>1. Init => Inv /\ Heard
  BY InitInv, InitHeard
<1>2. [CalmNext]_vars => [Next]_vars
  BY DEF CalmNext, Next
<1>3. Inv /\ Heard /\ [CalmNext]_vars => (Inv /\ Heard)'
  BY <1>2, StepInv, StepHeard
<1> QED
  BY <1>1, <1>3, PTL DEF CalmSpec

-----------------------------------------------------------------------------
(* What the runs check.                                                      *)

\* What the invariant says of the pools.
LEMMA HeardLoot == Inv /\ Heard => SharedLoot
<1> SUFFICES ASSUME Inv, Heard, Quiet, NEW p \in Player, NEW q \in Player,
                    InZone(p), InZone(q), at[p] = at[q],
                    row[p].party # None, row[p].party = row[q].party
             PROVE  \E ps \in pool : {p, q} \subseteq ps
  BY DEF SharedLoot
<1>w. PICK w : w = World
  OBVIOUS
<1>1. Good(w, at, dest) /\ w.grp = grp /\ w.row = row /\ w.pool = pool /\ OneEach(w, at, dest)
  BY <1>w, Found DEF Heard, Fit
<1>2. Stands(at, dest, p) /\ Stands(at, dest, q)
  BY StandsIs
<1>s. PICK s : s = Host[at[p]]
  OBVIOUS
<1>3. s \in Server /\ Mates(w.grp[s], p, p) /\ Mates(w.grp[s], q, q)
  BY <1>1, <1>2, <1>s, <1>w, QuietIs
<1>4. PICK g \in w.grp[s] : p \in g.members
  BY <1>3 DEF Mates
<1>5. PICK h \in w.grp[s] : q \in h.members
  BY <1>3 DEF Mates
<1>6. g = h
  BY <1>1, <1>2, <1>3, <1>4, <1>5 DEF OneEach
<1>7. Mates(w.grp[s], p, q)
  BY <1>4, <1>5, <1>6 DEF Mates
<1>8. Share(w.pool, p, q)
  <2>1. CASE p = q
    <3>1. p \in Standing(at, dest) /\ Pools(w.pool, Standing(at, dest))
      BY <1>1, <1>2 DEF Standing, Good
    <3>2. Share(w.pool, p, p)
      BY <3>1 DEF Pools
    <3> QED
      BY <2>1, <3>2
  <2>2. CASE p # q
    <3>1. Near(at, dest, p, q)
      BY <1>2 DEF Near
    <3> QED
      BY <1>1, <1>7, <1>s, <2>2, <3>1 DEF Good, Agree
  <2> QED
    BY <2>1, <2>2
<1> QED
  BY <1>1, <1>8 DEF Share

\* What the invariant says of the objects.
LEMMA HeardMemory == Inv /\ Heard => MemoryFollowsRows
<1> SUFFICES ASSUME Inv, Heard, Quiet PROVE MemoryFollowsRows
  BY DEF MemoryFollowsRows, KickHeard
<1>w. PICK w : w = World
  OBVIOUS
<1>1. w.grp = grp /\ w.row = row
  BY <1>w, Found
<1>2. /\ \A t \in Server : \A g \in w.grp[t] : \A p \in g.members :
           Stands(at, dest, p) => w.row[p].party # None /\ Fresh(w, g, p)
      /\ \A p \in Player : Stands(at, dest, p) /\ w.row[p].party # None =>
           Host[at[p]] \in Server /\ Mates(w.grp[Host[at[p]]], p, p)
  BY <1>w, QuietIs
<1>3. ASSUME NEW p \in Player, InZone(p), row[p].party = None, HasParty(w, ServerOf(p), p) PROVE FALSE
  <2>1. Stands(at, dest, p) /\ ServerOf(p) \in Server
    BY <1>3, StandsIs DEF InZone
  <2>2. PICK g \in w.grp[ServerOf(p)] : p \in g.members
    BY <1>3 DEF HasParty
  <2> QED
    BY <1>1, <1>2, <1>3, <2>1, <2>2
<1>4. ASSUME NEW p \in Player, InZone(p), row[p].party # None
      PROVE  \E g \in grp[ServerOf(p)] :
               p \in g.members /\ g.id = row[p].party /\ g.lead \in g.members \cup {None}
  <2>1. Stands(at, dest, p) /\ ServerOf(p) \in Server /\ ServerOf(p) = Host[at[p]]
    BY <1>4, StandsIs DEF InZone
  <2>2. Mates(w.grp[ServerOf(p)], p, p)
    BY <1>1, <1>2, <1>4, <2>1
  <2>3. PICK g \in w.grp[ServerOf(p)] : p \in g.members
    BY <2>2 DEF Mates
  <2>4. g.id = w.row[p].party /\ g.lead = LeadOf(w, g)
    BY <1>2, <2>1, <2>3 DEF Fresh
  <2>5. g.lead \in g.members \cup {None}
    BY <2>4 DEF LeadOf
  <2> QED
    BY <1>1, <2>3, <2>4, <2>5
<1> QED
  BY <1>3, <1>4, <1>w DEF MemoryFollowsRows, KickHeard

\* What the invariant says of the rows.
LEMMA HeardRows == Inv /\ Heard => NeverOverfull /\ OneLeader
<1> SUFFICES ASSUME Inv, Heard PROVE NeverOverfull /\ OneLeader
  OBVIOUS
<1>w. PICK w : w = World
  OBVIOUS
<1>1. w.row = row /\ RowsFit(w, at)
  BY <1>w, Found DEF Heard, Fit
<1>2. NeverOverfull
  BY <1>1 DEF NeverOverfull, RowsFit
<1>3. ASSUME NEW id \in Player PROVE Cardinality(LeadersOf(row, id)) <= 1
  <2>1. LeadersOf(row, id) \subseteq {id}
    BY <1>1 DEF LeadersOf, RowsOf, RowsFit
  <2>2. IsFiniteSet({id}) /\ Cardinality({id}) = 1
    BY FS_Singleton
  <2> QED
    BY <2>1, <2>2, FS_Subset
<1>4. ASSUME NEW id \in Player, Quiet, Cardinality(RowsOf(row, id)) > 1 PROVE LeadersOf(row, id) # {}
  <2>1. RowsOf(row, id) # {}
    BY <1>4, FS_EmptySet
  <2>2. PICK p \in Player : row[p].party = id
    BY <2>1 DEF RowsOf
  <2>3. ~Leaderless(w, p)
    BY <1>4, <1>w, QuietIs DEF Rooted
  <2>4. id # None
    BY PartyAssumption
  <2>5. row[id].lead
    BY <1>1, <2>2, <2>3, <2>4 DEF Leaderless
  <2> QED
    BY <1>1, <2>5 DEF LeadersOf, RowsOf, RowsFit
<1> QED
  BY <1>2, <1>3, <1>4 DEF OneLeader

\* Members of one party by the rows who stand in one zone share a treasure pool once the news is heard, for
\* any players, servers and zones, whatever CParty objects they came through, under the hypotheses of
\* NewsInvariance: requests that wait, kicks that find the victim alone, leaders that do not vanish.
THEOREM LootIsShared == ASSUME Hasty = {} PROVE CalmSpec => []SharedLoot
BY NewsInvariance, HeardLoot, PTL

\* Every server's memory agrees with the rows once the news is heard, for any players, servers and zones,
\* under the hypotheses of NewsInvariance: a member kicked with no fellow in his object is in no party, and
\* so is one whose party was disbanded; nobody is without his party.
THEOREM MemoryAgrees == ASSUME Hasty = {} PROVE CalmSpec => []MemoryFollowsRows
BY NewsInvariance, HeardMemory, PTL

\* No party has more rows than room, for any room, under the hypotheses of NewsInvariance.
THEOREM RoomForAll == ASSUME Hasty = {} PROVE CalmSpec => []NeverOverfull
BY NewsInvariance, HeardRows, PTL

\* At most one row of a party has the leader flag, and one has it once the news of a party of several is
\* heard, for any players, servers and zones, under the hypotheses of NewsInvariance.
THEOREM LeaderIsOne == ASSUME Hasty = {} PROVE CalmSpec => []OneLeader
BY NewsInvariance, HeardRows, PTL
=============================================================================
