------------------------------- MODULE Party -------------------------------
(***************************************************************************)
(* Player parties (src/src/map/party.cpp) on several map servers.  The     *)
(* truth is one row of accounts_parties per member; each map server keeps  *)
(* CParty objects of its own for the members it hosts, and brings them     *)
(* into line with the rows when a PartyReload message, or its own work,    *)
(* has raised a member's reload flag and that member ticks.  Members of a  *)
(* party who stand in one zone share one treasure pool.                    *)
(*                                                                         *)
(* Alliances, level sync, quartermasters and trusts are left out.          *)
(***************************************************************************)
EXTENDS Naturals, Sequences, FiniteSets

CONSTANTS Player, Server, Zone,
          Host,     \* the map server of each zone
          Room,     \* members a party has room for (6 in the code)
          Hasty,    \* requests that do not wait for the news (see May)
          MaxMail,  \* bound on the mail of a server when a hasty request comes
          MaxAway,  \* bound on the players between zones at a time
          None      \* no party, no leader, no inviter, no zone

ASSUME PartyAssumption ==
    /\ Host \in [Zone -> Server]
    /\ Room \in Nat \ {0} /\ MaxMail \in Nat \ {0} /\ MaxAway \in Nat \ {0}
    /\ None \notin Player \cup Zone

VARIABLES row,      \* accounts_parties: party id and leader flag by character
          at, dest, \* zone of a character (None: offline), zone it is bound for
          grp,      \* the CParty objects of each server
          pool,     \* the treasure pools, as the sets of their members
          flag,     \* m_reloadParty of each character
          pending,  \* InvitePending of each character
          out,      \* mail from each map server to the world server
          inbox     \* mail from the world server to each map server

vars == <<row, at, dest, grp, pool, flag, pending, out, inbox>>

(***************************************************************************)
(* What is where.                                                          *)
(***************************************************************************)
NoRow == [party |-> None, lead |-> FALSE]

Online(p) == at[p] # None
InZone(p) == Online(p) /\ dest[p] = None
ServerOf(p) == Host[at[p]]
\* server_addr of the session row: it is moved when the client is sent away
SessionServer(p) == Host[IF dest[p] = None THEN at[p] ELSE dest[p]]
Hosted(s) == {p \in Player : InZone(p) /\ ServerOf(p) = s}

RowsOf(rows, id) == {p \in Player : rows[p].party = id}
LeadersOf(rows, id) == {p \in RowsOf(rows, id) : rows[p].lead}

\* what a handler works on: the parts of the state the party code changes
World == [row |-> row, grp |-> grp, pool |-> pool, flag |-> flag, out |-> out]

Become(w) ==
    /\ row' = w.row
    /\ grp' = w.grp
    /\ pool' = w.pool
    /\ flag' = w.flag
    /\ out' = w.out

HasParty(w, s, p) == \E g \in w.grp[s] : p \in g.members
PartyOf(w, s, p) == CHOOSE g \in w.grp[s] : p \in g.members

\* mutant: an object whose last member has left is kept
ReplaceKeeps(w, s, g, h) == [w EXCEPT !.grp[s] = (@ \ {g}) \cup {h}]

Replace(w, s, g, h) ==
    [w EXCEPT !.grp[s] =
        (@ \ {g}) \cup (IF h.members = {} THEN {} ELSE {h})]

Send(w, s, kind, who, by) ==
    [w EXCEPT !.out[s] = Append(@, [kind |-> kind, who |-> who, by |-> by])]

Reload(w, s, g) == Send(w, s, "reload", g.id, g.id)

Flag(w, ps, b) ==
    [w EXCEPT !.flag = [p \in Player |-> IF p \in ps THEN b ELSE @[p]]]

(***************************************************************************)
(* Treasure pools.                                                         *)
(***************************************************************************)
\* CTreasurePool::delMember: a pool without members deletes itself
OutOfPool(pools, p) == {ps \ {p} : ps \in pools} \ {{}}

\* a member leaves the party: a Solo pool takes the place of the shared one
OwnPool(w, ps) ==
    LET had == ps \cap UNION w.pool
    IN  [w EXCEPT !.pool =
            ({qs \ had : qs \in @} \ {{}}) \cup {{p} : p \in had}]

\* CParty::ReloadTreasurePool: the pool of a fellow in the same zone, if any
ReloadTreasurePool(w, g, p) ==
    LET fellows == {q \in g.members \ {p} : q \in UNION w.pool /\ at[q] = at[p]}
        rest    == OutOfPool(w.pool, p)
    IN  IF fellows # {}
        THEN LET q == CHOOSE q \in fellows : TRUE
                 its == CHOOSE ps \in rest : q \in ps
             IN  [w EXCEPT !.pool = (rest \ {its}) \cup {its \cup {p}}]
        ELSE IF p \in UNION w.pool THEN w
        ELSE [w EXCEPT !.pool = @ \cup {{p}}]

(***************************************************************************)
(* The methods of CParty.                                                  *)
(***************************************************************************)
\* SetLeader: rows lose the old flag and take the new id, then the new
\* leader's row takes the flag; ClearTrusts raises the local members' flags
Led(g, q) ==
    [g EXCEPT !.id = q, !.lead = IF q \in g.members THEN q ELSE None]

\* mutant: the old leader's flag stays
SetLeaderKeeps(w, s, g, q) ==
    LET renamed == [p \in Player |-> IF w.row[p].party = g.id
                                     THEN [w.row[p] EXCEPT !.party = q]
                                     ELSE w.row[p]]
    IN  [Flag(Replace(w, s, g, Led(g, q)), g.members, TRUE) EXCEPT
            !.row = [renamed EXCEPT ![q].lead = renamed[q].party # None]]

SetLeader(w, s, g, q) ==
    LET renamed == [p \in Player |-> IF w.row[p].party = g.id
                                     THEN [party |-> q, lead |-> FALSE]
                                     ELSE w.row[p]]
    IN  [Flag(Replace(w, s, g, Led(g, q)), g.members, TRUE) EXCEPT
            !.row = [renamed EXCEPT ![q].lead = renamed[q].party # None]]

\* DisbandParty: `told' is playerInitiated
DisbandParty(w, s, g, told) ==
    LET gone == [OwnPool(Flag(w, g.members, TRUE), g.members) EXCEPT
                    !.row = [p \in Player |-> IF p \in g.members THEN NoRow
                                              ELSE @[p]],
                    !.grp[s] = @ \ {g}]
    IN  IF told THEN Send(gone, s, "disband", g.id, g.id) ELSE gone

\* mutant: the member goes, his share of the pool stays
DropShares(w, s, g, p) ==
    Reload([Replace(w, s, g, [g EXCEPT !.members = @ \ {p}])
                EXCEPT !.row[p] = NoRow], s, g)

\* RemoveMember of one who does not lead
Drop(w, s, g, p) ==
    OwnPool(Reload([Replace(w, s, g, [g EXCEPT !.members = @ \ {p}])
                        EXCEPT !.row[p] = NoRow], s, g), {p})

\* RemovePartyLeader asks the rows for another member who is online
Heirs(w, g) ==
    LET others == {q \in RowsOf(w.row, g.id) : ~w.row[q].lead /\ Online(q)}
    IN  IF others = {} THEN {None} ELSE others

RemovePartyLeader(w, s, g, p, heir) ==
    LET led == IF heir = None THEN w ELSE SetLeader(w, s, g, heir)
        h   == IF heir = None THEN g ELSE Led(g, heir)
    IN  IF h.lead = p THEN DisbandParty(led, s, h, TRUE)
        ELSE Drop(led, s, h, p)

RemoveMember(w, s, g, p, heir) ==
    IF g.lead = p
    THEN Flag(RemovePartyLeader(w, s, g, p, heir), {p}, TRUE)
    ELSE Drop(w, s, g, p)

\* ReloadParty: RefreshFlags finds the leader among the rows, flags go down
ReloadParty(w, s, g) ==
    LET here == LeadersOf(w.row, g.id) \cap g.members
        lead == IF here = {} THEN None ELSE CHOOSE q \in here : TRUE
    IN  Flag(Replace(w, s, g, [g EXCEPT !.lead = lead]), g.members, FALSE)

\* DelMember: the rows say p is no member any more
DelMember(w, s, g, p, heir) ==
    IF g.lead = p
    THEN LET left == RemovePartyLeader(w, s, g, p, heir)
             h == [Led(g, heir) EXCEPT !.members = @ \ {p}]
         IN  IF h \in left.grp[s] THEN ReloadParty(left, s, h) ELSE left
    ELSE LET h == [g EXCEPT !.members = @ \ {p}]
         IN  ReloadParty(OwnPool(Replace(w, s, g, h), {p}), s, h)

\* the INSERT fails when the character has a row
Insert(w, p, id) ==
    IF w.row[p].party # None \/ ~Online(p) THEN w
    ELSE [w EXCEPT !.row[p] = [party |-> id, lead |-> FALSE]]

\* mutant: only the members on this server are counted
IsFullHere(w, g) == Cardinality(g.members) >= Room

IsFull(w, g) ==
    Cardinality(g.members) >= Room \/ Cardinality(RowsOf(w.row, g.id)) >= Room

\* AddMember of a character this server hosts
AddMember(w, s, g, p) ==
    LET h == [g EXCEPT !.members = @ \cup {p}]
    IN  Flag(ReloadTreasurePool(
                Reload(Insert(Replace(w, s, g, h), p, g.id), s, g), h, p),
             {p}, TRUE)

\* the constructor CParty(PEntity)
Founded(w, s, p) ==
    LET bare == [id |-> p, members |-> {}, lead |-> None]
    IN  SetLeader(AddMember(w, s, bare, p), s,
                  [bare EXCEPT !.members = {p}], p)

\* the party of p, founded if it has none
WithParty(w, s, p) == IF HasParty(w, s, p) THEN w ELSE Founded(w, s, p)

(***************************************************************************)
(* Requests of the players.                                                *)
(***************************************************************************)
Quiet == /\ \A s \in Server : out[s] = <<>> /\ inbox[s] = <<>>
         /\ \A p \in Player : InZone(p) => ~flag[p]

Settled == Quiet /\ \A p \in Player : dest[p] = None

\* The requests of Hasty may come at any time, the others once all servers
\* have heard the news and nobody is between zones.
Bounded == \A s \in Server : Len(out[s]) + Len(inbox[s]) <= MaxMail

May(kind) == IF kind \in Hasty THEN Bounded ELSE Settled

Leads(p) == HasParty(World, ServerOf(p), p)
            /\ PartyOf(World, ServerOf(p), p).lead = p

\* 0x06e GROUP_SOLICIT_REQ
Solicit(p, q) ==
    /\ May("solicit") /\ p # q /\ InZone(p)
    /\ LET s == ServerOf(p)
           w == World
       IN  /\ HasParty(w, s, p) =>
                Leads(p) /\ ~IsFull(w, PartyOf(w, s, p))
           /\ IF q \in Hosted(s)
              THEN /\ pending[q] = None /\ ~HasParty(w, s, q)
                   /\ pending' = [pending EXCEPT ![q] = p]
                   /\ Become(w)
              ELSE /\ Become(Send(w, s, "invite", q, p))
                   /\ UNCHANGED pending
    /\ UNCHANGED <<at, dest, inbox>>

\* 0x074 GROUP_SOLICIT_RES, refused: it has no effect on the parties
Decline(q) ==
    /\ InZone(q) /\ pending[q] # None
    /\ pending' = [pending EXCEPT ![q] = None]
    /\ UNCHANGED <<row, at, dest, grp, pool, flag, out, inbox>>

\* 0x074 GROUP_SOLICIT_RES, accepted; elsewhere the inviter's server decides
Accept(q) ==
    /\ May("accept") /\ InZone(q) /\ pending[q] # None
    /\ LET p == pending[q]
           s == ServerOf(q)
           w == WithParty(World, s, p)
       IN  IF p \notin Hosted(s)
           THEN Become(Send(World, s, "answer", p, q))
           ELSE IF HasParty(World, s, q) THEN Become(World)
           ELSE IF PartyOf(w, s, p).lead = p /\ ~IsFull(w, PartyOf(w, s, p))
           THEN Become(AddMember(w, s, PartyOf(w, s, p), q))
           ELSE Become(w)
    /\ pending' = [pending EXCEPT ![q] = None]
    /\ UNCHANGED <<at, dest, inbox>>

\* 0x06f GROUP_LEAVE
Leave(p) ==
    /\ May("leave") /\ InZone(p) /\ HasParty(World, ServerOf(p), p)
    /\ LET s == ServerOf(p)
           g == PartyOf(World, s, p)
       IN  \E heir \in Heirs(World, g) :
                Become(RemoveMember(World, s, g, p, heir))
    /\ UNCHANGED <<at, dest, pending, inbox>>

\* 0x071 GROUP_STRIKE of a member this server hosts
Kick(p, q) ==
    /\ May("kick") /\ InZone(p) /\ Leads(p)
    /\ LET s == ServerOf(p)
           g == PartyOf(World, s, p)
       IN  /\ q \in g.members
           /\ \E heir \in Heirs(World, g) :
                Become(RemoveMember(World, s, g, q, heir))
    /\ UNCHANGED <<at, dest, pending, inbox>>

\* 0x071 GROUP_STRIKE of a member elsewhere: only the row is there to remove
KickAway(p, q) ==
    /\ May("kick") /\ InZone(p) /\ Leads(p)
    /\ LET s == ServerOf(p)
           g == PartyOf(World, s, p)
       IN  /\ q \notin g.members /\ row[q].party = p
           /\ Become(Send(Reload([World EXCEPT !.row[q] = NoRow], s, g),
                          s, "kicked", q, q))
    /\ UNCHANGED <<at, dest, pending, inbox>>

\* 0x070 GROUP_BREAKUP
Breakup(p) ==
    /\ May("breakup") /\ InZone(p) /\ Leads(p)
    /\ Become(DisbandParty(World, ServerOf(p),
                           PartyOf(World, ServerOf(p), p), TRUE))
    /\ UNCHANGED <<at, dest, pending, inbox>>

\* 0x077 GROUP_CHANGE2, SetPartyLeader (AssignPartyRole)
PassLead(p, q) ==
    /\ May("passlead") /\ InZone(p) /\ Leads(p) /\ p # q
    /\ LET s == ServerOf(p)
           g == PartyOf(World, s, p)
       IN  /\ row[q].party = g.id
           /\ Become(Reload(SetLeader(World, s, g, q), s, Led(g, q)))
    /\ UNCHANGED <<at, dest, pending, inbox>>

(***************************************************************************)
(* Coming and going.                                                       *)
(***************************************************************************)
\* removeCharFromZone; the object stays until the client has arrived
ZoneOut(p, z) ==
    /\ Quiet \/ ("zone" \in Hasty /\ Bounded)
    /\ InZone(p) /\ z # at[p]
    /\ Cardinality({q \in Player : dest[q] # None}) < MaxAway
    /\ dest' = [dest EXCEPT ![p] = z]
    /\ pool' = OutOfPool(pool, p)
    /\ pending' = [pending EXCEPT ![p] = None]
    /\ UNCHANGED <<row, at, grp, flag, out, inbox>>

\* the 0x00B is flushed, and with it goes the old object (~CCharEntity:
\* PartyReload, PopMember)
Destroy(p) ==
    /\ Online(p) /\ dest[p] # None /\ HasParty(World, ServerOf(p), p)
    /\ LET s == ServerOf(p)
           g == PartyOf(World, s, p)
       IN  Become(Replace(Reload(World, s, g), s, g,
                          [g EXCEPT !.members = @ \ {p}]))
    /\ UNCHANGED <<at, dest, pending, inbox>>

\* IncreaseZoneCounter of the new object, which has no party yet
ZoneIn(p) ==
    /\ Online(p) /\ dest[p] # None /\ ~HasParty(World, ServerOf(p), p)
    /\ Become(Flag([World EXCEPT !.pool = @ \cup {{p}}], {p}, TRUE))
    /\ at' = [at EXCEPT ![p] = dest[p]]
    /\ dest' = [dest EXCEPT ![p] = None]
    /\ UNCHANGED <<pending, inbox>>

\* The client never arrives.  The session that waits for it expires, and the
\* row goes with that of the session: nobody is told, nobody takes the lead.
Vanish(p) ==
    /\ Online(p) /\ dest[p] # None /\ ~HasParty(World, ServerOf(p), p)
    /\ Become([Flag(World, {p}, FALSE) EXCEPT !.row[p] = NoRow])
    /\ at' = [at EXCEPT ![p] = None]
    /\ dest' = [dest EXCEPT ![p] = None]
    /\ UNCHANGED <<pending, inbox>>

\* removeCharFromZone in Shutdown, with the session row deleted (its
\* accounts_parties row goes with it)
Logout(p) ==
    /\ May("logout") /\ Online(p)
    /\ dest[p] = None \/ HasParty(World, ServerOf(p), p)
    /\ LET s == ServerOf(p)
           g == PartyOf(World, s, p)
           Left(w) == Become([Flag(w, {p}, FALSE) EXCEPT
                                !.row[p] = NoRow, !.pool = OutOfPool(@, p)])
       IN  IF HasParty(World, s, p)
           THEN \E heir \in Heirs(World, g) :
                    Left(RemoveMember(World, s, g, p, heir))
           ELSE Left(World)
    /\ at' = [at EXCEPT ![p] = None]
    /\ dest' = [dest EXCEPT ![p] = None]
    /\ pending' = [pending EXCEPT ![p] = None]
    /\ UNCHANGED inbox

Login(p, z) ==
    /\ May("login") /\ ~Online(p)
    /\ at' = [at EXCEPT ![p] = z]
    /\ pool' = pool \cup {{p}}
    /\ flag' = [flag EXCEPT ![p] = TRUE]
    /\ UNCHANGED <<row, dest, grp, pending, out, inbox>>

(***************************************************************************)
(* The servers.                                                            *)
(***************************************************************************)
\* PostTick of a character whose flag is up: charutils::ReloadParty
\* mutant: only a party whose leader is here is found
FoundLed(s, id) ==
    {g \in grp[s] : g.id = id /\ g.members \cap Hosted(s) # {} /\ g.lead # None}

FoundHere(s, id) ==
    {g \in grp[s] : g.id = id /\ g.members \cap Hosted(s) # {}}

Reloaded(s, p, g) ==
    LET id   == row[p].party
        mine == g.members # {} /\ p \in g.members
        h    == [id |-> id, members |-> g.members \cup {p}, lead |-> g.lead]
        w    == IF mine THEN Replace(World, s, g, h)
                ELSE ReloadTreasurePool(Replace(World, s, g, h), h, p)
        all  == ReloadParty(w, s, h)
        now  == PartyOf(all, s, p)
    IN  IF h.members = {p} /\ RowsOf(row, id) = {p}
        THEN DisbandParty(all, s, now, TRUE) ELSE all

TickMember(p) ==
    /\ InZone(p) /\ flag[p] /\ row[p].party # None
    /\ LET s == ServerOf(p)
           id == row[p].party
           found == IF HasParty(World, s, p) THEN {PartyOf(World, s, p)}
                    ELSE IF FoundHere(s, id) # {} THEN FoundHere(s, id)
                    ELSE {[id |-> id, members |-> {}, lead |-> None]}
       IN  \E g \in found : Become(Reloaded(s, p, g))
    /\ UNCHANGED <<at, dest, pending, inbox>>

TickStranger(p) ==
    /\ InZone(p) /\ flag[p] /\ row[p].party = None
    /\ LET s == ServerOf(p)
           g == PartyOf(World, s, p)
       IN  IF HasParty(World, s, p)
           THEN \E heir \in Heirs(World, g) :
                    Become(Flag(DelMember(World, s, g, p, heir), {p}, FALSE))
           ELSE Become(Flag(World, {p}, FALSE))
    /\ UNCHANGED <<at, dest, pending, inbox>>

\* the world server reroutes a message by the rows it finds now
Route(s) ==
    /\ out[s] # <<>>
    /\ LET m == Head(out[s])
           concerned == IF m.kind \in {"reload", "disband"}
                        THEN RowsOf(row, m.who) ELSE {m.who}
           to == {SessionServer(p) : p \in {q \in concerned : Online(q)}}
       IN  inbox' = [t \in Server |-> IF t \in to THEN Append(inbox[t], m)
                                      ELSE inbox[t]]
    /\ out' = [out EXCEPT ![s] = Tail(@)]
    /\ UNCHANGED <<row, at, dest, grp, pool, flag, pending>>

Receive(s, kind) ==
    /\ inbox[s] # <<>> /\ Head(inbox[s]).kind = kind
    /\ inbox' = [inbox EXCEPT ![s] = Tail(@)]
    /\ UNCHANGED <<at, dest>>

\* handleMessage_PartyReload
OnReload(s) ==
    /\ Receive(s, "reload")
    /\ Become(Flag(World, RowsOf(row, Head(inbox[s]).who) \cap Hosted(s), TRUE))
    /\ UNCHANGED pending

\* mutant: the kicked player is not told
OnKickedDeaf(s) ==
    /\ Receive(s, "kicked")
    /\ Become(World)
    /\ UNCHANGED pending

\* handleMessage_PlayerKick
OnKicked(s) ==
    /\ Receive(s, "kicked")
    /\ Become(Flag(World, {Head(inbox[s]).who} \cap Hosted(s), TRUE))
    /\ UNCHANGED pending

\* handleMessage_PartyDisband
OnDisband(s) ==
    /\ Receive(s, "disband")
    /\ LET found == FoundHere(s, Head(inbox[s]).who)
       IN  IF found = {} THEN Become(World)
           ELSE \E g \in found : Become(DisbandParty(World, s, g, FALSE))
    /\ UNCHANGED pending

\* handleMessage_PartyInvite
OnInvite(s) ==
    /\ Receive(s, "invite")
    /\ LET q == Head(inbox[s]).who
       IN  pending' = IF q \in Hosted(s) /\ pending[q] = None
                         /\ ~HasParty(World, s, q)
                      THEN [pending EXCEPT ![q] = Head(inbox[s]).by]
                      ELSE pending
    /\ Become(World)

\* handleMessage_PartyInviteResponse
OnAnswer(s) ==
    /\ Receive(s, "answer")
    /\ LET p == Head(inbox[s]).who
           q == Head(inbox[s]).by
           w == WithParty(World, s, p)
           g == PartyOf(w, s, p)
       IN  IF p \notin Hosted(s) \/ (row[p].lead /\ row[q].lead)
           THEN Become(World)
           ELSE IF g.lead = p /\ w.row[q].party = None /\ ~IsFull(w, g)
           THEN Become(Reload(Insert(w, q, g.id), s, g))
           ELSE Become(w)
    /\ UNCHANGED pending

\* What the players ask for and the servers do; KickAway and Vanish are apart in
\* Next because the other servers may never hear of them.
Common ==
    \/ \E p, q \in Player : Solicit(p, q)
    \/ \E q \in Player : Decline(q)
    \/ \E q \in Player : Accept(q)
    \/ \E p \in Player : Leave(p)
    \/ \E p, q \in Player : Kick(p, q)
    \/ \E p \in Player : Breakup(p)
    \/ \E p, q \in Player : PassLead(p, q)
    \/ \E p \in Player, z \in Zone : ZoneOut(p, z)
    \/ \E p \in Player : Destroy(p)
    \/ \E p \in Player : ZoneIn(p)
    \/ \E p \in Player : Logout(p)
    \/ \E p \in Player, z \in Zone : Login(p, z)
    \/ \E p \in Player : TickMember(p)
    \/ \E p \in Player : TickStranger(p)
    \/ \E s \in Server : Route(s)
    \/ \E s \in Server : OnReload(s)
    \/ \E s \in Server : OnKicked(s)
    \/ \E s \in Server : OnDisband(s)
    \/ \E s \in Server : OnInvite(s)
    \/ \E s \in Server : OnAnswer(s)

Next ==
    \/ Common
    \/ \E p, q \in Player : KickAway(p, q)
    \/ \E p \in Player : Vanish(p)

Init ==
    /\ row = [p \in Player |-> NoRow]
    /\ at \in [Player -> Zone]
    /\ dest = [p \in Player |-> None]
    /\ grp = [s \in Server |-> {}]
    /\ pool = {{p} : p \in Player}
    /\ flag = [p \in Player |-> FALSE]
    /\ pending = [p \in Player |-> None]
    /\ out = [s \in Server |-> <<>>]
    /\ inbox = [s \in Server |-> <<>>]

Spec == Init /\ [][Next]_vars

\* The cases in which nobody is misled: the kicked has no fellow in the object
\* of his server who could lower his flag, and who vanishes leads no others.
Lonely(q) == \A h \in grp[ServerOf(q)] : q \in h.members => h.members = {q}
Dispensable(p) == row[p].lead => RowsOf(row, row[p].party) = {p}

CalmNext ==
    \/ Common
    \/ \E p, q \in Player : KickAway(p, q) /\ Lonely(q)
    \/ \E p \in Player : Vanish(p) /\ Dispensable(p)

CalmSpec == Init /\ [][CalmNext]_vars

(***************************************************************************)
(* Properties.                                                             *)
(***************************************************************************)
\* Type correctness: what each variable of the model can hold.
Party == [id : Player, members : (SUBSET Player) \ {{}}, lead : Player \cup {None}]

TypeOK ==
    /\ row \in [Player -> [party : Player \cup {None}, lead : BOOLEAN]]
    /\ at \in [Player -> Zone \cup {None}]
    /\ dest \in [Player -> Zone \cup {None}]
    /\ \A s \in Server : grp[s] \subseteq Party
    /\ pool \subseteq SUBSET Player
    /\ flag \in [Player -> BOOLEAN]
    /\ pending \in [Player -> Player \cup {None}]

Together(p, q) ==
    /\ InZone(p) /\ InZone(q) /\ at[p] = at[q]
    /\ \E g \in grp[ServerOf(p)] : {p, q} \subseteq g.members

\* At every moment two players share a treasure pool exactly when they stand
\* in one zone as members of one CParty: however joining, leaving, kicks,
\* disbanding and zone changes interleave on all servers, nobody keeps a claim
\* on the pool of a party that is no longer his, or is left out of his own.
PoolsFollowParties ==
    \A p, q \in Player : p # q =>
        (Together(p, q) <=> \E ps \in pool : {p, q} \subseteq ps)

\* Once the news is heard, members of one party by the rows who stand in one
\* zone share a treasure pool, whatever CParty objects they came through.
SharedLoot ==
    Quiet => \A p, q \in Player :
        /\ InZone(p) /\ InZone(q) /\ at[p] = at[q]
        /\ row[p].party # None /\ row[p].party = row[q].party
        => \E ps \in pool : {p, q} \subseteq ps

\* Once the news is heard, a kicked player's server has him in no party.
KickHeard ==
    Quiet => \A p \in Player : InZone(p) /\ row[p].party = None =>
        ~HasParty(World, ServerOf(p), p)

\* Once the news is heard, every server's memory agrees with the rows: who has
\* a row is in a party of the id it names, who has none is in no party.
MemoryFollowsRows ==
    /\ KickHeard
    /\ Quiet => \A p \in Player : InZone(p) /\ row[p].party # None =>
           \E g \in grp[ServerOf(p)] :
              /\ p \in g.members /\ g.id = row[p].party
              /\ g.lead \in g.members \cup {None}

\* No party has more members by the rows than it has room for, wherever the
\* members are and though each server sees only its own: what is counted are
\* the rows.
NeverOverfull == \A id \in Player : Cardinality(RowsOf(row, id)) <= Room

\* Of the rows of one party at most one has the leader flag, and exactly one
\* once the news of a party of several is heard: it can invite and disband.
OneLeader ==
    \A id \in Player :
        /\ Cardinality(LeadersOf(row, id)) <= 1
        /\ Quiet /\ Cardinality(RowsOf(row, id)) > 1
           => LeadersOf(row, id) # {}

=============================================================================
