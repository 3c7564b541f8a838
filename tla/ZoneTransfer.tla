---------------------------- MODULE ZoneTransfer ----------------------------
(***************************************************************************)
(* The life of one character across the processes of a deployment: the     *)
(* lobby that admits it, the map servers that host its body one zone at a  *)
(* time, the world server that routes messages between them, and the       *)
(* database row (accounts_sessions) and position (chars.pos_zone,          *)
(* chars.pos_prevzone) all of them share without a transaction.            *)
(*                                                                         *)
(* Characters meet in this protocol only through the login limit and the   *)
(* zone population caps, which appear here as refusals, so one character   *)
(* is the whole story; its client may come back from another address.      *)
(***************************************************************************)
EXTENDS Naturals, Sequences, FiniteSets

CONSTANTS
  Server,       \* map server processes (xi_map), one endpoint each
  Zone,         \* zones of zone_settings
  Unknown,      \* zone id 0, also the destination of a character at rest
  ServerOf,     \* zone_settings.zoneip/zoneport: the process hosting a zone
  Home,         \* the character's home point
  Port,         \* the UDP ports its client may use
  None,         \* no row, no session, no body, no zone, a scrambled key
  PromptIPC,    \* messages are handled within the second a client takes to act again
  CapEnabled,   \* ZONE_PLAYER_CAP # 0: a full zone may refuse the character
  MaxLogins,    \* bound: authentications and character selections
  MaxZonings,   \* bound: zone changes per login
  MaxCrashes    \* bound: crashes of map servers

ASSUME ConstantsAssumption ==
  /\ Unknown \in Zone /\ Home \in Zone
  /\ ServerOf \in [Zone -> Server]
  /\ PromptIPC \in BOOLEAN /\ CapEnabled \in BOOLEAN
  /\ MaxLogins \in Nat /\ MaxZonings \in Nat /\ MaxCrashes \in Nat

Login == "login"                \* the lobby process as a sender to world
Sender == Server \cup {Login}

(***************************************************************************)
(* A blowfish key is the one the client chose at a login, advanced once    *)
(* per zone change by both ends; a scrambled key matches nothing.          *)
(***************************************************************************)
Key == [login : Nat, zonings : Nat]
MaybeKey == Key \cup {None}

Advance(k) == IF k = None THEN None ELSE [k EXCEPT !.zonings = @ + 1]

Row == [server : Server, key : MaybeKey, portZero : BOOLEAN, stale : BOOLEAN]

Body ==
  [zone    : Zone \cup {None},   \* loc.zone, None between zones
   dest    : Zone \cup {None},   \* loc.destination, None for ZONE_NO_DESTINATION
   prevz   : Zone,               \* loc.prevzone
   stat    : {"normal", "disappear", "shutdown"},
   leaving : BOOLEAN,            \* requestedZoneChange, or in m_charsToChangeZone
   warp    : BOOLEAN,            \* requestedWarp
   out     : {"none", "zone", "logout"}]  \* the 0x00B in its packet list

Session ==
  [status    : {"waiting", "accepted", "pending"},
   key       : MaybeKey,
   prev      : MaybeKey,
   body      : Body \cup {None},
   shut      : {0, 1, 2},
   forced    : BOOLEAN,          \* forceLinkDead
   decrypted : BOOLEAN,          \* hasDecryptedPacket
   expired   : BOOLEAN,          \* last_update older than MAX_TIME_LASTUPDATE
   last      : Server \cup {None, Login}]  \* zone_type/zone_ipp of the sent 0x00B

Message == [type : {"AccountLogin", "KillSession"}, zone : {None}]
           \cup [type : {"CharZone"}, zone : Zone]

Client ==
  [phase  : {"off", "lobby", "connect", "game"},
   port   : Port \cup {None},
   server : Server \cup {None},
   key    : MaybeKey,
   synced : BOOLEAN,             \* it received the server's last reply
   logins : Nat]

VARIABLES
  row,      \* the accounts_sessions row, or None
  pos,      \* chars.pos_zone and chars.pos_prevzone
  sess,     \* sessions_ of every map server, by client port
  pend,     \* pending_sessions_ entry of every map server
  ghost,    \* zone list entries whose entity has been destroyed
  wq,       \* messages on their way to the world server, per sender
  mq,       \* messages on their way to each map server
  up,       \* the map servers running
  crashes,  \* crashes so far
  client    \* the player's client (external)

vars == <<row, pos, sess, pend, ghost, wq, mq, up, crashes, client>>
server == <<sess, pend, ghost, up, crashes>>

\* The absent value is none of the values it stands for the absence of.
ASSUME NoneAssumption ==
  /\ None \notin Zone \cup Server \cup Port
  /\ None \notin Key /\ None \notin Row /\ None \notin Body /\ None \notin Session
  /\ Login \notin Server

TypeOK ==
  /\ row \in Row \cup {None}
  /\ pos \in [zone : Zone, prev : Zone]
  /\ sess \in [Server -> [Port -> Session \cup {None}]]
  /\ pend \in [Server -> {"none", "fresh", "expired"}]
  /\ ghost \in [Server -> SUBSET Port]
  /\ wq \in [Sender -> Seq(Message)]
  /\ mq \in [Server -> Seq(Message)]
  /\ up \subseteq Server
  /\ crashes \in Nat
  /\ client \in Client

-----------------------------------------------------------------------------
(* Messages *)

AccountLogin == [type |-> "AccountLogin", zone |-> None]
KillSession  == [type |-> "KillSession", zone |-> None]
CharZone(z)  == [type |-> "CharZone", zone |-> z]

Send(from, msgs) == wq' = [wq EXCEPT ![from] = @ \o msgs]

Drained == /\ \A x \in Sender : wq[x] = << >>
           /\ \A s \in Server : mq[s] = << >>

\* Every message in flight is handled within a few IPC pumps (100 ms each) and every
\* zone is ticked (400 ms), long before a timer of a minute can run out.
Quiet == Drained /\ \A s \in Server : ghost[s] = {}

\* A client waits about a second before it repeats a packet or makes its next choice.
Paced == PromptIPC => Drained

\* The session of the character at server s under port p becomes t.
Put(s, p, t) == sess' = [sess EXCEPT ![s][p] = t]

-----------------------------------------------------------------------------
(* The body of a character *)

\* Mutant: the character is loaded into the zone it came from.
LoadCharBack ==
  [zone |-> None, dest |-> pos.prev, prevz |-> pos.zone, stat |-> "disappear",
   leaving |-> FALSE, warp |-> FALSE, out |-> "none"]

\* charutils::LoadChar: a fresh entity, in no zone yet.
LoadChar ==
  [zone |-> None, dest |-> pos.zone, prevz |-> pos.prev, stat |-> "disappear",
   leaving |-> FALSE, warp |-> FALSE, out |-> "none"]

InZone(t) == t # None /\ t.body # None /\ t.body.zone # None

\* charutils::SendDisconnect, also called ForceLogout.
SendDisconnect(b) ==
  [b EXCEPT !.dest = None, !.stat = "shutdown", !.leaving = TRUE, !.out = "logout"]

\* CZone::DecreaseZoneCounter and CharZoneOut: the body leaves its zone.
ZoneOut(b) ==
  IF b.zone = None THEN b
  ELSE IF b.stat = "shutdown" THEN [b EXCEPT !.zone = None, !.dest = b.zone]
  ELSE [b EXCEPT !.zone = None, !.prevz = b.zone]

\* Mutant: the zone is not told.
RemoveFromSessionOnly(t) ==
  [t EXCEPT !.status = "pending", !.shut = IF t.body.stat = "shutdown" THEN 1 ELSE 2,
            !.body.stat = "disappear"]

\* charutils::removeCharFromZone.
RemoveFromZone(t) ==
  [t EXCEPT !.status = "pending",
            !.shut = IF t.body.stat = "shutdown" THEN 1 ELSE 2,
            !.body = [ZoneOut(t.body) EXCEPT !.stat = "disappear"]]

\* MapSession::tapLastUpdate.
Tap(t) == IF t.forced THEN t ELSE [t EXCEPT !.expired = FALSE]

-----------------------------------------------------------------------------
(* Packets: MapNetworking::handle_incoming_packet, one action per packet *)

\* Mutant: a character that is still in its zone is believed to have left.
LoggingOutEarly(t) == t.shut = 1 \/ (t.body # None /\ t.body.stat = "shutdown")

LoggingOut(t) == t.shut = 1

\* The end of handle_incoming_packet: a session that is logging out is destroyed
\* with its row, whatever the packet was.
Conclude(s, p, t, r) ==
  IF LoggingOut(t)
  THEN /\ row' = None
       /\ Put(s, p, None)
  ELSE /\ row' = r
       /\ Put(s, p, t)

\* Mutant: the zone, and not the process that hosts it.
EndpointUnresolved(t) == IF t.body.out = "zone" THEN t.body.dest ELSE Login

\* Where the 0x00B in the packet list sends the client.
Endpoint(t) == IF t.body.out = "zone" THEN ServerOf[t.body.dest] ELSE Login

\* MapNetworking::send_parse when a 0x00B is in the packet list: it leaves under
\* the current key, the key advances, and the entity is destroyed wherever it is.
Flush(t) ==
  [t EXCEPT !.prev = t.key, !.key = Advance(t.key), !.decrypted = FALSE,
            !.status = "pending", !.body = None,
            !.last = Endpoint(t)]

\* Mutant: the key that both ends advance stays behind in the row.
FlushedRowOldKey(t) ==
  IF row = None THEN None
  ELSE [server |-> IF t.body.out = "zone" THEN Endpoint(t) ELSE row.server,
        key    |-> t.key, portZero |-> TRUE, stale |-> FALSE]

FlushedRow(t) ==
  IF row = None THEN None
  ELSE [server |-> IF t.body.out = "zone" THEN Endpoint(t) ELSE row.server,
        key    |-> Advance(t.key), portZero |-> TRUE, stale |-> FALSE]

\* send_parse over a session whose body is t.body.
SendParse(s, p, t) ==
  IF t.body.out = "none"
  THEN /\ Conclude(s, p, t, row)
       /\ UNCHANGED <<ghost, wq>>
  ELSE /\ Conclude(s, p, Flush(t), FlushedRow(t))
       /\ ghost' = [ghost EXCEPT ![s] = IF InZone(t) THEN @ \cup {p} ELSE @]
       /\ Send(s, IF t.body.out = "zone" THEN <<CharZone(t.body.dest)>> ELSE << >>)

(* The client, and what it makes of a reply (external). *)

\* A client without a map server.
Idle(phase, p) ==
  [phase |-> phase, port |-> IF phase = "off" THEN None ELSE p, server |-> None,
   key |-> None, synced |-> TRUE, logins |-> client.logins]

Sends(phase, s, p) ==
  client.phase = phase /\ client.server = s /\ client.port = p /\ s \in up

Lost == client' = [client EXCEPT !.synced = FALSE]

Receive0x00B(target) ==
  IF target = Login
  THEN client' \in {Idle("off", client.port), Idle("lobby", client.port)}
  ELSE client' = [client EXCEPT !.phase = "connect", !.server = target,
                                !.key = Advance(@), !.synced = TRUE]

\* The reply of send_parse under key k: the 0x00B of the session if it was flushed,
\* or plain data, which lets a connecting client in when it holds the login packets.
Receive(t, loggedIn) ==
  \/ Lost
  \/ /\ client.key = t.key
     /\ IF t.body.out # "none" THEN Receive0x00B(Flush(t).last)
        ELSE client' = [client EXCEPT !.synced = TRUE,
                                      !.phase = IF loggedIn THEN "game" ELSE @]

(* 0x00A, sent in the clear until the login packets arrive. *)

\* recv_parse without a session: a pending session is turned into a session, whose
\* entity is loaded but not yet placed. The copy of the session pointer is local, so
\* the packet ends here and the client must repeat it.
FirstLogin(s, p) ==
  /\ Sends("connect", s, p)
  /\ sess[s][p] = None
  /\ pend[s] # "none"
  /\ pend' = [pend EXCEPT ![s] = "none"]
  /\ IF row = None THEN UNCHANGED <<sess, wq>>
     ELSE /\ Put(s, p, [status |-> "waiting", key |-> row.key, prev |-> None,
                         body |-> LoadChar, shut |-> 0, forced |-> FALSE,
                         decrypted |-> FALSE, expired |-> FALSE, last |-> None])
          /\ Send(s, IF pos.zone # pos.prev THEN <<KillSession>> ELSE << >>)
  /\ UNCHANGED <<row, pos, ghost, mq, up, crashes, client>>

Hosts(s, z) == ServerOf[z] = s

\* GP_CLI_COMMAND_LOGIN::process for a session that is waiting or pending: the
\* character enters its destination, unless that zone is not hosted here.
Enter(s, t, b, k) ==
  [t EXCEPT !.status = "accepted", !.key = k, !.shut = 0, !.last = None,
            !.body = IF Hosts(s, b.dest)
                     THEN [b EXCEPT !.zone = b.dest, !.dest = Unknown,
                                    !.stat = "normal", !.out = "none"]
                     ELSE [b EXCEPT !.warp = TRUE, !.out = "none"]]

AcceptLogin(s, p) ==
  /\ Paced
  /\ Sends("connect", s, p)
  /\ sess[s][p] # None
  /\ LET t == sess[s][p]
         reload == t.status = "pending" \/ t.body = None
         b == IF reload THEN LoadChar ELSE t.body
         k == IF reload /\ row # None THEN row.key ELSE t.key
         e == Enter(s, t, b, k)
     IN /\ t.status # "accepted"
        /\ row' = IF row # None /\ InZone(e)
                  THEN [row EXCEPT !.portZero = FALSE, !.stale = FALSE] ELSE row
        /\ Put(s, p, e)
        /\ Receive(e, InZone(e))
  /\ UNCHANGED <<pos, pend, ghost, wq, mq, up, crashes>>

\* The same packet repeated to a session that already accepted it.
RepeatLogin(s, p) ==
  /\ Paced
  /\ Sends("connect", s, p)
  /\ sess[s][p] # None
  /\ LET t == sess[s][p]
         refused == t.body.stat = "normal" /\ t.decrypted
         b == IF refused THEN t.body
              ELSE [t.body EXCEPT !.out = "none",
                                  !.stat = IF InZone(t) THEN "normal" ELSE @]
         u == [Tap(t) EXCEPT !.body = b, !.last = None]
     IN /\ t.status = "accepted"
        /\ SendParse(s, p, u)
        /\ Receive(u, InZone(u) /\ ~refused)
  /\ UNCHANGED <<pos, pend, mq, up, crashes>>

(* An encrypted packet of a client in the game. *)

\* The zone change a packet may ask for (0x05E and the like): dest, or None.
Command(b, dest) ==
  IF dest = None \/ b.zone = None \/ b.stat # "normal" THEN b
  ELSE [b EXCEPT !.dest = dest, !.stat = "disappear", !.leaving = TRUE, !.out = "none"]

\* The current key opens the packet and there is a body to parse it for.
GamePacket(s, p, dest) ==
  /\ Sends("game", s, p)
  /\ sess[s][p] # None
  /\ dest # None => dest # Unknown /\ client.key.zonings < MaxZonings
  /\ LET t == sess[s][p]
         tapped == IF t.status = "accepted" THEN Tap(t) ELSE t
         u == [tapped EXCEPT !.decrypted = TRUE, !.body = Command(t.body, dest)]
     IN /\ t.key = client.key /\ t.body # None
        /\ IF client.synced
           THEN SendParse(s, p, u) /\ Receive(u, FALSE)
           ELSE \* out of step: the cached reply is sent again
                /\ Conclude(s, p, u, row)
                /\ client' \in {client, [client EXCEPT !.synced = TRUE]}
                /\ UNCHANGED <<ghost, wq>>
  /\ UNCHANGED <<pos, pend, mq, up, crashes>>

\* The current key opens the packet but the body is gone, or no key opens it, or the
\* key before the last zone change does: then the 0x00B was lost and is sent again.
LatePacket(s, p) ==
  /\ Sends("game", s, p)
  /\ sess[s][p] # None
  /\ LET t == sess[s][p]
         resend == t.key # client.key /\ t.status = "pending" /\ t.prev = client.key
     IN /\ ~(t.key = client.key /\ t.body # None)
        /\ Conclude(s, p, [t EXCEPT !.decrypted = @ \/ t.key = client.key], row)
        /\ \/ UNCHANGED client
           \/ resend /\ t.last # None /\ Receive0x00B(t.last)
  /\ UNCHANGED <<pos, pend, ghost, wq, mq, up, crashes>>

-----------------------------------------------------------------------------
(* The map server's own steps on a character in one of its zones *)

Rest == UNCHANGED <<row, ghost, mq, up, crashes, client>>

\* Death or a warp effect asks for the home point.
Warp(s, p) ==
  /\ InZone(sess[s][p]) /\ ~sess[s][p].body.warp
  /\ sess[s][p].key # None /\ sess[s][p].key.zonings < MaxZonings
  /\ Put(s, p, [sess[s][p] EXCEPT !.body.warp = TRUE])
  /\ UNCHANGED <<pos, pend, wq>> /\ Rest

\* The leave-game effect ends.
LeaveGame(s, p) ==
  /\ InZone(sess[s][p]) /\ sess[s][p].body.stat # "shutdown"
  /\ Put(s, p, [sess[s][p] EXCEPT !.body.stat = "shutdown"])
  /\ UNCHANGED <<pos, pend, wq>> /\ Rest

\* IPCClient::handleMessage_SendPlayerToLocation and EntityInformationResponse:
\* another player or a script moves the character, from any process.
SendPlayerToLocation(s, p, z) ==
  /\ InZone(sess[s][p]) /\ z # Unknown
  /\ sess[s][p].key # None /\ sess[s][p].key.zonings < MaxZonings
  /\ Put(s, p, [sess[s][p] EXCEPT !.body =
                  [@ EXCEPT !.dest = z, !.stat = "disappear", !.leaving = TRUE,
                            !.out = "none"]])
  /\ UNCHANGED <<pos, pend, wq>> /\ Rest

\* The previous zone saved for a character in its Mog House is the one it came from.
SavedPosition(b, z, inMogHouse) ==
  [zone |-> z, prev |-> IF inMogHouse \/ z = b.zone THEN b.prevz ELSE b.zone]

\* charutils::SendToZone followed by removeCharFromZone.
SendToZone(s, p, z, inMogHouse) ==
  LET b == sess[s][p].body IN
  /\ sess[s][p].status # "pending"
  /\ pos' = SavedPosition(b, z, inMogHouse)
  /\ Put(s, p, RemoveFromZone(
       [sess[s][p] EXCEPT !.last = None,
          !.body = [b EXCEPT !.dest = z, !.stat = "disappear", !.leaving = TRUE,
                             !.warp = FALSE, !.out = "zone"]]))

\* CZoneEntities::ZoneServer: the end of a zone tick for a character that logs out,
\* warps or changes zone. A full zone refuses it and it stays in the list.
ZoneTick(s, p) ==
  LET t == sess[s][p]
      b == t.body
      Stays(c) == Put(s, p, [t EXCEPT !.body = c]) /\ UNCHANGED pos
  IN
  /\ InZone(t)
  /\ b.leaving \/ b.warp \/ b.stat = "shutdown"
  /\ \/ /\ b.stat = "shutdown"
        /\ Put(s, p, RemoveFromZone([t EXCEPT !.body = SendDisconnect(b)]))
        /\ UNCHANGED pos
     \/ /\ b.stat # "shutdown" /\ b.dest = None     \* "returned IPP of 0"
        /\ Put(s, p, RemoveFromZone([t EXCEPT !.body.leaving = TRUE]))
        /\ UNCHANGED pos
     \/ /\ b.stat # "shutdown" /\ b.dest # None /\ b.warp
        /\ \/ \E mog \in BOOLEAN : SendToZone(s, p, Home, mog)
           \/ CapEnabled /\ Stays([b EXCEPT !.warp = FALSE, !.leaving = TRUE])
     \/ /\ b.stat # "shutdown" /\ b.dest # None /\ ~b.warp
        /\ \/ \E mog \in BOOLEAN : SendToZone(s, p, b.dest, mog)
           \/ CapEnabled /\ Stays([b EXCEPT !.leaving = TRUE])
  /\ UNCHANGED <<pend, wq>> /\ Rest

-----------------------------------------------------------------------------
(* Timeouts: MapSessionContainer::cleanupSessions, every few seconds *)

ExpireSession(s, p) ==
  /\ sess[s][p] # None /\ ~sess[s][p].expired /\ Quiet
  /\ Put(s, p, [sess[s][p] EXCEPT !.expired = TRUE])
  /\ UNCHANGED <<pos, pend, wq>> /\ Rest

ExpirePending(s) ==
  /\ pend[s] = "fresh" /\ Quiet
  /\ pend' = [pend EXCEPT ![s] = "expired"]
  /\ UNCHANGED <<pos, sess, wq>> /\ Rest

\* Mutants: the row is deleted without a look at it, or not at all.
CleanedRowBlind(s) == None
CleanedRowKept(s) == row

\* The row is deleted unless it says that another map server has the character.
CleanedRow(s) == IF row # None /\ row.server # s THEN row ELSE None

CleanupSession(s, p) ==
  /\ sess[s][p] # None /\ sess[s][p].expired
  /\ row' = CleanedRow(s)
  /\ Put(s, p, None)
  /\ UNCHANGED <<pos, pend, ghost, wq, mq, up, crashes, client>>

\* A pending session deletes the row without looking at it.
CleanupPending(s) ==
  /\ pend[s] = "expired"
  /\ row' = None
  /\ pend' = [pend EXCEPT ![s] = "none"]
  /\ UNCHANGED <<pos, sess, ghost, wq, mq, up, crashes, client>>

-----------------------------------------------------------------------------
(* Messages: the world server routes, the map servers handle *)

Deliver(targets, m) ==
  mq' = [s \in Server |-> IF s \in targets \cap up THEN Append(mq[s], m) ELSE mq[s]]

Route(m) ==
  CASE m.type = "AccountLogin" -> Server
    [] m.type = "CharZone"     -> {ServerOf[m.zone]}
    [] m.type = "KillSession"  -> IF pos.prev # pos.zone THEN {ServerOf[pos.prev]}
                                  ELSE IF row # None THEN {row.server} ELSE {}

\* IPCServer::handleMessage_*: the position is read when the message is routed.
WorldRoute(x) ==
  /\ wq[x] # << >>
  /\ wq' = [wq EXCEPT ![x] = Tail(@)]
  /\ Deliver(Route(Head(wq[x])), Head(wq[x]))
  /\ UNCHANGED <<row, pos, sess, pend, ghost, up, crashes, client>>

Sessions(s) == {p \in Port : sess[s][p] # None}

Handle(s, type) ==
  /\ mq[s] # << >> /\ Head(mq[s]).type = type
  /\ mq' = [mq EXCEPT ![s] = Tail(@)]
  /\ UNCHANGED <<pos, ghost, wq, up, crashes, client>>

\* The account logs in elsewhere: the session may no longer be used or kept alive.
HandleAccountLogin(s) ==
  /\ Handle(s, "AccountLogin")
  /\ IF Sessions(s) = {} THEN UNCHANGED sess
     ELSE \E p \in Sessions(s) :
            Put(s, p, [sess[s][p] EXCEPT !.forced = TRUE, !.key = None, !.prev = None])
  /\ UNCHANGED <<row, pend>>

\* Mutant: a character with a session here is expected again.
ExpectedAlways(s) == TRUE

Expected(s) == Sessions(s) = {}

\* The character is on its way to a zone of this server.
HandleCharZone(s) ==
  /\ Handle(s, "CharZone")
  /\ IF Expected(s)
     THEN pend' = [pend EXCEPT ![s] = "fresh"] /\ UNCHANGED sess
     ELSE /\ \E p \in Sessions(s) : Put(s, p, Tap(sess[s][p]))
          /\ UNCHANGED pend
  /\ UNCHANGED row

\* The character was loaded by a new session elsewhere: the old one must go.
HandleKillSession(s) ==
  /\ Handle(s, "KillSession")
  /\ IF Sessions(s) = {} THEN UNCHANGED <<row, sess>>
     ELSE \E p \in Sessions(s) :
       LET t == sess[s][p] IN
       CASE t.status = "pending" ->
              /\ row' = IF t.shut = 1 THEN None ELSE row
              /\ Put(s, p, None)
         [] t.status = "accepted" /\ t.body # None ->
              /\ Put(s, p, [t EXCEPT !.body = SendDisconnect(@)])
              /\ UNCHANGED row
         [] OTHER -> UNCHANGED <<row, sess>>
  /\ UNCHANGED pend

-----------------------------------------------------------------------------
(* The lobby *)

\* auth_session: credentials are accepted, and every map server is told.
Authenticate(p) ==
  /\ Paced
  /\ client.phase = "off" /\ client.logins < MaxLogins
  /\ client' = [Idle("lobby", p) EXCEPT !.logins = @ + 1]
  /\ Send(Login, <<AccountLogin>>)
  /\ UNCHANGED <<row, pos, mq>> /\ UNCHANGED server

\* A character that was zoning and was never seen at its destination.
Reclaimable == row # None /\ row.portZero /\ row.stale

\* A character saved without a zone returns to the one before.
LobbyZone == IF pos.zone = Unknown THEN pos.prev ELSE pos.zone

\* data_session 0xA2: the character is selected. viewAlive says whether the view
\* connection still stands when the reply is due; a refusal is a lobby that is full.
SelectCharacter(viewAlive) ==
  LET zone == LobbyZone
      key  == [login |-> client.logins + 1, zonings |-> 0]
  IN
  /\ client.phase = "lobby" /\ client.logins < MaxLogins /\ Paced
  /\ row = None \/ Reclaimable
  /\ row' = [server |-> ServerOf[zone], key |-> key,
             portZero |-> TRUE, stale |-> FALSE]
  /\ pos' = [pos EXCEPT !.prev = IF @ = Unknown THEN zone ELSE @]
  /\ IF viewAlive
     THEN /\ client' = [client EXCEPT !.phase = "connect", !.server = ServerOf[zone],
                                      !.key = key, !.synced = TRUE, !.logins = @ + 1]
          /\ Send(Login, <<CharZone(zone)>>)
     ELSE /\ client' = [Idle("off", None) EXCEPT !.logins = @ + 1]
          /\ UNCHANGED wq
  /\ UNCHANGED mq /\ UNCHANGED server

\* The same request refused by the login limit or a population cap: a reclaimable row
\* is deleted before the limits are looked at.
RefuseSelection ==
  /\ client.phase = "lobby"
  /\ Reclaimable
  /\ row' = None
  /\ UNCHANGED <<pos, wq, mq, client>> /\ UNCHANGED server

\* Two minutes after the last zone-out: by then every session or pending session that
\* nobody refreshes has been cleaned up.
RowStale ==
  /\ row # None /\ row.portZero /\ ~row.stale /\ Quiet
  /\ \A s \in Server : /\ pend[s] = "none"
                       /\ \A p \in Sessions(s) : sess[s][p].status = "accepted"
  /\ row' = [row EXCEPT !.stale = TRUE]
  /\ UNCHANGED <<pos, wq, mq, client>> /\ UNCHANGED server

-----------------------------------------------------------------------------
(* Failures *)

\* The player's machine or line is gone, in any phase.
ClientGone ==
  /\ client.phase # "off"
  /\ client' = Idle("off", None)
  /\ UNCHANGED <<row, pos, wq, mq>> /\ UNCHANGED server

\* A map server dies with its sessions and its messages; the row survives it.
Crash(s) ==
  /\ s \in up /\ crashes < MaxCrashes
  /\ crashes' = crashes + 1
  /\ up' = up \ {s}
  /\ sess' = [sess EXCEPT ![s] = [p \in Port |-> None]]
  /\ pend' = [pend EXCEPT ![s] = "none"]
  /\ ghost' = [ghost EXCEPT ![s] = {}]
  /\ mq' = [mq EXCEPT ![s] = << >>]
  /\ wq' \in {wq, [wq EXCEPT ![s] = << >>]}
  /\ UNCHANGED <<row, pos, client>>

\* Mutant: nothing is cleared at the start.
LeftBehindIgnored(s) == FALSE

LeftBehind(s) == row # None /\ row.server = s

\* MapEngine start: rows that name this server are deleted.
Start(s) ==
  /\ s \notin up
  /\ up' = up \cup {s}
  /\ row' = IF LeftBehind(s) THEN None ELSE row
  /\ UNCHANGED <<pos, sess, pend, ghost, wq, mq, crashes, client>>

\* The next zone tick over a list entry whose entity is gone reads freed memory. While
\* the memory still holds the entity it logs out, and marks its session; the other
\* outcome of the build is Crash.
GhostTick(s, p) ==
  /\ p \in ghost[s]
  /\ ghost' = [ghost EXCEPT ![s] = @ \ {p}]
  /\ IF sess[s][p] = None THEN UNCHANGED sess
     ELSE Put(s, p, [sess[s][p] EXCEPT !.status = "pending", !.shut = 1])
  /\ UNCHANGED <<row, pos, pend, wq, mq, up, crashes, client>>

-----------------------------------------------------------------------------
Init ==
  /\ row = None
  /\ pos \in [zone : Zone \ {Unknown}, prev : Zone]
  /\ sess = [s \in Server |-> [p \in Port |-> None]]
  /\ pend = [s \in Server |-> "none"]
  /\ ghost = [s \in Server |-> {}]
  /\ wq = [x \in Sender |-> << >>]
  /\ mq = [s \in Server |-> << >>]
  /\ up = Server
  /\ crashes = 0
  /\ client = [phase |-> "off", port |-> None, server |-> None, key |-> None,
               synced |-> TRUE, logins |-> 0]

SessionStep(s, p) ==
  \/ FirstLogin(s, p) \/ AcceptLogin(s, p) \/ RepeatLogin(s, p)
  \/ \E d \in Zone \cup {None} : GamePacket(s, p, d)
  \/ LatePacket(s, p)
  \/ Warp(s, p) \/ LeaveGame(s, p) \/ ZoneTick(s, p) \/ GhostTick(s, p)
  \/ \E z \in Zone : SendPlayerToLocation(s, p, z)
  \/ ExpireSession(s, p) \/ CleanupSession(s, p)

ServerStep(s) ==
  \/ ExpirePending(s) \/ CleanupPending(s)
  \/ HandleAccountLogin(s) \/ HandleCharZone(s) \/ HandleKillSession(s)
  \/ Crash(s) \/ Start(s)

LobbyStep ==
  \/ \E p \in Port : Authenticate(p)
  \/ \E v \in BOOLEAN : SelectCharacter(v)
  \/ RefuseSelection \/ RowStale \/ ClientGone

Next ==
  \/ \E s \in Server, p \in Port : SessionStep(s, p)
  \/ \E s \in Server : ServerStep(s)
  \/ \E x \in Sender : WorldRoute(x)
  \/ LobbyStep

Spec == Init /\ [][Next]_vars

\* What runs on timers and loops of the processes keeps running: the IPC pumps, the
\* zone ticks, the clean-up of every few seconds, and a supervisor that restarts a map
\* server. A session is only sure to expire when its client has gone; players, effects
\* and crashes are free.
Fairness ==
  /\ \A x \in Sender : WF_vars(WorldRoute(x))
  /\ \A s \in Server :
       /\ WF_vars(HandleAccountLogin(s)) /\ WF_vars(HandleCharZone(s))
       /\ WF_vars(HandleKillSession(s))  /\ WF_vars(Start(s))
       /\ WF_vars(ExpirePending(s))      /\ WF_vars(CleanupPending(s))
       /\ \A p \in Port :
            /\ WF_vars(ZoneTick(s, p)) /\ WF_vars(GhostTick(s, p))
            /\ WF_vars(client.phase = "off" /\ ExpireSession(s, p))
            /\ WF_vars(CleanupSession(s, p))
  /\ WF_vars(RowStale)

FairSpec == Spec /\ Fairness

-----------------------------------------------------------------------------
(* Properties *)

Bodies == {sp \in Server \X Port : InZone(sess[sp[1]][sp[2]])}

BodyOf(sp) == sess[sp[1]][sp[2]].body

\* The character is never in the zones of two sessions, whatever the order in which
\* messages, packets, timeouts, crashes and logins reach the processes.
OneBody == \A a, b \in Bodies : a = b

\* A map server only has the character in a zone it hosts, and that zone is the one the
\* database says: what the lobby or another server reads there is where the body is.
BodyAtHome ==
  \A sp \in Bodies : /\ ServerOf[BodyOf(sp).zone] = sp[1]
                     /\ BodyOf(sp).zone = pos.zone

\* While the character is in a zone its accounts_sessions row stands and names the
\* server it is on: the lobby refuses a second login and messages find the character.
\* A clean-up by any other server or by a forgotten pending session would break it.
RowFence == \A sp \in Bodies : row # None /\ row.server = sp[1]

\* A row is never left behind: some session or pending session will delete it at the
\* latest by its timeout, or the lobby may reclaim it, or its server will on restart.
\* Otherwise the account could not log in again.
RowOwned ==
  row # None =>
    \/ row.portZero
    \/ row.server \notin up
    \/ \E s \in Server : pend[s] # "none" \/ Sessions(s) # {}

\* A client on its way to a server holds the key the row hands to that server's new
\* session, through lost and repeated 0x00B packets: both ends advanced it equally.
ClientKey == client.phase = "connect" /\ row # None => client.key = row.key

\* destroySession takes the character out of its zone "just to be safe": only a timeout
\* or a crash ends a session whose character is still in a zone.
LeavesFirst ==
  [][\A s \in Server, p \in Port :
       InZone(sess[s][p]) /\ sess'[s][p] = None => sess[s][p].expired \/ s \notin up']_vars

\* "destroying PChars in m_charList is handled via map_session": an entity in a zone's
\* list lives as long as it is listed.
MembersAlive == \A s \in Server : ghost[s] = {}

\* Once its client is gone, the row is deleted or becomes reclaimable, so that the
\* player can come back.
RowReleased ==
  (row # None /\ client.phase = "off")
    ~> (row = None \/ Reclaimable \/ client.phase # "off")

\* A KillSession sent because a character entered a new session never logs that session
\* out: the message is ignored by a session that is still waiting.
NewSessionSurvives ==
  [][\A s \in Server, p \in Port :
       HandleKillSession(s) /\ sess[s][p] # None /\ sess[s][p].status = "accepted"
         => sess'[s][p] = sess[s][p]]_vars

\* A player whose zone is not hosted here is dumped to its home point on demand: the
\* zone tick that serves the demand must reach it, so it must be in a zone.
DumpedHome ==
  \A s \in Server : \A p \in Sessions(s) :
    sess[s][p].status = "accepted" /\ sess[s][p].body.warp => InZone(sess[s][p])

\* A warp refused by a full zone leaves the character where it is; nobody ever asks for
\* zone 0, so nobody is sent there.
DeniedWarpStays == pos.zone # Unknown

\* The promise of the whole protocol: the presence of the character.
Where == IF Bodies = {} THEN None ELSE BodyOf(CHOOSE sp \in Bodies : TRUE).zone

Abstract == INSTANCE Presence WITH where <- Where, saved <- pos.zone

\* Sessions, rows, keys and messages together implement one presence that only ever
\* arrives where the database says it left for.
PresenceSpec == Abstract!Spec

\* The inductive strengthening of OneBody and BodyAtHome: one session of the character
\* per server, none while one is pending, and a waiting one loaded from the position.
OneSession ==
  \A s \in Server :
    /\ \A p, q \in Sessions(s) : p = q
    /\ pend[s] # "none" => Sessions(s) = {}

WaitingAtHome ==
  \A s \in Server : \A p \in Sessions(s) :
    LET t == sess[s][p] IN
    t.status = "waiting" => /\ t.body # None
                            /\ t.body.zone = None /\ t.body.dest # None
                            /\ ServerOf[t.body.dest] = s => t.body.dest = pos.zone

AcceptedHasBody ==
  \A s \in Server : \A p \in Sessions(s) :
    sess[s][p].status = "accepted" => sess[s][p].body # None

\* A 0x00B that changes zones always names one.
ZoningHasDest ==
  \A s \in Server : \A p \in Sessions(s) :
    LET b == sess[s][p].body IN b # None /\ b.out = "zone" => b.dest # None

IndInv ==
  /\ TypeOK /\ OneSession /\ BodyAtHome
  /\ WaitingAtHome /\ AcceptedHasBody /\ ZoningHasDest
=============================================================================
