------------------------- MODULE ZoneTransferProofs -------------------------
(***************************************************************************)
(* For any deployment (servers, zones, client ports), any speed of the     *)
(* messages, with or without population caps and crashes: the variables    *)
(* keep their types, a body is only ever in a zone of its server, which is *)
(* the zone the database names, and there is one body at most.             *)
(*                                                                         *)
(* The argument: a pending session is only created at a server without a   *)
(* session and becomes one, so a server has at most one session; the saved *)
(* zone only changes when the body leaves, from the one server that hosts  *)
(* it; and a body enters its zone either where it was loaded from the      *)
(* position, or nowhere. So the saved zone changes exactly when the body   *)
(* leaves, which makes every step one of Presence.                         *)
(***************************************************************************)
EXTENDS ZoneTransfer, TLAPS

\* What the invariant says of one session t at server s while z is the saved zone.
SessionOK(s, t, z) ==
  /\ InZone(t) => ServerOf[t.body.zone] = s /\ t.body.zone = z
  /\ t.status = "waiting" =>
       /\ t.body # None /\ t.body.zone = None /\ t.body.dest # None
       /\ ServerOf[t.body.dest] = s => t.body.dest = z
  /\ t.status = "accepted" => t.body # None
  /\ t.body # None /\ t.body.out = "zone" => t.body.dest # None

\* The part of the invariant about sessions, the rest being types.
SessionsOK ==
  /\ sess \in [Server -> [Port -> Session \cup {None}]]
  /\ OneSession
  /\ \A s \in Server, p \in Port :
       sess[s][p] # None => SessionOK(s, sess[s][p], pos.zone)

\* Given the types, the invariant is what it says of each session.
LEMMA Split == TypeOK => (IndInv <=> SessionsOK)
<1> SUFFICES ASSUME TypeOK PROVE IndInv <=> SessionsOK
  OBVIOUS
<1>1. ASSUME IndInv, NEW s \in Server, NEW p \in Port, sess[s][p] # None
      PROVE  SessionOK(s, sess[s][p], pos.zone)
  <2>1. p \in Sessions(s)
    BY <1>1 DEF Sessions
  <2>2. InZone(sess[s][p]) => <<s, p>> \in Bodies /\ BodyOf(<<s, p>>) = sess[s][p].body
    BY <1>1 DEF Bodies, BodyOf
  <2> QED
    BY <1>1, <2>1, <2>2 DEF IndInv, SessionOK, BodyAtHome, WaitingAtHome,
       AcceptedHasBody, ZoningHasDest
<1>2. ASSUME SessionsOK PROVE IndInv
  <2>1. ASSUME NEW sp \in Bodies
        PROVE  ServerOf[BodyOf(sp).zone] = sp[1] /\ BodyOf(sp).zone = pos.zone
    BY <1>2, <2>1 DEF SessionsOK, SessionOK, Bodies, BodyOf, InZone
  <2>2. ASSUME NEW s \in Server, NEW p \in Sessions(s)
        PROVE  p \in Port /\ SessionOK(s, sess[s][p], pos.zone)
    BY <1>2, <2>2 DEF SessionsOK, Sessions
  <2> QED
    BY <1>2, <2>1, <2>2 DEF IndInv, SessionsOK, SessionOK, BodyAtHome, WaitingAtHome,
       AcceptedHasBody, ZoningHasDest
<1> QED
  BY <1>1, <1>2 DEF IndInv, SessionsOK, TypeOK

\* Two characters in zones would be in the same zone, at its one server, under the one
\* session of that server.
LEMMA OneBodyFollows == IndInv => OneBody
<1> SUFFICES ASSUME IndInv, NEW a \in Bodies, NEW b \in Bodies PROVE a = b
  BY DEF OneBody
<1>1. a \in Server \X Port /\ b \in Server \X Port
  BY DEF Bodies
<1>2. a[1] = b[1]
  BY DEF IndInv, BodyAtHome
<1>3. a[2] \in Sessions(a[1]) /\ b[2] \in Sessions(a[1])
  BY <1>1, <1>2 DEF Bodies, Sessions, InZone
<1>4. a[2] = b[2]
  BY <1>1, <1>3 DEF IndInv, OneSession
<1> QED
  BY <1>1, <1>2, <1>4

\* One session of one server changes, the saved zone does not, and a session appears
\* only where there is none and none is pending any more.
LEMMA PutKeeps ==
  ASSUME SessionsOK,
         NEW s \in Server, NEW p \in Port, NEW t \in Session \cup {None},
         Put(s, p, t),
         pos'.zone = pos.zone,
         t # None => SessionOK(s, t, pos.zone),
         t # None /\ sess[s][p] = None => Sessions(s) = {} /\ pend'[s] = "none",
         \A x \in Server : pend'[x] # "none" => pend[x] # "none"
  PROVE  SessionsOK'
<1>1. sess' \in [Server -> [Port -> Session \cup {None}]]
  BY DEF SessionsOK, Put
<1>2. /\ sess'[s][p] = t
      /\ \A x \in Server, q \in Port : <<x, q>> # <<s, p>> => sess'[x][q] = sess[x][q]
  BY DEF SessionsOK, Put
<1>3. \A x \in Server, q \in Port :
        sess'[x][q] # None => SessionOK(x, sess'[x][q], pos'.zone)
  BY <1>2 DEF SessionsOK
<1>4. OneSession'
  <2> SUFFICES ASSUME NEW x \in Server
               PROVE  /\ \A q, r \in Sessions(x)' : q = r
                      /\ pend'[x] # "none" => Sessions(x)' = {}
    BY DEF OneSession
  <2>1. CASE x # s
    <3>1. Sessions(x)' = Sessions(x)
      BY <1>2, <2>1 DEF Sessions
    <3> QED
      BY <2>1, <3>1 DEF SessionsOK, OneSession
  <2>2. CASE x = s
    <3>1. Sessions(s)' \subseteq Sessions(s) \cup {p}
      BY <1>2 DEF Sessions
    <3>2. CASE t = None
      <4>1. Sessions(s)' \subseteq Sessions(s)
        BY <1>2, <3>2 DEF Sessions
      <4> QED
        BY <2>2, <4>1 DEF SessionsOK, OneSession
    <3>3. CASE t # None /\ sess[s][p] # None
      BY <2>2, <3>1, <3>3 DEF SessionsOK, OneSession, Sessions
    <3>4. CASE t # None /\ sess[s][p] = None
      BY <2>2, <3>1, <3>4
    <3> QED
      BY <3>2, <3>3, <3>4
  <2> QED
    BY <2>1, <2>2
<1> QED
  BY <1>1, <1>3, <1>4 DEF SessionsOK

\* No session changes.
LEMMA SameKeeps ==
  ASSUME SessionsOK, sess' = sess, pos'.zone = pos.zone,
         \A x \in Server : pend'[x] # "none" => pend[x] # "none"
  PROVE  SessionsOK'
BY DEF SessionsOK, OneSession, Sessions

-----------------------------------------------------------------------------
(* What the operators on bodies and sessions return. *)

\* A key advances to a key.
LEMMA AdvanceType == ASSUME NEW k \in MaybeKey PROVE Advance(k) \in MaybeKey
BY DEF Advance, MaybeKey, Key

\* The character of a new session is in no zone and bound for the saved one.
LEMMA LoadCharFacts ==
  ASSUME TypeOK
  PROVE  /\ LoadChar \in Body
         /\ LoadChar.zone = None /\ LoadChar.dest = pos.zone /\ LoadChar.out = "none"
BY DEF TypeOK, LoadChar, Body

\* A forced log-out keeps the zone and shuts down.
LEMMA SendDisconnectFacts ==
  ASSUME NEW b \in Body
  PROVE  /\ SendDisconnect(b) \in Body
         /\ SendDisconnect(b).zone = b.zone
         /\ SendDisconnect(b).stat = "shutdown" /\ SendDisconnect(b).out = "logout"
BY DEF SendDisconnect, Body

\* Keeping a session alive changes nothing the invariant reads.
LEMMA TapFacts ==
  ASSUME NEW t \in Session
  PROVE  /\ Tap(t) \in Session
         /\ Tap(t).status = t.status /\ Tap(t).body = t.body /\ Tap(t).key = t.key
BY DEF Tap, Session

\* What a packet asks for keeps the zone, and a request to zone names one.
LEMMA CommandFacts ==
  ASSUME NEW b \in Body, b.out = "zone" => b.dest # None, NEW dest \in Zone \cup {None}
  PROVE  /\ Command(b, dest) \in Body /\ Command(b, dest).zone = b.zone
         /\ Command(b, dest).out = "zone" => Command(b, dest).dest # None
         /\ b.zone = None => Command(b, dest) = b
BY DEF Command, Body

\* A character out of its zone is in none.
LEMMA ZoneOutFacts ==
  ASSUME NEW b \in Body, b.out = "zone" => b.dest # None
  PROVE  /\ ZoneOut(b) \in Body
         /\ ZoneOut(b).zone = None
         /\ ZoneOut(b).out = "zone" => ZoneOut(b).dest # None
BY DEF ZoneOut, Body

\* A character that leaves its zone is in none, whichever server it is on.
LEMMA RemoveFacts ==
  ASSUME NEW t \in Session, t.body \in Body, t.body.out = "zone" => t.body.dest # None,
         NEW s, NEW z
  PROVE  RemoveFromZone(t) \in Session /\ SessionOK(s, RemoveFromZone(t), z)
<1> DEFINE b == [ZoneOut(t.body) EXCEPT !.stat = "disappear"]
<1>1. b \in Body /\ b.zone = None /\ (b.out = "zone" => b.dest # None)
  BY ZoneOutFacts DEF Body
<1>2. /\ RemoveFromZone(t) \in Session
      /\ RemoveFromZone(t).status = "pending" /\ RemoveFromZone(t).body = b
  BY <1>1 DEF RemoveFromZone, Session
<1> QED
  BY <1>1, <1>2 DEF SessionOK, InZone

\* A 0x00B leaves: the session is without a body, and its row and message are typed.
LEMMA FlushFacts ==
  ASSUME TypeOK, NEW t \in Session, t.body \in Body, t.body.out # "none",
         t.body.out = "zone" => t.body.dest # None,
         NEW s, NEW z
  PROVE  /\ Flush(t) \in Session /\ SessionOK(s, Flush(t), z)
         /\ Flush(t).last \in Server \cup {Login}
         /\ FlushedRow(t) \in Row \cup {None}
         /\ t.body.out = "zone" => CharZone(t.body.dest) \in Message
<1>1. t.body.out = "zone" => t.body.dest \in Zone
  BY DEF Body
<1>2. Endpoint(t) \in Server \cup {Login}
  BY <1>1, ConstantsAssumption DEF Endpoint
<1>3. t.key \in MaybeKey /\ Advance(t.key) \in MaybeKey
  BY AdvanceType DEF Session
<1>4. /\ Flush(t) \in Session
      /\ Flush(t).status = "pending" /\ Flush(t).body = None /\ Flush(t).last = Endpoint(t)
  BY <1>2, <1>3 DEF Flush, Session
<1>5. SessionOK(s, Flush(t), z)
  BY <1>4 DEF SessionOK, InZone
<1>6. FlushedRow(t) \in Row \cup {None}
  <2>1. t.body.out = "zone" => Endpoint(t) \in Server
    BY <1>1, ConstantsAssumption DEF Endpoint
  <2> QED
    BY <1>3, <2>1 DEF FlushedRow, Row, TypeOK
<1>7. t.body.out = "zone" => CharZone(t.body.dest) \in Message
  BY <1>1 DEF CharZone, Message
<1> QED
  BY <1>2, <1>4, <1>5, <1>6, <1>7

\* The client makes of any reply a state it can be in.
LEMMA Receive0x00BType ==
  ASSUME TypeOK, NEW target \in Server \cup {Login}, client.port \in Port,
         Receive0x00B(target)
  PROVE  client' \in Client
<1>1. Advance(client.key) \in MaybeKey
  BY AdvanceType DEF TypeOK, Client
<1>2. Idle("off", client.port) \in Client /\ Idle("lobby", client.port) \in Client
  BY DEF TypeOK, Client, Idle, MaybeKey
<1>3. ASSUME NEW x \in Server
      PROVE  [client EXCEPT !.phase = "connect", !.server = x,
                            !.key = Advance(@), !.synced = TRUE] \in Client
  BY <1>1 DEF TypeOK, Client
<1> QED
  BY <1>2, <1>3 DEF Receive0x00B

\* A client that receives a reply is a client.
LEMMA ReceiveType ==
  ASSUME TypeOK, NEW t \in Session, t.body \in Body,
         t.body.out = "zone" => t.body.dest # None,
         NEW l \in BOOLEAN, client.port \in Port, Receive(t, l)
  PROVE  client' \in Client
<1>1. t.body.out # "none" => Flush(t).last \in Server \cup {Login}
  BY FlushFacts
<1>2. CASE Lost
  BY <1>2 DEF Lost, TypeOK, Client
<1>3. CASE client' = [client EXCEPT !.synced = TRUE, !.phase = IF l THEN "game" ELSE @]
  BY <1>3 DEF TypeOK, Client
<1> QED
  BY <1>1, <1>2, <1>3, Receive0x00BType DEF Receive

-----------------------------------------------------------------------------
(* Every step keeps the invariant. *)

\* The same of the next state.
LEMMA SplitNext == TypeOK' => (IndInv' <=> SessionsOK')
BY Split, PTL

\* Queues hold messages.
LEMMA SendType ==
  ASSUME TypeOK, NEW x \in Sender, NEW msgs \in Seq(Message), Send(x, msgs)
  PROVE  wq' \in [Sender -> Seq(Message)]
<1>1. wq[x] \o msgs \in Seq(Message)
  BY DEF TypeOK
<1> QED
  BY <1>1 DEF TypeOK, Send

\* The end of a packet.
LEMMA ConcludeKeeps ==
  ASSUME TypeOK, SessionsOK, NEW s \in Server, NEW p \in Port, sess[s][p] # None,
         NEW t \in Session, SessionOK(s, t, pos.zone), NEW r \in Row \cup {None},
         Conclude(s, p, t, r), pos' = pos, pend' = pend
  PROVE  SessionsOK' /\ row' \in Row \cup {None}
<1>1. CASE Put(s, p, None) /\ row' = None
  BY <1>1, PutKeeps
<1>2. CASE Put(s, p, t) /\ row' = r
  BY <1>2, PutKeeps
<1> QED
  BY <1>1, <1>2 DEF Conclude

\* The reply to a datagram, which ends the session of a character that leaves.
LEMMA SendParseKeeps ==
  ASSUME TypeOK, SessionsOK, NEW s \in Server, NEW p \in Port, sess[s][p] # None,
         NEW t \in Session, t.body \in Body, SessionOK(s, t, pos.zone),
         SendParse(s, p, t), pos' = pos, pend' = pend
  PROVE  /\ SessionsOK'
         /\ row' \in Row \cup {None}
         /\ ghost' \in [Server -> SUBSET Port]
         /\ wq' \in [Sender -> Seq(Message)]
<1>0. t.body # None /\ (t.body.out = "zone" => t.body.dest # None)
  BY NoneAssumption DEF SessionOK
<1>1. CASE t.body.out = "none"
  <2>1. Conclude(s, p, t, row) /\ ghost' = ghost /\ wq' = wq
    BY <1>1 DEF SendParse
  <2> QED
    BY <2>1, ConcludeKeeps DEF TypeOK
<1>2. CASE t.body.out # "none"
  <2>1. /\ Conclude(s, p, Flush(t), FlushedRow(t))
        /\ ghost' = [ghost EXCEPT ![s] = IF InZone(t) THEN @ \cup {p} ELSE @]
        /\ Send(s, IF t.body.out = "zone" THEN <<CharZone(t.body.dest)>> ELSE << >>)
    BY <1>2 DEF SendParse
  <2>2. /\ Flush(t) \in Session /\ SessionOK(s, Flush(t), pos.zone)
        /\ FlushedRow(t) \in Row \cup {None}
        /\ t.body.out = "zone" => CharZone(t.body.dest) \in Message
    BY <1>0, <1>2, FlushFacts
  <2>3. SessionsOK' /\ row' \in Row \cup {None}
    BY <2>1, <2>2, ConcludeKeeps
  <2>4. ghost' \in [Server -> SUBSET Port]
    BY <2>1 DEF TypeOK
  <2>5. wq' \in [Sender -> Seq(Message)]
    <3>1. (IF t.body.out = "zone" THEN <<CharZone(t.body.dest)>> ELSE << >>) \in Seq(Message)
      BY <2>2
    <3> QED
      BY <2>1, <3>1, SendType DEF Sender
  <2> QED
    BY <2>3, <2>4, <2>5
<1> QED
  BY <1>1, <1>2

\* A first 0x00A makes a waiting session where there is none.
LEMMA FirstLoginKeeps ==
  ASSUME IndInv, NEW s \in Server, NEW p \in Port, FirstLogin(s, p)
  PROVE  IndInv'
<1> DEFINE t == [status |-> "waiting", key |-> row.key, prev |-> None,
                 body |-> LoadChar, shut |-> 0, forced |-> FALSE,
                 decrypted |-> FALSE, expired |-> FALSE, last |-> None]
<1>1. TypeOK /\ SessionsOK
  BY Split DEF IndInv
<1>2. pend' = [pend EXCEPT ![s] = "none"] /\ pos' = pos
  BY DEF FirstLogin
<1>3. SessionsOK' /\ wq' \in [Sender -> Seq(Message)]
  <2>1. CASE row = None
    <3>1. sess' = sess /\ wq' = wq
      BY <2>1 DEF FirstLogin
    <3> QED
      BY <1>1, <1>2, <3>1, SameKeeps DEF TypeOK
  <2>2. CASE row # None
    <3>1. Put(s, p, t) /\ Send(s, IF pos.zone # pos.prev THEN <<KillSession>> ELSE << >>)
      BY <2>2 DEF FirstLogin
    <3>2. /\ LoadChar \in Body
          /\ LoadChar.zone = None /\ LoadChar.dest = pos.zone /\ LoadChar.out = "none"
      BY <1>1, LoadCharFacts
    <3>3. t \in Session
      BY <1>1, <2>2, <3>2 DEF TypeOK, Row, Session, MaybeKey
    <3>4. pos.zone # None
      BY <1>1, NoneAssumption DEF TypeOK
    <3>5. SessionOK(s, t, pos.zone)
      BY <3>2, <3>4, NoneAssumption DEF SessionOK, InZone
    <3>6. Sessions(s) = {} /\ pend'[s] = "none"
      BY <1>1, <1>2 DEF FirstLogin, SessionsOK, OneSession, TypeOK
    <3>7. \A x \in Server : pend'[x] # "none" => pend[x] # "none"
      BY <1>1, <1>2 DEF TypeOK
    <3>8. SessionsOK'
      BY <1>1, <1>2, <3>1, <3>3, <3>5, <3>6, <3>7, PutKeeps
    <3>9. (IF pos.zone # pos.prev THEN <<KillSession>> ELSE << >>) \in Seq(Message)
      <4>1. KillSession \in Message
        BY DEF KillSession, Message
      <4> QED
        BY <4>1
    <3> QED
      BY <1>1, <3>1, <3>8, <3>9, SendType DEF Sender
  <2> QED
    BY <2>1, <2>2
<1>4. TypeOK'
  BY <1>1, <1>2, <1>3 DEF FirstLogin, TypeOK, SessionsOK
<1> QED
  BY <1>3, <1>4, SplitNext

\* A waiting session is accepted and its character enters its zone.
LEMMA AcceptLoginKeeps ==
  ASSUME IndInv, NEW s \in Server, NEW p \in Port, AcceptLogin(s, p)
  PROVE  IndInv'
<1> DEFINE t == sess[s][p]
           reload == t.status = "pending" \/ t.body = None
           b == IF reload THEN LoadChar ELSE t.body
           k == IF reload /\ row # None THEN row.key ELSE t.key
           e == Enter(s, t, b, k)
<1>1. TypeOK /\ SessionsOK
  BY Split DEF IndInv
<1>2. /\ t # None /\ t.status # "accepted"
      /\ row' = IF row # None /\ InZone(e)
                THEN [row EXCEPT !.portZero = FALSE, !.stale = FALSE] ELSE row
      /\ Put(s, p, e)
      /\ Receive(e, InZone(e))
      /\ UNCHANGED <<pos, pend, ghost, wq, mq, up, crashes>>
  BY DEF AcceptLogin
<1>3. t \in Session /\ SessionOK(s, t, pos.zone)
  BY <1>1, <1>2 DEF TypeOK, SessionsOK
<1>4. /\ LoadChar \in Body /\ LoadChar.zone = None /\ LoadChar.dest = pos.zone
  BY <1>1, LoadCharFacts
<1>5. /\ b \in Body /\ b.zone = None /\ b.dest \in Zone
      /\ ServerOf[b.dest] = s => b.dest = pos.zone
  <2>1. CASE reload
    BY <1>1, <1>4, <2>1 DEF TypeOK
  <2>2. CASE ~reload
    <3>1. t.status = "waiting" /\ t.body # None
      BY <1>2, <1>3, <2>2 DEF Session
    <3> QED
      BY <1>3, <2>2, <3>1 DEF SessionOK, Session, Body
  <2> QED
    BY <2>1, <2>2
<1>6. k \in MaybeKey
  BY <1>1, <1>3 DEF TypeOK, Row, Session, MaybeKey
<1> DEFINE c == IF Hosts(s, b.dest)
                THEN [b EXCEPT !.zone = b.dest, !.dest = Unknown,
                               !.stat = "normal", !.out = "none"]
                ELSE [b EXCEPT !.warp = TRUE, !.out = "none"]
<1>7. /\ c \in Body /\ c.out = "none"
      /\ c.zone # None => ServerOf[c.zone] = s /\ c.zone = pos.zone
  BY <1>5, ConstantsAssumption DEF Body, Hosts
<1>8. e \in Session /\ e.body = c /\ e.status = "accepted"
  BY <1>3, <1>6, <1>7 DEF Enter, Session
<1>9. SessionOK(s, e, pos.zone)
  BY <1>7, <1>8, NoneAssumption DEF SessionOK, InZone
<1>10. SessionsOK'
  BY <1>1, <1>2, <1>8, <1>9, PutKeeps
<1>11. client' \in Client
  <2>1. client.port \in Port
    BY DEF AcceptLogin, Sends
  <2>2. InZone(e) \in BOOLEAN
    BY DEF InZone
  <2> QED
    BY <1>1, <1>2, <1>7, <1>8, <2>1, <2>2, ReceiveType
<1>12. row' \in Row \cup {None}
  BY <1>1, <1>2 DEF TypeOK, Row
<1>13. TypeOK'
  BY <1>1, <1>2, <1>10, <1>11, <1>12 DEF TypeOK, SessionsOK
<1> QED
  BY <1>10, <1>13, SplitNext

\* A repeated 0x00A finds the character in its zone and changes no presence.
LEMMA RepeatLoginKeeps ==
  ASSUME IndInv, NEW s \in Server, NEW p \in Port, RepeatLogin(s, p)
  PROVE  IndInv'
<1> DEFINE t == sess[s][p]
           refused == t.body.stat = "normal" /\ t.decrypted
           b == IF refused THEN t.body
                ELSE [t.body EXCEPT !.out = "none",
                                    !.stat = IF InZone(t) THEN "normal" ELSE @]
           u == [Tap(t) EXCEPT !.body = b, !.last = None]
<1>1. TypeOK /\ SessionsOK
  BY Split DEF IndInv
<1>2. /\ t # None /\ t.status = "accepted" /\ client.port = p
      /\ SendParse(s, p, u)
      /\ Receive(u, InZone(u) /\ ~refused)
      /\ UNCHANGED <<pos, pend, mq, up, crashes>>
  BY DEF RepeatLogin, Sends
<1>3. t \in Session /\ SessionOK(s, t, pos.zone) /\ t.body \in Body
  BY <1>1, <1>2 DEF TypeOK, SessionsOK, SessionOK, Session
<1>4. /\ b \in Body /\ b.zone = t.body.zone
      /\ b.out = "zone" => b.dest # None
  BY <1>3, NoneAssumption DEF Body, SessionOK
<1>5. u \in Session /\ u.body = b /\ u.status = "accepted"
  <2>1. Tap(t) \in Session /\ Tap(t).status = "accepted"
    BY <1>2, <1>3, TapFacts
  <2>2. ASSUME NEW x \in Session, NEW y \in Body, x.status = "accepted"
        PROVE  /\ [x EXCEPT !.body = y, !.last = None] \in Session
               /\ [x EXCEPT !.body = y, !.last = None].body = y
               /\ [x EXCEPT !.body = y, !.last = None].status = "accepted"
    BY <2>2 DEF Session
  <2> QED
    BY <1>4, <2>1, <2>2
<1>6. SessionOK(s, u, pos.zone)
  BY <1>2, <1>3, <1>4, <1>5, NoneAssumption DEF SessionOK, InZone
<1>7. /\ SessionsOK' /\ row' \in Row \cup {None}
      /\ ghost' \in [Server -> SUBSET Port] /\ wq' \in [Sender -> Seq(Message)]
  BY <1>1, <1>2, <1>4, <1>5, <1>6, SendParseKeeps
<1>8. client' \in Client
  <2>1. (InZone(u) /\ ~refused) \in BOOLEAN
    BY DEF InZone
  <2> QED
    BY <1>1, <1>2, <1>4, <1>5, <2>1, ReceiveType
<1>9. TypeOK'
  BY <1>1, <1>2, <1>7, <1>8 DEF TypeOK, SessionsOK
<1> QED
  BY <1>7, <1>9, SplitNext

\* A packet of a character in its zone.
LEMMA GamePacketKeeps ==
  ASSUME IndInv, NEW s \in Server, NEW p \in Port, NEW dest \in Zone \cup {None},
         GamePacket(s, p, dest)
  PROVE  IndInv'
<1> DEFINE t == sess[s][p]
           tapped == IF t.status = "accepted" THEN Tap(t) ELSE t
           c == Command(t.body, dest)
           u == [tapped EXCEPT !.decrypted = TRUE, !.body = c]
<1>1. TypeOK /\ SessionsOK
  BY Split DEF IndInv
<1>2. /\ t # None /\ t.body # None /\ client.port = p
      /\ UNCHANGED <<pos, pend, mq, up, crashes>>
  BY DEF GamePacket, Sends
<1>3. t \in Session /\ SessionOK(s, t, pos.zone) /\ t.body \in Body
  BY <1>1, <1>2 DEF TypeOK, SessionsOK, Session
<1>4. /\ c \in Body /\ c.zone = t.body.zone
      /\ c.out = "zone" => c.dest # None
      /\ c.zone = None => c = t.body
  BY <1>2, <1>3, CommandFacts DEF SessionOK
<1>5. tapped \in Session /\ tapped.status = t.status
  BY <1>3, TapFacts
<1>6. u \in Session /\ u.body = c /\ u.status = t.status
  <2>1. ASSUME NEW x \in Session, NEW y \in Body
        PROVE  /\ [x EXCEPT !.decrypted = TRUE, !.body = y] \in Session
               /\ [x EXCEPT !.decrypted = TRUE, !.body = y].body = y
               /\ [x EXCEPT !.decrypted = TRUE, !.body = y].status = x.status
    BY DEF Session
  <2> HIDE DEF tapped, c
  <2> QED
    BY <1>4, <1>5, <2>1
<1>7. SessionOK(s, u, pos.zone)
  BY <1>2, <1>3, <1>4, <1>6, NoneAssumption DEF SessionOK, InZone
<1>8. CASE SendParse(s, p, u) /\ Receive(u, FALSE)
  <2>1. /\ SessionsOK' /\ row' \in Row \cup {None}
        /\ ghost' \in [Server -> SUBSET Port] /\ wq' \in [Sender -> Seq(Message)]
    BY <1>1, <1>2, <1>4, <1>6, <1>7, <1>8, SendParseKeeps
  <2>2. client' \in Client
    BY <1>1, <1>2, <1>4, <1>6, <1>8, ReceiveType
  <2>3. TypeOK'
    BY <1>1, <1>2, <2>1, <2>2 DEF TypeOK, SessionsOK
  <2> QED
    BY <2>1, <2>3, SplitNext
<1>9. CASE /\ Conclude(s, p, u, row)
           /\ client' \in {client, [client EXCEPT !.synced = TRUE]}
           /\ UNCHANGED <<ghost, wq>>
  <2>1. SessionsOK' /\ row' \in Row \cup {None}
    BY <1>1, <1>2, <1>6, <1>7, <1>9, ConcludeKeeps DEF TypeOK
  <2>2. client' \in Client
    BY <1>1, <1>9 DEF TypeOK, Client
  <2>3. TypeOK'
    BY <1>1, <1>2, <1>9, <2>1, <2>2 DEF TypeOK, SessionsOK
  <2> QED
    BY <2>1, <2>3, SplitNext
<1> QED
  BY <1>8, <1>9 DEF GamePacket

\* A packet that reaches a session on its way out.
LEMMA LatePacketKeeps ==
  ASSUME IndInv, NEW s \in Server, NEW p \in Port, LatePacket(s, p)
  PROVE  IndInv'
<1> DEFINE t == sess[s][p]
           u == [t EXCEPT !.decrypted = @ \/ t.key = client.key]
<1>1. TypeOK /\ SessionsOK
  BY Split DEF IndInv
<1>2. /\ t # None /\ client.port = p
      /\ Conclude(s, p, u, row)
      /\ client' = client \/ (t.last # None /\ Receive0x00B(t.last))
      /\ UNCHANGED <<pos, pend, ghost, wq, mq, up, crashes>>
  BY DEF LatePacket, Sends
<1>3. t \in Session /\ SessionOK(s, t, pos.zone)
  BY <1>1, <1>2 DEF TypeOK, SessionsOK
<1>4. u \in Session /\ u.body = t.body /\ u.status = t.status
  BY <1>3 DEF Session
<1>5. SessionOK(s, u, pos.zone)
  BY <1>2, <1>3, <1>4, NoneAssumption DEF SessionOK, InZone
<1>6. SessionsOK' /\ row' \in Row \cup {None}
  BY <1>1, <1>2, <1>4, <1>5, ConcludeKeeps DEF TypeOK
<1>7. client' \in Client
  <2>1. t.last \in Server \cup {None, Login}
    BY <1>3 DEF Session
  <2> QED
    BY <1>1, <1>2, <2>1, Receive0x00BType DEF TypeOK
<1>8. TypeOK'
  BY <1>1, <1>2, <1>6, <1>7 DEF TypeOK, SessionsOK
<1> QED
  BY <1>6, <1>8, SplitNext

\* A step of the server on a body that stays where it is.
LEMMA BodyKeeps ==
  ASSUME IndInv, NEW s \in Server, NEW p \in Port, InZone(sess[s][p]),
         NEW c \in Body, c.zone = sess[s][p].body.zone,
         c.out = "zone" => c.dest # None,
         Put(s, p, [sess[s][p] EXCEPT !.body = c]), UNCHANGED <<pos, pend, wq>>, Rest
  PROVE  IndInv'
<1> DEFINE t == sess[s][p]
           u == [t EXCEPT !.body = c]
<1>1. TypeOK /\ SessionsOK
  BY Split DEF IndInv
<1>2. t \in Session /\ t # None /\ SessionOK(s, t, pos.zone)
  BY <1>1 DEF TypeOK, SessionsOK, InZone
<1>3. u \in Session /\ u.body = c /\ u.status = t.status
  BY <1>2 DEF Session
<1>4. SessionOK(s, u, pos.zone)
  BY <1>2, <1>3, NoneAssumption DEF SessionOK, InZone
<1>5. SessionsOK'
  BY <1>1, <1>2, <1>3, <1>4, PutKeeps
<1>6. TypeOK'
  BY <1>1, <1>5 DEF TypeOK, SessionsOK, Rest
<1> QED
  BY <1>5, <1>6, SplitNext

\* A character in a zone is the one of an accepted session.
LEMMA InZoneFacts ==
  ASSUME IndInv, NEW s \in Server, NEW p \in Port, InZone(sess[s][p])
  PROVE  /\ sess[s][p] \in Session /\ sess[s][p].body \in Body
         /\ sess[s][p].body.out = "zone" => sess[s][p].body.dest # None
         /\ sess[s][p].body.zone \in Zone
         /\ ServerOf[sess[s][p].body.zone] = s /\ sess[s][p].body.zone = pos.zone
<1>1. TypeOK /\ SessionsOK
  BY Split DEF IndInv
<1>2. sess[s][p] \in Session /\ SessionOK(s, sess[s][p], pos.zone)
  BY <1>1 DEF SessionsOK, TypeOK, InZone
<1>3. sess[s][p].body \in Body
  BY <1>2 DEF Session, InZone
<1> QED
  BY <1>2, <1>3 DEF SessionOK, InZone, Body

\* An effect warps the character.
LEMMA WarpKeeps ==
  ASSUME IndInv, NEW s \in Server, NEW p \in Port, Warp(s, p)
  PROVE  IndInv'
<1> DEFINE t == sess[s][p]
           c == [t.body EXCEPT !.warp = TRUE]
<1>1. InZone(t) /\ Put(s, p, [t EXCEPT !.body = c]) /\ UNCHANGED <<pos, pend, wq>> /\ Rest
  BY DEF Warp
<1>2. t.body \in Body /\ (t.body.out = "zone" => t.body.dest # None)
  BY <1>1, InZoneFacts
<1>3. c \in Body /\ c.zone = t.body.zone /\ (c.out = "zone" => c.dest # None)
  BY <1>2 DEF Body
<1> QED
  BY <1>1, <1>3, BodyKeeps

\* An effect logs the character out.
LEMMA LeaveGameKeeps ==
  ASSUME IndInv, NEW s \in Server, NEW p \in Port, LeaveGame(s, p)
  PROVE  IndInv'
<1> DEFINE t == sess[s][p]
           c == [t.body EXCEPT !.stat = "shutdown"]
<1>1. InZone(t) /\ Put(s, p, [t EXCEPT !.body = c]) /\ UNCHANGED <<pos, pend, wq>> /\ Rest
  BY DEF LeaveGame
<1>2. t.body \in Body /\ (t.body.out = "zone" => t.body.dest # None)
  BY <1>1, InZoneFacts
<1>3. c \in Body /\ c.zone = t.body.zone /\ (c.out = "zone" => c.dest # None)
  BY <1>2 DEF Body
<1> QED
  BY <1>1, <1>3, BodyKeeps

\* Another server asks for the character to be moved.
LEMMA SendPlayerToLocationKeeps ==
  ASSUME IndInv, NEW s \in Server, NEW p \in Port, NEW z \in Zone,
         SendPlayerToLocation(s, p, z)
  PROVE  IndInv'
<1> DEFINE t == sess[s][p]
           c == [t.body EXCEPT !.dest = z, !.stat = "disappear", !.leaving = TRUE,
                               !.out = "none"]
<1>1. InZone(t) /\ Put(s, p, [t EXCEPT !.body = c]) /\ UNCHANGED <<pos, pend, wq>> /\ Rest
  BY DEF SendPlayerToLocation
<1>2. t.body \in Body /\ (t.body.out = "zone" => t.body.dest # None)
  BY <1>1, InZoneFacts
<1>3. c \in Body /\ c.zone = t.body.zone /\ (c.out = "zone" => c.dest # None)
  BY <1>2 DEF Body
<1> QED
  BY <1>1, <1>3, BodyKeeps

\* The character leaves for zone z: it is the only body, and no waiting session can be
\* at the server the position named, because that server has this one.
LEMMA SendToZoneKeeps ==
  ASSUME IndInv, NEW s \in Server, NEW p \in Port, NEW z \in Zone, NEW mog \in BOOLEAN,
         InZone(sess[s][p]), SendToZone(s, p, z, mog), UNCHANGED <<pend, wq>>, Rest
  PROVE  IndInv'
<1> DEFINE t == sess[s][p]
           b == t.body
           c == [b EXCEPT !.dest = z, !.stat = "disappear", !.leaving = TRUE,
                          !.warp = FALSE, !.out = "zone"]
           d == [t EXCEPT !.last = None, !.body = c]
           u == RemoveFromZone(d)
<1>1. TypeOK /\ SessionsOK
  BY Split DEF IndInv
<1>2. /\ t \in Session /\ b \in Body /\ b.zone \in Zone
      /\ ServerOf[b.zone] = s /\ b.zone = pos.zone
  BY InZoneFacts
<1>3. pos' = SavedPosition(b, z, mog) /\ Put(s, p, u)
  BY DEF SendToZone
<1>4. pos' \in [zone : Zone, prev : Zone] /\ pos'.zone = z
  BY <1>2, <1>3 DEF SavedPosition, Body
<1>5. c \in Body /\ c.dest # None
  BY <1>2, NoneAssumption DEF Body
<1>6. d \in Session /\ d.body = c
  <2> HIDE DEF c
  <2> QED
    BY <1>2, <1>5 DEF Session
<1>7. u \in Session /\ SessionOK(s, u, z)
  <2> HIDE DEF d, c
  <2> QED
    BY <1>5, <1>6, RemoveFacts
<1>8. /\ sess' \in [Server -> [Port -> Session \cup {None}]]
      /\ sess'[s][p] = u
      /\ \A x \in Server, q \in Port : <<x, q>> # <<s, p>> => sess'[x][q] = sess[x][q]
  <2> HIDE DEF u
  <2> QED
    BY <1>1, <1>3, <1>7 DEF SessionsOK, Put
<1>9. \A x \in Server : Sessions(x)' = Sessions(x)
  <2>1. u # None /\ t # None
    BY <1>7, NoneAssumption DEF InZone
  <2> HIDE DEF u
  <2> QED
    BY <1>8, <2>1 DEF Sessions
<1>10. OneSession'
  BY <1>1, <1>9 DEF SessionsOK, OneSession
<1>11. ASSUME NEW x \in Server, NEW q \in Port, <<x, q>> # <<s, p>>, sess[x][q] # None
       PROVE  x # s
  <2>1. p \in Sessions(s) /\ q \in Sessions(x)
    BY <1>11 DEF Sessions, InZone
  <2> QED
    BY <1>1, <1>11, <2>1 DEF SessionsOK, OneSession
<1>12. ASSUME NEW x \in Server, NEW q \in Port, sess'[x][q] # None
       PROVE  SessionOK(x, sess'[x][q], pos'.zone)
  <2>1. CASE <<x, q>> = <<s, p>>
    BY <1>4, <1>7, <1>8, <2>1
  <2>2. CASE <<x, q>> # <<s, p>>
    <3>1. sess'[x][q] = sess[x][q] /\ sess[x][q] # None /\ x # s
      BY <1>8, <1>11, <1>12, <2>2
    <3>2. SessionOK(x, sess[x][q], pos.zone)
      BY <1>1, <3>1 DEF SessionsOK
    <3> QED
      BY <1>2, <3>1, <3>2 DEF SessionOK
  <2> QED
    BY <2>1, <2>2
<1>13. SessionsOK'
  BY <1>8, <1>10, <1>12 DEF SessionsOK
<1>14. TypeOK'
  BY <1>1, <1>4, <1>13 DEF TypeOK, SessionsOK, Rest
<1> QED
  BY <1>13, <1>14, SplitNext

\* A step of the zone tick that does not save a position.
LEMMA LeaveKeeps ==
  ASSUME IndInv, NEW s \in Server, NEW p \in Port, InZone(sess[s][p]),
         NEW c \in Body, c.out = "zone" => c.dest # None,
         Put(s, p, RemoveFromZone([sess[s][p] EXCEPT !.body = c])),
         UNCHANGED <<pos, pend, wq>>, Rest
  PROVE  IndInv'
<1> DEFINE d == [sess[s][p] EXCEPT !.body = c]
           u == RemoveFromZone(d)
<1>1. TypeOK /\ SessionsOK
  BY Split DEF IndInv
<1>2. d \in Session /\ d.body = c /\ sess[s][p] # None
  BY InZoneFacts DEF Session, InZone
<1>3. u \in Session /\ SessionOK(s, u, pos.zone)
  <2> HIDE DEF d
  <2> QED
    BY <1>2, RemoveFacts
<1>4. SessionsOK'
  <2> HIDE DEF u
  <2> QED
    BY <1>1, <1>2, <1>3, PutKeeps DEF u, d
<1>5. TypeOK'
  BY <1>1, <1>4 DEF TypeOK, SessionsOK, Rest
<1> QED
  BY <1>4, <1>5, SplitNext

\* The tick that takes the character out of its zone and saves where to.
LEMMA ZoneTickKeeps ==
  ASSUME IndInv, NEW s \in Server, NEW p \in Port, ZoneTick(s, p)
  PROVE  IndInv'
<1> DEFINE t == sess[s][p]
           b == t.body
<1>1. InZone(t) /\ UNCHANGED <<pend, wq>> /\ Rest
  BY DEF ZoneTick
<1>2. b \in Body /\ (b.out = "zone" => b.dest # None)
  BY <1>1, InZoneFacts
<1>3. CASE pos' = pos /\ Put(s, p, RemoveFromZone([t EXCEPT !.body = SendDisconnect(b)]))
  <2>1. SendDisconnect(b) \in Body /\ SendDisconnect(b).out = "logout"
    BY <1>2, SendDisconnectFacts
  <2> QED
    BY <1>1, <1>3, <2>1, LeaveKeeps
<1>4. CASE pos' = pos /\ Put(s, p, RemoveFromZone([t EXCEPT !.body.leaving = TRUE]))
  <2> DEFINE c == [b EXCEPT !.leaving = TRUE]
  <2>1. c \in Body /\ (c.out = "zone" => c.dest # None)
    BY <1>2 DEF Body
  <2> QED
    BY <1>1, <1>4, <2>1, LeaveKeeps
<1>5. ASSUME b.dest # None, NEW z \in {Home, b.dest}, NEW mog \in BOOLEAN,
             SendToZone(s, p, z, mog)
      PROVE  IndInv'
  <2>1. z \in Zone
    BY <1>2, <1>5, ConstantsAssumption DEF Body
  <2> QED
    BY <1>1, <1>5, <2>1, SendToZoneKeeps
<1>6. CASE pos' = pos /\ Put(s, p, [t EXCEPT !.body = [b EXCEPT !.warp = FALSE, !.leaving = TRUE]])
  <2> DEFINE c == [b EXCEPT !.warp = FALSE, !.leaving = TRUE]
  <2>1. c \in Body /\ c.zone = b.zone /\ (c.out = "zone" => c.dest # None)
    BY <1>2 DEF Body
  <2> QED
    BY <1>1, <1>6, <2>1, BodyKeeps
<1>7. CASE pos' = pos /\ Put(s, p, [t EXCEPT !.body = [b EXCEPT !.leaving = TRUE]])
  <2> DEFINE c == [b EXCEPT !.leaving = TRUE]
  <2>1. c \in Body /\ c.zone = b.zone /\ (c.out = "zone" => c.dest # None)
    BY <1>2 DEF Body
  <2> QED
    BY <1>1, <1>7, <2>1, BodyKeeps
<1> QED
  BY <1>3, <1>4, <1>5, <1>6, <1>7 DEF ZoneTick

\* A session that keeps its body but changes otherwise, or goes.
LEMMA MarkKeeps ==
  ASSUME TypeOK, SessionsOK, NEW s \in Server, NEW p \in Port, sess[s][p] # None,
         NEW u \in Session, u.body = sess[s][p].body,
         u.status = sess[s][p].status \/ u.status = "pending",
         Put(s, p, u), pos' = pos, \A x \in Server : pend'[x] # "none" => pend[x] # "none"
  PROVE  SessionsOK'
<1>1. sess[s][p] \in Session /\ SessionOK(s, sess[s][p], pos.zone)
  BY DEF TypeOK, SessionsOK
<1>2. SessionOK(s, u, pos.zone)
  BY <1>1, NoneAssumption DEF SessionOK, InZone
<1> QED
  BY <1>2, PutKeeps

\* Sessions expire and are cleaned up, and freed entities tick.
LEMMA TimeoutsKeep ==
  ASSUME IndInv, NEW s \in Server, NEW p \in Port,
         ExpireSession(s, p) \/ CleanupSession(s, p) \/ GhostTick(s, p)
  PROVE  IndInv'
<1> DEFINE t == sess[s][p]
<1>1. TypeOK /\ SessionsOK
  BY Split DEF IndInv
<1>2. t # None => t \in Session
  BY <1>1 DEF TypeOK
<1>3. CASE ExpireSession(s, p)
  <2> DEFINE u == [t EXCEPT !.expired = TRUE]
  <2>1. /\ t # None /\ Put(s, p, u) /\ UNCHANGED <<pos, pend, wq>> /\ Rest
    BY <1>3 DEF ExpireSession
  <2>2. u \in Session /\ u.body = t.body /\ u.status = t.status
    BY <1>2, <2>1 DEF Session
  <2>3. SessionsOK'
    BY <1>1, <2>1, <2>2, MarkKeeps
  <2>4. TypeOK'
    BY <1>1, <2>1, <2>3 DEF TypeOK, SessionsOK, Rest
  <2> QED
    BY <2>3, <2>4, SplitNext
<1>4. CASE CleanupSession(s, p)
  <2>1. Put(s, p, None) /\ row' = CleanedRow(s)
    BY <1>4 DEF CleanupSession
  <2>2. SessionsOK'
    BY <1>1, <1>4, <2>1, PutKeeps DEF CleanupSession
  <2>3. TypeOK'
    BY <1>1, <1>4, <2>1, <2>2 DEF TypeOK, SessionsOK, CleanupSession, CleanedRow
  <2> QED
    BY <2>2, <2>3, SplitNext
<1>5. CASE GhostTick(s, p)
  <2> DEFINE u == [t EXCEPT !.status = "pending", !.shut = 1]
  <2>1. SessionsOK'
    <3>1. CASE t = None
      BY <1>1, <1>5, <3>1, SameKeeps DEF GhostTick
    <3>2. CASE t # None
      <4>1. u \in Session /\ u.body = t.body /\ u.status = "pending"
        BY <1>2, <3>2 DEF Session
      <4>2. Put(s, p, u)
        BY <1>5, <3>2 DEF GhostTick
      <4> QED
        BY <1>1, <1>5, <3>2, <4>1, <4>2, MarkKeeps DEF GhostTick
    <3> QED
      BY <3>1, <3>2
  <2>2. TypeOK'
    BY <1>1, <1>5, <2>1 DEF TypeOK, SessionsOK, GhostTick
  <2> QED
    BY <2>1, <2>2, SplitNext
<1> QED
  BY <1>3, <1>4, <1>5

\* Pending sessions expire and are cleaned up.
LEMMA PendingKeeps ==
  ASSUME IndInv, NEW s \in Server, ExpirePending(s) \/ CleanupPending(s)
  PROVE  IndInv'
<1>1. TypeOK /\ SessionsOK
  BY Split DEF IndInv
<1>2. CASE ExpirePending(s)
  <2>1. \A x \in Server : pend'[x] # "none" => pend[x] # "none"
    BY <1>1, <1>2 DEF ExpirePending, TypeOK
  <2>2. SessionsOK'
    BY <1>1, <1>2, <2>1, SameKeeps DEF ExpirePending
  <2>3. TypeOK'
    BY <1>1, <1>2, <2>2 DEF TypeOK, SessionsOK, ExpirePending, Rest
  <2> QED
    BY <2>2, <2>3, SplitNext
<1>3. CASE CleanupPending(s)
  <2>1. \A x \in Server : pend'[x] # "none" => pend[x] # "none"
    BY <1>1, <1>3 DEF CleanupPending, TypeOK
  <2>2. SessionsOK'
    BY <1>1, <1>3, <2>1, SameKeeps DEF CleanupPending
  <2>3. TypeOK'
    BY <1>1, <1>3, <2>2 DEF TypeOK, SessionsOK, CleanupPending
  <2> QED
    BY <2>2, <2>3, SplitNext
<1> QED
  BY <1>2, <1>3

\* The world server moves a message from one queue to others.
LEMMA WorldRouteKeeps ==
  ASSUME IndInv, NEW x \in Sender, WorldRoute(x)
  PROVE  IndInv'
<1> DEFINE m == Head(wq[x])
<1>1. TypeOK /\ SessionsOK
  BY Split DEF IndInv
<1>2. m \in Message /\ Tail(wq[x]) \in Seq(Message)
  BY <1>1 DEF TypeOK, WorldRoute
<1>3. wq' \in [Sender -> Seq(Message)]
  BY <1>1, <1>2 DEF TypeOK, WorldRoute
<1>4. mq' \in [Server -> Seq(Message)]
  <2>1. \A s \in Server : Append(mq[s], m) \in Seq(Message) /\ mq[s] \in Seq(Message)
    BY <1>1, <1>2 DEF TypeOK
  <2> QED
    BY <2>1 DEF WorldRoute, Deliver
<1>5. SessionsOK'
  BY <1>1, SameKeeps DEF WorldRoute
<1>6. TypeOK'
  BY <1>1, <1>3, <1>4, <1>5 DEF TypeOK, SessionsOK, WorldRoute
<1> QED
  BY <1>5, <1>6, SplitNext

\* A handled message leaves a queue of messages.
LEMMA HandleType ==
  ASSUME TypeOK, NEW s \in Server, NEW type, Handle(s, type)
  PROVE  mq' \in [Server -> Seq(Message)]
<1>1. Tail(mq[s]) \in Seq(Message)
  BY DEF TypeOK, Handle
<1> QED
  BY <1>1 DEF TypeOK, Handle

\* A login elsewhere takes the key of the session away.
LEMMA HandleAccountLoginKeeps ==
  ASSUME IndInv, NEW s \in Server, HandleAccountLogin(s)
  PROVE  IndInv'
<1>1. TypeOK /\ SessionsOK
  BY Split DEF IndInv
<1>2. Handle(s, "AccountLogin") /\ UNCHANGED <<row, pend>>
  BY DEF HandleAccountLogin
<1>3. SessionsOK'
  <2>1. CASE sess' = sess
    BY <1>1, <1>2, <2>1, SameKeeps DEF Handle
  <2>2. ASSUME NEW p \in Sessions(s),
               Put(s, p, [sess[s][p] EXCEPT !.forced = TRUE, !.key = None, !.prev = None])
        PROVE  SessionsOK'
    <3> DEFINE t == sess[s][p]
               u == [t EXCEPT !.forced = TRUE, !.key = None, !.prev = None]
    <3>1. p \in Port /\ t # None /\ t \in Session
      BY <1>1 DEF TypeOK, Sessions
    <3>2. u \in Session /\ u.body = t.body /\ u.status = t.status
      BY <3>1 DEF Session, MaybeKey
    <3> QED
      BY <1>1, <1>2, <2>2, <3>1, <3>2, MarkKeeps DEF Handle
  <2> QED
    BY <2>1, <2>2 DEF HandleAccountLogin
<1>4. TypeOK'
  BY <1>1, <1>2, <1>3, HandleType DEF TypeOK, SessionsOK, Handle
<1> QED
  BY <1>3, <1>4, SplitNext

\* A pending session is only created where there is no session.
LEMMA HandleCharZoneKeeps ==
  ASSUME IndInv, NEW s \in Server, HandleCharZone(s)
  PROVE  IndInv'
<1>1. TypeOK /\ SessionsOK
  BY Split DEF IndInv
<1>2. Handle(s, "CharZone") /\ row' = row
  BY DEF HandleCharZone
<1>3. SessionsOK' /\ pend' \in [Server -> {"none", "fresh", "expired"}]
  <2>1. CASE Expected(s)
    <3>1. sess' = sess /\ pend' = [pend EXCEPT ![s] = "fresh"] /\ Sessions(s) = {}
      BY <2>1 DEF HandleCharZone, Expected
    <3>2. OneSession'
      BY <1>1, <3>1 DEF SessionsOK, OneSession, Sessions, TypeOK
    <3> QED
      BY <1>1, <1>2, <3>1, <3>2 DEF SessionsOK, TypeOK, Handle
  <2>2. CASE ~Expected(s)
    <3>1. PICK p \in Sessions(s) : Put(s, p, Tap(sess[s][p]))
      BY <2>2 DEF HandleCharZone
    <3>2. pend' = pend
      BY <2>2 DEF HandleCharZone
    <3>3. p \in Port /\ sess[s][p] # None /\ sess[s][p] \in Session
      BY <1>1 DEF TypeOK, Sessions
    <3>4. /\ Tap(sess[s][p]) \in Session
          /\ Tap(sess[s][p]).body = sess[s][p].body
          /\ Tap(sess[s][p]).status = sess[s][p].status
      BY <3>3, TapFacts
    <3> QED
      BY <1>1, <1>2, <3>1, <3>2, <3>3, <3>4, MarkKeeps DEF Handle, TypeOK
  <2> QED
    BY <2>1, <2>2
<1>4. TypeOK'
  BY <1>1, <1>2, <1>3, HandleType DEF TypeOK, SessionsOK, Handle
<1> QED
  BY <1>3, <1>4, SplitNext

\* A session is destroyed or its character logged out.
LEMMA HandleKillSessionKeeps ==
  ASSUME IndInv, NEW s \in Server, HandleKillSession(s)
  PROVE  IndInv'
<1>1. TypeOK /\ SessionsOK
  BY Split DEF IndInv
<1>2. Handle(s, "KillSession") /\ pend' = pend
  BY DEF HandleKillSession
<1>3. SessionsOK' /\ row' \in Row \cup {None}
  <2>1. CASE UNCHANGED <<row, sess>>
    BY <1>1, <1>2, <2>1, SameKeeps DEF Handle, TypeOK
  <2>2. ASSUME NEW p \in Sessions(s), Put(s, p, None), row' = None \/ row' = row
        PROVE  SessionsOK' /\ row' \in Row \cup {None}
    BY <1>1, <1>2, <2>2, PutKeeps DEF Handle, TypeOK, Sessions
  <2>3. ASSUME NEW p \in Sessions(s), sess[s][p].status = "accepted", sess[s][p].body # None,
               Put(s, p, [sess[s][p] EXCEPT !.body = SendDisconnect(@)]), row' = row
        PROVE  SessionsOK' /\ row' \in Row \cup {None}
    <3> DEFINE t == sess[s][p]
               c == SendDisconnect(t.body)
               u == [t EXCEPT !.body = c]
    <3>1. p \in Port /\ t # None /\ t \in Session /\ SessionOK(s, t, pos.zone)
      BY <1>1 DEF TypeOK, SessionsOK, Sessions
    <3>2. t.body \in Body
      BY <2>3, <3>1 DEF Session
    <3>3. c \in Body /\ c.zone = t.body.zone /\ c.out = "logout"
      BY <3>2, SendDisconnectFacts
    <3>4. u \in Session /\ u.body = c /\ u.status = "accepted"
      BY <2>3, <3>1, <3>3 DEF Session
    <3>5. SessionOK(s, u, pos.zone)
      BY <2>3, <3>1, <3>3, <3>4, NoneAssumption DEF SessionOK, InZone
    <3> QED
      BY <1>1, <1>2, <2>3, <3>1, <3>4, <3>5, PutKeeps DEF Handle, TypeOK
  <2> QED
    BY <2>1, <2>2, <2>3 DEF HandleKillSession
<1>4. TypeOK'
  BY <1>1, <1>2, <1>3, HandleType DEF TypeOK, SessionsOK, Handle
<1> QED
  BY <1>3, <1>4, SplitNext

\* A server loses its sessions.
LEMMA CrashKeeps ==
  ASSUME IndInv, NEW s \in Server, Crash(s)
  PROVE  IndInv'
<1>1. TypeOK /\ SessionsOK
  BY Split DEF IndInv
<1>2. /\ sess' \in [Server -> [Port -> Session \cup {None}]]
      /\ \A x \in Server, p \in Port : sess'[x][p] # None => sess'[x][p] = sess[x][p]
  BY <1>1 DEF Crash, SessionsOK
<1>3. \A x \in Server : pend'[x] # "none" => pend[x] # "none"
  BY <1>1 DEF Crash, TypeOK
<1>4. \A x \in Server : Sessions(x)' \subseteq Sessions(x)
  BY <1>2 DEF Sessions
<1>5. OneSession'
  BY <1>1, <1>3, <1>4 DEF SessionsOK, OneSession
<1>6. SessionsOK'
  BY <1>1, <1>2, <1>5 DEF SessionsOK, Crash
<1>7. mq' \in [Server -> Seq(Message)] /\ wq' \in [Sender -> Seq(Message)]
  <2>1. << >> \in Seq(Message) /\ s \in Sender
    BY DEF Sender
  <2> QED
    BY <1>1, <2>1 DEF Crash, TypeOK
<1>8. TypeOK'
  BY <1>1, <1>6, <1>7 DEF TypeOK, SessionsOK, Crash
<1> QED
  BY <1>6, <1>8, SplitNext

\* A server starts without sessions.
LEMMA StartKeeps ==
  ASSUME IndInv, NEW s \in Server, Start(s)
  PROVE  IndInv'
<1>1. TypeOK /\ SessionsOK
  BY Split DEF IndInv
<1>2. SessionsOK'
  BY <1>1, SameKeeps DEF Start
<1>3. TypeOK'
  BY <1>1, <1>2 DEF TypeOK, SessionsOK, Start
<1> QED
  BY <1>2, <1>3, SplitNext

\* The lobby writes rows and keeps the saved zone.
LEMMA LobbyKeeps ==
  ASSUME IndInv, LobbyStep
  PROVE  IndInv'
<1>1. TypeOK /\ SessionsOK
  BY Split DEF IndInv
<1>2. ASSUME NEW phase \in {"off", "lobby"}, NEW p \in Port \cup {None}
      PROVE  Idle(phase, p) \in Client
  BY <1>1 DEF TypeOK, Client, Idle, MaybeKey
<1>3. ASSUME NEW p \in Port, Authenticate(p) PROVE IndInv'
  <2>1. SessionsOK'
    BY <1>1, <1>3, SameKeeps DEF Authenticate, server
  <2>2. client' \in Client
    <3>1. Idle("lobby", p) \in Client
      BY <1>2
    <3>2. client' = [Idle("lobby", p) EXCEPT !.logins = @ + 1]
      BY <1>3 DEF Authenticate
    <3> QED
      BY <3>1, <3>2 DEF Client
  <2>3. <<AccountLogin>> \in Seq(Message)
    <3>1. AccountLogin \in Message
      BY DEF AccountLogin, Message
    <3> QED
      BY <3>1
  <2>4. wq' \in [Sender -> Seq(Message)]
    BY <1>1, <1>3, <2>3, SendType DEF Authenticate, Sender
  <2>5. TypeOK'
    BY <1>1, <1>3, <2>1, <2>2, <2>4 DEF Authenticate, TypeOK, SessionsOK, server
  <2> QED
    BY <2>1, <2>5, SplitNext
<1>4. ASSUME NEW v \in BOOLEAN, SelectCharacter(v) PROVE IndInv'
  <2> DEFINE zone == LobbyZone
             key  == [login |-> client.logins + 1, zonings |-> 0]
  <2>1. zone \in Zone /\ ServerOf[zone] \in Server
    BY <1>1, ConstantsAssumption DEF TypeOK, LobbyZone
  <2>2. key \in Key
    BY <1>1 DEF TypeOK, Client, Key
  <2>3. /\ row' = [server |-> ServerOf[zone], key |-> key,
                   portZero |-> TRUE, stale |-> FALSE]
        /\ pos' = [pos EXCEPT !.prev = IF @ = Unknown THEN zone ELSE @]
        /\ \/ /\ client' = [client EXCEPT !.phase = "connect", !.server = ServerOf[zone],
                                       !.key = key, !.synced = TRUE, !.logins = @ + 1]
              /\ Send(Login, <<CharZone(zone)>>)
           \/ /\ client' = [Idle("off", None) EXCEPT !.logins = @ + 1]
              /\ wq' = wq
        /\ UNCHANGED mq /\ UNCHANGED server
    BY <1>4 DEF SelectCharacter
  <2>4. pos' \in [zone : Zone, prev : Zone] /\ pos'.zone = pos.zone
    BY <1>1, <2>1, <2>3 DEF TypeOK
  <2>5. row' \in Row
    BY <2>1, <2>2, <2>3 DEF Row, MaybeKey
  <2>6. client' \in Client
    <3>1. Idle("off", None) \in Client
      BY <1>2
    <3> HIDE DEF zone, key
    <3>2. CASE client' = [Idle("off", None) EXCEPT !.logins = @ + 1]
      BY <3>1, <3>2 DEF Client
    <3>3. CASE client' = [client EXCEPT !.phase = "connect", !.server = ServerOf[zone],
                                        !.key = key, !.synced = TRUE, !.logins = @ + 1]
      <4>1. client \in Client /\ key \in MaybeKey /\ client.logins + 1 \in Nat
        BY <1>1, <2>2 DEF TypeOK, MaybeKey, Client
      <4>2. ASSUME NEW x \in Server, NEW y \in MaybeKey, NEW n \in Nat
            PROVE  [client EXCEPT !.phase = "connect", !.server = x, !.key = y,
                                  !.synced = TRUE, !.logins = n] \in Client
        BY <4>1 DEF Client
      <4> QED
        BY <2>1, <3>3, <4>1, <4>2
    <3> QED
      BY <2>3, <3>2, <3>3
  <2>7. wq' \in [Sender -> Seq(Message)]
    <3>1. CharZone(zone) \in Message
      BY <2>1 DEF CharZone, Message
    <3>2. <<CharZone(zone)>> \in Seq(Message)
      BY <3>1
    <3> QED
      BY <1>1, <2>3, <3>2, SendType DEF Sender, TypeOK
  <2>8. SessionsOK'
    BY <1>1, <2>3, <2>4, SameKeeps DEF server
  <2>9. TypeOK'
    BY <1>1, <2>3, <2>4, <2>5, <2>6, <2>7, <2>8 DEF TypeOK, SessionsOK, server
  <2> QED
    BY <2>8, <2>9, SplitNext
<1>5. ASSUME RefuseSelection \/ RowStale \/ ClientGone PROVE IndInv'
  <2>1. UNCHANGED <<pos, wq, mq>> /\ UNCHANGED server
    BY <1>5 DEF RefuseSelection, RowStale, ClientGone
  <2>2. row' \in Row \cup {None}
    BY <1>1, <1>5 DEF RefuseSelection, RowStale, ClientGone, TypeOK, Row
  <2>3. client' \in Client
    <3>1. Idle("off", None) \in Client
      BY <1>2
    <3> QED
      BY <1>1, <1>5, <3>1 DEF RefuseSelection, RowStale, ClientGone, TypeOK
  <2>4. SessionsOK'
    BY <1>1, <2>1, SameKeeps DEF server
  <2>5. TypeOK'
    BY <1>1, <2>1, <2>2, <2>3, <2>4 DEF TypeOK, SessionsOK, server
  <2> QED
    BY <2>4, <2>5, SplitNext
<1> QED
  BY <1>3, <1>4, <1>5 DEF LobbyStep

\* A deployment without sessions satisfies the invariant.
LEMMA InitEstablishes == Init => IndInv
<1> SUFFICES ASSUME Init PROVE IndInv
  OBVIOUS
<1>1. TypeOK
  BY DEF Init, TypeOK, Client, MaybeKey
<1>2. SessionsOK
  BY <1>1 DEF Init, SessionsOK, OneSession, Sessions, TypeOK
<1> QED
  BY <1>1, <1>2, Split

\* Every step of the deployment keeps the invariant.
LEMMA NextKeeps == IndInv /\ [Next]_vars => IndInv'
<1> SUFFICES ASSUME IndInv, [Next]_vars PROVE IndInv'
  OBVIOUS
<1>1. ASSUME NEW s \in Server, NEW p \in Port, SessionStep(s, p) PROVE IndInv'
  <2>1. CASE FirstLogin(s, p)
    BY <2>1, FirstLoginKeeps
  <2>2. CASE AcceptLogin(s, p)
    BY <2>2, AcceptLoginKeeps
  <2>3. CASE RepeatLogin(s, p)
    BY <2>3, RepeatLoginKeeps
  <2>4. CASE \E d \in Zone \cup {None} : GamePacket(s, p, d)
    BY <2>4, GamePacketKeeps
  <2>5. CASE LatePacket(s, p)
    BY <2>5, LatePacketKeeps
  <2>6. CASE Warp(s, p)
    BY <2>6, WarpKeeps
  <2>7. CASE LeaveGame(s, p)
    BY <2>7, LeaveGameKeeps
  <2>8. CASE ZoneTick(s, p)
    BY <2>8, ZoneTickKeeps
  <2>9. CASE \E z \in Zone : SendPlayerToLocation(s, p, z)
    BY <2>9, SendPlayerToLocationKeeps
  <2>10. CASE GhostTick(s, p) \/ ExpireSession(s, p) \/ CleanupSession(s, p)
    BY <2>10, TimeoutsKeep
  <2> QED
    BY <1>1, <2>1, <2>2, <2>3, <2>4, <2>5, <2>6, <2>7, <2>8, <2>9, <2>10 DEF SessionStep
<1>2. ASSUME NEW s \in Server, ServerStep(s) PROVE IndInv'
  <2>1. CASE ExpirePending(s)
    BY <2>1, PendingKeeps
  <2>2. CASE CleanupPending(s)
    BY <2>2, PendingKeeps
  <2>3. CASE HandleAccountLogin(s)
    BY <2>3, HandleAccountLoginKeeps
  <2>4. CASE HandleCharZone(s)
    BY <2>4, HandleCharZoneKeeps
  <2>5. CASE HandleKillSession(s)
    BY <2>5, HandleKillSessionKeeps
  <2>6. CASE Crash(s)
    BY <2>6, CrashKeeps
  <2>7. CASE Start(s)
    BY <2>7, StartKeeps
  <2> QED
    BY <1>2, <2>1, <2>2, <2>3, <2>4, <2>5, <2>6, <2>7 DEF ServerStep
<1>3. ASSUME NEW x \in Sender, WorldRoute(x) PROVE IndInv'
  BY <1>3, WorldRouteKeeps
<1>4. CASE LobbyStep
  BY <1>4, LobbyKeeps
<1>5. CASE UNCHANGED vars
  <2>1. TypeOK /\ SessionsOK
    BY Split DEF IndInv
  <2>2. SessionsOK' /\ TypeOK'
    BY <1>5, <2>1, SameKeeps DEF vars, TypeOK
  <2> QED
    BY <2>2, SplitNext
<1> QED
  BY <1>1, <1>2, <1>3, <1>4, <1>5 DEF Next

-----------------------------------------------------------------------------
\* Every state of every deployment satisfies the inductive invariant.
THEOREM Invariance == Spec => []IndInv
BY InitEstablishes, NextKeeps, PTL DEF Spec

\* The variables keep their types.
THEOREM TypeCorrect == Spec => []TypeOK
<1>1. IndInv => TypeOK
  BY DEF IndInv
<1> QED
  BY <1>1, Invariance, PTL

\* A map server only has the character in a zone it hosts, the one the database names.
THEOREM AtHome == Spec => []BodyAtHome
<1>1. IndInv => BodyAtHome
  BY DEF IndInv
<1> QED
  BY <1>1, Invariance, PTL

\* The character is never in the zones of two sessions, across any interleaving of
\* packets, messages, timeouts, crashes and logins.
THEOREM NeverTwice == Spec => []OneBody
BY OneBodyFollows, Invariance, PTL

-----------------------------------------------------------------------------
\* Where the character is, if anywhere: in the zone of its saved position.
WhereSaved == Where = IF Bodies = {} THEN None ELSE pos.zone

\* The invariant makes it so.
LEMMA WhereFacts == IndInv => WhereSaved
<1> SUFFICES ASSUME IndInv PROVE Where = IF Bodies = {} THEN None ELSE pos.zone
  BY DEF WhereSaved
<1>1. CASE Bodies = {}
  BY <1>1 DEF Where
<1>2. CASE Bodies # {}
  <2>1. PICK sp \in Bodies : sp = CHOOSE x \in Bodies : TRUE
    BY <1>2
  <2>2. BodyOf(sp).zone = pos.zone
    BY DEF IndInv, BodyAtHome
  <2> QED
    BY <1>2, <2>1, <2>2 DEF Where
<1> QED
  BY <1>1, <1>2

\* The saved zone changes only when the character leaves, and then it is in no zone.
LEMMA SavedZoneMoves ==
  ASSUME IndInv, [Next]_vars, pos'.zone # pos.zone
  PROVE  Bodies # {} /\ Bodies' = {}
<1>1. PICK s \in Server, p \in Port : ZoneTick(s, p) /\ pos' # pos
  <2> SUFFICES ASSUME \A s \in Server, p \in Port : ~ZoneTick(s, p) PROVE pos'.zone = pos.zone
    OBVIOUS
  <2>1. ASSUME NEW s \in Server, NEW p \in Port, SessionStep(s, p) PROVE pos' = pos
    BY <2>1, ZenonT(30) DEF SessionStep, FirstLogin, AcceptLogin, RepeatLogin, GamePacket, LatePacket,
         Warp, LeaveGame, GhostTick, SendPlayerToLocation, ExpireSession, CleanupSession
  <2>2. CASE \E s \in Server : ServerStep(s)
    BY <2>2 DEF ServerStep, ExpirePending, CleanupPending, HandleAccountLogin, HandleCharZone,
         HandleKillSession, Handle, Crash, Start
  <2>3. CASE \E x \in Sender : WorldRoute(x)
    BY <2>3 DEF WorldRoute
  <2>4. CASE LobbyStep
    BY <2>4 DEF LobbyStep, Authenticate, SelectCharacter, RefuseSelection, RowStale, ClientGone,
         IndInv, TypeOK
  <2> QED
    BY <2>1, <2>2, <2>3, <2>4 DEF Next, vars
<1> DEFINE b == sess[s][p].body
<1>2. InZone(sess[s][p]) /\ \E z \in Zone, mog \in BOOLEAN : SendToZone(s, p, z, mog)
  <2>1. InZone(sess[s][p]) /\ b \in Body
    BY <1>1 DEF ZoneTick, InZone, IndInv, TypeOK, Session
  <2>2. b.dest # None => b.dest \in Zone
    BY <2>1 DEF Body
  <2> QED
    BY <1>1, <2>1, <2>2, ConstantsAssumption DEF ZoneTick
<1>3. PICK u \in Session : Put(s, p, RemoveFromZone(u)) /\ u.body \in Body
  <2>1. PICK z \in Zone, mog \in BOOLEAN : SendToZone(s, p, z, mog)
    BY <1>2
  <2>2. sess[s][p] \in Session /\ b \in Body
    BY <1>2 DEF InZone, IndInv, TypeOK, Session
  <2> DEFINE c == [b EXCEPT !.dest = z, !.stat = "disappear", !.leaving = TRUE,
                            !.warp = FALSE, !.out = "zone"]
             t == [sess[s][p] EXCEPT !.last = None, !.body = c]
  <2>3. c \in Body
    BY <2>2 DEF Body
  <2>4. t \in Session /\ t.body = c
    BY <2>2, <2>3 DEF Session
  <2>5. Put(s, p, RemoveFromZone(t))
    BY <2>1 DEF SendToZone
  <2> QED
    BY <2>3, <2>4, <2>5
<1>4. ~InZone(RemoveFromZone(u))
  BY <1>3 DEF InZone, RemoveFromZone, ZoneOut, Session, Body
<1>5. <<s, p>> \in Bodies
  BY <1>2 DEF Bodies
<1>6. sess'[s][p] = RemoveFromZone(u)
      /\ \A x \in Server, q \in Port : <<x, q>> # <<s, p>> => sess'[x][q] = sess[x][q]
  BY <1>3 DEF Put, IndInv, TypeOK
<1>7. Bodies' = {}
  <2>1. ASSUME NEW sp \in Bodies' PROVE FALSE
    <3>1. sp \in Server \X Port /\ InZone(sess'[sp[1]][sp[2]])
      BY DEF Bodies, InZone
    <3>2. sp # <<s, p>>
      BY <1>4, <1>6, <3>1
    <3>3. sp \in Bodies
      BY <1>6, <3>1, <3>2 DEF Bodies, InZone
    <3> QED
      BY <1>5, <3>2, <3>3, OneBodyFollows DEF OneBody
  <2> QED
    BY <2>1
<1> QED
  BY <1>5, <1>7

\* The same of the next state.
LEMMA WhereFactsNext == IndInv' => WhereSaved'
BY WhereFacts, PTL

\* The processes of a deployment, however many, implement one presence.
THEOREM Refinement == Spec => PresenceSpec
<1>1. Init => Abstract!Init
  BY DEF Init, Abstract!Init, Where, Bodies, InZone
<1>2. IndInv /\ IndInv' /\ [Next]_vars => [Abstract!Next]_<<Where, pos.zone>>
  <2> SUFFICES ASSUME IndInv, IndInv', [Next]_vars
               PROVE  Abstract!Next \/ UNCHANGED <<Where, pos.zone>>
    OBVIOUS
  <2>1. /\ Where = IF Bodies = {} THEN None ELSE pos.zone
        /\ Where' = IF Bodies' = {} THEN None ELSE pos'.zone
    BY WhereFacts, WhereFactsNext DEF WhereSaved
  <2>2. pos.zone \in Zone /\ pos'.zone \in Zone /\ None \notin Zone
    BY NoneAssumption DEF IndInv, TypeOK
  <2>3. CASE pos'.zone # pos.zone
    BY <2>1, <2>2, <2>3, SavedZoneMoves DEF Abstract!Next, Abstract!Leave
  <2>4. CASE pos'.zone = pos.zone
    BY <2>1, <2>2, <2>4 DEF Abstract!Next, Abstract!Leave, Abstract!Arrive
  <2> QED
    BY <2>3, <2>4
<1> QED
  BY <1>1, <1>2, Invariance, PTL DEF Spec, PresenceSpec, Abstract!Spec

-----------------------------------------------------------------------------
(***************************************************************************)
(* The keys: a client on its way to a map server holds the key that the    *)
(* row hands to its new session, whatever 0x00B packets were lost or       *)
(* repeated.                                                               *)
(*                                                                         *)
(* The argument: only a packet of the client's own key flushes a 0x00B, so *)
(* the row is never more than one zone change ahead of the client; a       *)
(* session remembers the key of its last 0x00B, and one that remembers the *)
(* client's current key is the one that advanced the row, because a client *)
(* that arrives anywhere is already past every key remembered of its login.*)
(***************************************************************************)
\* A character at rest in its zone has no 0x00B on its way.
Restful(t) == t.body # None /\ t.body.stat = "normal" => t.body.out = "none"

\* The key t remembers is of a login that took place, and if it is of the login of
\* client c, it is not ahead of the client, and behind it while the client travels.
\* If the 0x00B under the client's key was sent, row r has the key after it.
RemembersOK(t, c, r) ==
  t.prev # None =>
    /\ t.prev.login <= c.logins
    /\ c.key # None /\ t.prev.login = c.key.login =>
         /\ t.prev.zonings <= c.key.zonings
         /\ c.phase = "connect" => t.prev.zonings < c.key.zonings
    /\ c.phase = "game" /\ r # None /\ t.last # None /\ t.prev = c.key
         => r.key = Advance(c.key)

\* The client's key is of a login that took place, and its row r is level with the
\* client, or one zone change ahead of a client that has yet to hear of it.
ClientOK(c, r) ==
  /\ c.phase \in {"connect", "game"} => c.key # None /\ c.key.login <= c.logins
  /\ c.phase = "connect" /\ r # None => c.key = r.key
  /\ c.phase = "game" /\ r # None => r.key \in {c.key, Advance(c.key)}

RemembersAll ==
  \A s \in Server, p \in Port :
    sess[s][p] # None => Restful(sess[s][p]) /\ RemembersOK(sess[s][p], client, row)

\* The inductive strengthening of ClientKey.
KeyInv == ClientOK(client, row) /\ RemembersAll

-----------------------------------------------------------------------------
(* What most steps do. *)

\* Session u follows from t, if there was one, without a new 0x00B.
Calm(t, u) ==
  u # None => /\ Restful(u)
              /\ u.prev # None => t # None /\ u.prev = t.prev /\ u.last \in {t.last, None}

\* The row goes, or keeps its key.
SameKey == row' # None => row # None /\ row'.key = row.key

\* The client keeps its key, and may arrive or stop; without a key it has no server.
ClientCalm ==
  /\ client'.logins >= client.logins
  /\ \/ client'.key = client.key /\ client'.phase = client.phase
     \/ client'.key = client.key /\ client.phase = "connect" /\ client'.phase = "game"
     \/ client'.key = None /\ client'.phase \in {"off", "lobby"}

\* A key is not its own successor.
LEMMA AdvanceFacts ==
  ASSUME NEW k \in Key
  PROVE  /\ Advance(k) \in Key /\ Advance(k) # k
         /\ Advance(k).login = k.login /\ Advance(k).zonings = k.zonings + 1
BY NoneAssumption DEF Advance, Key

\* Such a step keeps the keys together.
LEMMA CalmKeeps ==
  ASSUME IndInv, TypeOK', KeyInv, SameKey, ClientCalm,
         \A s \in Server, p \in Port : Calm(sess[s][p], sess'[s][p])
  PROVE  KeyInv'
<1> USE NoneAssumption
<1>1. /\ client \in Client /\ client' \in Client
      /\ row \in Row \cup {None} /\ row' \in Row \cup {None}
  BY DEF IndInv, TypeOK
<1>2. /\ client.logins \in Nat /\ client'.logins \in Nat
      /\ client.key \in MaybeKey /\ client'.key \in MaybeKey
  BY <1>1 DEF Client
<1>3. ClientOK(client', row')
  BY <1>1, <1>2 DEF KeyInv, ClientOK, SameKey, ClientCalm, MaybeKey, Key
<1>4. ASSUME NEW s \in Server, NEW p \in Port, sess'[s][p] # None
      PROVE  Restful(sess'[s][p]) /\ RemembersOK(sess'[s][p], client', row')
  <2> DEFINE t == sess[s][p]
             u == sess'[s][p]
  <2>1. Restful(u)
    BY <1>4 DEF Calm
  <2>2. SUFFICES ASSUME u.prev # None
                 PROVE  RemembersOK(u, client', row')
    BY <2>1 DEF RemembersOK
  <2>3. t # None /\ u.prev = t.prev /\ u.last \in {t.last, None}
    BY <1>4, <2>2 DEF Calm
  <2>4. RemembersOK(t, client, row) /\ u.prev \in Key
    <3>1. u \in Session
      BY <1>4 DEF TypeOK
    <3> QED
      BY <2>2, <2>3, <3>1 DEF KeyInv, RemembersAll, Session, MaybeKey
  <2> HIDE DEF t, u
  <2>5. u.prev.login \in Nat /\ u.prev.zonings \in Nat
    BY <2>4 DEF Key
  <2>6. u.prev.login <= client'.logins
    BY <1>2, <2>2, <2>3, <2>4, <2>5 DEF RemembersOK, ClientCalm
  <2>7. ASSUME client'.key # None, u.prev.login = client'.key.login
        PROVE  /\ u.prev.zonings <= client'.key.zonings
               /\ client'.phase = "connect" => u.prev.zonings < client'.key.zonings
    BY <2>2, <2>3, <2>4, <2>7 DEF RemembersOK, ClientCalm
  <2>8. ASSUME client'.phase = "game", row' # None, u.last # None, u.prev = client'.key
        PROVE  row'.key = Advance(client'.key)
    <3>1. client'.key = client.key
      BY <2>8 DEF ClientCalm
    <3>2. client.phase # "connect"
      <4>1. client.phase = "connect" => u.prev.zonings < client.key.zonings
        BY <2>2, <2>3, <2>4, <2>8, <3>1 DEF RemembersOK
      <4> QED
        BY <2>5, <2>8, <3>1, <4>1
    <3>3. client.phase = "game"
      BY <2>8, <3>2 DEF ClientCalm
    <3> QED
      BY <2>2, <2>3, <2>4, <2>8, <3>1, <3>3 DEF RemembersOK, SameKey
  <2> QED
    BY <2>6, <2>7, <2>8 DEF RemembersOK
<1> QED
  BY <1>3, <1>4 DEF KeyInv, RemembersAll

\* When one session is written, the others are untouched.
LEMMA CalmPut ==
  ASSUME IndInv, KeyInv, NEW s \in Server, NEW p \in Port, NEW t,
         Put(s, p, t), Calm(sess[s][p], t)
  PROVE  \A x \in Server, q \in Port : Calm(sess[x][q], sess'[x][q])
<1>1. /\ sess'[s][p] = t
      /\ \A x \in Server, q \in Port : <<x, q>> # <<s, p>> => sess'[x][q] = sess[x][q]
  BY DEF IndInv, TypeOK, Put
<1>2. ASSUME NEW x \in Server, NEW q \in Port PROVE Calm(sess[x][q], sess[x][q])
  BY DEF Calm, KeyInv, RemembersAll
<1> QED
  BY <1>1, <1>2

\* Nor is the session it is not about when a session concludes.
LEMMA CalmConclude ==
  ASSUME IndInv, KeyInv, NEW s \in Server, NEW p \in Port, NEW t, NEW r,
         Conclude(s, p, t, r), Calm(sess[s][p], t),
         r # None => row # None /\ r.key = row.key
  PROVE  SameKey /\ \A x \in Server, q \in Port : Calm(sess[x][q], sess'[x][q])
<1>1. CASE LoggingOut(t)
  <2>1. Put(s, p, None) /\ row' = None
    BY <1>1 DEF Conclude
  <2>2. Calm(sess[s][p], None)
    BY DEF Calm
  <2> QED
    BY <2>1, <2>2, CalmPut DEF SameKey
<1>2. CASE ~LoggingOut(t)
  <2>1. Put(s, p, t) /\ row' = r
    BY <1>2 DEF Conclude
  <2> QED
    BY <2>1, CalmPut DEF SameKey
<1> QED
  BY <1>1, <1>2

\* What the client makes of data that is not a 0x00B.
LEMMA PlainCalm ==
  ASSUME IndInv, NEW t, NEW loggedIn \in BOOLEAN, Receive(t, loggedIn),
         t.body.out = "none", client.phase = "connect" \/ ~loggedIn
  PROVE  ClientCalm
<1>1. client \in Client /\ client.logins \in Nat
  BY DEF IndInv, TypeOK, Client
<1>2. \/ client' = [client EXCEPT !.synced = FALSE]
      \/ client' = [client EXCEPT !.synced = TRUE,
                                  !.phase = IF loggedIn THEN "game" ELSE @]
  BY DEF Receive, Lost
<1>3. /\ client'.logins = client.logins /\ client'.key = client.key
      /\ client'.phase = client.phase \/ (loggedIn /\ client'.phase = "game")
  BY <1>1, <1>2 DEF Client
<1> QED
  BY <1>1, <1>3 DEF ClientCalm

\* The fields of a session and of a body that a step does not write.
LEMMA SameClient == ASSUME IndInv, client' = client PROVE ClientCalm
BY DEF ClientCalm, IndInv, TypeOK, Client

\* A first login remembers no key.
LEMMA FirstLoginCalm ==
  ASSUME IndInv, TypeOK', KeyInv, NEW s \in Server, NEW p \in Port, FirstLogin(s, p)
  PROVE  KeyInv'
<1> DEFINE t == [status |-> "waiting", key |-> row.key, prev |-> None,
                 body |-> LoadChar, shut |-> 0, forced |-> FALSE,
                 decrypted |-> FALSE, expired |-> FALSE, last |-> None]
<1>1. SameKey /\ ClientCalm
  BY SameClient DEF SameKey, FirstLogin
<1>2. sess' = sess \/ Put(s, p, t)
  BY DEF FirstLogin
<1>3. Calm(sess[s][p], t)
  BY DEF Calm, Restful, LoadChar
<1>4. \A x \in Server, q \in Port : Calm(sess[x][q], sess[x][q])
  BY DEF Calm, KeyInv, RemembersAll
<1>5. \A x \in Server, q \in Port : Calm(sess[x][q], sess'[x][q])
  <2> HIDE DEF t
  <2> QED
    BY <1>2, <1>3, <1>4, CalmPut
<1> QED
  BY <1>1, <1>5, CalmKeeps

\* Nor does an accepted one send a 0x00B.
LEMMA AcceptLoginCalm ==
  ASSUME IndInv, TypeOK', KeyInv, NEW s \in Server, NEW p \in Port, AcceptLogin(s, p)
  PROVE  KeyInv'
<1> DEFINE t == sess[s][p]
           reload == t.status = "pending" \/ t.body = None
           b == IF reload THEN LoadChar ELSE t.body
           k == IF reload /\ row # None THEN row.key ELSE t.key
           e == Enter(s, t, b, k)
<1>1. /\ t # None /\ client.phase = "connect"
      /\ row' = IF row # None /\ InZone(e)
                THEN [row EXCEPT !.portZero = FALSE, !.stale = FALSE] ELSE row
      /\ Put(s, p, e)
      /\ Receive(e, InZone(e))
  BY DEF AcceptLogin, Sends
<1>2. SameKey
  BY <1>1 DEF SameKey, IndInv, TypeOK, Row
<1>3. t \in Session /\ b \in Body /\ Restful(t)
  BY <1>1, LoadCharFacts DEF IndInv, TypeOK, Session, KeyInv, RemembersAll
<1>4. b.stat = "normal" => b.out = "none"
  BY <1>3 DEF Restful, LoadChar
<1>5. e.prev = t.prev /\ e.last = None /\ e.body.out = "none" /\ InZone(e) \in BOOLEAN
  <2> HIDE DEF t, b, k
  <2> QED
    BY <1>3 DEF Enter, Session, Body, InZone
<1>6. Calm(t, e)
  <2> HIDE DEF t, e
  <2> QED
    BY <1>1, <1>5 DEF Calm, Restful
<1>7. ClientCalm
  <2> HIDE DEF e
  <2> QED
    BY <1>1, <1>5, PlainCalm
<1>8. \A x \in Server, q \in Port : Calm(sess[x][q], sess'[x][q])
  <2> HIDE DEF e
  <2> QED
    BY <1>1, <1>6, CalmPut
<1> QED
  BY <1>2, <1>7, <1>8, CalmKeeps

\* The row may get one zone change ahead of a client in the game, in which case the
\* session that sent the 0x00B remembers the client's key; the client may follow.
LEMMA AheadKeeps ==
  ASSUME IndInv, TypeOK', KeyInv, client.phase = "game",
         row' # None => row'.key = Advance(client.key),
         client'.logins = client.logins,
         \/ client'.phase = "game" /\ client'.key = client.key
         \/ client'.phase = "connect" /\ client'.key = Advance(client.key)
         \/ client'.phase \in {"off", "lobby"} /\ client'.key = None,
         \A s \in Server, p \in Port :
           \/ Calm(sess[s][p], sess'[s][p])
           \/ Restful(sess'[s][p]) /\ sess'[s][p].prev = client.key
  PROVE  KeyInv'
<1> DEFINE k == client.key
<1> USE NoneAssumption
<1>1. k \in Key /\ client.logins \in Nat /\ k.login <= client.logins
  BY DEF IndInv, TypeOK, Client, KeyInv, ClientOK, MaybeKey
<1>2. /\ k.login \in Nat /\ k.zonings \in Nat
      /\ Advance(k) \in Key /\ Advance(k) # k
      /\ Advance(k).login = k.login /\ Advance(k).zonings = k.zonings + 1
  BY <1>1, AdvanceFacts DEF Key
<1>3. ClientOK(client', row')
  BY <1>1, <1>2 DEF ClientOK
<1>4. ASSUME NEW s \in Server, NEW p \in Port, sess'[s][p] # None
      PROVE  Restful(sess'[s][p]) /\ RemembersOK(sess'[s][p], client', row')
  <2> DEFINE t == sess[s][p]
             u == sess'[s][p]
  <2>1. Restful(u)
    BY <1>4 DEF Calm
  <2>2. SUFFICES ASSUME u.prev # None
                 PROVE  RemembersOK(u, client', row')
    BY <2>1 DEF RemembersOK
  <2>3. u.prev = k \/ (t # None /\ u.prev = t.prev)
    BY <1>4, <2>2 DEF Calm
  <2>4. u.prev = k \/ RemembersOK(t, client, row)
    BY <2>3 DEF KeyInv, RemembersAll
  <2>5. u.prev \in Key
    BY <1>4, <2>2 DEF TypeOK, Session, MaybeKey
  <2> HIDE DEF t, u
  <2>6. u.prev.login \in Nat /\ u.prev.zonings \in Nat
    BY <2>5 DEF Key
  <2>7. /\ u.prev.login <= client.logins
        /\ u.prev.login = k.login => u.prev.zonings <= k.zonings
    BY <1>1, <1>2, <2>2, <2>3, <2>4 DEF RemembersOK
  <2> HIDE DEF k
  <2>8. client'.phase \in {"game", "connect", "off", "lobby"}
    OBVIOUS
  <2>9. CASE client'.phase = "game" /\ client'.key = k
    BY <1>1, <1>2, <2>6, <2>7, <2>9 DEF RemembersOK, k
  <2>10. CASE client'.phase = "connect" /\ client'.key = Advance(k)
    BY <1>1, <1>2, <2>6, <2>7, <2>10 DEF RemembersOK, k
  <2>11. CASE client'.phase \in {"off", "lobby"} /\ client'.key = None
    BY <2>7, <2>11 DEF RemembersOK
  <2> QED
    BY <2>9, <2>10, <2>11 DEF k
<1> QED
  BY <1>3, <1>4 DEF KeyInv, RemembersAll

\* A client in the game that hears of a 0x00B follows it, or leaves.
LEMMA HeardFacts ==
  ASSUME IndInv, NEW target, Receive0x00B(target)
  PROVE  /\ client'.logins = client.logins
         /\ \/ client'.phase = "connect" /\ client'.key = Advance(client.key)
            \/ client'.phase \in {"off", "lobby"} /\ client'.key = None
<1>1. client \in Client
  BY DEF IndInv, TypeOK
<1>2. CASE target = Login
  BY <1>2 DEF Receive0x00B, Idle
<1>3. CASE target # Login
  BY <1>1, <1>3 DEF Receive0x00B, Client
<1> QED
  BY <1>2, <1>3

\* A login packet repeated is answered with what is no 0x00B.
LEMMA RepeatLoginCalm ==
  ASSUME IndInv, TypeOK', KeyInv, NEW s \in Server, NEW p \in Port, RepeatLogin(s, p)
  PROVE  KeyInv'
<1> DEFINE t == sess[s][p]
           refused == t.body.stat = "normal" /\ t.decrypted
           b == IF refused THEN t.body
                ELSE [t.body EXCEPT !.out = "none",
                                    !.stat = IF InZone(t) THEN "normal" ELSE @]
           u == [Tap(t) EXCEPT !.body = b, !.last = None]
<1>1. /\ t # None /\ client.phase = "connect" /\ t.status = "accepted"
      /\ SendParse(s, p, u)
      /\ Receive(u, InZone(u) /\ ~refused)
  BY DEF RepeatLogin, Sends
<1>2. t \in Session /\ t.body \in Body /\ Restful(t)
  <2>1. t \in Session /\ Restful(t)
    BY <1>1 DEF IndInv, TypeOK, KeyInv, RemembersAll
  <2>2. t.body # None
    BY <1>1 DEF IndInv, AcceptedHasBody, Sessions
  <2> QED
    BY <2>1, <2>2 DEF Session
<1>3. b.out = "none"
  BY <1>2, NoneAssumption DEF Restful, Body
<1>4. u.prev = t.prev /\ u.last = None /\ u.body = b
  <2> HIDE DEF b
  <2> QED
    BY <1>2, TapFacts DEF Session, Tap
<1>5. Conclude(s, p, u, row)
  <2> HIDE DEF u, b
  <2> QED
    BY <1>1, <1>3, <1>4 DEF SendParse
<1>6. Calm(t, u)
  <2> HIDE DEF u, b, t
  <2> QED
    BY <1>1, <1>3, <1>4 DEF Calm, Restful
<1>7. (InZone(u) /\ ~refused) \in BOOLEAN
  OBVIOUS
<1>8. ClientCalm
  <2> HIDE DEF u, b, refused
  <2> QED
    BY <1>1, <1>3, <1>4, <1>7, PlainCalm
<1>9. SameKey /\ \A x \in Server, q \in Port : Calm(sess[x][q], sess'[x][q])
  <2> HIDE DEF u
  <2> QED
    BY <1>5, <1>6, CalmConclude
<1> QED
  BY <1>8, <1>9, CalmKeeps

\* A packet of the client's own key: what it is answered with is plain data, the reply
\* before, or the 0x00B that is in the packet list, whose key the client has.
LEMMA GamePacketKeys ==
  ASSUME IndInv, TypeOK', KeyInv, NEW s \in Server, NEW p \in Port,
         NEW dest \in Zone \cup {None}, GamePacket(s, p, dest)
  PROVE  KeyInv'
<1> DEFINE t == sess[s][p]
           tapped == IF t.status = "accepted" THEN Tap(t) ELSE t
           c == Command(t.body, dest)
           u == [tapped EXCEPT !.decrypted = TRUE, !.body = c]
<1>1. /\ t # None /\ t.body # None /\ t.key = client.key /\ client.phase = "game"
      /\ \/ SendParse(s, p, u) /\ Receive(u, FALSE)
         \/ /\ Conclude(s, p, u, row)
            /\ client' \in {client, [client EXCEPT !.synced = TRUE]}
  BY DEF GamePacket, Sends
<1>2. t \in Session /\ t.body \in Body /\ Restful(t)
  BY <1>1 DEF IndInv, TypeOK, KeyInv, RemembersAll, Session
<1>3. c.stat = "normal" => c.out = "none"
  BY <1>1, <1>2 DEF Command, Restful, Body
<1>4. /\ tapped \in Session /\ tapped.prev = t.prev /\ tapped.last = t.last
      /\ tapped.key = t.key
  BY <1>2, TapFacts DEF Tap, Session
<1>5. /\ u.prev = t.prev /\ u.last = t.last /\ u.key = client.key /\ u.body = c
  <2> HIDE DEF c, tapped
  <2> QED
    BY <1>1, <1>4 DEF Session
<1>6. Calm(t, u)
  <2> HIDE DEF c, u, t
  <2> QED
    BY <1>1, <1>3, <1>5 DEF Calm, Restful
<1>7. client.key \in Key
  BY <1>1 DEF IndInv, TypeOK, Client, KeyInv, ClientOK, MaybeKey
<1> HIDE DEF u, c, tapped
<1>8. CASE c.out = "none" /\ SendParse(s, p, u) /\ Receive(u, FALSE)
  <2>1. ClientCalm
    BY <1>5, <1>8, PlainCalm
  <2>2. Conclude(s, p, u, row)
    BY <1>5, <1>8 DEF SendParse
  <2> QED
    BY <1>6, <2>1, <2>2, CalmConclude, CalmKeeps
<1>9. CASE /\ Conclude(s, p, u, row)
           /\ client' \in {client, [client EXCEPT !.synced = TRUE]}
  <2>1. ClientCalm
    <3>1. client \in Client /\ client.logins \in Nat
      BY DEF IndInv, TypeOK, Client
    <3>2. /\ client'.logins = client.logins /\ client'.key = client.key
          /\ client'.phase = client.phase
      BY <1>9, <3>1 DEF Client
    <3> QED
      BY <3>1, <3>2 DEF ClientCalm
  <2> QED
    BY <1>6, <1>9, <2>1, CalmConclude, CalmKeeps
<1>10. CASE c.out # "none" /\ SendParse(s, p, u) /\ Receive(u, FALSE)
  <2>1. Conclude(s, p, Flush(u), FlushedRow(u))
    BY <1>5, <1>10 DEF SendParse
  <2>2. Lost \/ Receive0x00B(Flush(u).last)
    BY <1>5, <1>10 DEF Receive
  <2>3. /\ client'.logins = client.logins
        /\ \/ client'.phase = "game" /\ client'.key = client.key
           \/ client'.phase = "connect" /\ client'.key = Advance(client.key)
           \/ client'.phase \in {"off", "lobby"} /\ client'.key = None
    <3>1. CASE Lost
      BY <1>1, <3>1 DEF Lost, IndInv, TypeOK, Client
    <3> QED
      BY <2>2, <3>1, HeardFacts
  <2>4. row' # None => row'.key = Advance(client.key)
    BY <1>5, <2>1 DEF Conclude, FlushedRow
  <2>5. Restful(Flush(u)) /\ Flush(u).prev = client.key
    <3>1. u \in Session
      <4>1. tapped \in Session /\ c \in Body
        BY <1>2, <1>4 DEF c, Command, Body
      <4> QED
        BY <4>1 DEF u, Session
    <3> QED
      BY <1>5, <3>1 DEF Flush, Session, Restful
  <2>6. \/ Put(s, p, None)
        \/ Put(s, p, Flush(u))
    BY <2>1 DEF Conclude
  <2>7. ASSUME NEW x \in Server, NEW q \in Port
        PROVE  \/ Calm(sess[x][q], sess'[x][q])
               \/ Restful(sess'[x][q]) /\ sess'[x][q].prev = client.key
    <3>1. CASE Put(s, p, None)
      <4>1. Calm(t, None)
        BY DEF Calm
      <4> QED
        BY <3>1, <4>1, CalmPut
    <3>2. CASE Put(s, p, Flush(u))
      <4>1. CASE x = s /\ q = p
        BY <2>5, <3>2, <4>1 DEF Put, IndInv, TypeOK
      <4>2. CASE ~(x = s /\ q = p)
        <5>1. sess'[x][q] = sess[x][q]
          BY <3>2, <4>2 DEF Put, IndInv, TypeOK
        <5> QED
          BY <5>1 DEF Calm, KeyInv, RemembersAll
      <4> QED
        BY <4>1, <4>2
    <3> QED
      BY <2>6, <3>1, <3>2
  <2> QED
    BY <1>1, <2>3, <2>4, <2>7, AheadKeeps
<1> QED
  BY <1>1, <1>8, <1>9, <1>10

\* The 0x00B is sent again to a client whose key the session remembers: the row has
\* been advanced for it already.
LEMMA LatePacketKeys ==
  ASSUME IndInv, TypeOK', KeyInv, NEW s \in Server, NEW p \in Port, LatePacket(s, p)
  PROVE  KeyInv'
<1> DEFINE t == sess[s][p]
           u == [t EXCEPT !.decrypted = @ \/ t.key = client.key]
<1>1. /\ t # None /\ client.phase = "game"
      /\ Conclude(s, p, u, row)
      /\ \/ UNCHANGED client
         \/ t.prev = client.key /\ t.last # None /\ Receive0x00B(t.last)
  BY DEF LatePacket, Sends
<1>2. t \in Session /\ Restful(t) /\ RemembersOK(t, client, row)
  BY <1>1 DEF IndInv, TypeOK, KeyInv, RemembersAll
<1>3. u.prev = t.prev /\ u.last = t.last /\ u.body = t.body
  BY <1>2 DEF Session
<1>4. Calm(t, u)
  <2> HIDE DEF u, t
  <2> QED
    BY <1>1, <1>2, <1>3 DEF Calm, Restful
<1>5. SameKey /\ \A x \in Server, q \in Port : Calm(sess[x][q], sess'[x][q])
  <2> HIDE DEF u
  <2> QED
    BY <1>1, <1>4, CalmConclude
<1> HIDE DEF u
<1>6. CASE UNCHANGED client
  BY <1>5, <1>6, SameClient, CalmKeeps
<1>7. CASE t.prev = client.key /\ t.last # None /\ Receive0x00B(t.last)
  <2>1. client.key # None
    BY <1>1 DEF KeyInv, ClientOK
  <2>2. row' # None => row'.key = Advance(client.key)
    BY <1>1, <1>2, <1>5, <1>7, <2>1 DEF RemembersOK, SameKey
  <2> QED
    BY <1>1, <1>5, <1>7, <2>2, HeardFacts, AheadKeeps
<1> QED
  BY <1>1, <1>6, <1>7

-----------------------------------------------------------------------------
(* The other steps keep every key where it is. *)

\* A server's own step on one session, which stays calm.
LEMMA OwnStepKeys ==
  ASSUME IndInv, TypeOK', KeyInv, NEW s \in Server, NEW p \in Port, NEW u,
         Put(s, p, u), Calm(sess[s][p], u), row' = row \/ row' = None, client' = client
  PROVE  KeyInv'
<1>1. SameKey
  BY DEF SameKey
<1> QED
  BY <1>1, CalmPut, SameClient, CalmKeeps

\* The character of a session changes, and is not at rest with a 0x00B on its way.
LEMMA BodyCalm ==
  ASSUME IndInv, KeyInv, NEW s \in Server, NEW p \in Port, sess[s][p] # None,
         NEW c, c.stat = "normal" => c.out = "none"
  PROVE  Calm(sess[s][p], [sess[s][p] EXCEPT !.body = c])
<1> DEFINE t == sess[s][p]
           u == [t EXCEPT !.body = c]
<1>1. t \in Session
  BY DEF IndInv, TypeOK
<1>2. u.body = c /\ u.prev = t.prev /\ u.last = t.last
  BY <1>1 DEF Session
<1> HIDE DEF u
<1> QED
  BY <1>2 DEF Calm, Restful, u

\* The character leaves its zone.
LEMMA RemoveCalm ==
  ASSUME NEW t \in Session, NEW d \in Session, d.body \in Body,
         d.prev = t.prev, d.last \in {t.last, None}
  PROVE  Calm(t, RemoveFromZone(d))
<1> DEFINE u == RemoveFromZone(d)
           c == [ZoneOut(d.body) EXCEPT !.stat = "disappear"]
<1>1. c.stat = "disappear"
  BY DEF ZoneOut, Body
<1>2. u.body = c /\ u.prev = d.prev /\ u.last = d.last
  <2> HIDE DEF c
  <2> QED
    BY DEF RemoveFromZone, Session, c
<1>3. t # None
  BY NoneAssumption
<1> HIDE DEF u, c
<1> QED
  BY <1>1, <1>2, <1>3 DEF Calm, Restful, u

\* The zone tick sends nothing: the 0x00B it puts in the packet list waits for the
\* client's next packet.
LEMMA ZoneTickKeys ==
  ASSUME IndInv, TypeOK', KeyInv, NEW s \in Server, NEW p \in Port, ZoneTick(s, p)
  PROVE  KeyInv'
<1> DEFINE t == sess[s][p]
           b == t.body
<1>1. InZone(t) /\ row' = row /\ client' = client
  BY DEF ZoneTick, Rest
<1>2. t # None /\ t \in Session /\ b \in Body /\ Restful(t)
  BY <1>1, InZoneFacts DEF InZone, KeyInv, RemembersAll
<1>3. ASSUME NEW c \in Body, Put(s, p, RemoveFromZone([t EXCEPT !.body = c]))
      PROVE  KeyInv'
  <2> DEFINE d == [t EXCEPT !.body = c]
  <2>1. d \in Session /\ d.body = c /\ d.prev = t.prev /\ d.last = t.last
    BY <1>2 DEF Session
  <2> HIDE DEF d
  <2>2. Calm(t, RemoveFromZone(d))
    BY <1>2, <2>1, RemoveCalm
  <2> QED
    BY <1>1, <1>3, <2>2, OwnStepKeys DEF d
<1>4. ASSUME NEW z \in Zone, NEW mog, SendToZone(s, p, z, mog) PROVE KeyInv'
  <2> DEFINE c == [b EXCEPT !.dest = z, !.stat = "disappear", !.leaving = TRUE,
                            !.warp = FALSE, !.out = "zone"]
             d == [t EXCEPT !.last = None, !.body = c]
  <2>1. c \in Body
    BY <1>2 DEF Body
  <2>2. d \in Session /\ d.body = c /\ d.prev = t.prev /\ d.last = None
    <3> HIDE DEF c
    <3> QED
      BY <1>2, <2>1 DEF Session
  <2>3. Put(s, p, RemoveFromZone(d))
    BY <1>4 DEF SendToZone
  <2> HIDE DEF d
  <2>4. Calm(t, RemoveFromZone(d))
    BY <1>2, <2>1, <2>2, RemoveCalm
  <2> QED
    BY <1>1, <2>3, <2>4, OwnStepKeys
<1>5. ASSUME NEW c, c.stat = b.stat, c.out = b.out, Put(s, p, [t EXCEPT !.body = c])
      PROVE  KeyInv'
  <2>1. Calm(t, [t EXCEPT !.body = c])
    BY <1>1, <1>2, <1>5, BodyCalm DEF Restful, InZone
  <2> QED
    BY <1>1, <1>5, <2>1, OwnStepKeys
<1>6. CASE Put(s, p, RemoveFromZone([t EXCEPT !.body = SendDisconnect(b)]))
  BY <1>2, <1>3, <1>6, SendDisconnectFacts
<1>7. CASE Put(s, p, RemoveFromZone([t EXCEPT !.body.leaving = TRUE]))
  <2>1. [b EXCEPT !.leaving = TRUE] \in Body
    BY <1>2 DEF Body
  <2> QED
    BY <1>3, <1>7, <2>1
<1>8. ASSUME b.dest # None, NEW z \in {Home, b.dest}, NEW mog \in BOOLEAN,
             SendToZone(s, p, z, mog)
      PROVE  KeyInv'
  <2>1. z \in Zone
    BY <1>2, <1>8, ConstantsAssumption DEF Body
  <2> QED
    BY <1>4, <1>8, <2>1
<1>9. CASE Put(s, p, [t EXCEPT !.body = [b EXCEPT !.warp = FALSE, !.leaving = TRUE]])
  <2> DEFINE c == [b EXCEPT !.warp = FALSE, !.leaving = TRUE]
  <2>1. c.stat = b.stat /\ c.out = b.out
    BY <1>2 DEF Body
  <2> QED
    BY <1>5, <1>9, <2>1
<1>10. CASE Put(s, p, [t EXCEPT !.body = [b EXCEPT !.leaving = TRUE]])
  <2> DEFINE c == [b EXCEPT !.leaving = TRUE]
  <2>1. c.stat = b.stat /\ c.out = b.out
    BY <1>2 DEF Body
  <2> QED
    BY <1>5, <1>10, <2>1
<1> QED
  BY <1>6, <1>7, <1>8, <1>9, <1>10 DEF ZoneTick

\* What effects, other players and the clean-up do to a session.
LEMMA SessionMarksKeys ==
  ASSUME IndInv, TypeOK', KeyInv, NEW s \in Server, NEW p \in Port,
         \/ Warp(s, p) \/ LeaveGame(s, p) \/ \E z \in Zone : SendPlayerToLocation(s, p, z)
         \/ GhostTick(s, p) \/ ExpireSession(s, p) \/ CleanupSession(s, p)
  PROVE  KeyInv'
<1> DEFINE t == sess[s][p]
<1>1. client' = client /\ (row' = row \/ row' = None)
  BY DEF Warp, LeaveGame, SendPlayerToLocation, GhostTick, ExpireSession, CleanupSession,
         CleanedRow, Rest
<1>2. t # None => t \in Session /\ Restful(t)
  BY DEF IndInv, TypeOK, KeyInv, RemembersAll
<1>3. ASSUME t # None, NEW c, c.stat = "normal" => c.out = "none",
             Put(s, p, [t EXCEPT !.body = c])
      PROVE  KeyInv'
  BY <1>1, <1>3, BodyCalm, OwnStepKeys
<1>4. CASE Warp(s, p)
  <2> DEFINE c == [t.body EXCEPT !.warp = TRUE]
  <2>1. t # None /\ t.body \in Body /\ Put(s, p, [t EXCEPT !.body = c])
    BY <1>4, InZoneFacts DEF Warp, InZone
  <2>2. c.stat = "normal" => c.out = "none"
    BY <1>2, <1>4, <2>1 DEF Body, Restful, Warp, InZone
  <2> QED
    BY <1>3, <2>1, <2>2
<1>5. CASE LeaveGame(s, p)
  <2> DEFINE c == [t.body EXCEPT !.stat = "shutdown"]
  <2>1. t # None /\ t.body \in Body /\ Put(s, p, [t EXCEPT !.body = c])
    BY <1>5, InZoneFacts DEF LeaveGame, InZone
  <2>2. c.stat # "normal"
    BY <2>1 DEF Body
  <2> QED
    BY <1>3, <2>1, <2>2
<1>6. ASSUME NEW z \in Zone, SendPlayerToLocation(s, p, z) PROVE KeyInv'
  <2> DEFINE c == [t.body EXCEPT !.dest = z, !.stat = "disappear", !.leaving = TRUE,
                                 !.out = "none"]
  <2>1. t # None /\ t.body \in Body /\ Put(s, p, [t EXCEPT !.body = c])
    BY <1>6, InZoneFacts DEF SendPlayerToLocation, InZone
  <2>2. c.stat # "normal"
    BY <2>1 DEF Body
  <2> QED
    BY <1>3, <2>1, <2>2
<1>7. ASSUME t # None, NEW u, u.prev = t.prev, u.last = t.last, u.body = t.body, Put(s, p, u)
      PROVE  KeyInv'
  <2>1. Calm(t, u)
    BY <1>2, <1>7 DEF Calm, Restful
  <2> QED
    BY <1>1, <1>7, <2>1, OwnStepKeys
<1>8. CASE GhostTick(s, p)
  <2>1. CASE t = None
    <3>1. \A x \in Server, q \in Port : Calm(sess[x][q], sess'[x][q])
      BY <1>8, <2>1 DEF GhostTick, Calm, KeyInv, RemembersAll
    <3> QED
      BY <1>1, <3>1, SameClient, CalmKeeps DEF SameKey
  <2>2. CASE t # None
    <3> DEFINE u == [t EXCEPT !.status = "pending", !.shut = 1]
    <3>1. Put(s, p, u)
      BY <1>8, <2>2 DEF GhostTick
    <3>2. u.prev = t.prev /\ u.last = t.last /\ u.body = t.body
      BY <1>2, <2>2 DEF Session
    <3> QED
      BY <1>7, <2>2, <3>1, <3>2
  <2> QED
    BY <2>1, <2>2
<1>9. CASE ExpireSession(s, p)
  <2> DEFINE u == [t EXCEPT !.expired = TRUE]
  <2>1. t # None /\ Put(s, p, u)
    BY <1>9 DEF ExpireSession
  <2>2. u.prev = t.prev /\ u.last = t.last /\ u.body = t.body
    BY <1>2, <2>1 DEF Session
  <2> QED
    BY <1>7, <2>1, <2>2
<1>10. CASE CleanupSession(s, p)
  <2>1. Put(s, p, None) /\ Calm(t, None)
    BY <1>10 DEF CleanupSession, Calm
  <2> QED
    BY <1>1, <2>1, OwnStepKeys
<1> QED
  BY <1>4, <1>5, <1>6, <1>8, <1>9, <1>10

\* No session is written.
LEMMA StillKeys ==
  ASSUME IndInv, TypeOK', KeyInv, sess' = sess, row' = row \/ row' = None, ClientCalm
  PROVE  KeyInv'
<1>1. SameKey
  BY DEF SameKey
<1>2. \A x \in Server, q \in Port : Calm(sess[x][q], sess'[x][q])
  BY DEF Calm, KeyInv, RemembersAll
<1> QED
  BY <1>1, <1>2, CalmKeeps

\* Messages, timeouts and crashes take keys away and hand none out.
LEMMA ServerStepKeys ==
  ASSUME IndInv, TypeOK', KeyInv, NEW s \in Server, ServerStep(s)
  PROVE  KeyInv'
<1>1. client' = client
  BY DEF ServerStep, ExpirePending, CleanupPending, HandleAccountLogin, HandleCharZone,
         HandleKillSession, Handle, Crash, Start, Rest
<1>2. ClientCalm
  BY <1>1, SameClient
<1>3. ASSUME NEW p \in Sessions(s)
      PROVE  /\ p \in Port /\ sess[s][p] # None /\ sess[s][p] \in Session
             /\ Restful(sess[s][p])
  BY DEF IndInv, TypeOK, Sessions, KeyInv, RemembersAll
<1>4. CASE ExpirePending(s) \/ CleanupPending(s) \/ Start(s)
  BY <1>2, <1>4, StillKeys DEF ExpirePending, CleanupPending, Start, Rest
<1>5. CASE HandleAccountLogin(s)
  <2>1. row' = row
    BY <1>5 DEF HandleAccountLogin
  <2>2. CASE sess' = sess
    BY <1>2, <2>1, <2>2, StillKeys
  <2>3. ASSUME NEW p \in Sessions(s),
               Put(s, p, [sess[s][p] EXCEPT !.forced = TRUE, !.key = None, !.prev = None])
        PROVE  KeyInv'
    <3> DEFINE u == [sess[s][p] EXCEPT !.forced = TRUE, !.key = None, !.prev = None]
    <3>1. u.prev = None /\ u.body = sess[s][p].body
      BY <1>3 DEF Session
    <3>2. Calm(sess[s][p], u)
      <4> HIDE DEF u
      <4> QED
        BY <1>3, <3>1 DEF Calm, Restful
    <3> QED
      BY <1>1, <1>3, <2>1, <2>3, <3>2, OwnStepKeys
  <2> QED
    BY <1>5, <2>2, <2>3 DEF HandleAccountLogin
<1>6. CASE HandleCharZone(s)
  <2>1. row' = row
    BY <1>6 DEF HandleCharZone
  <2>2. CASE sess' = sess
    BY <1>2, <2>1, <2>2, StillKeys
  <2>3. ASSUME NEW p \in Sessions(s), Put(s, p, Tap(sess[s][p]))
        PROVE  KeyInv'
    <3> DEFINE t == sess[s][p]
    <3>1. Tap(t).prev = t.prev /\ Tap(t).last = t.last /\ Tap(t).body = t.body
      BY <1>3 DEF Tap, Session
    <3>2. Calm(t, Tap(t))
      BY <1>3, <3>1 DEF Calm, Restful
    <3> QED
      BY <1>1, <1>3, <2>1, <2>3, <3>2, OwnStepKeys
  <2> QED
    BY <1>6, <2>2, <2>3 DEF HandleCharZone
<1>7. CASE HandleKillSession(s)
  <2>1. CASE UNCHANGED <<row, sess>>
    BY <1>2, <2>1, StillKeys
  <2>2. ASSUME NEW p \in Sessions(s), Put(s, p, None), row' = None \/ row' = row
        PROVE  KeyInv'
    <3>1. Calm(sess[s][p], None)
      BY DEF Calm
    <3> QED
      BY <1>1, <1>3, <2>2, <3>1, OwnStepKeys
  <2>3. ASSUME NEW p \in Sessions(s), sess[s][p].body # None,
               Put(s, p, [sess[s][p] EXCEPT !.body = SendDisconnect(@)]), row' = row
        PROVE  KeyInv'
    <3>1. sess[s][p].body \in Body
      BY <1>3, <2>3 DEF Session
    <3>2. SendDisconnect(sess[s][p].body).stat # "normal"
      BY <3>1, SendDisconnectFacts
    <3> QED
      BY <1>1, <1>3, <2>3, <3>2, BodyCalm, OwnStepKeys
  <2> QED
    BY <1>7, <2>1, <2>2, <2>3 DEF HandleKillSession
<1>8. CASE Crash(s)
  <2>1. \A x \in Server, q \in Port : sess'[x][q] = None \/ sess'[x][q] = sess[x][q]
    BY <1>8 DEF Crash, IndInv, TypeOK
  <2>2. \A x \in Server, q \in Port : Calm(sess[x][q], sess'[x][q])
    BY <2>1 DEF Calm, KeyInv, RemembersAll
  <2>3. SameKey
    BY <1>8 DEF Crash, SameKey
  <2> QED
    BY <1>2, <2>2, <2>3, CalmKeeps
<1> QED
  BY <1>4, <1>5, <1>6, <1>7, <1>8 DEF ServerStep

\* A selected character gets a key of a login that no session remembers.
LEMMA SelectKeys ==
  ASSUME IndInv, TypeOK', KeyInv, NEW v \in BOOLEAN, SelectCharacter(v)
  PROVE  KeyInv'
<1> DEFINE k == [login |-> client.logins + 1, zonings |-> 0]
<1>1. /\ sess' = sess /\ row'.key = k
      /\ client' \in {[client EXCEPT !.phase = "connect", !.server = ServerOf[LobbyZone],
                                     !.key = k, !.synced = TRUE, !.logins = @ + 1],
                      [Idle("off", None) EXCEPT !.logins = @ + 1]}
  BY DEF SelectCharacter, server
<1>2. client \in Client /\ client.logins \in Nat /\ client'.logins = client.logins + 1
  BY <1>1 DEF IndInv, TypeOK, Client, Idle
<1>3. \/ client'.phase = "connect" /\ client'.key = k
      \/ client'.phase = "off" /\ client'.key = None
  BY <1>1, <1>2 DEF Client, Idle
<1>4. k \in Key /\ k # None /\ k.login = client.logins + 1
  BY <1>2, NoneAssumption DEF Key
<1> HIDE DEF k
<1>5. ClientOK(client', row')
  BY <1>1, <1>2, <1>3, <1>4 DEF ClientOK
<1>6. ASSUME NEW s \in Server, NEW p \in Port, sess[s][p] # None
      PROVE  Restful(sess[s][p]) /\ RemembersOK(sess[s][p], client', row')
  <2> DEFINE t == sess[s][p]
  <2>1. Restful(t) /\ RemembersOK(t, client, row) /\ t \in Session
    BY <1>6 DEF KeyInv, RemembersAll, IndInv, TypeOK
  <2>2. t.prev # None => t.prev.login \in Nat /\ t.prev.login <= client.logins
    BY <2>1 DEF Session, MaybeKey, Key, RemembersOK
  <2> HIDE DEF t
  <2> QED
    BY <1>2, <1>3, <1>4, <2>1, <2>2 DEF RemembersOK, t
<1> QED
  BY <1>1, <1>5, <1>6 DEF KeyInv, RemembersAll

\* The other steps of the lobby take the client's key away, or leave it alone.
LEMMA LobbyKeys ==
  ASSUME IndInv, TypeOK', KeyInv, LobbyStep
  PROVE  KeyInv'
<1>1. client \in Client /\ client.logins \in Nat
  BY DEF IndInv, TypeOK, Client
<1>2. ASSUME NEW p \in Port, Authenticate(p) PROVE KeyInv'
  <2>1. client'.logins = client.logins + 1 /\ client'.key = None /\ client'.phase = "lobby"
    BY <1>2 DEF Authenticate, Idle
  <2>2. ClientCalm
    BY <1>1, <2>1 DEF ClientCalm
  <2> QED
    BY <1>2, <2>2, StillKeys DEF Authenticate, server
<1>3. CASE RefuseSelection
  BY <1>3, SameClient, StillKeys DEF RefuseSelection, server
<1>4. CASE ClientGone
  <2>1. client'.logins = client.logins /\ client'.key = None /\ client'.phase = "off"
    BY <1>4 DEF ClientGone, Idle
  <2>2. ClientCalm
    BY <1>1, <2>1 DEF ClientCalm
  <2> QED
    BY <1>4, <2>2, StillKeys DEF ClientGone, server
<1>5. CASE RowStale
  <2>1. SameKey
    BY <1>5 DEF RowStale, SameKey, IndInv, TypeOK, Row
  <2>2. \A x \in Server, q \in Port : Calm(sess[x][q], sess'[x][q])
    BY <1>5 DEF RowStale, server, Calm, KeyInv, RemembersAll
  <2> QED
    BY <1>5, <2>1, <2>2, SameClient, CalmKeeps DEF RowStale
<1> QED
  BY <1>2, <1>3, <1>4, <1>5, SelectKeys DEF LobbyStep

\* Every step keeps the keys together.
LEMMA NextKeys == IndInv /\ IndInv' /\ KeyInv /\ [Next]_vars => KeyInv'
<1> SUFFICES ASSUME IndInv, TypeOK', KeyInv, [Next]_vars PROVE KeyInv'
  BY DEF IndInv
<1>1. ASSUME NEW s \in Server, NEW p \in Port, SessionStep(s, p) PROVE KeyInv'
  BY <1>1, FirstLoginCalm, AcceptLoginCalm, RepeatLoginCalm, GamePacketKeys,
     LatePacketKeys, ZoneTickKeys, SessionMarksKeys DEF SessionStep
<1>2. ASSUME NEW s \in Server, ServerStep(s) PROVE KeyInv'
  BY <1>2, ServerStepKeys
<1>3. ASSUME NEW x \in Sender, WorldRoute(x) PROVE KeyInv'
  BY <1>3, SameClient, StillKeys DEF WorldRoute
<1>4. CASE UNCHANGED vars
  BY <1>4, SameClient, StillKeys DEF vars
<1> QED
  BY <1>1, <1>2, <1>3, <1>4, LobbyKeys DEF Next

-----------------------------------------------------------------------------
\* A client on its way to a server holds the key that the row hands to the new session
\* there, whatever was lost or sent again.
THEOREM KeysTogether == Spec => []ClientKey
<1>1. Init => KeyInv
  BY DEF Init, KeyInv, ClientOK, RemembersAll
<1>2. IndInv /\ KeyInv => ClientKey
  BY DEF KeyInv, ClientOK, ClientKey
<1> QED
  BY <1>1, <1>2, NextKeys, Invariance, PTL DEF Spec
=============================================================================
