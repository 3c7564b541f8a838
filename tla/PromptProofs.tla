---------------------------- MODULE PromptProofs ----------------------------
(***************************************************************************)
(* For any deployment whose messages are faster than its players, and in   *)
(* which no zone is ever full: while a character is in a zone its row      *)
(* names the server it is on, no row is left behind, and nothing but a     *)
(* time-out or a crash takes the session of a character in a zone away.    *)
(*                                                                         *)
(* The argument: the row belongs to a server from the moment the character *)
(* enters a zone there (portZero falls) until the 0x00B that sends it away *)
(* is flushed, and while it does there is no news: nothing pending, and no *)
(* CharZone or KillSession on its way.  While it belongs to nobody, the    *)
(* row, what is pending and what is on its way all name the server of the  *)
(* saved zone, and so does the client when it asks there to come in.       *)
(***************************************************************************)
EXTENDS ZoneTransferProofs

\* Row r names server s.
Named(r, s) == r # None /\ r.server = s

\* Row r belongs to server s: its character has entered a zone there.
Owner(r, s) == Named(r, s) /\ ~r.portZero

\* A session with a character that has entered, or was refused by, a zone.
Live(t) ==
  t # None /\ (t.status = "accepted" \/ (t.status = "pending" /\ t.body # None))

Mail(q) == {q[i] : i \in 1..Len(q)}

\* The messages that can make or end a session.
News ==
  LET all == UNION ({Mail(wq[x]) : x \in Sender} \cup {Mail(mq[s]) : s \in Server})
  IN  {m \in all : m.type \in {"CharZone", "KillSession"}}

NoNews == News = {} /\ \A s \in Server : pend[s] = "none"

\* What the invariant says of one session t at server s while r is the row and z the
\* saved zone.
SessionFits(s, t, r, z) ==
  /\ Live(t) => Owner(r, s)
  /\ t.status = "waiting" =>
       Named(r, s) /\ ServerOf[z] = s /\ t.body.dest = z /\ ~t.body.leaving
  /\ t.status # "pending" => t.shut = 0 /\ t.body.out = "none"
  /\ t.shut = 1 => t.body # None
  /\ InZone(t) => t.status = "accepted"
  /\ t.body # None =>
       /\ t.last = None
       /\ t.body.out = "zone" => t.body.dest = z /\ t.shut = 2
       /\ t.body.out = "logout" => t.shut = 1
  /\ InZone(t) /\ t.body.leaving => t.body.dest # Unknown

SessionsFit ==
  \A s \in Server, p \in Port :
    sess[s][p] # None => SessionFits(s, sess[s][p], row, pos.zone)

\* What is pending or on its way is at the server of the saved zone, or bound for it.
NewsFits ==
  /\ \A s \in Server : pend[s] # "none" => s = ServerOf[pos.zone]
  /\ \A x \in Sender : \A m \in Mail(wq[x]) : m.type = "CharZone" => m.zone = pos.zone
  /\ \A s \in Server : \A m \in Mail(mq[s]) : m.type = "CharZone" => s = ServerOf[pos.zone]

\* A row that belongs to nobody names the server of the saved zone. While it belongs to
\* a server, that one has a live session or has crashed, and the client is nowhere else.
RowFits ==
  row # None =>
    /\ row.portZero => row.server = ServerOf[pos.zone]
    /\ ~row.portZero => /\ NoNews
                        /\ client.server \in {row.server, None}
                        /\ row.server \in up => \E p \in Port : Live(sess[row.server][p])
    /\ Reclaimable => /\ NoNews
                      /\ \A s \in Server, p \in Port :
                           sess[s][p] # None => sess[s][p].status # "waiting"

\* A client that asks to come in where there is a session has the row on its side, and
\* so will one that has yet to hear where it was sent.
ClientFits ==
  \A s \in Server : client.server = s =>
    /\ client.phase = "connect" /\ Sessions(s) # {} => Named(row, s)
    /\ client.phase = "game" =>
         \A p \in Port, y \in Server :
           /\ client.port = p /\ sess[s][p] # None /\ sess[s][p].last = y
           /\ Sessions(y) # {}
           => Named(row, y)

DownFits ==
  \A s \in Server \ up : Sessions(s) = {} /\ pend[s] = "none" /\ mq[s] = << >>

\* The inductive strengthening of RowFence, RowOwned, MembersAlive and LeavesFirst.
PromptInv ==
  /\ SessionsFit /\ NewsFits /\ RowFits /\ ClientFits /\ DownFits
  /\ MembersAlive /\ pos.zone # Unknown

\* Messages are prompt and zones have room; the home point is a place.
Prompt == PromptIPC /\ ~CapEnabled /\ Home # Unknown

-----------------------------------------------------------------------------
(* Mail. *)

\* What is left of the mail when the first is taken.
LEMMA MailTail ==
  ASSUME NEW S, NEW q \in Seq(S), q # << >>
  PROVE  /\ Mail(Tail(q)) \subseteq Mail(q) /\ Head(q) \in Mail(q)
<1>1. /\ Len(q) \in Nat /\ Len(q) > 0 /\ Tail(q) \in Seq(S)
      /\ Len(Tail(q)) = Len(q) - 1
      /\ \A i \in 1..(Len(q) - 1) : Tail(q)[i] = q[i + 1]
  OBVIOUS
<1>2. \A i \in 1..(Len(q) - 1) : i + 1 \in 1..Len(q)
  BY <1>1
<1>3. Mail(Tail(q)) \subseteq Mail(q)
  BY <1>1, <1>2 DEF Mail
<1>4. Head(q) = q[1] /\ 1 \in 1..Len(q)
  BY <1>1
<1> QED
  BY <1>3, <1>4 DEF Mail

\* Mail that is added to.
LEMMA MailAppend ==
  ASSUME NEW S, NEW q \in Seq(S), NEW m \in S
  PROVE  /\ Mail(Append(q, m)) \subseteq Mail(q) \cup {m}
         /\ Mail(q \o <<m>>) \subseteq Mail(q) \cup {m}
         /\ q \o << >> = q
<1>1. /\ Len(Append(q, m)) = Len(q) + 1
      /\ \A i \in 1..(Len(q) + 1) :
           Append(q, m)[i] = IF i = Len(q) + 1 THEN m ELSE q[i]
  OBVIOUS
<1>2. \A i \in 1..(Len(q) + 1) : i # Len(q) + 1 => i \in 1..Len(q)
  OBVIOUS
<1>3. Mail(Append(q, m)) \subseteq Mail(q) \cup {m}
  BY <1>1, <1>2 DEF Mail
<1>4. q \o <<m>> = Append(q, m) /\ q \o << >> = q
  OBVIOUS
<1> QED
  BY <1>3, <1>4

\* No mail, no news.
LEMMA MailEmpty == Mail(<< >>) = {}
BY DEF Mail

\* What is news.
LEMMA NewsFacts ==
  \A m : m \in News <=> /\ m.type \in {"CharZone", "KillSession"}
                        /\ \/ \E x \in Sender : m \in Mail(wq[x])
                           \/ \E s \in Server : m \in Mail(mq[s])
BY DEF News

\* The same of the next state.
LEMMA NewsFactsNext ==
  \A m : m \in News' <=> /\ m.type \in {"CharZone", "KillSession"}
                         /\ \/ \E x \in Sender : m \in Mail(wq'[x])
                            \/ \E s \in Server : m \in Mail(mq'[s])
BY DEF News

\* When no queue gets anything that is news, there is no more news than before.
LEMMA NewsShrinks ==
  ASSUME \A x \in Sender : \A m \in Mail(wq'[x]) : m \in Mail(wq[x]) \/ m.type = "AccountLogin",
         \A s \in Server : \A m \in Mail(mq'[s]) :
           \/ m \in Mail(mq[s]) \/ m.type = "AccountLogin"
           \/ \E x \in Sender : m \in Mail(wq[x])
  PROVE  News' \subseteq News
BY NewsFacts, NewsFactsNext

\* When the messages are drained there is none.
LEMMA DrainedNews == ASSUME Drained PROVE News = {}
BY NewsFacts, MailEmpty DEF Drained

\* What the proved invariant says of the sessions of one server.
LEMMA HereFacts ==
  ASSUME IndInv
  PROVE  /\ \A s \in Server, p \in Port : sess[s][p] # None =>
              /\ sess[s][p] \in Session /\ SessionOK(s, sess[s][p], pos.zone)
              /\ pend[s] = "none"
              /\ \A q \in Port : sess[s][q] # None => p = q
         /\ \A s \in Server : Sessions(s) # {} <=> \E p \in Port : sess[s][p] # None
<1>1. TypeOK /\ SessionsOK
  BY Split DEF IndInv
<1> QED
  BY <1>1 DEF SessionsOK, OneSession, Sessions, TypeOK

\* The same of the next state.
LEMMA HereFactsNext ==
  ASSUME IndInv'
  PROVE  /\ \A s \in Server, p \in Port : sess'[s][p] # None =>
              /\ sess'[s][p] \in Session /\ SessionOK(s, sess'[s][p], pos'.zone)
              /\ pend'[s] = "none"
              /\ \A q \in Port : sess'[s][q] # None => p = q
         /\ \A s \in Server : Sessions(s)' # {} <=> \E p \in Port : sess'[s][p] # None
<1>1. TypeOK' /\ SessionsOK'
  BY SplitNext DEF IndInv
<1> QED
  BY <1>1 DEF SessionsOK, OneSession, Sessions, TypeOK

\* A session that is put somewhere is there, and the others are untouched.
LEMMA PutFacts ==
  ASSUME IndInv, NEW s \in Server, NEW p \in Port, NEW u, Put(s, p, u)
  PROVE  /\ sess'[s][p] = u
         /\ \A x \in Server, q \in Port : x # s \/ q # p => sess'[x][q] = sess[x][q]
BY DEF IndInv, TypeOK, Put

\* A live session and one that waits both have the row of their server.
LEMMA RowOfSession ==
  ASSUME IndInv, PromptInv, NEW s \in Server, NEW p \in Port, sess[s][p] # None
  PROVE  \/ Live(sess[s][p]) /\ Owner(row, s)
         \/ sess[s][p].status = "waiting" /\ Named(row, s)
         \/ sess[s][p].status = "pending" /\ sess[s][p].body = None /\ sess[s][p].shut # 1
<1>1. sess[s][p] \in Session /\ SessionFits(s, sess[s][p], row, pos.zone)
  BY HereFacts DEF PromptInv, SessionsFit
<1> QED
  BY <1>1 DEF SessionFits, Live, Session

-----------------------------------------------------------------------------
(* What most steps do. *)

\* Nothing becomes pending, and no queue gets a message that is news.
LessNews ==
  /\ \A s \in Server : pend'[s] # "none" => pend[s] # "none"
  /\ \A x \in Sender : Mail(wq'[x]) \subseteq Mail(wq[x]) \cup {AccountLogin}
  /\ \A s \in Server : /\ Mail(mq'[s]) \subseteq Mail(mq[s])
                       /\ mq[s] = << >> => mq'[s] = << >>

\* The client is where it was, whatever it has heard.
SameSpot ==
  /\ client'.phase = client.phase /\ client'.server = client.server
  /\ client'.port = client.port

\* Then what there is of news is still in place.
LEMMA LessNewsKeeps ==
  ASSUME PromptInv, LessNews, pos'.zone = pos.zone
  PROVE  NewsFits' /\ News' \subseteq News /\ (NoNews => NoNews')
<1>1. News' \subseteq News
  <2>1. /\ \A x \in Sender : \A m \in Mail(wq'[x]) : m \in Mail(wq[x]) \/ m.type = "AccountLogin"
        /\ \A s \in Server : \A m \in Mail(mq'[s]) : m \in Mail(mq[s])
    BY DEF LessNews, AccountLogin
  <2> QED
    BY <2>1, NewsShrinks
<1>2. NewsFits'
  BY DEF PromptInv, NewsFits, LessNews, AccountLogin
<1>3. NoNews => NoNews'
  BY <1>1 DEF NoNews, LessNews
<1> QED
  BY <1>1, <1>2, <1>3

\* Nothing of the kind happens when the queues and what is pending stay the same.
LEMMA SameNews ==
  ASSUME pend' = pend, wq' = wq, mq' = mq
  PROVE  LessNews
BY DEF LessNews

\* The client stays, leaves, is let in under session u, or follows a 0x00B.
ClientMoves(s, p, u) ==
  \/ SameSpot
  \/ client'.server = None
  \/ /\ client.server = s /\ client'.server = s /\ client'.port = p
     /\ client'.phase = "game" /\ u.last = None
  \/ /\ client'.phase = "connect" /\ (row # None => row.portZero)
     /\ Sessions(client'.server) # {} => Named(row, client'.server)

\* A session written in place keeps the invariant if it fits, is no less live, waits only
\* if it did, and remembers no new reply.
LEMMA InPlace ==
  ASSUME IndInv, IndInv', PromptInv, NEW s \in Server, NEW p \in Port, NEW u \in Session,
         sess[s][p] # None, Put(s, p, u),
         SessionFits(s, u, row, pos.zone),
         Live(sess[s][p]) => Live(u),
         u.status = "waiting" => sess[s][p].status = "waiting",
         u.last \in {sess[s][p].last, None},
         row' = row, pos'.zone = pos.zone, up' = up, ghost' = ghost, LessNews,
         ClientMoves(s, p, u)
  PROVE  PromptInv'
<1>0. /\ sess'[s][p] = u
      /\ \A x \in Server, q \in Port : x # s \/ q # p => sess'[x][q] = sess[x][q]
  BY PutFacts
<1>00. u # None
  BY NoneAssumption
<1>1. SessionsFit'
  BY <1>0 DEF PromptInv, SessionsFit
<1>2. NewsFits' /\ (NoNews => NoNews')
  BY LessNewsKeeps
<1>3. RowFits'
  <2> SUFFICES ASSUME row # None
               PROVE  /\ row.portZero => row.server = ServerOf[pos.zone]
                      /\ ~row.portZero =>
                           /\ NoNews'
                           /\ client'.server \in {row.server, None}
                           /\ row.server \in up => \E q \in Port : Live(sess'[row.server][q])
                      /\ Reclaimable =>
                           /\ NoNews'
                           /\ \A x \in Server, q \in Port :
                                sess'[x][q] # None => sess'[x][q].status # "waiting"
    BY DEF RowFits, Reclaimable
  <2>1. row.portZero => row.server = ServerOf[pos.zone]
    BY DEF PromptInv, RowFits
  <2>2. ASSUME ~row.portZero
        PROVE  /\ NoNews'
               /\ client'.server \in {row.server, None}
               /\ row.server \in up => \E q \in Port : Live(sess'[row.server][q])
    <3>1. /\ NoNews /\ client.server \in {row.server, None}
          /\ row.server \in up => \E q \in Port : Live(sess[row.server][q])
      BY <2>2 DEF PromptInv, RowFits
    <3>2. row.server \in Server
      BY DEF IndInv, TypeOK, Row
    <3>3. \A q \in Port : Live(sess[row.server][q]) => Live(sess'[row.server][q])
      BY <1>0, <3>2
    <3> QED
      BY <1>2, <2>2, <3>1, <3>3 DEF ClientMoves, SameSpot
  <2>3. ASSUME Reclaimable
        PROVE  /\ NoNews'
               /\ \A x \in Server, q \in Port :
                    sess'[x][q] # None => sess'[x][q].status # "waiting"
    BY <1>0, <1>2, <2>3 DEF PromptInv, RowFits
  <2> QED
    BY <2>1, <2>2, <2>3
<1>4. \A x \in Server : Sessions(x)' = Sessions(x)
  BY <1>0, <1>00 DEF Sessions
<1>5. ClientFits'
  <2> SUFFICES ASSUME NEW x \in Server, client'.server = x
               PROVE  /\ client'.phase = "connect" /\ Sessions(x) # {} => Named(row, x)
                      /\ client'.phase = "game" =>
                           \A q \in Port, y \in Server :
                             /\ client'.port = q /\ sess'[x][q] # None /\ sess'[x][q].last = y
                             /\ Sessions(y) # {}
                             => Named(row, y)
    BY <1>4 DEF ClientFits
  <2>1. CASE SameSpot
    BY <1>0, <2>1, NoneAssumption DEF PromptInv, ClientFits, SameSpot
  <2>2. CASE ~SameSpot
    BY <1>0, <2>2, NoneAssumption DEF ClientMoves
  <2> QED
    BY <2>1, <2>2
<1>6. DownFits'
  BY <1>4 DEF PromptInv, DownFits, LessNews
<1> QED
  BY <1>1, <1>2, <1>3, <1>5, <1>6 DEF PromptInv, MembersAlive

\* No session is written and the row stays as it is.
LEMMA SameSessions ==
  ASSUME IndInv, PromptInv, sess' = sess, row' = row, pos'.zone = pos.zone, up \subseteq up',
         row # None /\ row.server \in up' => row.server \in up,
         ghost' = ghost, LessNews, SameSpot \/ client'.server = None
  PROVE  PromptInv'
<1>1. NewsFits' /\ (NoNews => NoNews')
  BY LessNewsKeeps
<1>2. SessionsFit'
  BY DEF PromptInv, SessionsFit
<1>3. RowFits'
  BY <1>1 DEF PromptInv, RowFits, Reclaimable, SameSpot
<1>4. ClientFits'
  BY NoneAssumption DEF PromptInv, ClientFits, SameSpot, Sessions
<1>5. DownFits'
  BY DEF PromptInv, DownFits, LessNews, Sessions
<1> QED
  BY <1>1, <1>2, <1>3, <1>4, <1>5 DEF PromptInv, MembersAlive

\* No session is written and the row goes: no session may need it, nor the client.
LEMMA RowGoes ==
  ASSUME IndInv, PromptInv, sess' = sess, row' = None, pos'.zone = pos.zone,
         up \subseteq up', ghost' = ghost, LessNews, SameSpot,
         \/ \A s \in Server : Sessions(s) # {} => ~Named(row, s)
         \/ /\ client.phase \notin {"connect", "game"}
            /\ \A s \in Server, p \in Port : sess[s][p] # None =>
                 ~Live(sess[s][p]) /\ sess[s][p].status # "waiting"
  PROVE  PromptInv'
<1>1. NewsFits'
  BY LessNewsKeeps
<1>2. SessionsFit'
  <2> SUFFICES ASSUME NEW s \in Server, NEW p \in Port, sess[s][p] # None
               PROVE  SessionFits(s, sess[s][p], None, pos.zone)
    BY DEF SessionsFit
  <2>1. SessionFits(s, sess[s][p], row, pos.zone)
    BY DEF PromptInv, SessionsFit
  <2>2. ~Live(sess[s][p]) /\ sess[s][p].status # "waiting"
    <3>1. ~Named(row, s) => ~Live(sess[s][p]) /\ sess[s][p].status # "waiting"
      BY <2>1 DEF SessionFits, Owner
    <3> QED
      BY <3>1, HereFacts
  <2> QED
    BY <2>1, <2>2 DEF SessionFits
<1>3. RowFits'
  BY DEF RowFits
<1>4. ClientFits'
  BY DEF PromptInv, ClientFits, SameSpot, Sessions
<1>5. DownFits'
  BY DEF PromptInv, DownFits, LessNews, Sessions
<1> QED
  BY <1>1, <1>2, <1>3, <1>4, <1>5 DEF PromptInv, MembersAlive

\* A session goes, and the row with it if it names its server; or the row belongs to
\* somebody else.
LEMMA SessionGoes ==
  ASSUME IndInv, IndInv', PromptInv, NEW s \in Server, NEW p \in Port, sess[s][p] # None,
         Put(s, p, None),
         \/ row' = None /\ (row # None => row.server = s)
         \/ row' = row /\ ~Owner(row, s),
         pos'.zone = pos.zone, up' = up, ghost' = ghost, LessNews,
         SameSpot \/ client'.server = None
  PROVE  PromptInv'
<1>0. /\ sess'[s][p] = None
      /\ \A x \in Server, q \in Port : x # s \/ q # p => sess'[x][q] = sess[x][q]
  BY PutFacts
<1>1. NewsFits' /\ (NoNews => NoNews')
  BY LessNewsKeeps
<1>2. /\ \A q \in Port : sess'[s][q] = None
      /\ \A x \in Server, q \in Port : sess'[x][q] # None =>
           x # s /\ sess[x][q] # None /\ sess'[x][q] = sess[x][q]
  BY <1>0, HereFacts
<1>3. /\ Sessions(s)' = {}
      /\ \A x \in Server : Sessions(x)' # {} => x # s /\ Sessions(x) # {}
  BY <1>2 DEF Sessions
<1>4. DownFits'
  BY <1>3 DEF PromptInv, DownFits, LessNews
<1>5. CASE row' = None /\ (row # None => row.server = s)
  <2>1. SessionsFit'
    <3> SUFFICES ASSUME NEW x \in Server, NEW q \in Port, sess'[x][q] # None
                 PROVE  SessionFits(x, sess[x][q], None, pos.zone)
      BY <1>2, <1>5 DEF SessionsFit
    <3>1. SessionFits(x, sess[x][q], row, pos.zone) /\ x # s
      BY <1>2 DEF PromptInv, SessionsFit
    <3> QED
      BY <1>5, <3>1 DEF SessionFits, Owner, Named
  <2>2. RowFits'
    BY <1>5 DEF RowFits
  <2>3. ClientFits'
    BY <1>2, <1>3, <1>5, NoneAssumption DEF PromptInv, ClientFits, SameSpot, Named
  <2> QED
    BY <1>1, <1>4, <2>1, <2>2, <2>3 DEF PromptInv, MembersAlive
<1>6. CASE row' = row /\ ~Owner(row, s)
  <2>1. SessionsFit'
    BY <1>2, <1>6 DEF PromptInv, SessionsFit
  <2>2. RowFits'
    <3>1. row # None => row.server \in Server
      BY DEF IndInv, TypeOK, Row
    <3>2. ASSUME row # None, ~row.portZero
          PROVE  \A q \in Port : sess'[row.server][q] = sess[row.server][q]
      BY <1>0, <1>6, <3>1, <3>2 DEF Owner, Named
    <3>3. Reclaimable' = Reclaimable
      BY <1>6 DEF Reclaimable
    <3> QED
      BY <1>1, <1>2, <1>6, <3>2, <3>3 DEF PromptInv, RowFits, SameSpot
  <2>3. ClientFits'
    BY <1>2, <1>3, <1>6, NoneAssumption DEF PromptInv, ClientFits, SameSpot
  <2> QED
    BY <1>1, <1>4, <2>1, <2>2, <2>3 DEF PromptInv, MembersAlive
<1> QED
  BY <1>5, <1>6

-----------------------------------------------------------------------------
(* Packets. *)

\* A session the row does not name fits whatever becomes of the row and the position.
LEMMA FitsAnyRow ==
  ASSUME NEW s, NEW t \in Session, NEW r, NEW z, SessionFits(s, t, r, z), ~Named(r, s),
         NEW r2, NEW z2
  PROVE  SessionFits(s, t, r2, z2)
<1>1. ~Live(t) /\ t.status # "waiting"
  BY DEF SessionFits, Owner
<1>2. t.status = "pending" /\ t.body = None
  BY <1>1, NoneAssumption DEF Live, Session
<1> QED
  BY <1>1, <1>2 DEF SessionFits, InZone

\* A session that is logging out has a character to which the row belongs.
LEMMA LoggingOutOwns ==
  ASSUME NEW s, NEW t \in Session, NEW r, NEW z, SessionFits(s, t, r, z), LoggingOut(t)
  PROVE  Owner(r, s) /\ t.status = "pending" /\ t.body # None
BY NoneAssumption DEF SessionFits, LoggingOut, Live

\* A packet that is answered with no 0x00B.
LEMMA ConcludePlain ==
  ASSUME IndInv, IndInv', PromptInv, NEW s \in Server, NEW p \in Port, NEW u \in Session,
         sess[s][p] # None, Conclude(s, p, u, row),
         SessionFits(s, u, row, pos.zone),
         Live(sess[s][p]) => Live(u),
         u.status = "waiting" => sess[s][p].status = "waiting",
         u.last \in {sess[s][p].last, None},
         pos'.zone = pos.zone, up' = up, ghost' = ghost, LessNews, SameSpot
  PROVE  PromptInv'
<1>1. CASE LoggingOut(u)
  <2>1. Put(s, p, None) /\ row' = None
    BY <1>1 DEF Conclude
  <2>2. row # None => row.server = s
    BY <1>1, LoggingOutOwns DEF Owner, Named
  <2> QED
    BY <2>1, <2>2, SessionGoes
<1>2. CASE ~LoggingOut(u)
  <2>1. Put(s, p, u) /\ row' = row
    BY <1>2 DEF Conclude
  <2> QED
    BY <2>1, InPlace DEF ClientMoves
<1> QED
  BY <1>1, <1>2

\* A 0x00B leaves: the row goes over to the server of the saved zone, or away.
LEMMA FlushGoes ==
  ASSUME IndInv, IndInv', PromptInv, NEW s \in Server, NEW p \in Port, NEW u \in Session,
         sess[s][p] # None, SessionFits(s, u, row, pos.zone),
         u.body \in Body, u.body.out # "none", SendParse(s, p, u),
         client.phase = "game", client.server = s, client.port = p,
         UNCHANGED <<pos, pend, mq, up>>,
         \/ SameSpot \/ client'.server = None
         \/ Flush(u).last # Login /\ client'.phase = "connect" /\ client'.server = Flush(u).last
  PROVE  PromptInv'
<1>0. /\ u.body # None /\ u.status = "pending" /\ ~InZone(u) /\ u.last = None
      /\ Live(u) /\ Owner(row, s) /\ NoNews
      /\ u.body.out \in {"zone", "logout"}
  <2>1. u # None /\ u.body # None
    BY NoneAssumption
  <2>2. u.status = "pending" /\ ~InZone(u) /\ u.last = None /\ u.body.out \in {"zone", "logout"}
    BY <2>1 DEF SessionFits, Session, Body
  <2>3. Live(u) /\ Owner(row, s)
    BY <2>1, <2>2 DEF Live, SessionFits
  <2> QED
    BY <2>1, <2>2, <2>3 DEF PromptInv, RowFits, Owner, Named
<1>1. /\ Conclude(s, p, Flush(u), FlushedRow(u))
      /\ ghost' = ghost
      /\ Send(s, IF u.body.out = "zone" THEN <<CharZone(u.body.dest)>> ELSE << >>)
  BY <1>0 DEF SendParse, IndInv, TypeOK
<1>2. /\ Flush(u) \in Session /\ Flush(u).status = "pending" /\ Flush(u).body = None
      /\ Flush(u).shut = u.shut /\ Flush(u).last = Endpoint(u)
  <2>1. u.body.out = "zone" => u.body.dest # None
    BY <1>0, NoneAssumption DEF SessionFits, IndInv, TypeOK
  <2>2. Flush(u) \in Session
    BY <1>0, <2>1, FlushFacts DEF IndInv
  <2> QED
    BY <2>2 DEF Flush, Session
<1>3. CASE u.body.out = "logout"
  <2>1. u.shut = 1 /\ Flush(u).last = Login
    BY <1>0, <1>2, <1>3 DEF SessionFits, Endpoint
  <2>2. Put(s, p, None) /\ row' = None
    BY <1>1, <1>2, <2>1 DEF Conclude, LoggingOut
  <2>3. wq' = wq
    <3>1. Send(s, << >>)
      BY <1>1, <1>3
    <3>2. s \in Sender /\ wq \in [Sender -> Seq(Message)] /\ wq[s] \in Seq(Message)
      BY DEF IndInv, TypeOK, Sender
    <3>3. wq[s] \o << >> = wq[s]
      BY <3>2
    <3> QED
      BY <3>1, <3>2, <3>3 DEF Send
  <2>4. LessNews
    BY <2>3, SameNews
  <2> QED
    BY <1>0, <1>1, <2>1, <2>2, <2>4, SessionGoes DEF Owner, Named
<1>4. CASE u.body.out = "zone"
  <2> DEFINE f == Flush(u)
             y == ServerOf[pos.zone]
  <2>0. pos.zone \in Zone /\ y \in Server /\ y # None /\ y # Login
    BY ConstantsAssumption, NoneAssumption DEF IndInv, TypeOK
  <2>1. /\ u.body.dest = pos.zone /\ u.shut = 2 /\ f.last = y /\ f # None
    BY <1>0, <1>2, <1>4, NoneAssumption DEF SessionFits, Endpoint
  <2>2. Put(s, p, f) /\ row' = FlushedRow(u)
    BY <1>1, <1>2, <2>1 DEF Conclude, LoggingOut
  <2>3. row' # None /\ row'.server = y /\ row'.portZero = TRUE /\ row'.stale = FALSE
    <3>1. row # None /\ Endpoint(u) = y
      BY <1>0, <1>2, <2>1 DEF Owner, Named
    <3>2. row' = [server |-> y, key |-> Advance(u.key), portZero |-> TRUE, stale |-> FALSE]
      BY <1>4, <2>2, <3>1 DEF FlushedRow
    <3>3. row' \in Row
      <4>1. u.key \in MaybeKey /\ Advance(u.key) \in MaybeKey
        BY AdvanceType DEF Session
      <4> QED
        BY <2>0, <3>2, <4>1 DEF Row
    <3> QED
      BY <3>2, <3>3, NoneAssumption
  <2>4. /\ sess'[s][p] = f
        /\ \A x \in Server, q \in Port : x # s \/ q # p => sess'[x][q] = sess[x][q]
        /\ \A x \in Server : Sessions(x)' = Sessions(x)
    <3>1. /\ sess'[s][p] = f
          /\ \A x \in Server, q \in Port : x # s \/ q # p => sess'[x][q] = sess[x][q]
      BY <2>2, PutFacts
    <3> QED
      BY <2>1, <3>1 DEF Sessions
  <2>5. SessionsFit'
    <3> SUFFICES ASSUME NEW x \in Server, NEW q \in Port, sess'[x][q] # None
                 PROVE  SessionFits(x, sess'[x][q], row', pos'.zone)
      BY DEF SessionsFit
    <3>1. CASE x = s /\ q = p
      <4>1. SessionFits(s, f, row', pos'.zone)
        BY <1>2, <2>1 DEF SessionFits, Live, InZone
      <4> QED
        BY <2>4, <3>1, <4>1
    <3>2. CASE x # s \/ q # p
      <4>1. sess'[x][q] = sess[x][q] /\ x # s
        BY <2>4, <3>2, HereFacts
      <4>2. sess[x][q] \in Session /\ SessionFits(x, sess[x][q], row, pos.zone)
        BY <4>1, HereFacts DEF PromptInv, SessionsFit
      <4>3. ~Named(row, x)
        BY <1>0, <4>1 DEF Owner, Named
      <4> QED
        BY <4>1, <4>2, <4>3, FitsAnyRow
    <3> QED
      BY <3>1, <3>2
  <2>6. NewsFits'
    <3>1. Send(s, <<CharZone(pos.zone)>>)
      BY <1>1, <1>4, <2>1
    <3>2. s \in Sender /\ wq \in [Sender -> Seq(Message)] /\ wq[s] \in Seq(Message)
          /\ CharZone(pos.zone) \in Message
      BY <2>0 DEF IndInv, TypeOK, Sender, CharZone, Message
    <3>3. Mail(wq[s] \o <<CharZone(pos.zone)>>) \subseteq Mail(wq[s]) \cup {CharZone(pos.zone)}
      BY <3>2, MailAppend
    <3>4. \A x \in Sender : Mail(wq'[x]) \subseteq Mail(wq[x]) \cup {CharZone(pos.zone)}
      BY <3>1, <3>2, <3>3 DEF Send
    <3> QED
      BY <3>4 DEF PromptInv, NewsFits, CharZone
  <2>7. RowFits'
    BY <2>3 DEF RowFits, Reclaimable
  <2>8. ClientFits'
    <3> SUFFICES ASSUME NEW x \in Server, client'.server = x
                 PROVE  /\ client'.phase = "connect" /\ Sessions(x)' # {} => Named(row', x)
                        /\ client'.phase = "game" =>
                             \A q \in Port, z \in Server :
                               /\ client'.port = q /\ sess'[x][q] # None /\ sess'[x][q].last = z
                               /\ Sessions(z)' # {}
                               => Named(row', z)
      BY DEF ClientFits
    <3>1. CASE client'.phase = "connect" /\ client'.server = y
      BY <2>3, <3>1 DEF Named
    <3>2. CASE SameSpot
      BY <2>1, <2>3, <2>4, <3>2 DEF SameSpot, Named
    <3> QED
      BY <2>1, <3>1, <3>2, NoneAssumption
  <2>9. DownFits'
    BY <2>4 DEF PromptInv, DownFits
  <2> QED
    BY <1>1, <2>5, <2>6, <2>7, <2>8, <2>9 DEF PromptInv, MembersAlive
<1> QED
  BY <1>0, <1>3, <1>4

\* A first 0x00A finds a pending session only at the server of the saved zone, which the
\* row then names.
LEMMA FirstLoginFits ==
  ASSUME IndInv, IndInv', PromptInv, NEW s \in Server, NEW p \in Port, FirstLogin(s, p)
  PROVE  PromptInv'
<1> DEFINE u == [status |-> "waiting", key |-> row.key, prev |-> None,
                 body |-> LoadChar, shut |-> 0, forced |-> FALSE,
                 decrypted |-> FALSE, expired |-> FALSE, last |-> None]
<1>1. /\ client.phase = "connect" /\ client.server = s /\ client.port = p /\ s \in up
      /\ pend[s] # "none" /\ pend' = [pend EXCEPT ![s] = "none"] /\ SameSpot
      /\ UNCHANGED <<row, pos, ghost, mq, up, client>>
  BY DEF FirstLogin, Sends, SameSpot
<1>2. \A x \in Server : pend'[x] # "none" => pend[x] # "none" /\ x # s
  BY <1>1 DEF IndInv, TypeOK
<1>3. CASE row = None
  <2>1. sess' = sess /\ wq' = wq
    BY <1>3 DEF FirstLogin
  <2>2. LessNews
    BY <1>1, <1>2, <2>1 DEF LessNews
  <2> QED
    BY <1>1, <2>1, <2>2, SameSessions
<1>4. CASE row # None
  <2>1. Put(s, p, u) /\ Send(s, IF pos.zone # pos.prev THEN <<KillSession>> ELSE << >>)
    BY <1>4 DEF FirstLogin
  <2>2. /\ LoadChar.zone = None /\ LoadChar.dest = pos.zone /\ LoadChar.out = "none"
        /\ LoadChar.leaving = FALSE /\ LoadChar # None
    BY NoneAssumption, LoadCharFacts DEF LoadChar, IndInv
  <2>3. row.portZero /\ ~Reclaimable /\ s = ServerOf[pos.zone] /\ Named(row, s)
    BY <1>1, <1>4 DEF PromptInv, RowFits, NewsFits, NoNews, Named
  <2>4. /\ sess'[s][p] = u
        /\ \A x \in Server, q \in Port : x # s \/ q # p => sess'[x][q] = sess[x][q]
        /\ \A x \in Server : x # s => Sessions(x)' = Sessions(x)
    <3> HIDE DEF u
    <3>1. /\ sess'[s][p] = u
          /\ \A x \in Server, q \in Port : x # s \/ q # p => sess'[x][q] = sess[x][q]
      BY <2>1, PutFacts
    <3> QED
      BY <3>1 DEF Sessions
  <2>5. SessionsFit'
    <3>1. SessionFits(s, u, row, pos.zone)
      BY <2>2, <2>3 DEF SessionFits, Live, InZone
    <3> HIDE DEF u
    <3> QED
      BY <1>1, <2>4, <3>1 DEF PromptInv, SessionsFit
  <2>6. NewsFits'
    <3>1. wq' = wq \/ Send(s, <<KillSession>>)
      <4>1. s \in Sender /\ wq \in [Sender -> Seq(Message)] /\ wq[s] \in Seq(Message)
        BY DEF IndInv, TypeOK, Sender
      <4>2. wq[s] \o << >> = wq[s]
        BY <4>1
      <4> QED
        BY <2>1, <4>1, <4>2 DEF Send
    <3>2. s \in Sender /\ wq \in [Sender -> Seq(Message)] /\ wq[s] \in Seq(Message)
          /\ KillSession \in Message
      BY DEF IndInv, TypeOK, Sender, KillSession, Message
    <3>3. Mail(wq[s] \o <<KillSession>>) \subseteq Mail(wq[s]) \cup {KillSession}
      BY <3>2, MailAppend
    <3>4. \A x \in Sender : Mail(wq'[x]) \subseteq Mail(wq[x]) \cup {KillSession}
      BY <3>1, <3>2, <3>3 DEF Send
    <3> QED
      BY <1>1, <1>2, <3>4 DEF PromptInv, NewsFits, KillSession
  <2>7. RowFits'
    BY <1>1, <2>3 DEF PromptInv, RowFits, Reclaimable
  <2>8. ClientFits'
    BY <1>1, <2>3 DEF PromptInv, ClientFits, SameSpot
  <2>9. DownFits'
    BY <1>1, <1>2, <2>4 DEF PromptInv, DownFits
  <2> QED
    BY <1>1, <2>5, <2>6, <2>7, <2>8, <2>9 DEF PromptInv, MembersAlive
<1> QED
  BY <1>3, <1>4

\* A session is accepted where the row names its server; the character enters, or it is
\* already that server's and no zone for it is there. All news has been heard.
LEMMA AcceptLoginFits ==
  ASSUME IndInv, IndInv', PromptInv, PromptIPC,
         NEW s \in Server, NEW p \in Port, AcceptLogin(s, p)
  PROVE  PromptInv'
<1> DEFINE t == sess[s][p]
           reload == t.status = "pending" \/ t.body = None
           b == IF reload THEN LoadChar ELSE t.body
           k == IF reload /\ row # None THEN row.key ELSE t.key
           e == Enter(s, t, b, k)
<1>1. /\ client.phase = "connect" /\ client.server = s /\ client.port = p /\ s \in up
      /\ t # None /\ t.status # "accepted" /\ Drained
      /\ row' = IF row # None /\ InZone(e)
                THEN [row EXCEPT !.portZero = FALSE, !.stale = FALSE] ELSE row
      /\ Put(s, p, e)
      /\ Receive(e, InZone(e))
      /\ UNCHANGED <<pos, pend, ghost, wq, mq, up, crashes>>
  BY DEF AcceptLogin, Sends, Paced
<1>2. t \in Session /\ SessionFits(s, t, row, pos.zone) /\ SessionOK(s, t, pos.zone)
  BY <1>1, HereFacts DEF PromptInv, SessionsFit
<1>3. Named(row, s)
  BY <1>1, HereFacts DEF PromptInv, ClientFits
<1>4. b \in Body /\ b.dest = pos.zone /\ b.zone = None /\ b.leaving = FALSE
  <2>1. LoadChar \in Body /\ LoadChar.dest = pos.zone /\ LoadChar.zone = None
        /\ LoadChar.leaving = FALSE
    BY LoadCharFacts DEF LoadChar, IndInv
  <2>2. ASSUME ~reload PROVE t.status = "waiting" /\ t.body \in Body
    BY <1>1, <1>2, <2>2 DEF Session
  <2>3. ASSUME ~reload PROVE b.dest = pos.zone /\ b.zone = None /\ b.leaving = FALSE
    BY <1>2, <2>2, <2>3 DEF SessionFits, SessionOK, Body
  <2> QED
    BY <2>1, <2>2, <2>3
<1> DEFINE hosted == ServerOf[pos.zone] = s
           c == IF hosted THEN [b EXCEPT !.zone = b.dest, !.dest = Unknown,
                                         !.stat = "normal", !.out = "none"]
                ELSE [b EXCEPT !.warp = TRUE, !.out = "none"]
<1>5. /\ c \in Body /\ c.out = "none" /\ c.leaving = FALSE
      /\ c.zone # None <=> hosted
  <2> HIDE DEF b
  <2> QED
    BY <1>4, ConstantsAssumption, NoneAssumption DEF Body, IndInv, TypeOK
<1>6. /\ e \in Session /\ e.status = "accepted" /\ e.body = c /\ e.shut = 0 /\ e.last = None
      /\ e # None /\ c # None
  <2>1. k \in MaybeKey
    BY <1>2 DEF IndInv, TypeOK, Row, Session, MaybeKey
  <2> HIDE DEF t, b, k
  <2>2. e = [t EXCEPT !.status = "accepted", !.key = k, !.shut = 0, !.last = None, !.body = c]
    BY <1>4 DEF Enter, Hosts
  <2>3. e \in Session /\ e.status = "accepted" /\ e.body = c /\ e.shut = 0 /\ e.last = None
    <3> HIDE DEF c, e
    <3> QED
      BY <1>2, <1>5, <2>1, <2>2 DEF Session
  <2> QED
    BY <1>5, <2>3, NoneAssumption
<1> HIDE DEF c, e
<1>7. InZone(e) <=> hosted
  BY <1>5, <1>6 DEF InZone
<1>8. row \in Row /\ (row.portZero => hosted) /\ (~row.portZero => NoNews)
  BY <1>3 DEF Named, PromptInv, RowFits, IndInv, TypeOK
<1>9. /\ row' # None /\ row'.server = s /\ row'.portZero = FALSE
      /\ Owner(row', s)
  <2>1. row' \in Row /\ row'.server = s /\ row'.portZero = FALSE
    BY <1>1, <1>3, <1>7, <1>8 DEF Named, Row
  <2> QED
    BY <2>1, NoneAssumption DEF Owner, Named
<1>10. NoNews'
  <2>1. NoNews
    BY <1>1, <1>8, DrainedNews, HereFacts DEF NoNews, PromptInv, NewsFits
  <2>2. LessNews
    BY <1>1, SameNews
  <2> QED
    BY <1>1, <2>1, <2>2, LessNewsKeeps
<1>11. /\ sess'[s][p] = e
       /\ \A x \in Server, q \in Port : x # s \/ q # p => sess'[x][q] = sess[x][q]
       /\ \A x \in Server : Sessions(x)' = Sessions(x)
  <2>1. /\ sess'[s][p] = e
        /\ \A x \in Server, q \in Port : x # s \/ q # p => sess'[x][q] = sess[x][q]
    BY <1>1, PutFacts
  <2> QED
    BY <1>1, <1>6, <2>1 DEF Sessions
<1>12. SessionsFit'
  <2> SUFFICES ASSUME NEW x \in Server, NEW q \in Port, sess'[x][q] # None
               PROVE  SessionFits(x, sess'[x][q], row', pos'.zone)
    BY DEF SessionsFit
  <2>1. CASE x = s /\ q = p
    <3>1. SessionFits(s, e, row', pos'.zone)
      BY <1>5, <1>6, <1>9 DEF SessionFits, Live
    <3> QED
      BY <1>11, <2>1, <3>1
  <2>2. CASE x # s \/ q # p
    <3>1. sess'[x][q] = sess[x][q] /\ x # s
      BY <1>1, <1>11, <2>2, HereFacts
    <3>2. sess[x][q] \in Session /\ SessionFits(x, sess[x][q], row, pos.zone)
      BY <3>1, HereFacts DEF PromptInv, SessionsFit
    <3>3. ~Named(row, x)
      BY <1>3, <3>1 DEF Named
    <3> QED
      BY <3>1, <3>2, <3>3, FitsAnyRow
  <2> QED
    BY <2>1, <2>2
<1>13. NewsFits'
  BY <1>1 DEF PromptInv, NewsFits
<1>14. /\ client'.server = s /\ client'.port = p
       /\ client'.phase \in {"connect", "game"}
  <2>1. \/ client' = [client EXCEPT !.synced = FALSE]
        \/ client' = [client EXCEPT !.synced = TRUE,
                                    !.phase = IF InZone(e) THEN "game" ELSE @]
    BY <1>1, <1>5, <1>6 DEF Receive, Lost
  <2> QED
    BY <1>1, <2>1 DEF IndInv, TypeOK, Client
<1>15. RowFits'
  <2>1. Live(e)
    BY <1>6 DEF Live
  <2> QED
    BY <1>9, <1>10, <1>11, <1>14, <2>1 DEF RowFits, Reclaimable
<1>16. ClientFits'
  BY <1>6, <1>9, <1>11, <1>14, NoneAssumption DEF ClientFits, Owner
<1>17. DownFits'
  BY <1>1, <1>11 DEF PromptInv, DownFits
<1> QED
  BY <1>1, <1>12, <1>13, <1>15, <1>16, <1>17 DEF PromptInv, MembersAlive

\* A repeated 0x00A changes nothing that matters, but may let the client in.
LEMMA RepeatLoginFits ==
  ASSUME IndInv, IndInv', PromptInv, NEW s \in Server, NEW p \in Port, RepeatLogin(s, p)
  PROVE  PromptInv'
<1> DEFINE t == sess[s][p]
           refused == t.body.stat = "normal" /\ t.decrypted
           b == IF refused THEN t.body
                ELSE [t.body EXCEPT !.out = "none",
                                    !.stat = IF InZone(t) THEN "normal" ELSE @]
           u == [Tap(t) EXCEPT !.body = b, !.last = None]
<1>1. /\ client.phase = "connect" /\ client.server = s /\ client.port = p
      /\ t # None /\ t.status = "accepted"
      /\ SendParse(s, p, u)
      /\ Receive(u, InZone(u) /\ ~refused)
      /\ UNCHANGED <<pos, pend, mq, up, crashes>>
  BY DEF RepeatLogin, Sends
<1>2. t \in Session /\ SessionFits(s, t, row, pos.zone) /\ SessionOK(s, t, pos.zone)
  BY <1>1, HereFacts DEF PromptInv, SessionsFit
<1>3. t.body \in Body /\ t.body.out = "none" /\ t.shut = 0 /\ t.last = None
  BY <1>1, <1>2 DEF Session, SessionOK, SessionFits
<1>4. /\ b \in Body /\ b.zone = t.body.zone /\ b.dest = t.body.dest
      /\ b.leaving = t.body.leaving /\ b.out = "none"
  BY <1>3 DEF Body
<1>5. /\ u \in Session /\ u.body = b /\ u.status = "accepted" /\ u.shut = 0 /\ u.last = None
      /\ u # None /\ b # None /\ t.body # None
  <2>1. Tap(t) \in Session /\ Tap(t).status = "accepted" /\ Tap(t).shut = 0
    BY <1>1, <1>2, <1>3 DEF Tap, Session
  <2>2. ASSUME NEW x \in Session, NEW y \in Body, x.status = "accepted", x.shut = 0
        PROVE  /\ [x EXCEPT !.body = y, !.last = None] \in Session
               /\ [x EXCEPT !.body = y, !.last = None].body = y
               /\ [x EXCEPT !.body = y, !.last = None].status = "accepted"
               /\ [x EXCEPT !.body = y, !.last = None].shut = 0
               /\ [x EXCEPT !.body = y, !.last = None].last = None
    BY <2>2 DEF Session
  <2>3. t.body # None /\ b # None
    BY <1>3, <1>4, NoneAssumption
  <2> HIDE DEF t, b
  <2>4. /\ u \in Session /\ u.body = b /\ u.status = "accepted" /\ u.shut = 0
        /\ u.last = None
    BY <1>4, <2>1, <2>2
  <2> HIDE DEF u
  <2> QED
    BY <2>3, <2>4, NoneAssumption
<1> HIDE DEF b, u
<1>6. SessionFits(s, u, row, pos.zone) /\ Live(u)
  BY <1>1, <1>2, <1>3, <1>4, <1>5 DEF SessionFits, InZone, Live
<1>7. Put(s, p, u) /\ row' = row /\ ghost' = ghost /\ wq' = wq
  BY <1>1, <1>4, <1>5 DEF SendParse, Conclude, LoggingOut
<1>8. ClientMoves(s, p, u)
  <2>1. \/ client' = [client EXCEPT !.synced = FALSE]
        \/ client' = [client EXCEPT !.synced = TRUE,
                         !.phase = IF InZone(u) /\ ~refused THEN "game" ELSE @]
    BY <1>1, <1>4, <1>5 DEF Receive, Lost
  <2> QED
    BY <1>1, <1>5, <2>1 DEF ClientMoves, SameSpot, IndInv, TypeOK, Client
<1>9. LessNews
  BY <1>1, <1>7, SameNews
<1> QED
  BY <1>1, <1>5, <1>6, <1>7, <1>8, <1>9, InPlace

\* A client that hears of a 0x00B stops, or connects to where it is sent.
LEMMA HearsFacts ==
  ASSUME IndInv, NEW target, Receive0x00B(target)
  PROVE  \/ client'.server = None
         \/ target # Login /\ client'.phase = "connect" /\ client'.server = target
<1>1. CASE target = Login
  BY <1>1 DEF Receive0x00B, Idle
<1>2. CASE target # Login
  BY <1>2 DEF Receive0x00B, IndInv, TypeOK, Client
<1> QED
  BY <1>1, <1>2

\* A packet of the game, answered, with the 0x00B if there is one, or not understood.
LEMMA GamePacketFits ==
  ASSUME IndInv, IndInv', PromptInv, NEW s \in Server, NEW p \in Port,
         NEW dest \in Zone \cup {None}, GamePacket(s, p, dest)
  PROVE  PromptInv'
<1> DEFINE t == sess[s][p]
           tapped == IF t.status = "accepted" THEN Tap(t) ELSE t
           c == Command(t.body, dest)
           u == [tapped EXCEPT !.decrypted = TRUE, !.body = c]
<1>1. /\ client.phase = "game" /\ client.server = s /\ client.port = p
      /\ t # None /\ t.body # None /\ (dest # None => dest # Unknown)
      /\ UNCHANGED <<pos, pend, mq, up, crashes>>
  BY DEF GamePacket, Sends
<1>2. t \in Session /\ SessionFits(s, t, row, pos.zone) /\ SessionOK(s, t, pos.zone)
  BY <1>1, HereFacts DEF PromptInv, SessionsFit
<1>3. t.body \in Body
  BY <1>1, <1>2 DEF Session
<1>4. /\ c \in Body /\ c # None
      /\ c.zone = t.body.zone
      /\ \/ c = t.body
         \/ c.zone # None /\ c.out = "none" /\ c.dest # Unknown
  <2> HIDE DEF t
  <2>1. ASSUME NEW b \in Body, dest # None, b.zone # None
        PROVE  LET d == [b EXCEPT !.dest = dest, !.stat = "disappear", !.leaving = TRUE,
                                  !.out = "none"]
               IN  d \in Body /\ d.zone = b.zone /\ d.out = "none" /\ d.dest = dest
    BY <2>1 DEF Body
  <2>2. \/ c = t.body
        \/ /\ dest # None /\ t.body.zone # None
           /\ c = [t.body EXCEPT !.dest = dest, !.stat = "disappear", !.leaving = TRUE,
                                 !.out = "none"]
    BY DEF Command
  <2> HIDE DEF c
  <2>3. CASE c = t.body
    BY <1>1, <1>3, <2>3
  <2>4. CASE dest # None /\ t.body.zone # None
             /\ c = [t.body EXCEPT !.dest = dest, !.stat = "disappear", !.leaving = TRUE,
                                   !.out = "none"]
    <3>1. c \in Body /\ c.zone = t.body.zone /\ c.out = "none" /\ c.dest = dest
      BY <1>3, <2>1, <2>4
    <3> QED
      BY <1>1, <2>4, <3>1, NoneAssumption
  <2> QED
    BY <2>2, <2>3, <2>4
<1>5. /\ u \in Session /\ u.body = c /\ u.status = t.status /\ u.shut = t.shut
      /\ u.last = t.last /\ u # None
  <2>1. /\ tapped \in Session /\ tapped.status = t.status /\ tapped.shut = t.shut
        /\ tapped.last = t.last
    BY <1>2 DEF Tap, Session
  <2>2. ASSUME NEW x \in Session, NEW y \in Body
        PROVE  /\ [x EXCEPT !.decrypted = TRUE, !.body = y] \in Session
               /\ [x EXCEPT !.decrypted = TRUE, !.body = y].body = y
               /\ [x EXCEPT !.decrypted = TRUE, !.body = y].status = x.status
               /\ [x EXCEPT !.decrypted = TRUE, !.body = y].shut = x.shut
               /\ [x EXCEPT !.decrypted = TRUE, !.body = y].last = x.last
    BY DEF Session
  <2> HIDE DEF tapped, c
  <2> QED
    BY <1>4, <2>1, <2>2, NoneAssumption
<1>6. \/ SendParse(s, p, u) /\ Receive(u, FALSE)
      \/ /\ Conclude(s, p, u, row)
         /\ client' \in {client, [client EXCEPT !.synced = TRUE]}
         /\ UNCHANGED <<ghost, wq>>
  BY DEF GamePacket
<1> HIDE DEF c, u
<1>7. Live(t) <=> Live(u)
  BY <1>1, <1>4, <1>5 DEF Live
<1>8. SessionFits(s, u, row, pos.zone)
  <2>1. t.status = "waiting" => c = t.body
    BY <1>2, <1>4 DEF SessionOK
  <2> QED
    BY <1>1, <1>2, <1>4, <1>5, <1>7, <2>1 DEF SessionFits, InZone
<1>9. SameSpot => ClientMoves(s, p, u)
  BY DEF ClientMoves
<1>10. CASE /\ Conclude(s, p, u, row)
            /\ client' \in {client, [client EXCEPT !.synced = TRUE]}
            /\ UNCHANGED <<ghost, wq>>
  <2>1. SameSpot
    BY <1>10 DEF SameSpot, IndInv, TypeOK, Client
  <2>2. LessNews
    BY <1>1, <1>10, SameNews
  <2> QED
    BY <1>1, <1>5, <1>7, <1>8, <1>10, <2>1, <2>2, ConcludePlain
<1>11. CASE SendParse(s, p, u) /\ Receive(u, FALSE) /\ c.out = "none"
  <2>1. Conclude(s, p, u, row) /\ ghost' = ghost /\ wq' = wq
    BY <1>5, <1>11 DEF SendParse
  <2>2. SameSpot
    <3>1. \/ client' = [client EXCEPT !.synced = FALSE]
          \/ client' = [client EXCEPT !.synced = TRUE, !.phase = @]
      BY <1>5, <1>11 DEF Receive, Lost
    <3> QED
      BY <3>1 DEF SameSpot, IndInv, TypeOK, Client
  <2>3. LessNews
    BY <1>1, <2>1, SameNews
  <2> QED
    BY <1>1, <1>5, <1>7, <1>8, <2>1, <2>2, <2>3, ConcludePlain
<1>12. CASE SendParse(s, p, u) /\ Receive(u, FALSE) /\ c.out # "none"
  <2>1. \/ SameSpot
        \/ client'.server = None
        \/ /\ Flush(u).last # Login /\ client'.phase = "connect"
           /\ client'.server = Flush(u).last
    <3>1. Lost \/ Receive0x00B(Flush(u).last)
      BY <1>5, <1>12 DEF Receive
    <3>2. Lost => SameSpot
      BY DEF Lost, SameSpot, IndInv, TypeOK, Client
    <3> QED
      BY <3>1, <3>2, HearsFacts
  <2> QED
    BY <1>1, <1>4, <1>5, <1>8, <1>12, <2>1, FlushGoes
<1> QED
  BY <1>6, <1>10, <1>11, <1>12

\* A packet that comes too late is answered with the last 0x00B again, if at all; where
\* that sends the client the row is waiting for it.
LEMMA LatePacketFits ==
  ASSUME IndInv, IndInv', PromptInv, NEW s \in Server, NEW p \in Port, LatePacket(s, p)
  PROVE  PromptInv'
<1> DEFINE t == sess[s][p]
           u == [t EXCEPT !.decrypted = @ \/ t.key = client.key]
<1>1. /\ client.phase = "game" /\ client.server = s /\ client.port = p /\ s \in up
      /\ t # None
      /\ Conclude(s, p, u, row)
      /\ UNCHANGED <<pos, pend, ghost, wq, mq, up, crashes>>
      /\ \/ client' = client
         \/ t.status = "pending" /\ t.last # None /\ Receive0x00B(t.last)
  BY DEF LatePacket, Sends
<1>2. t \in Session /\ SessionFits(s, t, row, pos.zone)
  BY <1>1, HereFacts DEF PromptInv, SessionsFit
<1>3. /\ u \in Session /\ u.body = t.body /\ u.status = t.status /\ u.shut = t.shut
      /\ u.last = t.last /\ u # None
  <2>1. ASSUME NEW x \in Session, NEW d \in BOOLEAN
        PROVE  LET y == [x EXCEPT !.decrypted = d]
               IN  /\ y \in Session /\ y.body = x.body /\ y.status = x.status
                   /\ y.shut = x.shut /\ y.last = x.last
    BY DEF Session
  <2>2. (t.decrypted \/ t.key = client.key) \in BOOLEAN
    OBVIOUS
  <2> HIDE DEF t
  <2>3. u = [t EXCEPT !.decrypted = t.decrypted \/ t.key = client.key]
    OBVIOUS
  <2> HIDE DEF u
  <2> QED
    BY <1>2, <2>1, <2>2, <2>3, NoneAssumption
<1> HIDE DEF u
<1>4. SessionFits(s, u, row, pos.zone) /\ (Live(t) <=> Live(u))
  BY <1>1, <1>2, <1>3 DEF SessionFits, InZone, Live
<1>5. LessNews
  BY <1>1, SameNews
<1>6. CASE client' = client
  <2>1. SameSpot
    BY <1>6 DEF SameSpot
  <2> QED
    BY <1>1, <1>3, <1>4, <1>5, <2>1, ConcludePlain
<1>7. CASE t.status = "pending" /\ t.last # None /\ Receive0x00B(t.last)
  <2>1. t.body = None /\ ~LoggingOut(u) /\ ~Live(t)
    BY <1>2, <1>3, <1>7 DEF SessionFits, LoggingOut, Live
  <2>2. Put(s, p, u) /\ row' = row
    BY <1>1, <2>1 DEF Conclude
  <2>3. row # None => row.portZero
    <3> SUFFICES ASSUME row # None, ~row.portZero PROVE FALSE
      OBVIOUS
    <3>1. client.server \in {row.server, None}
      BY DEF PromptInv, RowFits
    <3>2. row.server = s
      BY <1>1, <3>1, NoneAssumption
    <3>3. PICK q \in Port : Live(sess[s][q])
      BY <1>1, <3>2 DEF PromptInv, RowFits
    <3>4. q = p
      BY <1>1, <3>3, HereFacts DEF Live
    <3> QED
      BY <2>1, <3>3, <3>4
  <2>4. ClientMoves(s, p, u)
    <3>1. CASE t.last = Login
      BY <1>7, <3>1 DEF Receive0x00B, Idle, ClientMoves
    <3>2. CASE t.last # Login
      <4>1. t.last \in Server
        BY <1>2, <1>7, <3>2 DEF Session
      <4>2. client'.phase = "connect" /\ client'.server = t.last
        BY <1>7, <3>2 DEF Receive0x00B, IndInv, TypeOK, Client
      <4>3. Sessions(t.last) # {} => Named(row, t.last)
        BY <1>1, <4>1 DEF PromptInv, ClientFits
      <4> QED
        BY <2>3, <4>2, <4>3 DEF ClientMoves
    <3> QED
      BY <3>1, <3>2
  <2> QED
    BY <1>1, <1>3, <1>4, <1>5, <2>2, <2>4, InPlace
<1> QED
  BY <1>1, <1>6, <1>7

-----------------------------------------------------------------------------
(* The map server's own steps. *)

\* What the invariants say of a session whose character is in a zone.
LEMMA InsideFacts ==
  ASSUME IndInv, PromptInv, NEW s \in Server, NEW p \in Port, InZone(sess[s][p])
  PROVE  LET t == sess[s][p] IN
         /\ t # None /\ t \in Session /\ t.body # None /\ t.body \in Body
         /\ t.body.zone # None /\ t.status = "accepted" /\ t.shut = 0 /\ t.last = None
         /\ t.body.out = "none" /\ (t.body.leaving => t.body.dest # Unknown)
         /\ Live(t) /\ Owner(row, s) /\ NoNews
         /\ SessionFits(s, t, row, pos.zone)
<1> DEFINE t == sess[s][p]
<1>1. t # None /\ t.body # None /\ t.body.zone # None
  BY DEF InZone
<1>2. t \in Session /\ SessionFits(s, t, row, pos.zone)
  BY <1>1, HereFacts DEF PromptInv, SessionsFit
<1>3. t.body \in Body
  BY <1>1, <1>2 DEF Session
<1>4. t.status = "accepted" /\ t.last = None /\ (t.body.leaving => t.body.dest # Unknown)
  BY <1>1, <1>2 DEF SessionFits
<1>5. t.shut = 0 /\ t.body.out = "none"
  BY <1>2, <1>4 DEF SessionFits
<1>6. Live(t) /\ Owner(row, s)
  BY <1>1, <1>2, <1>4 DEF SessionFits, Live
<1>7. NoNews
  BY <1>6 DEF PromptInv, RowFits, Owner, Named
<1> QED
  BY <1>1, <1>2, <1>3, <1>4, <1>5, <1>6, <1>7

\* A character in a zone is told to do something there.
LEMMA BodyFits ==
  ASSUME IndInv, IndInv', PromptInv, NEW s \in Server, NEW p \in Port,
         InZone(sess[s][p]), NEW c \in Body, Put(s, p, [sess[s][p] EXCEPT !.body = c]),
         c.zone = sess[s][p].body.zone, c.out = "none", c.leaving => c.dest # Unknown,
         UNCHANGED <<pos, pend, wq>>, Rest
  PROVE  PromptInv'
<1> DEFINE t == sess[s][p]
           u == [t EXCEPT !.body = c]
<1>1. /\ t # None /\ t \in Session /\ t.body # None /\ t.body.zone # None
      /\ t.status = "accepted" /\ t.shut = 0 /\ t.last = None
      /\ Live(t) /\ Owner(row, s) /\ SessionFits(s, t, row, pos.zone)
  BY InsideFacts
<1>2. /\ u \in Session /\ u.body = c /\ u.status = "accepted" /\ u.shut = 0 /\ u.last = None
      /\ u # None /\ c # None
  BY <1>1, NoneAssumption DEF Session
<1>3. Put(s, p, u)
  OBVIOUS
<1> HIDE DEF u
<1>4. SessionFits(s, u, row, pos.zone) /\ Live(u)
  BY <1>1, <1>2 DEF SessionFits, InZone, Live
<1>5. LessNews /\ SameSpot
  BY SameNews DEF Rest, SameSpot
<1> QED
  BY <1>1, <1>2, <1>3, <1>4, <1>5, InPlace DEF Rest, ClientMoves

\* Warps, leave-game effects and moves by others.
LEMMA ToldFits ==
  ASSUME IndInv, IndInv', PromptInv, NEW s \in Server, NEW p \in Port,
         Warp(s, p) \/ LeaveGame(s, p) \/ \E z \in Zone : SendPlayerToLocation(s, p, z)
  PROVE  PromptInv'
<1> DEFINE t == sess[s][p]
<1>1. InZone(t) /\ UNCHANGED <<pos, pend, wq>> /\ Rest
  BY DEF Warp, LeaveGame, SendPlayerToLocation
<1>2. /\ t \in Session /\ t.body \in Body /\ t.body.out = "none"
      /\ t.body.leaving => t.body.dest # Unknown
  BY <1>1, InsideFacts
<1>3. ASSUME Warp(s, p) PROVE PromptInv'
  <2> DEFINE c == [t.body EXCEPT !.warp = TRUE]
  <2>1. /\ c \in Body /\ c.zone = t.body.zone /\ c.out = "none"
        /\ c.leaving => c.dest # Unknown
    BY <1>2 DEF Body
  <2>2. Put(s, p, [t EXCEPT !.body = c])
    BY <1>3 DEF Warp
  <2> HIDE DEF c
  <2> QED
    BY <1>1, <2>1, <2>2, BodyFits
<1>4. ASSUME LeaveGame(s, p) PROVE PromptInv'
  <2> DEFINE c == [t.body EXCEPT !.stat = "shutdown"]
  <2>1. /\ c \in Body /\ c.zone = t.body.zone /\ c.out = "none"
        /\ c.leaving => c.dest # Unknown
    BY <1>2 DEF Body
  <2>2. Put(s, p, [t EXCEPT !.body = c])
    BY <1>4 DEF LeaveGame
  <2> HIDE DEF c
  <2> QED
    BY <1>1, <2>1, <2>2, BodyFits
<1>5. ASSUME NEW z \in Zone, SendPlayerToLocation(s, p, z) PROVE PromptInv'
  <2> DEFINE c == [t.body EXCEPT !.dest = z, !.stat = "disappear", !.leaving = TRUE,
                                 !.out = "none"]
  <2>1. z # Unknown
    BY <1>5 DEF SendPlayerToLocation
  <2>2. /\ c \in Body /\ c.zone = t.body.zone /\ c.out = "none"
        /\ c.leaving => c.dest # Unknown
    BY <1>2, <2>1 DEF Body
  <2>3. Put(s, p, [t EXCEPT !.body = c])
    BY <1>5 DEF SendPlayerToLocation
  <2> HIDE DEF c
  <2> QED
    BY <1>1, <2>2, <2>3, BodyFits
<1> QED
  BY <1>3, <1>4, <1>5

\* A character that leaves its zone keeps the row for its server until the 0x00B is sent.
LEMMA LeavesZoneFits ==
  ASSUME IndInv, IndInv', PromptInv, NEW s \in Server, NEW p \in Port,
         InZone(sess[s][p]), NEW u \in Session, Put(s, p, u),
         u.status = "pending", u.body # None, u.body.zone = None, u.last = None,
         u.body.out = "zone" => u.body.dest = pos'.zone /\ u.shut = 2,
         u.body.out = "logout" => u.shut = 1,
         pos'.zone \in Zone \ {Unknown},
         UNCHANGED <<pend, wq>>, Rest
  PROVE  PromptInv'
<1>1. Owner(row, s) /\ NoNews /\ sess[s][p] # None
  BY InsideFacts
<1>2. u # None
  BY NoneAssumption
<1>3. /\ sess'[s][p] = u
      /\ \A x \in Server, q \in Port : x # s \/ q # p => sess'[x][q] = sess[x][q]
      /\ \A x \in Server : Sessions(x)' = Sessions(x)
  <2>1. /\ sess'[s][p] = u
        /\ \A x \in Server, q \in Port : x # s \/ q # p => sess'[x][q] = sess[x][q]
    BY PutFacts
  <2> QED
    BY <1>1, <1>2, <2>1 DEF Sessions
<1>4. SessionsFit'
  <2> SUFFICES ASSUME NEW x \in Server, NEW q \in Port, sess'[x][q] # None
               PROVE  SessionFits(x, sess'[x][q], row, pos'.zone)
    BY DEF SessionsFit, Rest
  <2>1. CASE x = s /\ q = p
    <3>1. SessionFits(s, u, row, pos'.zone)
      BY <1>1 DEF SessionFits, InZone
    <3> QED
      BY <1>3, <2>1, <3>1
  <2>2. CASE x # s \/ q # p
    <3>1. sess'[x][q] = sess[x][q] /\ x # s
      BY <1>1, <1>3, <2>2, HereFacts
    <3>2. sess[x][q] \in Session /\ SessionFits(x, sess[x][q], row, pos.zone)
      BY <3>1, HereFacts DEF PromptInv, SessionsFit
    <3>3. ~Named(row, x)
      BY <1>1, <3>1 DEF Owner, Named
    <3> QED
      BY <3>1, <3>2, <3>3, FitsAnyRow
  <2> QED
    BY <2>1, <2>2
<1>5. NoNews' /\ NewsFits'
  <2>1. News' = News
    BY DEF News, Rest
  <2> QED
    BY <1>1, <2>1, NewsFactsNext DEF NoNews, NewsFits, Rest
<1>6. RowFits'
  <2>1. row # None /\ row.server = s /\ ~row.portZero /\ row' = row /\ client' = client
    BY <1>1 DEF Owner, Named, Rest
  <2>2. client.server \in {s, None}
    BY <2>1 DEF PromptInv, RowFits
  <2>3. Live(u)
    BY <1>2 DEF Live
  <2> QED
    BY <1>3, <1>5, <2>1, <2>2, <2>3 DEF RowFits, Reclaimable
<1>7. ClientFits'
  BY <1>3, NoneAssumption DEF PromptInv, ClientFits, Rest
<1>8. DownFits'
  BY <1>3 DEF PromptInv, DownFits, Rest
<1> QED
  BY <1>4, <1>5, <1>6, <1>7, <1>8 DEF PromptInv, MembersAlive, Rest

\* The end of a zone tick.
LEMMA ZoneTickFits ==
  ASSUME IndInv, IndInv', PromptInv, Prompt, NEW s \in Server, NEW p \in Port, ZoneTick(s, p)
  PROVE  PromptInv'
<1> DEFINE t == sess[s][p]
           b == t.body
<1>1. InZone(t) /\ UNCHANGED <<pend, wq>> /\ Rest
  BY DEF ZoneTick
<1>2. /\ t \in Session /\ b \in Body /\ b.out = "none" /\ b # None /\ b.zone # None
      /\ b.leaving => b.dest # Unknown
      /\ t.last = None
  BY <1>1, InsideFacts
<1>3. pos.zone \in Zone \ {Unknown}
  BY DEF PromptInv, IndInv, TypeOK
<1>4. ASSUME NEW x \in Session, NEW c \in Body, x.body = c, x.last = None, c.zone # None,
             Put(s, p, RemoveFromZone(x)),
             c.out = "zone" => c.dest = pos'.zone /\ c.stat # "shutdown",
             c.out = "logout" => c.stat = "shutdown",
             pos'.zone \in Zone \ {Unknown}
      PROVE  PromptInv'
  <2> DEFINE d == [ZoneOut(c) EXCEPT !.stat = "disappear"]
             u == RemoveFromZone(x)
  <2>1. d \in Body /\ d.zone = None /\ d.out = c.out /\ d # None
        /\ (c.stat # "shutdown" => d.dest = c.dest)
    <3>1. d \in Body /\ d.zone = None /\ d.out = c.out
          /\ (c.stat # "shutdown" => d.dest = c.dest)
      BY <1>4 DEF ZoneOut, Body
    <3> HIDE DEF d
    <3> QED
      BY <3>1, NoneAssumption
  <2>2. /\ u \in Session /\ u.status = "pending" /\ u.body = d /\ u.last = None
        /\ u.shut = IF c.stat = "shutdown" THEN 1 ELSE 2
    <3>1. u = [x EXCEPT !.status = "pending",
                        !.shut = IF c.stat = "shutdown" THEN 1 ELSE 2, !.body = d]
      BY <1>4 DEF RemoveFromZone
    <3> HIDE DEF d, u
    <3> QED
      BY <1>4, <2>1, <3>1 DEF Session
  <2>3. Put(s, p, u)
    BY <1>4
  <2> HIDE DEF d, u
  <2> QED
    BY <1>1, <1>4, <2>1, <2>2, <2>3, LeavesZoneFits
<1>5. ASSUME b.stat = "shutdown", pos' = pos,
             Put(s, p, RemoveFromZone([t EXCEPT !.body = SendDisconnect(b)]))
      PROVE  PromptInv'
  <2> DEFINE c == SendDisconnect(b)
             x == [t EXCEPT !.body = c]
  <2>1. c \in Body /\ c.zone = b.zone /\ c.stat = "shutdown" /\ c.out = "logout"
    BY <1>2, SendDisconnectFacts
  <2> HIDE DEF c
  <2>2. x \in Session /\ x.body = c /\ x.last = None
    BY <1>2, <2>1 DEF Session
  <2>3. Put(s, p, RemoveFromZone(x))
    BY <1>5 DEF c
  <2> HIDE DEF x
  <2> QED
    BY <1>2, <1>3, <1>4, <1>5, <2>1, <2>2, <2>3
<1>6. ASSUME b.stat # "shutdown", pos' = pos,
             Put(s, p, RemoveFromZone([t EXCEPT !.body.leaving = TRUE]))
      PROVE  PromptInv'
  <2> DEFINE c == [b EXCEPT !.leaving = TRUE]
             x == [t EXCEPT !.body = c]
  <2>1. c \in Body /\ c.zone = b.zone /\ c.stat = b.stat /\ c.out = "none"
    BY <1>2 DEF Body
  <2>2. [t EXCEPT !.body.leaving = TRUE] = x
    BY <1>2 DEF Session
  <2> HIDE DEF c
  <2>3. x \in Session /\ x.body = c /\ x.last = None
    BY <1>2, <2>1 DEF Session
  <2>4. Put(s, p, RemoveFromZone(x))
    BY <1>6, <2>2
  <2> HIDE DEF x
  <2> QED
    BY <1>2, <1>3, <1>4, <1>6, <2>1, <2>3, <2>4
<1>7. ASSUME NEW z \in Zone \ {Unknown}, NEW mog \in BOOLEAN, SendToZone(s, p, z, mog)
      PROVE  PromptInv'
  <2> DEFINE c == [b EXCEPT !.dest = z, !.stat = "disappear", !.leaving = TRUE,
                            !.warp = FALSE, !.out = "zone"]
             x == [t EXCEPT !.last = None, !.body = c]
  <2>1. c \in Body /\ c.zone = b.zone /\ c.stat = "disappear" /\ c.out = "zone" /\ c.dest = z
    BY <1>2 DEF Body
  <2>2. Put(s, p, RemoveFromZone(x)) /\ pos'.zone = z
    BY <1>7 DEF SendToZone, SavedPosition
  <2> HIDE DEF c
  <2>3. x \in Session /\ x.body = c /\ x.last = None
    BY <1>2, <2>1 DEF Session
  <2> HIDE DEF x
  <2> QED
    BY <1>2, <1>4, <2>1, <2>2, <2>3
<1>8. Home \in Zone \ {Unknown}
  BY ConstantsAssumption DEF Prompt
<1>9. \/ /\ b.stat = "shutdown" /\ pos' = pos
         /\ Put(s, p, RemoveFromZone([t EXCEPT !.body = SendDisconnect(b)]))
      \/ /\ b.stat # "shutdown" /\ pos' = pos
         /\ Put(s, p, RemoveFromZone([t EXCEPT !.body.leaving = TRUE]))
      \/ \E mog \in BOOLEAN : SendToZone(s, p, Home, mog)
      \/ /\ b.stat # "shutdown" /\ b.dest # None /\ ~b.warp /\ (b.leaving \/ b.warp)
         /\ \E mog \in BOOLEAN : SendToZone(s, p, b.dest, mog)
  BY DEF ZoneTick, Prompt
<1>10. ASSUME b.stat # "shutdown", b.dest # None, ~b.warp, b.leaving \/ b.warp
       PROVE  b.dest \in Zone \ {Unknown}
  BY <1>2, <1>10 DEF Body
<1> QED
  BY <1>5, <1>6, <1>7, <1>8, <1>9, <1>10

-----------------------------------------------------------------------------
(* Time-outs and messages. *)

\* A session is marked: expired, kept alive, or no longer to be used.
LEMMA MarkFits ==
  ASSUME IndInv, IndInv', PromptInv, NEW s \in Server, NEW p \in Port, sess[s][p] # None,
         NEW u \in Session, Put(s, p, u),
         u.status = sess[s][p].status, u.body = sess[s][p].body,
         u.shut = sess[s][p].shut, u.last = sess[s][p].last,
         UNCHANGED <<row, pos, up, ghost, client>>, LessNews
  PROVE  PromptInv'
<1>1. SessionFits(s, sess[s][p], row, pos.zone) /\ u # None
  BY NoneAssumption DEF PromptInv, SessionsFit
<1>2. SessionFits(s, u, row, pos.zone) /\ (Live(sess[s][p]) => Live(u))
  BY <1>1 DEF SessionFits, InZone, Live
<1> QED
  BY <1>2, InPlace DEF ClientMoves, SameSpot

\* A session that nobody refreshes goes, with the row if it is this server's.
LEMMA TimeoutsFit ==
  ASSUME IndInv, IndInv', PromptInv, NEW s \in Server, NEW p \in Port,
         ExpireSession(s, p) \/ CleanupSession(s, p)
  PROVE  PromptInv'
<1>1. CASE ExpireSession(s, p)
  <2> DEFINE t == sess[s][p]
             u == [t EXCEPT !.expired = TRUE]
  <2>1. /\ t # None /\ Put(s, p, u)
        /\ UNCHANGED <<row, pos, up, ghost, client, pend, wq, mq>>
    BY <1>1 DEF ExpireSession, Rest
  <2>2. /\ u \in Session /\ u.status = t.status /\ u.body = t.body
        /\ u.shut = t.shut /\ u.last = t.last
    <3>1. t \in Session
      BY <2>1, HereFacts
    <3> HIDE DEF t
    <3> QED
      BY <3>1 DEF Session
  <2> HIDE DEF u
  <2> QED
    BY <2>1, <2>2, MarkFits, SameNews
<1>2. CASE CleanupSession(s, p)
  <2>1. /\ sess[s][p] # None /\ Put(s, p, None) /\ row' = CleanedRow(s)
        /\ UNCHANGED <<pos, pend, ghost, wq, mq, up, crashes, client>>
    BY <1>2 DEF CleanupSession
  <2>2. \/ row' = None /\ (row # None => row.server = s)
        \/ row' = row /\ ~Owner(row, s)
    BY <2>1 DEF CleanedRow, Owner, Named
  <2>3. SameSpot /\ LessNews
    BY <2>1, SameNews DEF SameSpot
  <2> QED
    BY <2>1, <2>2, <2>3, SessionGoes
<1> QED
  BY <1>1, <1>2

\* The row that a forgotten pending session deletes is of the server it is pending at,
\* which has no session.
LEMMA PendingTimeoutsFit ==
  ASSUME IndInv, IndInv', PromptInv, NEW s \in Server,
         ExpirePending(s) \/ CleanupPending(s)
  PROVE  PromptInv'
<1>1. CASE ExpirePending(s)
  <2>1. /\ UNCHANGED <<sess, row, pos, up, ghost, client, wq, mq>>
        /\ \A x \in Server : pend'[x] # "none" => pend[x] # "none"
    BY <1>1 DEF ExpirePending, Rest, IndInv, TypeOK
  <2>2. LessNews /\ SameSpot
    BY <2>1 DEF LessNews, SameSpot
  <2> QED
    BY <2>1, <2>2, SameSessions
<1>2. CASE CleanupPending(s)
  <2>1. /\ pend[s] # "none" /\ row' = None
        /\ UNCHANGED <<pos, sess, ghost, wq, mq, up, crashes, client>>
        /\ \A x \in Server : pend'[x] # "none" => pend[x] # "none"
    BY <1>2 DEF CleanupPending, IndInv, TypeOK
  <2>2. LessNews /\ SameSpot
    BY <2>1 DEF LessNews, SameSpot
  <2>3. s = ServerOf[pos.zone] /\ Sessions(s) = {} /\ (row # None => row.portZero)
    BY <2>1, HereFacts DEF PromptInv, NewsFits, RowFits, NoNews
  <2>4. \A x \in Server : Sessions(x) # {} => ~Named(row, x)
    BY <2>3 DEF PromptInv, RowFits, Named
  <2> QED
    BY <2>1, <2>2, <2>4, RowGoes
<1> QED
  BY <1>1, <1>2

\* The world server passes a message on; a CharZone goes where it is bound for.
LEMMA WorldRouteFits ==
  ASSUME IndInv, IndInv', PromptInv, NEW x \in Sender, WorldRoute(x)
  PROVE  PromptInv'
<1> DEFINE m == Head(wq[x])
           to == Route(m) \cap up
<1>1. /\ wq[x] # << >> /\ wq' = [wq EXCEPT ![x] = Tail(@)]
      /\ mq' = [s \in Server |-> IF s \in to THEN Append(mq[s], m) ELSE mq[s]]
      /\ UNCHANGED <<row, pos, sess, pend, ghost, up, crashes, client>>
  BY DEF WorldRoute, Deliver
<1>2. /\ wq \in [Sender -> Seq(Message)] /\ mq \in [Server -> Seq(Message)]
      /\ wq[x] \in Seq(Message) /\ m \in Message
      /\ m \in Mail(wq[x]) /\ Mail(Tail(wq[x])) \subseteq Mail(wq[x])
  BY <1>1, MailTail DEF IndInv, TypeOK
<1>3. \A y \in Sender : Mail(wq'[y]) \subseteq Mail(wq[y])
  BY <1>1, <1>2
<1>4. ASSUME NEW s \in Server
      PROVE  /\ Mail(mq'[s]) \subseteq Mail(mq[s]) \cup {m}
             /\ s \notin to => mq'[s] = mq[s]
  <2>1. Mail(Append(mq[s], m)) \subseteq Mail(mq[s]) \cup {m}
    BY <1>2, MailAppend
  <2> HIDE DEF m, to
  <2>2. mq'[s] = IF s \in to THEN Append(mq[s], m) ELSE mq[s]
    BY <1>1
  <2> QED
    BY <2>1, <2>2
<1>5. News' \subseteq News
  <2>1. \A y \in Sender : \A n \in Mail(wq'[y]) : n \in Mail(wq[y])
    BY <1>3
  <2>2. \A s \in Server : \A n \in Mail(mq'[s]) :
          n \in Mail(mq[s]) \/ \E y \in Sender : n \in Mail(wq[y])
    BY <1>2, <1>4
  <2> QED
    BY <2>1, <2>2, NewsShrinks
<1>6. m.type = "CharZone" => to \subseteq {ServerOf[pos.zone]}
  BY <1>2 DEF Route, PromptInv, NewsFits
<1> HIDE DEF m, to
<1>7. NewsFits'
  BY <1>1, <1>3, <1>4, <1>6 DEF PromptInv, NewsFits
<1>8. NoNews => NoNews'
  BY <1>1, <1>5 DEF NoNews
<1>9. SessionsFit' /\ ClientFits' /\ RowFits'
  BY <1>1, <1>8 DEF PromptInv, SessionsFit, ClientFits, RowFits, Reclaimable, Sessions
<1>10. DownFits'
  BY <1>1, <1>4 DEF PromptInv, DownFits, Sessions, to
<1> QED
  BY <1>1, <1>7, <1>9, <1>10 DEF PromptInv, MembersAlive

\* What a map server takes from its queue was there, and it is running.
LEMMA HandleFacts ==
  ASSUME IndInv, PromptInv, NEW s \in Server, NEW type, Handle(s, type)
  PROVE  /\ \E m \in Mail(mq[s]) : m.type = type
         /\ s \in up
         /\ \A x \in Server : /\ Mail(mq'[x]) \subseteq Mail(mq[x])
                              /\ mq[x] = << >> => mq'[x] = << >>
         /\ UNCHANGED <<pos, ghost, wq, up, crashes, client>>
<1>1. /\ mq[s] # << >> /\ Head(mq[s]).type = type
      /\ mq' = [mq EXCEPT ![s] = Tail(@)]
      /\ UNCHANGED <<pos, ghost, wq, up, crashes, client>>
  BY DEF Handle
<1>2. mq \in [Server -> Seq(Message)] /\ mq[s] \in Seq(Message)
  BY DEF IndInv, TypeOK
<1>3. Head(mq[s]) \in Mail(mq[s]) /\ Mail(Tail(mq[s])) \subseteq Mail(mq[s])
  BY <1>1, <1>2, MailTail
<1> QED
  BY <1>1, <1>2, <1>3 DEF PromptInv, DownFits

\* A message that takes the session's key away.
LEMMA HandleAccountLoginFits ==
  ASSUME IndInv, IndInv', PromptInv, NEW s \in Server, HandleAccountLogin(s)
  PROVE  PromptInv'
<1>1. Handle(s, "AccountLogin") /\ row' = row /\ pend' = pend
  BY DEF HandleAccountLogin
<1>2. LessNews /\ UNCHANGED <<pos, ghost, up, client>>
  BY <1>1, HandleFacts DEF LessNews
<1>3. CASE sess' = sess
  BY <1>1, <1>2, <1>3, SameSessions DEF SameSpot
<1>4. ASSUME NEW p \in Sessions(s),
             Put(s, p, [sess[s][p] EXCEPT !.forced = TRUE, !.key = None, !.prev = None])
      PROVE  PromptInv'
  <2> DEFINE t == sess[s][p]
             u == [t EXCEPT !.forced = TRUE, !.key = None, !.prev = None]
  <2>1. p \in Port /\ t # None
    BY DEF Sessions
  <2>2. /\ u \in Session /\ u.status = t.status /\ u.body = t.body
        /\ u.shut = t.shut /\ u.last = t.last
    <3>1. t \in Session
      BY <2>1, HereFacts
    <3> HIDE DEF t
    <3> QED
      BY <3>1 DEF Session, MaybeKey
  <2>3. Put(s, p, u)
    BY <1>4
  <2> HIDE DEF u
  <2> QED
    BY <1>1, <1>2, <2>1, <2>2, <2>3, MarkFits
<1> QED
  BY <1>3, <1>4 DEF HandleAccountLogin

\* A CharZone that arrives is at the server of the saved zone.
LEMMA HandleCharZoneFits ==
  ASSUME IndInv, IndInv', PromptInv, NEW s \in Server, HandleCharZone(s)
  PROVE  PromptInv'
<1>1. Handle(s, "CharZone") /\ row' = row
  BY DEF HandleCharZone
<1>2. /\ \E m \in Mail(mq[s]) : m.type = "CharZone"
      /\ s \in up
      /\ \A x \in Server : /\ Mail(mq'[x]) \subseteq Mail(mq[x])
                           /\ mq[x] = << >> => mq'[x] = << >>
      /\ UNCHANGED <<pos, ghost, wq, up, crashes, client>>
  BY <1>1, HandleFacts
<1>3. s = ServerOf[pos.zone] /\ ~NoNews
  BY <1>2, NewsFacts DEF PromptInv, NewsFits, NoNews
<1>4. CASE pend' = [pend EXCEPT ![s] = "fresh"] /\ sess' = sess
  <2>1. \A x \in Server : x # s => pend'[x] = pend[x]
    BY <1>4 DEF IndInv, TypeOK
  <2>2. NewsFits'
    BY <1>2, <1>3, <2>1 DEF PromptInv, NewsFits
  <2>3. RowFits'
    BY <1>1, <1>2, <1>3 DEF PromptInv, RowFits, Reclaimable
  <2>4. SessionsFit' /\ ClientFits'
    BY <1>1, <1>2, <1>4 DEF PromptInv, SessionsFit, ClientFits, Sessions
  <2>5. DownFits'
    BY <1>2, <1>4, <2>1 DEF PromptInv, DownFits, Sessions
  <2> QED
    BY <1>2, <2>2, <2>3, <2>4, <2>5 DEF PromptInv, MembersAlive
<1>5. ASSUME pend' = pend, NEW p \in Sessions(s), Put(s, p, Tap(sess[s][p]))
      PROVE  PromptInv'
  <2> DEFINE t == sess[s][p]
             u == Tap(t)
  <2>1. p \in Port /\ t # None
    BY DEF Sessions
  <2>2. /\ u \in Session /\ u.status = t.status /\ u.body = t.body
        /\ u.shut = t.shut /\ u.last = t.last
    <3>1. t \in Session
      BY <2>1, HereFacts
    <3> HIDE DEF t
    <3> QED
      BY <3>1 DEF Session, Tap
  <2>3. LessNews
    BY <1>2, <1>5 DEF LessNews
  <2>4. Put(s, p, u)
    BY <1>5
  <2> HIDE DEF u
  <2> QED
    BY <1>1, <1>2, <2>1, <2>2, <2>3, <2>4, MarkFits
<1> QED
  BY <1>4, <1>5 DEF HandleCharZone

\* A KillSession that arrives finds no character in a zone and nobody leaving one: it can
\* only take away a session whose 0x00B has left.
LEMMA HandleKillSessionFits ==
  ASSUME IndInv, IndInv', PromptInv, NEW s \in Server, HandleKillSession(s)
  PROVE  PromptInv'
<1>1. Handle(s, "KillSession") /\ pend' = pend
  BY DEF HandleKillSession
<1>2. /\ \E m \in Mail(mq[s]) : m.type = "KillSession"
      /\ UNCHANGED <<pos, ghost, wq, up, crashes, client>>
      /\ LessNews
  BY <1>1, HandleFacts DEF LessNews
<1>3. ~NoNews
  BY <1>2, NewsFacts DEF NoNews
<1>4. ~Owner(row, s)
  BY <1>3 DEF PromptInv, RowFits, Owner, Named
<1>5. CASE sess' = sess /\ row' = row
  BY <1>1, <1>2, <1>5, SameSessions DEF SameSpot
<1>6. ASSUME NEW p \in Sessions(s), sess[s][p].status = "pending",
             row' = IF sess[s][p].shut = 1 THEN None ELSE row, Put(s, p, None)
      PROVE  PromptInv'
  <2>1. p \in Port /\ sess[s][p] # None
    BY DEF Sessions
  <2>2. sess[s][p].shut # 1
    BY <1>4, <1>6, <2>1, RowOfSession
  <2> QED
    BY <1>1, <1>2, <1>4, <1>6, <2>1, <2>2, SessionGoes DEF SameSpot
<1>7. ASSUME NEW p \in Sessions(s), sess[s][p].status = "accepted"
      PROVE  FALSE
  <2>1. p \in Port /\ sess[s][p] # None
    BY DEF Sessions
  <2> QED
    BY <1>4, <1>7, <2>1 DEF PromptInv, SessionsFit, SessionFits, Live
<1> QED
  BY <1>5, <1>6, <1>7 DEF HandleKillSession

-----------------------------------------------------------------------------
(* The lobby, and failures. *)

\* Authentication, refusals and a client that goes.
LEMMA LobbyFits ==
  ASSUME IndInv, IndInv', PromptInv,
         (\E p \in Port : Authenticate(p)) \/ RefuseSelection \/ ClientGone
  PROVE  PromptInv'
<1>1. ASSUME NEW p \in Port, Authenticate(p) PROVE PromptInv'
  <2>1. /\ Send(Login, <<AccountLogin>>) /\ client'.server = None
        /\ UNCHANGED <<row, pos, mq, sess, pend, ghost, up, crashes>>
    BY <1>1 DEF Authenticate, Idle, server
  <2>2. /\ Login \in Sender /\ wq \in [Sender -> Seq(Message)] /\ wq[Login] \in Seq(Message)
        /\ AccountLogin \in Message
    BY DEF IndInv, TypeOK, Sender, AccountLogin, Message
  <2>3. Mail(wq[Login] \o <<AccountLogin>>) \subseteq Mail(wq[Login]) \cup {AccountLogin}
    BY <2>2, MailAppend
  <2>4. LessNews
    BY <2>1, <2>2, <2>3 DEF LessNews, Send
  <2> QED
    BY <2>1, <2>4, SameSessions
<1>2. ASSUME RefuseSelection PROVE PromptInv'
  <2>1. /\ client.phase = "lobby" /\ Reclaimable /\ row' = None
        /\ UNCHANGED <<pos, wq, mq, client, sess, pend, ghost, up, crashes>>
    BY <1>2 DEF RefuseSelection, server
  <2>2. \A s \in Server, p \in Port : sess[s][p] # None =>
          ~Live(sess[s][p]) /\ sess[s][p].status # "waiting"
    BY <2>1 DEF PromptInv, RowFits, SessionsFit, SessionFits, Owner, Named, Reclaimable
  <2> QED
    BY <2>1, <2>2, RowGoes, SameNews DEF SameSpot
<1>3. ASSUME ClientGone PROVE PromptInv'
  <2>1. /\ client'.server = None
        /\ UNCHANGED <<row, pos, wq, mq, sess, pend, ghost, up, crashes>>
    BY <1>3 DEF ClientGone, Idle, server
  <2> QED
    BY <2>1, SameSessions, SameNews
<1> QED
  BY <1>1, <1>2, <1>3

\* A new row names the server of the saved zone, where the client is sent; no session
\* has a claim on the one before.
LEMMA SelectFits ==
  ASSUME IndInv, IndInv', PromptInv, NEW v \in BOOLEAN, SelectCharacter(v)
  PROVE  PromptInv'
<1> DEFINE y == ServerOf[pos.zone]
<1>1. /\ client.phase = "lobby" /\ (row = None \/ Reclaimable)
      /\ row'.server = y /\ row'.portZero = TRUE /\ row'.stale = FALSE
      /\ pos'.zone = pos.zone
      /\ \/ client'.phase = "connect" /\ client'.server = y /\ Send(Login, <<CharZone(pos.zone)>>)
         \/ client'.server = None /\ wq' = wq
      /\ UNCHANGED <<mq, sess, pend, ghost, up, crashes>>
  <2>1. LobbyZone = pos.zone
    BY DEF LobbyZone, PromptInv
  <2>2. client \in Client /\ pos \in [zone : Zone, prev : Zone]
    BY DEF IndInv, TypeOK
  <2> QED
    BY <2>1, <2>2 DEF SelectCharacter, Idle, server, Client
<1>2. row' # None
  <2>1. row' = [server |-> y, key |-> [login |-> client.logins + 1, zonings |-> 0],
                portZero |-> TRUE, stale |-> FALSE]
    BY DEF SelectCharacter, LobbyZone, PromptInv
  <2>2. row' \in Row
    <3>1. client \in Client /\ pos.zone \in Zone
      BY DEF IndInv, TypeOK
    <3>2. client.logins + 1 \in Nat
      BY <3>1 DEF Client
    <3>3. y \in Server
      BY <3>1, ConstantsAssumption
    <3> QED
      BY <2>1, <3>2, <3>3 DEF Row, MaybeKey, Key
  <2> QED
    BY <2>2, NoneAssumption
<1>3. SessionsFit'
  <2> SUFFICES ASSUME NEW s \in Server, NEW p \in Port, sess[s][p] # None
               PROVE  SessionFits(s, sess[s][p], row', pos.zone)
    BY <1>1 DEF SessionsFit
  <2>1. sess[s][p] \in Session /\ SessionFits(s, sess[s][p], row, pos.zone)
    BY HereFacts DEF PromptInv, SessionsFit
  <2>2. ~Live(sess[s][p]) /\ sess[s][p].status # "waiting"
    BY <1>1, <2>1 DEF PromptInv, RowFits, SessionFits, Owner, Named, Reclaimable
  <2>3. SessionFits(s, sess[s][p], None, pos.zone)
    BY <2>1, <2>2 DEF SessionFits
  <2> QED
    BY <2>1, <2>3, FitsAnyRow DEF Named
<1>4. NewsFits'
  <2>1. pos.zone \in Zone
    BY DEF IndInv, TypeOK
  <2>2. /\ Login \in Sender /\ wq \in [Sender -> Seq(Message)] /\ wq[Login] \in Seq(Message)
        /\ CharZone(pos.zone) \in Message
    BY <2>1 DEF IndInv, TypeOK, Sender, CharZone, Message
  <2>3. Mail(wq[Login] \o <<CharZone(pos.zone)>>) \subseteq Mail(wq[Login]) \cup {CharZone(pos.zone)}
    BY <2>2, MailAppend
  <2>4. \A x \in Sender : Mail(wq'[x]) \subseteq Mail(wq[x]) \cup {CharZone(pos.zone)}
    BY <1>1, <2>2, <2>3 DEF Send
  <2> QED
    BY <1>1, <2>4 DEF PromptInv, NewsFits, CharZone
<1>5. RowFits'
  BY <1>1 DEF RowFits, Reclaimable
<1>6. ClientFits'
  BY <1>1, <1>2, NoneAssumption DEF ClientFits, Named
<1>7. DownFits'
  BY <1>1 DEF PromptInv, DownFits, Sessions
<1> QED
  BY <1>1, <1>3, <1>4, <1>5, <1>6, <1>7 DEF PromptInv, MembersAlive

\* By the time the row is stale all news is old and nobody waits to come in.
LEMMA RowStaleFits ==
  ASSUME IndInv, IndInv', PromptInv, RowStale
  PROVE  PromptInv'
<1>1. /\ row # None /\ row.portZero /\ Drained
      /\ \A s \in Server : /\ pend[s] = "none"
                           /\ \A p \in Sessions(s) : sess[s][p].status = "accepted"
      /\ row' = [row EXCEPT !.stale = TRUE]
      /\ UNCHANGED <<pos, wq, mq, client, sess, pend, ghost, up, crashes>>
  BY DEF RowStale, Quiet, server
<1>2. /\ row' # None /\ row'.portZero /\ row'.server = row.server
  <2>1. row \in Row
    BY <1>1 DEF IndInv, TypeOK
  <2>2. row' \in Row /\ row'.portZero /\ row'.server = row.server
    BY <1>1, <2>1 DEF Row
  <2> QED
    BY <2>2, NoneAssumption
<1>3. NoNews'
  <2>1. NoNews
    BY <1>1, DrainedNews DEF NoNews
  <2>2. LessNews
    BY <1>1, SameNews
  <2> QED
    BY <1>1, <2>1, <2>2, LessNewsKeeps
<1>4. SessionsFit'
  BY <1>1, <1>2 DEF PromptInv, SessionsFit, SessionFits, Owner, Named
<1>5. RowFits'
  BY <1>1, <1>2, <1>3 DEF PromptInv, RowFits, Sessions
<1>6. NewsFits' /\ ClientFits' /\ DownFits'
  BY <1>1, <1>2 DEF PromptInv, NewsFits, ClientFits, DownFits, Sessions, Named
<1> QED
  BY <1>1, <1>4, <1>5, <1>6 DEF PromptInv, MembersAlive

\* A server that dies leaves a row that names no running server.
LEMMA CrashFits ==
  ASSUME IndInv, IndInv', PromptInv, NEW s \in Server, Crash(s)
  PROVE  PromptInv'
<1>1. /\ up' = up \ {s} /\ UNCHANGED <<row, pos, client>>
      /\ sess' = [sess EXCEPT ![s] = [p \in Port |-> None]]
      /\ pend' = [pend EXCEPT ![s] = "none"]
      /\ ghost' = [ghost EXCEPT ![s] = {}]
      /\ mq' = [mq EXCEPT ![s] = << >>]
      /\ wq' \in {wq, [wq EXCEPT ![s] = << >>]}
  BY DEF Crash
<1>2. /\ pend'[s] = "none" /\ mq'[s] = << >> /\ ghost'[s] = {}
      /\ \A p \in Port : sess'[s][p] = None
      /\ \A x \in Server : x # s =>
           /\ pend'[x] = pend[x] /\ mq'[x] = mq[x] /\ ghost'[x] = ghost[x]
           /\ sess'[x] = sess[x]
      /\ \A x \in Sender : wq'[x] \in {wq[x], << >>}
  BY <1>1 DEF IndInv, TypeOK, Sender
<1>3. /\ Sessions(s)' = {}
      /\ \A x \in Server : x # s => Sessions(x)' = Sessions(x)
  BY <1>2 DEF Sessions
<1>4. LessNews
  BY <1>2, MailEmpty DEF LessNews
<1>5. NewsFits' /\ (NoNews => NoNews')
  BY <1>1, <1>4, LessNewsKeeps
<1>6. SessionsFit'
  BY <1>1, <1>2 DEF PromptInv, SessionsFit
<1>7. RowFits'
  <2>1. row # None => row.server \in Server
    BY DEF IndInv, TypeOK, Row
  <2>2. row # None /\ row.server # s => sess'[row.server] = sess[row.server]
    BY <1>2, <2>1
  <2>3. \A x \in Server, p \in Port : sess'[x][p] # None => sess'[x][p] = sess[x][p]
    BY <1>2
  <2> QED
    BY <1>1, <1>5, <2>1, <2>2, <2>3 DEF PromptInv, RowFits, Reclaimable
<1>8. ClientFits'
  BY <1>1, <1>2, <1>3 DEF PromptInv, ClientFits
<1>9. DownFits'
  BY <1>1, <1>2, <1>3 DEF PromptInv, DownFits
<1>10. MembersAlive'
  BY <1>2 DEF PromptInv, MembersAlive
<1> QED
  BY <1>1, <1>5, <1>6, <1>7, <1>8, <1>9, <1>10 DEF PromptInv

\* A server that starts deletes the row that named it; it has no session.
LEMMA StartFits ==
  ASSUME IndInv, IndInv', PromptInv, NEW s \in Server, Start(s)
  PROVE  PromptInv'
<1>1. /\ s \notin up /\ up' = up \cup {s}
      /\ row' = IF LeftBehind(s) THEN None ELSE row
      /\ UNCHANGED <<pos, sess, pend, ghost, wq, mq, crashes, client>>
  BY DEF Start
<1>2. LessNews /\ SameSpot
  BY <1>1, SameNews DEF SameSpot
<1>3. CASE LeftBehind(s)
  <2>1. \A x \in Server : Sessions(x) # {} => ~Named(row, x)
    BY <1>1, <1>3 DEF LeftBehind, Named, PromptInv, DownFits
  <2> QED
    BY <1>1, <1>2, <1>3, <2>1, RowGoes
<1>4. CASE ~LeftBehind(s)
  BY <1>1, <1>2, <1>4, SameSessions DEF LeftBehind
<1> QED
  BY <1>3, <1>4

-----------------------------------------------------------------------------
(* The theorems. *)

\* At the start there is nothing to fit.
LEMMA PromptInit == Init => PromptInv
<1> SUFFICES ASSUME Init PROVE PromptInv
  OBVIOUS
<1>1. \A s \in Server, p \in Port : sess[s][p] = None
  BY DEF Init
<1>2. SessionsFit
  BY <1>1 DEF SessionsFit
<1>3. NewsFits
  BY MailEmpty DEF Init, NewsFits
<1>4. RowFits
  BY DEF Init, RowFits
<1>5. ClientFits
  BY NoneAssumption DEF Init, ClientFits
<1>6. DownFits
  BY DEF Init, DownFits
<1>7. MembersAlive /\ pos.zone # Unknown
  BY DEF Init, MembersAlive
<1> QED
  BY <1>2, <1>3, <1>4, <1>5, <1>6, <1>7 DEF PromptInv

\* Every step of a deployment with prompt messages keeps the invariant.
LEMMA PromptKeeps ==
  ASSUME Prompt, IndInv, IndInv', PromptInv, [Next]_vars
  PROVE  PromptInv'
<1>1. ASSUME NEW s \in Server, NEW p \in Port, SessionStep(s, p)
      PROVE  PromptInv'
  <2>1. CASE FirstLogin(s, p)
    BY <2>1, FirstLoginFits
  <2>2. CASE AcceptLogin(s, p)
    BY <2>2, AcceptLoginFits DEF Prompt
  <2>3. CASE RepeatLogin(s, p)
    BY <2>3, RepeatLoginFits
  <2>4. CASE \E d \in Zone \cup {None} : GamePacket(s, p, d)
    BY <2>4, GamePacketFits
  <2>5. CASE LatePacket(s, p)
    BY <2>5, LatePacketFits
  <2>6. CASE Warp(s, p) \/ LeaveGame(s, p) \/ \E z \in Zone : SendPlayerToLocation(s, p, z)
    BY <2>6, ToldFits
  <2>7. CASE ZoneTick(s, p)
    BY <2>7, ZoneTickFits
  <2>8. CASE GhostTick(s, p)
    BY <2>8 DEF GhostTick, PromptInv, MembersAlive
  <2>9. CASE ExpireSession(s, p) \/ CleanupSession(s, p)
    BY <2>9, TimeoutsFit
  <2> QED
    BY <1>1, <2>1, <2>2, <2>3, <2>4, <2>5, <2>6, <2>7, <2>8, <2>9 DEF SessionStep
<1>2. ASSUME NEW s \in Server, ServerStep(s)
      PROVE  PromptInv'
  <2>1. CASE ExpirePending(s) \/ CleanupPending(s)
    BY <2>1, PendingTimeoutsFit
  <2>2. CASE HandleAccountLogin(s)
    BY <2>2, HandleAccountLoginFits
  <2>3. CASE HandleCharZone(s)
    BY <2>3, HandleCharZoneFits
  <2>4. CASE HandleKillSession(s)
    BY <2>4, HandleKillSessionFits
  <2>5. CASE Crash(s)
    BY <2>5, CrashFits
  <2>6. CASE Start(s)
    BY <2>6, StartFits
  <2> QED
    BY <1>2, <2>1, <2>2, <2>3, <2>4, <2>5, <2>6 DEF ServerStep
<1>3. ASSUME NEW x \in Sender, WorldRoute(x)
      PROVE  PromptInv'
  BY <1>3, WorldRouteFits
<1>4. ASSUME LobbyStep PROVE PromptInv'
  BY <1>4, LobbyFits, SelectFits, RowStaleFits DEF LobbyStep
<1>5. CASE UNCHANGED vars
  <2>1. LessNews /\ SameSpot
    BY <1>5, SameNews DEF vars, SameSpot
  <2> QED
    BY <1>5, <2>1, SameSessions DEF vars
<1> QED
  BY <1>1, <1>2, <1>3, <1>4, <1>5 DEF Next

-----------------------------------------------------------------------------
(* What ends a session whose character is in a zone. *)

\* A session that is written is not destroyed.
LEMMA PutStays ==
  ASSUME IndInv, NEW s \in Server, NEW p \in Port, sess[s][p] # None,
         NEW x \in Server, NEW q \in Port, NEW u \in Session, Put(x, q, u)
  PROVE  sess'[s][p] # None
BY PutFacts, NoneAssumption

\* Nor one that a packet is parsed for, unless it logs out.
LEMMA PacketStays ==
  ASSUME IndInv, NEW s \in Server, NEW p \in Port, sess[s][p] # None,
         NEW u \in Session, u.shut # 1, u.body \in Body,
         u.body.out = "zone" => u.body.dest # None,
         \/ SendParse(s, p, u)
         \/ Conclude(s, p, u, row)
  PROVE  sess'[s][p] # None
<1>1. CASE Conclude(s, p, u, row)
  BY <1>1, PutStays DEF Conclude, LoggingOut
<1>2. CASE SendParse(s, p, u) /\ u.body.out = "none"
  BY <1>2, PutStays DEF SendParse, Conclude, LoggingOut
<1>3. CASE SendParse(s, p, u) /\ u.body.out # "none"
  <2>1. TypeOK
    BY DEF IndInv
  <2>2. Flush(u) \in Session
    BY <1>3, <2>1, FlushFacts
  <2>3. Flush(u).shut = u.shut
    BY DEF Flush, Session
  <2>4. Conclude(s, p, Flush(u), FlushedRow(u))
    BY <1>3 DEF SendParse
  <2> QED
    BY <2>2, <2>3, <2>4, PutStays DEF Conclude, LoggingOut
<1> QED
  BY <1>1, <1>2, <1>3

\* Packets for other sessions, and what else happens to them, leave a session alone.
LEMMA StepElsewhere ==
  ASSUME IndInv, PromptInv, NEW s \in Server, NEW p \in Port,
         NEW x \in Server, NEW q \in Port, x # s \/ q # p, SessionStep(x, q)
  PROVE  sess'[s][p] = sess[s][p]
<1>1. ASSUME NEW u, Put(x, q, u) PROVE sess'[s][p] = sess[s][p]
  BY <1>1, PutFacts
<1>2. ASSUME NEW u, NEW r, Conclude(x, q, u, r) PROVE sess'[s][p] = sess[s][p]
  BY <1>1, <1>2 DEF Conclude
<1>3. ASSUME NEW u, SendParse(x, q, u) PROVE sess'[s][p] = sess[s][p]
  BY <1>2, <1>3 DEF SendParse
<1>4. CASE FirstLogin(x, q)
  BY <1>1, <1>4 DEF FirstLogin
<1>5. CASE AcceptLogin(x, q)
  BY <1>1, <1>5 DEF AcceptLogin
<1>6. CASE RepeatLogin(x, q)
  BY <1>3, <1>6 DEF RepeatLogin
<1>7. CASE \E d \in Zone \cup {None} : GamePacket(x, q, d)
  BY <1>2, <1>3, <1>7 DEF GamePacket
<1>8. CASE LatePacket(x, q)
  BY <1>2, <1>8 DEF LatePacket
<1>9. CASE Warp(x, q) \/ LeaveGame(x, q) \/ \E z \in Zone : SendPlayerToLocation(x, q, z)
  BY <1>1, <1>9 DEF Warp, LeaveGame, SendPlayerToLocation
<1>10. CASE ZoneTick(x, q)
  BY <1>1, <1>10 DEF ZoneTick, SendToZone
<1>11. CASE GhostTick(x, q)
  BY <1>11 DEF GhostTick, PromptInv, MembersAlive
<1>12. CASE ExpireSession(x, q) \/ CleanupSession(x, q)
  BY <1>1, <1>12 DEF ExpireSession, CleanupSession
<1> QED
  BY <1>4, <1>5, <1>6, <1>7, <1>8, <1>9, <1>10, <1>11, <1>12 DEF SessionStep

\* A zone tick takes the character out of its zone, and leaves the session.
LEMMA TickStays ==
  ASSUME IndInv, PromptInv, Prompt, NEW s \in Server, NEW p \in Port, ZoneTick(s, p)
  PROVE  sess'[s][p] # None
<1> DEFINE t == sess[s][p]
           b == t.body
<1>1. t # None /\ t \in Session /\ b \in Body /\ b.out = "none"
  BY InsideFacts DEF ZoneTick
<1>2. ASSUME NEW x \in Session, NEW c \in Body, x.body = c,
             c.out = "zone" => c.dest # None, Put(s, p, RemoveFromZone(x))
      PROVE  sess'[s][p] # None
  <2>1. RemoveFromZone(x) \in Session
    BY <1>2, RemoveFacts
  <2> QED
    BY <1>1, <1>2, <2>1, PutStays
<1>3. ASSUME Put(s, p, RemoveFromZone([t EXCEPT !.body = SendDisconnect(b)]))
      PROVE  sess'[s][p] # None
  <2> DEFINE c == SendDisconnect(b)
             x == [t EXCEPT !.body = c]
  <2>1. c \in Body /\ c.out = "logout"
    BY <1>1, SendDisconnectFacts
  <2>2. Put(s, p, RemoveFromZone(x))
    BY <1>3
  <2> HIDE DEF c
  <2>3. x \in Session /\ x.body = c
    BY <1>1, <2>1 DEF Session
  <2> HIDE DEF x
  <2> QED
    BY <1>2, <2>1, <2>2, <2>3
<1>4. ASSUME Put(s, p, RemoveFromZone([t EXCEPT !.body.leaving = TRUE]))
      PROVE  sess'[s][p] # None
  <2> DEFINE c == [b EXCEPT !.leaving = TRUE]
             x == [t EXCEPT !.body = c]
  <2>1. c \in Body /\ c.out = "none"
    BY <1>1 DEF Body
  <2>2. [t EXCEPT !.body.leaving = TRUE] = x
    BY <1>1 DEF Session
  <2> HIDE DEF c
  <2>3. x \in Session /\ x.body = c
    BY <1>1, <2>1 DEF Session
  <2>4. Put(s, p, RemoveFromZone(x))
    BY <1>4, <2>2
  <2> HIDE DEF x
  <2> QED
    BY <1>2, <2>1, <2>3, <2>4
<1>5. ASSUME NEW z \in Zone, NEW mog \in BOOLEAN, SendToZone(s, p, z, mog)
      PROVE  sess'[s][p] # None
  <2> DEFINE c == [b EXCEPT !.dest = z, !.stat = "disappear", !.leaving = TRUE,
                            !.warp = FALSE, !.out = "zone"]
             x == [t EXCEPT !.last = None, !.body = c]
  <2>1. c \in Body /\ c.dest # None
    BY <1>1, NoneAssumption DEF Body
  <2>2. Put(s, p, RemoveFromZone(x))
    BY <1>5 DEF SendToZone
  <2> HIDE DEF c
  <2>3. x \in Session /\ x.body = c
    BY <1>1, <2>1 DEF Session
  <2> HIDE DEF x
  <2> QED
    BY <1>2, <2>1, <2>2, <2>3
<1>6. Home \in Zone /\ (b.dest # None => b.dest \in Zone)
  BY <1>1, ConstantsAssumption DEF Body
<1>7. \/ Put(s, p, RemoveFromZone([t EXCEPT !.body = SendDisconnect(b)]))
      \/ Put(s, p, RemoveFromZone([t EXCEPT !.body.leaving = TRUE]))
      \/ \E mog \in BOOLEAN : SendToZone(s, p, Home, mog)
      \/ b.dest # None /\ \E mog \in BOOLEAN : SendToZone(s, p, b.dest, mog)
  BY DEF ZoneTick, Prompt
<1> QED
  BY <1>3, <1>4, <1>5, <1>6, <1>7

\* A packet never ends the session of a character in a zone.
LEMMA GamePacketStays ==
  ASSUME IndInv, PromptInv, NEW s \in Server, NEW p \in Port, InZone(sess[s][p]),
         \/ RepeatLogin(s, p)
         \/ \E d \in Zone \cup {None} : GamePacket(s, p, d)
         \/ LatePacket(s, p)
  PROVE  sess'[s][p] # None
<1> DEFINE t == sess[s][p]
<1>1. /\ t # None /\ t \in Session /\ t.body \in Body /\ t.shut = 0
      /\ t.body.out = "none"
  BY InsideFacts
<1>2. ASSUME NEW u \in Session, u.shut = t.shut, u.body \in Body, u.body.out = "none",
             SendParse(s, p, u) \/ Conclude(s, p, u, row)
      PROVE  sess'[s][p] # None
  <2> HIDE DEF t
  <2>1. u.shut # 1
    BY <1>1, <1>2
  <2> QED
    BY <1>1, <1>2, <2>1, PacketStays DEF t
<1>3. Tap(t) \in Session /\ Tap(t).shut = t.shut
  BY <1>1, TapFacts DEF Tap, Session
<1>4. CASE RepeatLogin(s, p)
  <2> DEFINE refused == t.body.stat = "normal" /\ t.decrypted
             b == IF refused THEN t.body
                  ELSE [t.body EXCEPT !.out = "none",
                                      !.stat = IF InZone(t) THEN "normal" ELSE @]
             u == [Tap(t) EXCEPT !.body = b, !.last = None]
  <2>1. SendParse(s, p, u)
    BY <1>4 DEF RepeatLogin
  <2>2. b \in Body /\ b.out = "none"
    BY <1>1 DEF Body
  <2> HIDE DEF b
  <2>3. u \in Session /\ u.body = b /\ u.shut = t.shut
    <3> HIDE DEF t
    <3> QED
      BY <1>3, <2>2 DEF Session
  <2> HIDE DEF u
  <2> QED
    BY <1>2, <2>1, <2>2, <2>3
<1>5. ASSUME NEW dest \in Zone \cup {None}, GamePacket(s, p, dest)
      PROVE  sess'[s][p] # None
  <2> DEFINE tapped == IF t.status = "accepted" THEN Tap(t) ELSE t
             c == Command(t.body, dest)
             u == [tapped EXCEPT !.decrypted = TRUE, !.body = c]
  <2>1. SendParse(s, p, u) \/ Conclude(s, p, u, row)
    BY <1>5 DEF GamePacket
  <2>2. c \in Body /\ c.out = "none"
    BY <1>1, <1>5 DEF Command, Body
  <2>3. tapped \in Session /\ tapped.shut = t.shut
    BY <1>1, <1>3
  <2> HIDE DEF tapped, c
  <2>4. u \in Session /\ u.body = c /\ u.shut = t.shut
    <3> HIDE DEF t
    <3> QED
      BY <2>2, <2>3 DEF Session
  <2> HIDE DEF u
  <2> QED
    BY <1>2, <2>1, <2>2, <2>4
<1>6. CASE LatePacket(s, p)
  <2> DEFINE u == [t EXCEPT !.decrypted = @ \/ t.key = client.key]
  <2>1. Conclude(s, p, u, row)
    BY <1>6 DEF LatePacket
  <2>2. u \in Session /\ u.body = t.body /\ u.shut = t.shut
    <3>1. ASSUME NEW d \in BOOLEAN
          PROVE  LET y == [t EXCEPT !.decrypted = d]
                 IN  y \in Session /\ y.body = t.body /\ y.shut = t.shut
      BY <1>1 DEF Session
    <3>2. (t.decrypted \/ t.key = client.key) \in BOOLEAN
      OBVIOUS
    <3>3. u = [t EXCEPT !.decrypted = t.decrypted \/ t.key = client.key]
      OBVIOUS
    <3> HIDE DEF t, u
    <3> QED
      BY <3>1, <3>2, <3>3
  <2> HIDE DEF u
  <2> QED
    BY <1>1, <1>2, <2>1, <2>2
<1> QED
  BY <1>4, <1>5, <1>6

\* What the zone or another player does to a character keeps its session.
LEMMA ToldStays ==
  ASSUME IndInv, PromptInv, NEW s \in Server, NEW p \in Port, InZone(sess[s][p]),
         \/ Warp(s, p) \/ LeaveGame(s, p) \/ \E z \in Zone : SendPlayerToLocation(s, p, z)
         \/ ExpireSession(s, p)
  PROVE  sess'[s][p] # None
<1> DEFINE t == sess[s][p]
<1>1. t # None /\ t \in Session /\ t.body \in Body
  BY InsideFacts
<1>2. ASSUME NEW c \in Body, Put(s, p, [t EXCEPT !.body = c])
      PROVE  sess'[s][p] # None
  <2>1. [t EXCEPT !.body = c] \in Session
    BY <1>1 DEF Session
  <2> QED
    BY <1>1, <1>2, <2>1, PutStays
<1>3. CASE Warp(s, p)
  <2>1. [t.body EXCEPT !.warp = TRUE] \in Body
    BY <1>1 DEF Body
  <2>2. Put(s, p, [t EXCEPT !.body = [t.body EXCEPT !.warp = TRUE]])
    BY <1>3 DEF Warp
  <2> QED
    BY <1>2, <2>1, <2>2
<1>4. CASE LeaveGame(s, p)
  <2>1. [t.body EXCEPT !.stat = "shutdown"] \in Body
    BY <1>1 DEF Body
  <2>2. Put(s, p, [t EXCEPT !.body = [t.body EXCEPT !.stat = "shutdown"]])
    BY <1>4 DEF LeaveGame
  <2> QED
    BY <1>2, <2>1, <2>2
<1>5. ASSUME NEW z \in Zone, SendPlayerToLocation(s, p, z)
      PROVE  sess'[s][p] # None
  <2> DEFINE c == [t.body EXCEPT !.dest = z, !.stat = "disappear", !.leaving = TRUE,
                                 !.out = "none"]
  <2>1. c \in Body
    BY <1>1 DEF Body
  <2>2. Put(s, p, [t EXCEPT !.body = c])
    BY <1>5 DEF SendPlayerToLocation
  <2> HIDE DEF c
  <2> QED
    BY <1>2, <2>1, <2>2
<1>6. CASE ExpireSession(s, p)
  <2>1. Put(s, p, [t EXCEPT !.expired = TRUE])
    BY <1>6 DEF ExpireSession
  <2>2. [t EXCEPT !.expired = TRUE] \in Session
    BY <1>1 DEF Session
  <2> QED
    BY <1>1, <2>1, <2>2, PutStays
<1> QED
  BY <1>3, <1>4, <1>5, <1>6

\* Nor does a message, or the death of another server.
LEMMA ServerStays ==
  ASSUME IndInv, PromptInv, NEW s \in Server, NEW p \in Port, InZone(sess[s][p]),
         NEW x \in Server, ServerStep(x), s \in up'
  PROVE  sess'[s][p] # None
<1>1. sess[s][p] # None /\ NoNews /\ sess[s][p] \in Session
  BY InsideFacts
<1>2. CASE ExpirePending(x) \/ CleanupPending(x) \/ Start(x)
  BY <1>1, <1>2 DEF ExpirePending, CleanupPending, Start
<1>3. CASE HandleAccountLogin(x)
  <2>1. ASSUME NEW q \in Sessions(x),
               Put(x, q, [sess[x][q] EXCEPT !.forced = TRUE, !.key = None, !.prev = None])
        PROVE  sess'[s][p] # None
    <3>1. q \in Port /\ sess[x][q] \in Session
      BY HereFacts DEF Sessions
    <3>2. [sess[x][q] EXCEPT !.forced = TRUE, !.key = None, !.prev = None] \in Session
      BY <3>1 DEF Session, MaybeKey
    <3> QED
      BY <1>1, <2>1, <3>1, <3>2, PutStays
  <2> QED
    BY <1>1, <1>3, <2>1 DEF HandleAccountLogin
<1>4. CASE HandleCharZone(x)
  <2>1. ASSUME NEW q \in Sessions(x), Put(x, q, Tap(sess[x][q]))
        PROVE  sess'[s][p] # None
    <3>1. q \in Port /\ Tap(sess[x][q]) \in Session
      BY HereFacts, TapFacts DEF Sessions
    <3> QED
      BY <1>1, <2>1, <3>1, PutStays
  <2> QED
    BY <1>1, <1>4, <2>1 DEF HandleCharZone
<1>5. CASE HandleKillSession(x)
  <2>1. \E m \in Mail(mq[x]) : m.type = "KillSession"
    BY <1>5, HandleFacts DEF HandleKillSession
  <2> QED
    BY <1>1, <2>1, NewsFacts DEF NoNews
<1>6. CASE Crash(x)
  <2>1. x # s
    BY <1>6 DEF Crash
  <2> QED
    BY <1>1, <1>6, <2>1 DEF Crash, IndInv, TypeOK
<1> QED
  BY <1>2, <1>3, <1>4, <1>5, <1>6 DEF ServerStep

\* Only a time-out or a crash ends the session of a character in a zone.
LEMMA LeavesFirstStep ==
  ASSUME Prompt, IndInv, PromptInv, [Next]_vars,
         NEW s \in Server, NEW p \in Port, InZone(sess[s][p]), sess'[s][p] = None
  PROVE  sess[s][p].expired \/ s \notin up'
<1>1. sess[s][p] # None /\ sess[s][p].status = "accepted"
  BY InsideFacts
<1>2. ASSUME NEW x \in Server, NEW q \in Port, SessionStep(x, q)
      PROVE  sess[s][p].expired
  <2>1. x = s /\ q = p
    BY <1>1, <1>2, StepElsewhere
  <2>2. ~FirstLogin(s, p) /\ ~AcceptLogin(s, p)
    BY <1>1 DEF FirstLogin, AcceptLogin
  <2>3. ~GhostTick(s, p)
    BY DEF GhostTick, PromptInv, MembersAlive
  <2>4. CleanupSession(s, p)
    BY <1>2, <2>1, <2>2, <2>3, GamePacketStays, ToldStays, TickStays DEF SessionStep
  <2> QED
    BY <2>4 DEF CleanupSession
<1>3. ASSUME NEW x \in Server, ServerStep(x)
      PROVE  s \notin up'
  BY <1>3, ServerStays
<1>4. ASSUME NEW x \in Sender, WorldRoute(x) PROVE FALSE
  BY <1>1, <1>4 DEF WorldRoute
<1>5. ASSUME LobbyStep PROVE FALSE
  BY <1>1, <1>5 DEF LobbyStep, Authenticate, SelectCharacter, RefuseSelection, RowStale,
                    ClientGone, server
<1>6. ~(UNCHANGED vars)
  BY <1>1 DEF vars
<1> QED
  BY <1>2, <1>3, <1>4, <1>5, <1>6 DEF Next

-----------------------------------------------------------------------------
(* The theorems. *)

\* The prompt invariant holds of every deployment whose messages are prompt.
THEOREM PromptInvariance ==
  ASSUME Prompt
  PROVE  Spec => []PromptInv
<1>1. Init => PromptInv
  BY PromptInit
<1>2. IndInv /\ IndInv' /\ PromptInv /\ [Next]_vars => PromptInv'
  BY PromptKeeps
<1> QED
  BY <1>1, <1>2, Invariance, PTL DEF Spec

\* While a character is in a zone its row names the server it is on, so that no other
\* server, and no lobby, takes it for gone.
THEOREM RowFenced ==
  ASSUME Prompt
  PROVE  Spec => []RowFence
<1>1. IndInv /\ PromptInv => RowFence
  <2> SUFFICES ASSUME IndInv, PromptInv, NEW sp \in Bodies
               PROVE  row # None /\ row.server = sp[1]
    BY DEF RowFence
  <2>1. sp[1] \in Server /\ sp[2] \in Port /\ InZone(sess[sp[1]][sp[2]])
    BY DEF Bodies, InZone
  <2> QED
    BY <2>1, InsideFacts DEF Owner, Named
<1> QED
  BY <1>1, Invariance, PromptInvariance, PTL

\* No row is left behind: when its character has entered a zone there is a session on a
\* running server that will take it away.
THEOREM RowAlwaysOwned ==
  ASSUME Prompt
  PROVE  Spec => []RowOwned
<1>1. IndInv /\ PromptInv => RowOwned
  <2> SUFFICES ASSUME IndInv, PromptInv, row # None, ~row.portZero, row.server \in up
               PROVE  \E s \in Server : Sessions(s) # {}
    BY DEF RowOwned
  <2>1. row.server \in Server
    BY DEF IndInv, TypeOK, Row
  <2>2. PICK p \in Port : Live(sess[row.server][p])
    BY DEF PromptInv, RowFits
  <2> QED
    BY <2>1, <2>2 DEF Live, Sessions
<1> QED
  BY <1>1, Invariance, PromptInvariance, PTL

\* No zone's list names an entity that was destroyed.
THEOREM MembersStayAlive ==
  ASSUME Prompt
  PROVE  Spec => []MembersAlive
<1>1. PromptInv => MembersAlive
  BY DEF PromptInv
<1> QED
  BY <1>1, PromptInvariance, PTL

\* Only a time-out or a crash ends the session of a character that is still in a zone.
THEOREM LeavesZoneFirst ==
  ASSUME Prompt
  PROVE  Spec => LeavesFirst
<1>1. IndInv /\ PromptInv /\ [Next]_vars =>
        [\A s \in Server, p \in Port :
           InZone(sess[s][p]) /\ sess'[s][p] = None => sess[s][p].expired \/ s \notin up']_vars
  BY LeavesFirstStep
<1> QED
  BY <1>1, Invariance, PromptInvariance, PTL DEF Spec, LeavesFirst

\* No KillSession reaches a character that has entered the game: by the time it has, the
\* message its entry gave rise to has been handled.
THEOREM NewSessionsSurvive ==
  ASSUME Prompt
  PROVE  Spec => NewSessionSurvives
<1>1. IndInv /\ PromptInv =>
        \A s \in Server, p \in Port :
          HandleKillSession(s) /\ sess[s][p] # None /\ sess[s][p].status = "accepted"
            => sess'[s][p] = sess[s][p]
  <2> SUFFICES ASSUME IndInv, PromptInv, NEW s \in Server, NEW p \in Port,
                      HandleKillSession(s), sess[s][p] # None,
                      sess[s][p].status = "accepted"
               PROVE  FALSE
    OBVIOUS
  <2>1. NoNews
    BY DEF PromptInv, SessionsFit, SessionFits, Live, Owner, Named, RowFits
  <2>2. \E m \in Mail(mq[s]) : m.type = "KillSession"
    BY HandleFacts DEF HandleKillSession
  <2> QED
    BY <2>1, <2>2, NewsFacts DEF NoNews
<1>2. IndInv /\ PromptInv /\ [Next]_vars =>
        [\A s \in Server, p \in Port :
           HandleKillSession(s) /\ sess[s][p] # None /\ sess[s][p].status = "accepted"
             => sess'[s][p] = sess[s][p]]_vars
  BY <1>1
<1> QED
  BY <1>2, Invariance, PromptInvariance, PTL DEF Spec, NewSessionSurvives
=============================================================================
