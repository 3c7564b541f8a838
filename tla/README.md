# A TLA+ model of PegasusXI

PegasusXI is a server for Final Fantasy XI in C++ (a fork of LandSandBoat). This directory
holds its verification project: specifications translated from the source, TLC
configurations that check them on small instances, and TLAPS proofs for every instance.
Paths below are relative to `src/src/` unless they start with `src/`.

## 1. The system

One deployment runs one login process (`xi_connect`), one world process (`xi_world`), any
number of map processes (`xi_map`, each hosting some zones) and a search process. They share
one MariaDB database, in which almost every statement is its own transaction, and exchange
messages over ZeroMQ with the world server as the hub. A client logs in over TCP, then talks
UDP to one map process at a time. Each process runs coroutines on a scheduler with one main
thread; a handler that does not await anything is atomic
within its process, though its SQL statements are not towards the other processes.

### Inventory

| Component | State | Operations | Hard behaviour | Correct when |
|---|---|---|---|---|
| Map sessions (`map/map_networking.cpp`, `map_session*.cpp`) | sessions by client address, pending sessions by character, key and previous key, time of the last packet | first 0x00A, packets, 0x00B and its repetition, clean-up | lost replies, time-outs, a second login | a character has one session and one body, and both ends share a key |
| Zone entry, exit and tick (`map/zone*.cpp`, `packets/c2s/0x00a_login.cpp`) | characters of a zone, those that will change zone | enter, leave, warp, tick | the tick yields; refusal by a population cap; raw pointers | a listed entity is alive; a body is where the database says |
| World routing (`world/ipc_server.cpp`) | queues, character cache | route by zone, character, party | reads the database when routing, not when sending | a message finds the process it is meant for |
| Map message handlers (`map/ipc_client.cpp`) | sessions, characters, parties | AccountLogin, CharZone, KillSession, PartyReload, PlayerKick, ... | handled after the state they were sent for | a message for an old session leaves the new one alone |
| Lobby (`login/*_session.cpp`) | `accounts_sessions` rows, sessions of one login | authenticate, list, create, select (0xA2) | three connections of one login; a row left behind | one row per character, and never one nobody removes |
| Treasure pool (`map/treasure_pool.cpp`) | members, ten items with lots, a counter | add, lot, pass, check, flush, join, leave | lots of members that leave, eviction, ages, late packets | a drop is counted once, in one place, awarded by its own lots |
| Parties (`map/party.cpp`, `packets/c2s/0x06e`-`0x077`) | a row per member, a `CParty` per map server, reload flags, shared pools | invite, answer, leave, kick, disband, pass the lead, reload | rows, objects of several servers and messages disagree for a while | memory follows the rows, one leader, members in a zone share one pool |
| Trade of players (`packets/c2s/0x032`-`0x034`, `universal_container.cpp`) | target, container, locks, reservations | request, accept, put, confirm, cancel, exchange | packets that cross; containers other features reuse; leaving | items are exchanged once, by agreement on both sides |
| Delivery box (`map/utils/dboxutils.cpp`) | `delivery_box` rows of sender and receiver, the container shown | lay, send, cancel, open, take, return, drop | two servers, several statements, decisions on stale reads | an item is in one place |
| Auction house (`map/utils/auctionutils.cpp`, `search/data_loader.cpp`) | `auction_house` rows | sell, buy, withdraw, expire | buyers, seller and search server race for one row | a sale is bought, withdrawn or returned, once |
| Battlefields (`map/battlefield*.cpp`, `scripts/globals/battlefield.lua`) | areas, registered and entered players, effects, orphans | register, enter, lock, win, lose, leave, clean up | menus open while others fight; leaving and returning at any time | pointers and lists agree, nobody comes in late, the area is freed |
| Inventory and transactions (`item_container.cpp`, `items/transaction*`) | slots, reservations | add, move, split, take | capacity, rare items, failures half-way | quantities are kept |
| AI state stack (`map/ai`) | states of an entity | push, tick, interrupt, end | a state ends during its own update | cleaned up once |
| Recasts, effects, enmity, notoriety | lists with expiry | add, remove, tick | lists changed while walked | mirrored lists agree |
| Instances, transport (`map/transport.cpp`), spawning, nominations, fishing, guilds | cycles and counters | tick, use | boundaries of time and limits | cycles repeat |
| World systems (conquest, besieged, campaign, colonization) | influence, strongholds | update, tally | updates from many servers | none is lost |
| Infrastructure (`common/`, ZMQ, database, scheduler, watchdog) | queues, timers | send, wake, crash | threads | order per connection |
| Combat arithmetic, terrain, encodings, Lua content, search | - | - | formulas, geometry, data | out of reach of TLC, or read-only |

`PROJECT.json` lists each of them with what is modelled, and the places in the code that are
hard to test with the properties that watch over them.

### Interactions

Components share state through database rows (a session, a saved position, the members of a
party, parcels, sales); through objects of one map process (a pool shared by characters, a
trade of two, a battlefield and its players); and through messages. The lobby sends
`AccountLogin` and `CharZone`, map servers send `CharZone`, `KillSession` and the party
messages; the world server looks up the receiver and forwards. What arrives when, relative to
the packets of the client, the statements of another process and the timers of each, is
decided by nobody: that is where this project looks first.

## 2. Modules

| Module | Models |
|---|---|
| `Presence` | abstract: a character is in one zone or in none, leaves with its destination saved, arrives where the position says |
| `ZoneTransfer` | one character across lobby, world server, map servers, database and client; implements `Presence` |
| `TreasurePool` | one treasure pool, its members and what they hold |
| `Party` | the parties of some players on several map servers, and which of them share a pool |
| `PlayerTrade` | the trades of players in one zone: packets, containers, inventories |
| `Parcels` | abstract: an item is in one place of one owner and goes along known ways |
| `DeliveryBox` | the boxes of players, each on a server of its own |
| `AuctionHouse` | extends `DeliveryBox` by sales and the search server; implements `Parcels` |
| `Battlefield` | the battlefields of one zone, their players and the entry script |
| `MC...` | the instances for TLC, with their symmetry |
| `ZoneTransferProofs` | bodies and positions, `Presence`; the key of the client |
| `PromptProofs` | the row and the sessions, when messages are faster than players |
| `TreasurePoolProofs` | drops, the counter and the lots |
| `PlayerTradeProofs` | inventories and containers; who trades with whom; the exchange makes and loses nothing |
| `DeliveryBoxProofs` | the boxes and sales of `AuctionHouse`, the queue, parcels of both ends |
| `BattlefieldProofs` | lists and pointers of battlefields |
| `PartyProofs`, `PartyNewsProofs` | pools of parties; rows, objects and the news of them, when requests wait for it |

### ZoneTransfer

`row` is the `accounts_sessions` row, `pos` the pair `chars.pos_zone`, `pos_prevzone`. `sess`
and `pend` are `sessions_` and `pending_sessions_` of every map server; a session carries its
`body`, the `CCharEntity`, and `ghost` holds the entries of zone lists whose entity was
destroyed. `wq` and `mq` are the queues to and from the world server. `client` is external:
what it sends and how it advances its key follow from what the server accepts.

| Code | Action |
|---|---|
| `auth_session` LOGIN_ATTEMPT | `Authenticate` |
| `data_session` 0xA2 | `SelectCharacter`, `RefuseSelection` |
| `recv_parse` of a first 0x00A | `FirstLogin` |
| 0x00A accepted, repeated | `AcceptLogin`, `RepeatLogin` |
| any other packet, 0x05E, 0x0E7 | `GamePacket`, `LatePacket` |
| `send_parse`, after each of these | `SendParse`, with the loss of the reply |
| `CLuaBaseEntity::warp`, `leaveGame` | `Warp`, `LeaveGame` |
| `handleMessage_SendPlayerToLocation` | `SendPlayerToLocation` |
| end of `CZoneEntities::ZoneServer` | `ZoneTick` |
| `cleanupSessions` | `ExpireSession`, `CleanupSession`, `ExpirePending`, `CleanupPending` |
| `IPCServer::handleMessage_*` | `WorldRoute` |
| `IPCClient::handleMessage_*` | `HandleAccountLogin`, `HandleCharZone`, `HandleKillSession` |
| a map process dies, starts | `Crash`, `Start` |

Time-outs appear as `ExpireSession`, `ExpirePending` and `RowStale`: they happen only when
every message has been handled and every freed entity ticked (`Quiet`), because a minute is
long against the 100 ms of the message pump and the 400 ms of a zone. `PromptIPC` says whether
messages are also handled before the client acts again (about a second); without it they take
any time.

Assumptions and abstractions:
- Handlers are atomic. The yields inside a zone tick are: characters that leave are collected
  in one step (a packet or effect sets `leaving`) and moved in another (`ZoneTick`).
- The client has one datagram outstanding. It repeats a request whose reply was lost; delayed
  duplicates of older datagrams are not modelled. A character has a public address of its
  own, so that an address never finds somebody else's row.
- A 0x00A that is repeated carries a sequence number above one, which clears the packet list.
- Zone 0 (`Unknown`) is the destination of a character at rest.
- Whether a move ends in a residence is nondeterministic; the administrator's use of
  KillSession is left out; the world server does not crash.
- Reading a freed entity (`GhostTick`) either still finds it, and then logs it out, or crashes
  the process (`Crash`). That a character refused by a full zone stays listed by a raw pointer
  after its session timed out is covered only by `Crash`.

### TreasurePool

`slots` are the items with their lots, `count` the `uint8` counter, `bag` what each character
holds, `refused` a history of passes. Every drop has a number, so that a lot remembers the
drop it was cast for and nothing is mistaken for something that looks the same. Time is
reduced to what the comparisons observe: the order of time stamps is the number, `old` says
that an item is older than `treasure_livetime`, `young` that the process is not older than
that, `recent` that `treasure_checktime` has not passed. The four seconds that `flush` looks
ahead are not told apart from now. `checkItems` and `flush` walk over the slots, one
`CheckSlot` each, and nothing comes between.

| Code | Action |
|---|---|
| `addItem` | `AddItem` |
| 0x041 and `lotItem`, 0x042 and `passItem` | `LotItem`, `PassItem` |
| `checkItems`, `flush`, `checkTreasureItem` | `CheckItems`, `Flush`, `CheckSlot`, `Check` |
| `treasureWon`, `treasureError`, `treasureLost` | `Cleared`, `Given` |
| `addMember`, `delMember` | `AddMember`, `DelMember` |
| `charutils::AddItem`, `UpdateItem` | `Accepts`, `Discard` |

Which pool a character belongs to (`CParty::ReloadTreasurePool`) is the subject of `Party`;
here a member joins and leaves at any time. `addItem` runs while the pool has a member, as its
callers ensure. A member that leaves takes its history of passes with it: it is a new member
when it returns.

### Party

`row` is the table `accounts_parties` (party and leader flag), `grp` the `CParty` objects of
every map server, `flag` the `m_reloadParty` of a character, `pool` the treasure pools as sets
of members. `at` and `dest` say where a character is and where it is bound for; its session row
names the destination's server as soon as it leaves. `out` and `inbox` are the queues to and
from the world server, which looks up the receivers when it forwards (`Route`).

| Code | Action |
|---|---|
| 0x06E, 0x074 | `Solicit`, `Decline`, `Accept` |
| 0x06F, 0x070, 0x071, 0x077 | `Leave`, `Breakup`, `Kick` and `KickAway`, `PassLead` |
| `removeCharFromZone`; entry into a zone | `ZoneOut`, `Logout`; `ZoneIn`, `Login` |
| `~CCharEntity` when the 0x00B is flushed | `Destroy` |
| expiry of a pending session, with its row | `Vanish` |
| `charutils::ReloadParty` in `PostTick` | `TickMember`, `TickStranger` |
| `IPCServer::handleMessage_*` | `Route` |
| `IPCClient::handleMessage_*` | `OnInvite`, `OnAnswer`, `OnReload`, `OnKicked`, `OnDisband` |
| `CParty` | `AddMember`, `RemoveMember`, `RemovePartyLeader`, `DelMember`, `PopMember` (`Replace`), `SetLeader`, `DisbandParty`, `ReloadParty`, `ReloadTreasurePool`, on a record `World` of what a handler changes |

Assumptions and abstractions:
- A request of a player that is not in the constant `Hasty` waits until every server has heard
  the news and nobody is between zones (`Settled`); the messages, reloads and zone changes it
  sets off interleave freely. Players need seconds, the servers tenths of one. With every
  request hasty the code does lose its agreement; see the observations below.
- The statements of one handler are one step; an answer is handled on the spot exactly if inviter
  and invited are on one server.
- Between zones a character first still has its old object, then none (`Destroy`), then arrives
  (`ZoneIn`) or never does (`Vanish`). A client that is lost before its 0x00B is flushed is a
  `Logout`, with an heir and a `PartyReload`; afterwards the pending session expires, the session
  row is deleted and with it, by cascade, the row of the party: nobody is told.
- `Spec` lets every action happen. `CalmSpec` adds two restrictions that the program does not
  have: a member struck from another server (`KickAway`) has no fellow in the object of his server
  (`Lonely`), and who vanishes between zones leads no others (`Dispensable`). The four properties
  that compare memory with the rows are claimed for `CalmSpec` only, because `Spec` breaks all but `NeverOverfull`:
  run `party_kick`, and the configurations `PartyVanish` and `PartyLoot` below.
- The order of members decides only who leads next: any member may.
- Alliances, level synchronisation, quartermasters, trusts and mog houses are left out. A full
  party, a pending invitation and `InvitePending` are kept.

### PlayerTrade

`inv` are the inventories with what is reserved, `box` the `CUContainer` of every character
with its type, lock and counter, `pend` the `TradePending` target, `fresh` whether the request
is younger than its time limit. `deal` is the exchange in progress: `DoTrade` runs once for
either side, then `TradeEnd`. `client` and `news` are external: a window and what its player
has not read yet; whoever acts has read everything, or is `hasty`.

| Code | Action |
|---|---|
| 0x032 | `TradeReq`, `Age` for the time limit |
| 0x033 | `TradeStart`, `TradeCancell`, `TradeMake` with `CanTrade`, `DoTrade`, `TradeEnd` |
| 0x034 | `Put`, `Withdraw`, both `TradeList` |
| `CItemState` | `UseItem`, `FinishItem` at the end of the cast, `Cleanup` after the animation or an interruption |
| 0x096, 0x028 | `CombineAsk`, `Discard` |
| `removeCharFromZone`, entry | `LeaveZone`, `EnterZone` |

The variable `play` names one of six scenarios: an exchange, one with withdrawals, a purchase, an exchange
disturbed by the use of items, a synthesis and departures, three players who ask each other,
and two whose requests cross. A scenario switches whole operations on, so that each is explored
completely. Who trades with whom is claimed only where nothing disturbs the packets of two
(`Orderly`, `Undisturbed`); the observations below say what happens elsewhere. Distances, events, prison and equipment are refusals that may or may not come;
an item returns into the slot number it left; a synthesis does to items what `Discard` does.
Between `FinishItem`, which consumes the item and frees its object, and `Cleanup` slot 0 of the
container points at what is gone; `spent` says so, and `NoDangling` excepts this slot. What the
program reads through a pointer to a freed item, there or in an offer, is undefined; the model
reads the inventory slot, whatever is there by then.


### DeliveryBox, AuctionHouse, Parcels

`inn` and `out` are the rows of `delivery_box` by character and slot for the incoming and the
outgoing box, `view` the container a server filled when the box was opened, `sales` the rows of
`auction_house`, `expiry` the work of the search server. A handler whose first statements decide
what its last ones do is two steps; `pc` holds what it carries over. The constant `Interrupted`
names the handlers between whose statements those of other processes may come.

| Code | Action |
|---|---|
| `OpenSendBox`, `OpenRecvBox`, `CloseMailWindow` | of the same name, with the reading of the contents |
| `AddItemsToBeSent`, `SendConfirmation` | `AddItemsToBeSent`, `SendConfirmation` and `FinishSend` |
| `CancelSendingItem`, `RemoveDeliveredItemFromSendingBox` | of the same name |
| `SendNewItems` | `SendNewItems` and `FinishRecv` |
| `ReturnToSender` | `ReturnToSender` and `FinishReturn` |
| `TakeItemFromCell`, `RemoveItemFromCell` | of the same name |
| `ProofOfPurchase`, `PurchasingItems`, `CancelSale` | of the same name |
| `ExpireAHItems` | `ExpireAHItems`, `SendBack`, `StrikeOff` |

`Parcels` sees only how many items of a kind are in each place: hand, outgoing box, queue,
incoming box, market, thrown away. `AuctionHouse!Where` is the refinement mapping. Its steps
move one item along a known way, or exchange an item for a coin: there is no step that makes,
loses or splits anything.

Assumptions and abstractions: an item is a stack sent as a whole, everything costs one coin,
the fee is left out; a client works on the box it has open and on what it was shown, and sends
nothing to itself; a seller has at most one sale of a kind; a server does not die inside a
handler.

### Battlefield

`fields` are the battlefields by area, `pc` the characters: the battlefield they are inside,
the battlefield effect with its area and tier, queued events, and the local variables of the
menu. `orphans` are those `HandleBattlefields` will put out, `allied` the one alliance, which
players leave for good.

| Code | Action |
|---|---|
| turns of the loops in `HandleBattlefields` | `HandleBattlefield` (`OnBattlefieldTick`, `CheckInProgress`, `Cleanup`), `HandleOrphan` |
| entry script and `RegisterBattlefield`, `LoadBattlefield`, `InsertEntity` | `OnEntryTrigger`, `OnEntryEventUpdate`, `OnEventFinishEnter` |
| exit and end of the battle | `OnExitTrigger`, `OnEventFinishExit`, `OnEventFinishWin`, `OnEventFinishLeave` |
| leaving the zone and entering it | `DecreaseZoneCounter`, `IncreaseZoneCounter` |
| enmity; the last monster | `Attack`, `HandleAllMonstersDefeated` |

Assumptions and abstractions:
- One content, so that a battlefield is its area. The script looks at three areas; here at
  `Areas`.
- A turn of the loops is a step per battlefield and per orphan, which allows more than the
  program does. Every turn calls the script (in the program every third, once a second); what
  it finds - nothing, that the time after a wipe is over, that the time limit is over - is any
  of the three, and so is whether the ten seconds of `Cleanup` are over. A time limit that
  passes turns a victory into a defeat, in the model as in the program.
- Who returns to the zone needs longer than the five seconds of an orphan. Only a log-out keeps
  the effect.
- Monsters, pets, trusts, level caps, loot, records and positions are left out.

## 3. Runs

| Run | Bounds | Distinct states | Shows |
|---|---|---|---|
| `zone_transfer` | 2 servers, 4 zones, 2 ports, 4 logins, 1 zone change, 1 crash, prompt messages, fairness | 620,621 | `OneBody`, `RowFence`, `RowOwned`, `MembersAlive`, `LeavesFirst`; `RowReleased`: a vanished client's account becomes free |
| `zone_transfer_slow` | 3 zones, 3 logins, no crash, slow messages, full zones | 607,988 | `ClientKey`, the inductive invariant `IndInv`, refinement of `Presence` |
| `treasure_pool` | 2 members, a rare and an exclusive item, 2 slots, 3 drops, 1 inventory slot | 929,128 | `LotsInOrder`, `CountMatches`, `RareOnce`, `NoCopies`, `PassedNeverGets` |
| `treasure_resolved` | 1 rare item, 2 drops, zone pool, young process, late passes, fairness | 103,243 | `Resolved`: every drop is awarded or lost |
| `party` | `CalmSpec`, 4 players, 2 servers with a zone each, room for 3, one player between zones at a time | 633,320 | `PoolsFollowParties`, `SharedLoot`, `MemoryFollowsRows`, `NeverOverfull`, `OneLeader` |
| `player_trade` | 2 or 3 players, 2 inventory slots, 2 trade slots, 6 scenarios | 756,812 | `Backed`, `RareOnce`, `NoDangling`, `Partners`, `ClosedMeansReleased`, `Kept`, `NobodyDraggedIn` |
| `parcels` | 2 players with a coin each and one blade, 1 visible cell, queue up to slot 3, sending and returning interrupted | 211,022 | `StillThere`, `ShowsRows`, refinement of `Parcels` |
| `battlefield` | 3 players, 2 areas of 2 places, 2 menus, 1 absence | 644,320 | `Consistent`, `NoLateEntry` |
| `battlefield_freed` | 2 players, 1 area, 3 menus, 1 absence, fairness | 169,738 | `Freed`: an area becomes free again |
| `kill_session_late` | slow messages | - | violated: `NewSessionSurvives` |
| `parcel_expired` | as `parcels`, expiry interrupted | - | violated: `ItemsKept` |
| `party_kick` | `Spec`, 3 players, requests wait for the news | - | violated: `KickHeard` |

Every run checks a type invariant of its module once.

Why these bounds are enough to be interesting.
- Zone transfer: four logins (an authentication and a selection each count) let a client log in
  a second time while its first session, its messages and its row are in any state, from a
  second port; one zone change per login crosses from one server to the other, or stays, and
  with the lobby's choice the character can come back; one crash hits any of these states. Two
  servers are all a hand-over has; a third would only ignore messages. With slow messages
  `RowFence`, `RowOwned` and `MembersAlive` are not claimed: they rest on the world server being
  faster than a client. `zone_transfer` therefore checks them with `PromptIPC`, and
  `zone_transfer_slow` checks what needs no such assumption.
- Treasure: three drops into two slots fill the pool and evict; two members are the least for
  which "all have lotted" differs from "one has", and they leave and return without bound.
- Party: a party of three with a fourth player at the door is full; its members stand on two
  servers in every division, so that every message between them, and none, is needed; leadership
  moves to an heir on this server or the other. There is no bound on how long the players go on.
  One of them is between zones at a time; with two at a time the run passes too (2,167,150 states,
  by hand, with `MaxAway = 2`).
- Trade: one stack of two, a rare item both own and an inventory without a free slot make every
  refusal of `CanTrade` possible; the third player is needed only to ask.
- Parcels: one item can be sent, called back, returned, sold and bought any number of times, and
  two queue slots hold a parcel and a payment. A queue then has one sender, so that two cannot
  look for room at the same time; `ParcelBound.cfg`, to be run by hand, has three players with a
  coin each and holds `NearlyBounded` (3,667,379 states, four minutes), which `QueueBounded` proves
  for any number.
- Battlefield: two of three allies fill an area, the third is locked out and finds the second
  area. Two menus make two battlefields; the liveness run has three, so that an
  area is used again.

Deadlock is not checked where a bound may be used up; `party` and the party of `party_kick` have
no such bound and are checked for it.

Fairness. `ZoneTransfer`: the message pumps, the zone ticks, the clean-up and a supervisor that
restarts a crashed process run again and again (weak fairness); a session expires for certain
only if its client is gone; players, scripts and crashes owe nothing. `TreasurePool`: the clock
runs and every zone ticks; both are strong, because between the steps of one walk over the slots
the model disables them, and nothing else does. `Battlefield`: for each area weak fairness of
the turn that finds the time limit passed and the ten seconds over, since the zone ticks and
both times pass whatever the players do; they owe nothing.

### Findings

Three runs end in a violation of what a comment of the code promises; `PROJECT.json` quotes
each.
1. `kill_session_late`: `KillSession` ignores a session that is still waiting, so that it never
   logs out the session it was sent for; handled after the session was accepted, it does.
2. `parcel_expired`: the search server selects the sales that are too old and sends them back one
   by one. A sale bought or withdrawn meanwhile is sent back all the same: the item is doubled.
3. `party_kick`: a player is kicked by a leader on another server, and a `PlayerKick` raises his
   reload flag. Before he ticks, another member of his party object ticks and lowers the flags
   of all; the victim stays in the party, with its pool, until something else reloads him. The
   request waited until every earlier news was heard.

### Observations

Configurations to be run by hand, each violating its property within seconds:

| Configuration | Module | Property | What happens |
|---|---|---|---|
| `DumpToHomePoint` | `MCZoneTransfer` | `DumpedHome` | a character whose destination is not hosted is "dumped to its home point" by a request only a zone's tick serves, and it is in no zone |
| `DeniedWarp` | `MCZoneTransfer` | `DeniedWarpStays` | a warp refused by a full home zone leaves the character marked for a change to zone 0 |
| `TreasureOverfull` | `MCTreasurePool` | `CountMatches` | in the first five minutes of a process a full pool overwrites an item that has not been awarded and counts it on |
| `TreasureLatePass` | `MCTreasurePool` | `LotsForThisDrop` | a pass that arrives after its slot was emptied counts for the next item |
| `TreasureFlush` | `MCTreasurePool` | `FlushEmpties` | `flush` does not award what has not expired, contrary to its comment |
| `TradeDangling` | `MCPlayerTrade` | `SlotsHoldItems` | an item taken back stays in its slot of the container with nothing reserved; thrown away, it leaves a slot that points at nothing (0x034, "If item count is zero remove from container") |
| `ParcelSwapped` | `MCAuctionHouse` | `ItemsKept` | a parcel called back and replaced between the snapshot and the updates of `SendNewItems`: the box shows, and gives, the old one |
| `PartyVanish` | `MCParty` | `OneLeader` | a leader who disappears between zones loses his row with the pending session (`map_session_container.cpp:317`): nobody inherits, and his party has no leader |
| `PartyLoot` | `MCParty` | `SharedLoot` | a leader vanishes between zones, logs in again and founds a party of the same id: the member he left behind is in it by the rows, stands next to him, and shares no pool with him |
| `BattlefieldEffect` | `MCBattlefield` | `InsideHasEffect` | a player registered with an ally, locked out and then inside a second battlefield loses its effect when the first is cleaned up |

Found while reading and modelling, without a run of their own:
- Trade: crossing requests of three players can open a trade with one whose own request was meant
  for the third. 0x032 looks up the pending target's `UniqueNo` as if it were an index
  (0x032:112): with four players, where one's identifier is another's index, the windows of two
  who never asked each other open. Two players who leave, use items or synthesise while requests
  cross are drawn into trades they did not ask for, too. The client's trade counter is ignored (0x033:110). An item put after the own
  lock stays reserved (0x034:141). An item consumed by a use stays in slot 0 of the container until the
  animation is over (`item_state.cpp:199`, `:241`). After the partner has left, a cancellation does nothing
  (0x033:91). A synthesis calls off the trade of whoever its player's pending target is.
- Party, with requests that do not wait for the news: a promoted leader who leaves before his
  server heard of it leaves a party without a leader; a party broken up while members are
  between zones leaves their rows; an inviter who has just arrived founds a second `CParty` and
  two rows get the leader flag; leadership passed while a member arrives makes two objects of one
  party on one server, without a common pool. `PoolsFollowParties` holds even then, as `PartyProofs` shows
  for any number of players. `RemoveMember` and `DelMember` leak an empty `CParty`.
- Party, with requests that do wait: a member struck from afar who has a fellow on his server stays
  in that one's object. When he then accepts an invitation he had from another party, his reload gives
  the object the name of that party (`charutils.cpp:7113`), with the fellow in it, who next to a
  member of his own party who zones in has no common pool.
- Parcels: a server that dies between the `INSERT` of a parcel or sale and the removal from the
  inventory copies the item, one that dies inside a purchase loses it. Two rows alike are
  exchanged by `LIMIT 1`, which changes nothing. The slot variables `rset` and `rset2` at
  `dboxutils.cpp:306` are confused, harmlessly because of `StillThere`.
- Battlefield: one that is empty at a tick is marked as cleaned; entered again within 400 ms, its
  players get no event at the end. Who returns to a battlefield that is full keeps the effect of
  one inside, outside. A member registered while it is full gets the effect without the
  registration.

## 4. Proofs

Every theorem below is proved for every value of the constants that satisfies the `ASSUME`s of its
module, and every other hypothesis is written into the theorem. The assumptions say what kind of
thing a constant is: capacities are natural numbers, a pool is no larger than 255, `None` is no
player. `PlayersAssumption` of `Battlefield` and `DeliveryBox` says that the players are finitely
many, which folds and cardinalities need. Each module proves that the initial states satisfy an
inductive invariant, one lemma per action (or per helper that several handlers share) that it is
kept, and that it implies the property. `PROJECT.json` lists the results.

| Module | Results | Hypotheses |
|---|---|---|
| `ZoneTransferProofs` | `TypeOK`, `BodyAtHome`, `OneBody`, refinement of `Presence`, `ClientKey` | - |
| `PromptProofs` | `RowFence`, `RowOwned`, `MembersAlive`, `LeavesFirst`, and that a new session outlives the old one's messages | messages are prompt, no zone is full, the home point is a zone |
| `TreasurePoolProofs` | `TypeOK`, one lot each, `RareOnce`, `NoCopies`, `CountMatches`, `LotsInOrder`, `PassedNeverGets` | for `CountMatches` and `LotsInOrder`: the process is five minutes old; for the latter also: nobody passes when the lots are cast |
| `PlayerTradeProofs` | `TypeOK`, `Backed`, `RareOnce`, `NoDangling` (but for the item consumed by the use under way); `Partners`, `ClosedMeansReleased`, `NobodyDraggedIn`; `Kept` | - (the three on partners say `Orderly`, `Undisturbed`); for `Kept`: finitely many players, offers change fewer than `CountSize - 1` times, all currency together is within `GilCap` |
| `DeliveryBoxProofs` | `TypeOK`, `NearlyBounded`, `ShowsRows`, `StillThere`, refinement of `Parcels` | at least two players for `NearlyBounded`, which no run checks; nobody comes between the statements that open a parcel for `ShowsRows` and `StillThere`; nor between those that send an unsold item back, for the refinement |
| `BattlefieldProofs` | `TypeOK`, `Consistent`, `NoLateEntry` | - |
| `PartyProofs` | `TypeOK`, `PoolsFollowParties` | -, not even that requests wait for the news |
| `PartyNewsProofs` | `SharedLoot`, `MemoryFollowsRows`, `NeverOverfull`, `OneLeader` | `Hasty = {}`: requests wait for the news; `CalmSpec`: who is struck from afar has no fellow in his object, who vanishes between zones leads no others |

**ZoneTransfer.** Neither `BodyAtHome` nor `OneBody` is inductive. A body enters its zone from a
session that waits, so `IndInv` also says that a waiting session's destination, if hosted here, is
the saved zone (`WaitingAtHome`); that this stays true needs that nobody else saves a position
meanwhile, which follows if a server has one session at most and none next to a pending one
(`OneSession`) and bodies are only where the position says (`BodyAtHome`). `AcceptedHasBody` and
`ZoningHasDest` exclude the sessions and replies that would carry no destination.
`zone_transfer_slow` checks `IndInv` with TLC. The refinement of `Presence` follows: a body, if there
is one, is where the position says (`WhereSaved`), and the position changes only in the step in which
the body leaves (`SavedZoneMoves`), so each step enters, leaves, or is not seen.

**The key of the client.** A session advances the key of its row when it flushes a 0x00B, and the
client when it receives one; either may be lost. `KeyInv` says that the row is ahead of a client in a
zone by one change at most, and that a session whose client has not moved on remembers the key its
last 0x00B was made for: a repetition is then recognised, and advances nothing.

**Prompt messages.** `PromptInv` follows the row through a zone change. The row belongs to a server
from the moment the character enters a zone there until the 0x00B that sends it away is flushed. While
it does, there is no news: no session is pending anywhere, no `CharZone` or `KillSession` is under way,
the server has crashed or holds a live session, and the client is nowhere else. While it belongs to
nobody, the row, what is pending and what is on its way all name the server of the saved zone, and so
does the client when it asks there to come in (`RowFits`, `NewsFits`, `ClientFits`). `SessionsFit` ties
each session to this: one that is accepted is on the server the row belongs to, one that waits on the
server that has the saved zone. A message can then only end or make the session it was meant for. TLC
checked `PromptInv` on 3.2 million states before it was proved. The hypotheses: in full zones a refused
character, or one whose warp was denied, stays behind in a session (configuration `DeniedWarp`), and
a home point is a zone since `chars` is inserted with the starting one (`login_helpers.cpp:435`).

**TreasurePool.** `PoolInv` adds that no drop carries a number yet to come (`DropsSoFar`): a new drop
is then different from all others, and an award moves a drop from its slot to one inventory. There the lots
are left arbitrary, so that what becomes of the drops does not depend on who wins. `LotsOfMembers` says
that a slot holds one lot of each member at most: every handler that adds one looks first, and
whoever leaves takes his with him (`LotsWithoutFacts`: the others keep theirs, once and in order). Who
has passed has 0 as his only lot: he does not win by it, since a lot of 0 leads nothing, and a random
award goes to none of those who passed. The `uint8` does not wrap because a
clear only follows an item (a slot is occupied, so the counter is positive) and an addition only an
empty slot. `Victim` is a slot because a nonempty set of numbers has a least one, which the proof
takes from the well-foundedness of `<`.

**PlayerTrade.** `TradeInv` says that every inventory is `Legal`: slot 0 holds the currency, at most
its cap; nothing is reserved that is not there; a rare item is held once. `DoTrade` for one side moves
items of a legal inventory into another and keeps both legal, because `CanTrade` looked at both and
nothing comes between. Where nothing is withdrawn, `BackingInv` gives each filled slot of a container
an item of its own that is reserved or in use, and such items are neither moved nor thrown away. The item in use
is the exception: consumed at the end of the cast, it is gone before the container is cleaned (`Eaten`). Where
items are withdrawn this is false (configuration `TradeDangling`).

**The exchange.** What an inventory refuses, an exchange has already taken from the other side, so
`Kept` means that nothing is refused. `KeptInv` adds three facts to `TradeInv`. The counter of a
container, which `CanTrade` compares with the free slots, is no less than the slots that are filled
(`Counters`). Whoever has yet to give has no more filled slots than the other has free ones, and gives
no rare item to somebody who has it (`DealFits`); giving frees slots and takes none, so the
check made for both sides before the first half still holds for the second. All currency together is
what one player may have (`GilFits`). The rest is arithmetic: a sum over all places is the sum of its
parts (`AddsExists`, `AddsAny`), and if one place loses what another gains it stays (`TotalMoves`).
TLC checked the three facts first, on the instance of run `player_trade`. The hypotheses are needed.
`UpdateItem` cuts off what goes beyond the cap of the currency, which `CanTrade` does not look at; with
a purse that is full on both sides TLC finds that currency is lost. The counter
is a `uint8` and counts changes of an offer, not filled slots, since 0x034 empties a slot with
`ClearSlot`, which does not count: with `CountSize = 2` and three changes TLC finds an exchange that
loses an item because the counter has wrapped around to 0. In the code that takes 256 changes, each a packet of
its own, within one trade.

**Who trades with whom.** `AgreementInv`: if the server holds two players as each other's target
and one of them has been asked, the other waits for the answer and has nothing to read that ends the
wait (`AskerWaits`, `RequestHeld`); two who trade have each other as targets, and both or none of
them is in the exchange (`TradesAgree`, `DealMutual`). A target changes only together with that of the
partner, as nobody who trades has a closed window. Where requests of three cross this is false; that
is why the properties speak of `Orderly` and `Undisturbed` situations only.

**Delivery box.** `BoxInv` gives the types and what a handler that waits relies on: the row it will
mark, the slot it will write. With it alone, whatever handlers are interrupted: sent parcels in a queue
and the players about to add one are together no more than the limit plus the players minus two, as
each looked when there was room. Where nobody comes between the statements that open a parcel: a box
shows its rows, since a queue only grows at its end and an opening sees the head it took (`RecvOK`,
`ShowsOne`); and for every sender, receiver and kind, the parcels that may be called back are no more
than those in the queue (`Matched`), by counting what each step adds and removes on either side.

**Parcels.** With those facts each step is one of `Parcels` or is not seen there (`NextGoes`). A step
that writes a row changes one count by one (`OneSlot`, `Written`); posting and opening are reduced to
that by the lemmas about `Post` and `Opened`. Four more facts are needed: a row that was received was
sent, and the row of a cell shown as sent was (`RowSays`), so that deleting an orphan deletes nothing
that anybody still has; a parcel that is being returned is in its cell (`ReturnOK`); what is called
back is found in the queue, by `Matched`; a sale that is to be sent back is still offered (`TodoOK`).
The last is what an interrupted expiry breaks: run `parcel_expired`.

**Battlefield.** `Inv` says that the world (battlefields, characters, orphans) is good: the list of a
battlefield and the pointers of the characters say the same, and the limit holds. Each helper takes
good worlds to good worlds and moves nobody, or only out, or only into a battlefield that was not there
before. The loops over an alliance and over all who are inside are folds over finite sets; what each
turn preserves, the loop does. `NoLateEntry` follows from the same lemmas: the only ways into a
battlefield that exists and is fought in ask for an effect of somebody who was inside.

**Party.** A `Good` world: the objects of a server have no member in common and only members it hosts,
pools are disjoint and hold everybody who stands in a zone, and two players share one exactly when they
are near each other and in one object. Every message, whatever it says, takes good worlds to good
worlds, so the result holds with every request hasty. That is stronger than what the run checks; TLC
explored 6.6 million states of it for three hasty players first.

**The news of a party.** `Heard` relates rows, objects and the mail under way. In every queue and at
every moment: who stands and has a row is in an object that fits the row (`Fresh`: its name, and its
leader if he is there by the rows), or one of the members there will read the rows at the next tick, or
a `PartyReload` for them is in a queue (`News`, `Calls`); who lost the row without being told has a
`PlayerKick` on the way. A party without a leader is one being disbanded: nobody moves or is about to
read the rows, and the `PartyDisband` of each member is under way (`Orphans`). An invitation or an
answer is the only message there is. An object has the name of its members' rows, except while nobody
is between zones and everybody with a row is in an object (passing the lead to another server renames
the rows first); so one who arrives finds the object of his party, and two of one party on one server
are in one object (`OneEach`). With that a request finds all objects agreeing with the rows
(`SettledIs`), changes the rows of one party and announces it (`Told`). Who leaves a zone stays in the
old object until it is destroyed, which calls the reload that brings the others into line; who vanishes
after that leads nobody, so no row waits for an heir. The hypotheses are those of run `party`, where TLC
also checked `Heard` (four players) before it was proved; without any of the three some of the
properties fail as section 3 tells, so they are hypotheses about the players and not consequences of the code.

Only model-checked:
- Liveness (`RowReleased`, `Resolved`, `Freed`), which this prover cannot do.

Three properties have no theorem without hypotheses, as the runs with expected violations refute them:
`NewSessionSurvives` (true of prompt messages, `PromptProofs`), `KickHeard` (part of
`MemoryFollowsRows`, which `PartyNewsProofs` has for `CalmSpec`) and the `ItemsKept` of `AuctionHouse`.

## 5. Plan

Done: the modules of section 2 and the proofs of section 4. Next:
1. `Party`: alliances; `ZoneTransfer`: the list of refused characters next to `ghost`, and the
   three connections of one login.
2. `StateStack` (`CAIContainer` and the states of an entity), `Instance`, `Transport`,
   `Nominations`, as far as they have behaviour worth checking.

### Not modelled

Most of the repository is not the behaviour of a system of interacting parts. The libraries under
`src/ext` are external. The tables of `map/autotranslate.cpp` and `common/sjis.h` are data.
`map/lua/*.cpp` binds several thousand functions that pass a call on; the few that change the
state of a component above are modelled with it. `battleutils.cpp`, `attackutils.cpp`, the
statistics in `charutils.cpp` and most of the scripts are formulas over floating-point numbers
and random draws: TLC could only repeat them. Quests, missions, spells and monsters are content,
each a small sequential script. The search server reads, except for the expiry of sales, which
is modelled. Terrain, path finding, encryption and compression are pure functions over large
data. What remains and has state worth checking is in the plan. The mapped lines are therefore a
small share of the whole repository, and the larger part of the files they are in that
coordinates players, servers and the database.
