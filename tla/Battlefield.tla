------------------------------ MODULE Battlefield ------------------------------
(* The battlefields of one zone: CBattlefieldHandler and CBattlefield of the map  *)
(* server together with the scripts of scripts/globals/battlefield.lua that       *)
(* register, let in, lock, end and clean up. Players choose a battlefield from a  *)
(* menu, their alliance is registered with them, the first blow locks it; it is   *)
(* won, lost by a wipe or by time, or given up, and its area is freed. Players    *)
(* leave the zone and return at any moment. All battlefields have the same        *)
(* content; monsters, pets, levels, items and positions are left out.             *)
EXTENDS Integers, FiniteSets, Sequences, FiniteSetsExt, SequencesExt, Functions, TLC

CONSTANTS
  Player,
  Areas,        \* m_MaxBattlefields, the number of arenas
  MaxPlayers,   \* GetMaxParticipants() of a battlefield
  DelayToExit,  \* delayToExit, in ticks of OnBattlefieldTick
  MaxMenus,     \* bound: how often the players open the menu
  MaxAbsences   \* bound: how often they leave the zone

ASSUME BattlefieldAssumption ==
  /\ Areas \in Nat \ {0} /\ MaxPlayers \in Nat \ {0} /\ DelayToExit \in Nat
  /\ MaxMenus \in Nat /\ MaxAbsences \in Nat

ASSUME PlayersAssumption == IsFiniteSet(Player)

VARIABLES
  fields,   \* m_Battlefields: the battlefields by area
  pc,       \* the characters
  orphans,  \* m_orphanedPlayers
  allied,   \* the players in the one alliance there is, the others are alone
  menus, absences  \* counted for the bounds

vars == <<fields, pc, orphans, allied, menus, absences>>

Area == 1..Areas
NoEffect == [area |-> 0, tier |-> 0]
Newcomer == [here |-> FALSE, inside |-> 0, effect |-> NoEffect, events |-> << >>,
             existing |-> FALSE, ask |-> 0, visited |-> FALSE]

\* What a handler changes, and the effect of a handler.
World == [fields |-> fields, pc |-> pc, orphans |-> orphans]
Become(w) == fields' = w.fields /\ pc' = w.pc /\ orphans' = w.orphans

HasEffect(w, p) == w.pc[p].effect # NoEffect
LoseEffect(w, S) ==
  [w EXCEPT !.pc = [p \in Player |->
     IF p \in S /\ HasEffect(w, p) THEN [w.pc[p] EXCEPT !.effect = NoEffect, !.ask = 0]
                                   ELSE w.pc[p]]]

\* getAlliance(): the members this server knows.
Mates(w, p) == {q \in IF p \in allied THEN allied ELSE {p} : w.pc[q].here}

\* GetBattlefield(p, true): the battlefield of the lowest area that has p registered.
Registered(w, p) == {a \in DOMAIN w.fields : p \in w.fields[a].registered}

-----------------------------------------------------------------------------
(* CBattlefield *)

Created(p) ==
  [initiator |-> p, registered |-> {p}, entered |-> {}, status |-> "open",
   enmity |-> {}, timer |-> 0, cleanup |-> FALSE, cleaned |-> FALSE]

HasPlace(w, a, p) == w.pc[p].inside = 0 /\ Cardinality(w.fields[a].entered) < MaxPlayers

InsertEntity(w, a, p, enter) ==
  IF ~HasPlace(w, a, p) THEN w
  ELSE IF enter
       THEN [w EXCEPT !.fields[a].entered = @ \cup {p}, !.pc[p].inside = a, !.pc[p].visited = TRUE]
       ELSE [w EXCEPT !.fields[a].registered = @ \cup {p}]

\* A mutant: the player stays in the list of those inside.
RemoveEntityListed(w, a, p, code) ==
  [w EXCEPT !.fields[a].enmity = @ \ {p}, !.pc[p].inside = 0]

\* RemoveEntity of a player. Who runs away keeps the effect while nobody fights, to
\* come back.
RemoveEntity(w, a, p, code) ==
  LET out == [w EXCEPT !.fields[a].entered = @ \ {p}, !.fields[a].enmity = @ \ {p},
                       !.pc[p].inside = 0]
  IN  IF code = "exit" /\ HasEffect(w, p)
      THEN IF w.fields[a].status = "locked" THEN LoseEffect(out, {p})
                                            ELSE [out EXCEPT !.pc[p].effect.tier = 0]
      ELSE out

\* The first blow locks the battlefield; whoever of the alliance is outside by then
\* loses the effect, though not the registration.
CheckInProgress(w, a) ==
  LET f == w.fields[a]
      v == [w EXCEPT !.fields[a].status = "locked"]
  IN  IF f.enmity = {} \/ f.status # "open" THEN w
      ELSE LoseEffect(v, {q \in UNION {Mates(w, p) : p \in f.entered} : w.pc[q].inside = 0})

\* A mutant: only what is over counts as in progress.
InProgressOver(w, a) == w.fields[a].status \in {"won", "lost"}
InProgress(w, a) == w.fields[a].status # "open"

\* A mutant: the time to leave is never lowered.
OnBattlefieldTickStuck(w, a, finds) ==
  LET f == w.fields[a]
      exiting == f.status \in {"won", "lost"}
  IN  [w EXCEPT !.fields[a] =
        [f EXCEPT !.status  = IF finds = "nothing" THEN f.status ELSE "lost",
                  !.cleanup = f.cleanup \/ ((exiting \/ finds = "time up") /\ f.timer = 0)]]

\* A mutant: the time to leave goes on below zero.
OnBattlefieldTickBelow(w, a, finds) ==
  LET f == w.fields[a]
      exiting == f.status \in {"won", "lost"}
  IN  [w EXCEPT !.fields[a] =
        [f EXCEPT !.status  = IF finds = "nothing" THEN f.status ELSE "lost",
                  !.timer   = IF exiting THEN f.timer - 1 ELSE f.timer,
                  !.cleanup = f.cleanup \/ ((exiting \/ finds = "time up") /\ f.timer < 0)]]

\* OnBattlefieldTick, with what it finds: nothing, that the time after a wipe has run
\* out, or the time of the battlefield. The time to leave is read before it is lowered.
OnBattlefieldTick(w, a, finds) ==
  LET f == w.fields[a]
      exiting == f.status \in {"won", "lost"}
  IN  [w EXCEPT !.fields[a] =
        [f EXCEPT !.status  = IF finds = "nothing" THEN f.status ELSE "lost",
                  !.timer   = IF exiting /\ f.timer > 0 THEN f.timer - 1 ELSE f.timer,
                  !.cleanup = f.cleanup \/ ((exiting \/ finds = "time up") /\ f.timer = 0)]]

CanCleanup(w, a) == w.fields[a].cleanup \/ w.fields[a].entered = {}

\* queueEvent: an event that waits already is not queued again.
Queued(events, e) == IF events # << >> /\ Contains(Tail(events), e) THEN events ELSE Append(events, e)

\* The first call tells the players inside how it ended; ten seconds later, or at once
\* when nobody is inside, everybody is removed and the area is free.
Cleanup(w, a, rested) ==
  LET f    == w.fields[a]
      told == [w EXCEPT !.fields[a].cleaned = TRUE,
                        !.pc = [p \in Player |->
                           IF p \in f.entered
                           THEN [w.pc[p] EXCEPT !.events =
                                   Queued(w.pc[p].events, IF f.status = "won" THEN "won" ELSE "lost")]
                           ELSE w.pc[p]]]
      out  == FoldSet(LAMBDA p, v : RemoveEntity(v, a, p, f.status), w, f.entered)
      over == LoseEffect(out, {p \in f.registered : w.pc[p].here})
  IN  IF ~f.cleaned THEN told
      ELSE IF f.entered # {} /\ ~rested THEN w
      ELSE [over EXCEPT !.fields = Restrict(@, DOMAIN @ \ {a})]

-----------------------------------------------------------------------------
(* CBattlefieldHandler *)

LoadBattlefield(w, p, area) ==
  LET new == [w EXCEPT !.fields = [a \in DOMAIN w.fields \cup {area} |->
                                     IF a = area THEN Created(p) ELSE w.fields[a]],
                       !.pc[p].effect = IF @ = NoEffect THEN [area |-> area, tier |-> 0] ELSE @]
  IN  IF Cardinality(DOMAIN w.fields) >= Areas THEN [code |-> "wait", world |-> w]
      ELSE IF area \in DOMAIN w.fields THEN [code |-> "increment", world |-> w]
      ELSE [code |-> "cutscene", world |-> InsertEntity(new, area, p, TRUE)]

\* Enter the battlefield p is registered for, or that of the initiator it comes
\* with, or a new one. (Who is inside a battlefield is never registered.)
RegisterBattlefield(w, p, area, initiator) ==
  LET mine   == Registered(w, p)
      theirs == {a \in DOMAIN w.fields : w.fields[a].initiator = initiator}
      found  == IF mine # {} THEN mine ELSE theirs
      a      == Min(found)
      reset  == [w EXCEPT !.pc[p].existing = FALSE]
      seen   == CheckInProgress(reset, a)
  IN  CASE found = {} /\ HasEffect(w, p) -> [code |-> "reqs", world |-> w]
        [] found = {} /\ ~HasEffect(w, p) /\ w.pc[p].existing -> [code |-> "reqs", world |-> reset]
        [] found # {} /\ HasEffect(w, p) ->
             IF InProgress(seen, a) THEN [code |-> "locked", world |-> seen]
             ELSE IF area # a THEN [code |-> "increment", world |-> seen]
             ELSE IF HasPlace(seen, a, p) THEN [code |-> "cutscene", world |-> InsertEntity(seen, a, p, FALSE)]
             ELSE [code |-> "full", world |-> seen]
        [] OTHER -> LoadBattlefield(w, p, area)

\* Who is kicked is told so and loses the effect.
Kick(w, p) ==
  IF ~w.pc[p].here THEN w
  ELSE LoseEffect(IF HasEffect(w, p) THEN [w EXCEPT !.pc[p].events = Queued(@, "lost")] ELSE w, {p})

\* One turn of the loops of HandleBattlefields, which come every 400 ms and call the
\* script once a second: tick the battlefield of an area and clean it up when that is
\* due. It is rested when the ten seconds between the two parts of Cleanup are over.
HandleBattlefield(a, finds, rested) ==
  LET w == IF CanCleanup(World, a) THEN World
           ELSE OnBattlefieldTick(CheckInProgress(World, a), a, finds)
  IN  /\ a \in DOMAIN fields
      /\ Become(IF CanCleanup(w, a) THEN Cleanup(w, a, rested) ELSE w)
      /\ UNCHANGED <<allied, menus, absences>>

\* And one turn of its loop over the orphans, whose five seconds are over.
HandleOrphan(p) ==
  /\ p \in orphans
  /\ Become([Kick(World, p) EXCEPT !.orphans = @ \ {p}])
  /\ UNCHANGED <<allied, menus, absences>>

-----------------------------------------------------------------------------
(* The players *)

Idle(p) == pc[p].here /\ pc[p].events = << >>
In(p, event) == pc[p].here /\ pc[p].events # << >> /\ Head(pc[p].events) = event
Ended(w, p) == [w EXCEPT !.pc[p].events = Tail(@)]

\* The entrance: one who has the effect may enter an existing battlefield; one who
\* has not may register, unless somebody of its alliance is engaged.
OnEntryTrigger(p) ==
  /\ menus < MaxMenus /\ Idle(p) /\ pc[p].inside = 0
  /\ HasEffect(World, p) \/ \A q \in Mates(World, p) : ~HasEffect(World, q)
  /\ Become([World EXCEPT !.pc[p].events = <<"enter">>, !.pc[p].existing = @ \/ HasEffect(World, p)])
  /\ menus' = menus + 1
  /\ UNCHANGED <<allied, absences>>

\* The members of the alliance who are not engaged get a copy of the effect and are
\* registered.
WithAlliance(w, p, area) ==
  FoldSet(LAMBDA q, v :
            IF HasEffect(v, q) \/ v.pc[q].inside # 0 THEN v
            ELSE RegisterBattlefield([v EXCEPT !.pc[q].effect = v.pc[p].effect], q, area, p).world,
          w, Mates(w, p))

\* A choice in the menu. The client asks for one area after the other.
OnEntryEventUpdate(p) ==
  LET area    == pc[p].ask + 1
      r       == RegisterBattlefield(World, p, area, p)
      w       == r.world
      entered == IF w.pc[p].inside = 0 /\ HasEffect(w, p) /\ Registered(w, p) # {}
                 THEN InsertEntity(w, Min(Registered(w, p)), p, TRUE) ELSE w
      at      == entered.pc[p].inside
      refused == pc[p].existing /\ ~HasEffect(World, p)
  IN  /\ In(p, "enter") /\ pc[p].inside = 0
      /\ \/ /\ refused
            /\ Become([World EXCEPT !.pc[p].existing = FALSE, !.pc[p].ask = 0])
         \/ /\ ~refused /\ r.code = "cutscene"
            /\ Become(IF at # 0 /\ entered.fields[at].initiator = p
                      THEN WithAlliance(entered, p, area) ELSE entered)
         \/ /\ ~refused /\ r.code = "increment"
            /\ Become([w EXCEPT !.pc[p].ask = IF area < Areas THEN area ELSE @])
         \/ /\ ~refused /\ r.code = "reqs"
            /\ Become(LoseEffect(w, {p}))
         \/ /\ ~refused /\ r.code \in {"wait", "locked", "full"}
            /\ Become(w)
      /\ UNCHANGED <<allied, menus, absences>>

\* The entry event ends, or the menu is closed.
OnEventFinishEnter(p) ==
  LET known == pc[p].inside # 0 \/ pc[p].visited
      w     == Ended(World, p)
      tier  == IF known /\ HasEffect(w, p) THEN 1 ELSE w.pc[p].effect.tier
  IN  /\ In(p, "enter")
      /\ Become([w EXCEPT !.pc[p].effect.tier = tier, !.pc[p].ask = IF known THEN 0 ELSE @])
      /\ UNCHANGED <<allied, menus, absences>>

OnExitTrigger(p) ==
  /\ Idle(p) /\ pc[p].inside # 0
  /\ Become([World EXCEPT !.pc[p].events = <<"exit">>])
  /\ UNCHANGED <<allied, menus, absences>>

Leaves(w, p) == IF w.pc[p].inside = 0 THEN w ELSE RemoveEntity(w, w.pc[p].inside, p, "exit")

OnEventFinishExit(p) ==
  /\ In(p, "exit")
  /\ \E option \in {3, 4} : Become(IF option = 4 THEN Leaves(Ended(World, p), p) ELSE Ended(World, p))
  /\ UNCHANGED <<allied, menus, absences>>

OnEventFinishWin(p) == In(p, "won") /\ Become(Ended(World, p)) /\ UNCHANGED <<allied, menus, absences>>
OnEventFinishLeave(p) == In(p, "lost") /\ Become(Leaves(Ended(World, p), p)) /\ UNCHANGED <<allied, menus, absences>>

\* A player leaves the zone, by a warp or by logging out.
DecreaseZoneCounter(p) ==
  /\ absences < MaxAbsences /\ pc[p].here
  /\ LET w == IF pc[p].inside = 0 THEN World ELSE RemoveEntity(World, pc[p].inside, p, "warpdc")
     IN  Become([w EXCEPT !.pc[p] = [Newcomer EXCEPT !.effect = w.pc[p].effect]])
  /\ absences' = absences + 1
  /\ UNCHANGED <<allied, menus>>

\* And comes back, which takes longer than five seconds. Only one who logged out
\* still has the effect.
IncreaseZoneCounter(p) ==
  /\ ~pc[p].here /\ p \notin orphans
  /\ \E kept \in BOOLEAN :
       LET w  == [World EXCEPT !.pc[p].here = TRUE, !.pc[p].effect = IF kept THEN pc[p].effect ELSE NoEffect]
           as == Registered(w, p)
       IN  Become(IF ~HasEffect(w, p) THEN w
                  ELSE IF as # {} THEN InsertEntity(w, Min(as), p, w.pc[p].effect.tier = 1)
                  ELSE IF w.pc[p].effect.tier = 1 THEN [w EXCEPT !.orphans = @ \cup {p}]
                  ELSE LoseEffect(w, {p}))
  /\ UNCHANGED <<allied, menus, absences>>

LeaveAlliance(p) ==
  /\ p \in allied
  /\ allied' = IF Cardinality(allied) > 2 THEN allied \ {p} ELSE {}
  /\ UNCHANGED <<fields, pc, orphans, menus, absences>>

-----------------------------------------------------------------------------
(* The fight and the time *)

Attack(p) ==
  /\ Idle(p) /\ pc[p].inside # 0
  /\ fields[pc[p].inside].status \in {"open", "locked"}
  /\ Become([World EXCEPT !.fields[pc[p].inside].enmity = @ \cup {p}])
  /\ UNCHANGED <<allied, menus, absences>>

HandleAllMonstersDefeated(a) ==
  /\ a \in DOMAIN fields /\ fields[a].enmity # {} /\ fields[a].status # "won"
  /\ Become([World EXCEPT !.fields[a].status = "won", !.fields[a].timer = DelayToExit, !.fields[a].enmity = {}])
  /\ UNCHANGED <<allied, menus, absences>>

-----------------------------------------------------------------------------
Init ==
  /\ fields = << >>
  /\ pc = [p \in Player |-> [Newcomer EXCEPT !.here = TRUE]]
  /\ orphans = {}
  /\ allied = Player
  /\ menus = 0 /\ absences = 0

Next ==
  \/ \E a \in Area, finds \in {"nothing", "wiped", "time up"}, rested \in BOOLEAN :
       HandleBattlefield(a, finds, rested)
  \/ \E p \in Player : HandleOrphan(p)
  \/ \E p \in Player :
       \/ OnEntryTrigger(p) \/ OnEntryEventUpdate(p) \/ OnEventFinishEnter(p)
       \/ OnExitTrigger(p) \/ OnEventFinishExit(p) \/ OnEventFinishWin(p) \/ OnEventFinishLeave(p)
       \/ DecreaseZoneCounter(p) \/ IncreaseZoneCounter(p) \/ LeaveAlliance(p) \/ Attack(p)
  \/ \E a \in Area : HandleAllMonstersDefeated(a)

Spec == Init /\ [][Next]_vars

\* The zone ticks, and for as long as there is a battlefield a tick comes that finds
\* its time up and the ten seconds over.
FairSpec ==
  /\ Spec
  /\ \A a \in Area : WF_vars(HandleBattlefield(a, "time up", TRUE))

-----------------------------------------------------------------------------
(* Properties *)

TypeOK ==
  /\ DOMAIN fields \subseteq Area
  /\ \A a \in DOMAIN fields :
       fields[a] \in [initiator : Player, registered : SUBSET Player, entered : SUBSET Player,
                      status : {"open", "locked", "won", "lost"}, enmity : SUBSET Player,
                      timer : 0..DelayToExit, cleanup : BOOLEAN, cleaned : BOOLEAN]
  /\ pc \in [Player -> [here : BOOLEAN, inside : 0..Areas, effect : [area : 0..Areas, tier : 0..1],
                        events : Seq({"enter", "exit", "won", "lost"}),
                        existing : BOOLEAN, ask : 0..(Areas - 1), visited : BOOLEAN]]
  /\ orphans \subseteq Player /\ allied \subseteq Player
  /\ menus \in 0..MaxMenus /\ absences \in 0..MaxAbsences

\* PBattlefield of a character and m_EnteredPlayers of a battlefield say the same, of
\* players in the zone only: the pointer never outlives the battlefield, and Cleanup
\* finds everybody it hands to the scripts. And nobody comes in above the limit.
Consistent ==
  /\ \A p \in Player : pc[p].inside # 0 =>
       /\ pc[p].here /\ pc[p].inside \in DOMAIN fields
       /\ p \in fields[pc[p].inside].entered
  /\ \A a \in DOMAIN fields : \A p \in fields[a].entered :
       pc[p].inside = a /\ p \in fields[a].registered
  /\ \A a \in DOMAIN fields : Cardinality(fields[a].entered) <= MaxPlayers

\* "players haven't started fighting yet, try entering": once a blow has fallen only
\* those come in who had been inside.
NoLateEntry ==
  [][\A p \in Player, a \in DOMAIN fields :
       pc[p].inside = 0 /\ pc'[p].inside = a /\ (fields[a].status # "open" \/ fields[a].enmity # {})
         => pc[p].effect.tier = 1]_vars

\* However the players come, stay, leave, return and lose, an area is free again.
Freed == \A a \in Area : a \in DOMAIN fields ~> a \notin DOMAIN fields

\* "Player doesn't have battlefield status effect. That means player wants to register
\* a new battlefield OR is attempting to enter a closed one.": whoever is inside a
\* battlefield has its effect.
InsideHasEffect == \A p \in Player : pc[p].inside # 0 => pc[p].effect.area = pc[p].inside

=============================================================================
