------------------------------- MODULE Parcels -------------------------------
(***************************************************************************)
(* What the delivery box and the auction house promise: an item is in one  *)
(* place of one owner, and goes from place to place along the ways that    *)
(* its owners know of.  Items that look the same are only counted.         *)
(***************************************************************************)
EXTENDS Integers

CONSTANTS Player, Kind, Coin

VARIABLE at   \* how many of each kind there are in each place

Place == {"hand",      \* the inventory
          "out",       \* laid into the outgoing box, or called back
          "queue",     \* sent, and not opened yet
          "box",       \* in the incoming box
          "market",    \* offered in the auction house
          "gone"}      \* thrown away
         \X Player

OwnWay == {<<"hand", "out">>, <<"out", "hand">>,          \* lay, take back
           <<"queue", "box">>, <<"box", "hand">>,         \* open, take
           <<"box", "gone">>,                             \* throw away
           <<"hand", "market">>, <<"market", "hand">>,    \* offer, withdraw
           <<"market", "queue">>}                         \* nobody bought it
Posted == {<<"out", "queue">>, <<"queue", "out">>,        \* send, call back
           <<"box", "queue">>}                            \* return

Thing == Place \X Kind
Leaves(a, b, h)  == a[h] > 0 /\ b[h] = a[h] - 1
Arrives(a, b, h) == b[h] = a[h] + 1

\* One item goes from one place to another.
Move(a, b, changed) == \E f, t \in changed :
  /\ changed = {f, t} /\ Leaves(a, b, f) /\ Arrives(a, b, t) /\ f[2] = t[2]
  /\ LET way == <<f[1][1], t[1][1]>> IN way \in Posted \/ (way \in OwnWay /\ f[1][2] = t[1][2])

\* The item goes to the buyer, and the price, one coin, to the seller.
Sale(a, b, changed) == \E buyer, seller \in Player, kind \in Kind \ {Coin} :
  LET f == << <<"market", seller>>, kind >>   t == << <<"hand", buyer>>, kind >>
      price == << <<"hand", buyer>>, Coin >>  payment == << <<"queue", seller>>, Coin >> IN
  /\ changed = {f, t, price, payment}
  /\ Leaves(a, b, f) /\ Arrives(a, b, t) /\ Leaves(a, b, price) /\ Arrives(a, b, payment)

Init == at \in [Thing -> Nat]
Next ==
  LET old == at  new == at' IN
  /\ old # new
  /\ LET changed == {h \in Thing : old[h] # new[h]} IN
       Move(old, new, changed) \/ Sale(old, new, changed)
Spec == Init /\ [][Next]_at
=============================================================================
