---------------------------- MODULE MCPlayerTrade ----------------------------
EXTENDS PlayerTrade

CONSTANTS a, b, c, gil, rare, plain, pearl

Empty == [s \in InvSlot |-> IF s = 0 THEN [kind |-> Gil, qty |-> 0, res |-> 0] ELSE NoItem]
With(in, s, kind, n) == [in EXCEPT ![s] = [kind |-> kind, qty |-> n, res |-> 0]]

\* Both have the rare item, one of them also a stack of two and no free slot.
Exchange == [
  players |-> {a, b}, uses |-> {0, 1}, withdraws |-> FALSE, leaves |-> FALSE, busy |-> FALSE, hasty |-> FALSE, same |-> {},
  pouch |-> [p \in Player |-> IF p = a THEN With(With(Empty, 1, plain, 2), 2, rare, 1)
                             ELSE With(Empty, 1, rare, 1)]]

\* They also take items back; the stack is of one.
Withdrawn == [Exchange EXCEPT !.withdraws = TRUE, !.pouch[a][1].qty = 1]

\* One has an item, the other as much money as anybody may have.
Purchase == [Exchange EXCEPT !.pouch = [p \in Player |->
  IF p = a THEN With(Empty, 0, gil, 1) ELSE With(Empty, 1, plain, 1)]]

\* One has an item to use, the other a linkshell; both leave and are busy.
Disturbed == [
  players |-> {a, b}, uses |-> {0}, withdraws |-> FALSE, leaves |-> TRUE, busy |-> TRUE, hasty |-> FALSE, same |-> {a},
  pouch |-> [p \in Player |-> IF p = a THEN With(Empty, 1, plain, 1)
                             ELSE With(Empty, 1, pearl, 1)]]

\* Three players with nothing to trade.
Handshake == [
  players |-> {a, b, c}, uses |-> {}, withdraws |-> FALSE, leaves |-> FALSE, busy |-> FALSE, hasty |-> FALSE, same |-> {},
  pouch |-> [p \in Player |-> Empty]]

\* Two of them, whose requests cross.
Crossing == [Handshake EXCEPT !.players = {a, b}, !.hasty = TRUE]

Trades == {Exchange, Withdrawn, Purchase, Disturbed, Handshake, Crossing}
Withdrawals == {[Withdrawn EXCEPT !.hasty = TRUE]}
=============================================================================
