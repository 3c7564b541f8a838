----------------------------- MODULE MCBattlefield -----------------------------
(* Small instances of Battlefield. *)
EXTENDS Battlefield
CONSTANTS ann, ben, cid

\* The players are alike.
Alike == Permutations(Player)
=============================================================================
