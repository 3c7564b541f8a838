------------------------------ MODULE MCParty ------------------------------
(***************************************************************************)
(* Party for TLC.  Zones bear the names of their servers; the players are  *)
(* interchangeable (the CHOOSEs of Party pick among things that the        *)
(* invariants make equal, or there is one).                                *)
(***************************************************************************)
EXTENDS Party, TLC

CONSTANTS ann, ben, cid, dan

HostDef == [z \in Zone |-> z]

Symmetry == Permutations(Player)
=============================================================================
