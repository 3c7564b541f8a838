--------------------------- MODULE MCZoneTransfer ---------------------------
(* A small deployment: two map servers. *)
EXTENDS ZoneTransfer

CONSTANTS s1, s2, zc

\* Zone zc has a process of its own, the others share one.
MCServerOf == [z \in Zone |-> IF z = zc THEN s2 ELSE s1]
=============================================================================
