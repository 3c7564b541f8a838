------------------------------ MODULE Presence ------------------------------
(***************************************************************************)
(* What the processes of a deployment promise together about a character:  *)
(* it is in at most one zone; it moves by leaving first, with its          *)
(* destination saved, and it arrives nowhere but at the saved zone.        *)
(***************************************************************************)
CONSTANTS
  Zone,   \* the zones of all processes
  None    \* in no zone; not one of Zone

VARIABLES where, saved

Init == where = None /\ saved \in Zone

Arrive == where = None /\ where' = saved /\ UNCHANGED saved

\* Towards zone z, or, by a logout, a timeout or a crash, with the zone it was in saved.
Leave(z) == where # None /\ where' = None /\ saved' = z

Next == Arrive \/ \E z \in Zone : Leave(z)

Spec == Init /\ [][Next]_<<where, saved>>
=============================================================================
