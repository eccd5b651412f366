------------------------------ MODULE MCSframe ------------------------------
(* Instances of Sframe for TLC.  One member sends and one receives: contexts
   share nothing, so further receivers add no behaviour of their own. *)
EXTENDS Sframe

CONSTANTS alice, bob

MCMembers == {alice, bob}
MCSenders == {alice}
ByOne == {1}
Again == {0, 1}
ByOneOrWrap == {1, EpochMod}
=============================================================================
