--------------------------- MODULE MCPlayerActor ---------------------------
(* Values for checking PlayerActor.                                        *)
EXTENDS PlayerActor, TLC

MCTargetIds == {<<>>}

Symmetry == Permutations(RoomTask) \cup Permutations(Session) \cup Permutations(PlayerId)

=============================================================================
