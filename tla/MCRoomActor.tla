---------------------------- MODULE MCRoomActor ----------------------------
(* Bounds for checking RoomActor with an arbitrary environment.            *)
EXTENDS RoomActor, TLC

CONSTANTS
    p1, p2,        \* player ids
    MaxRoomRx,     \* bound on the events waiting for a room task
    MaxPlayerRx    \* bound on the events waiting for a player actor

MCTargetIds == {<<>>, <<p2, p2>>}

\* States with a channel longer than its bound are checked but not explored further.
BoundedChannels ==
    /\ \A i \in RoomTask : Len(roomRx[i]) <= MaxRoomRx
    /\ \A s \in Session : Len(playerRx[s]) <= MaxPlayerRx

Symmetry == Permutations(RoomTask) \cup Permutations(Session)

=============================================================================
