------------------------------- MODULE Rooms -------------------------------
(***************************************************************************)
(* What the room actors promise together: a room id denotes at most one    *)
(* room; the room has the config of the request that created it as long as *)
(* it exists; players enter and leave it one at a time, never more than    *)
(* its config allows; and it goes away only when nobody is in it.  There   *)
(* are no tasks, channels, handles or locks here: RoomActor implements     *)
(* this specification with them.                                           *)
(***************************************************************************)
EXTENDS EntityRoom

VARIABLE rooms   \* room id -> the room, or None

RoomsInit == rooms = [r \in RoomId |-> None]

Exists(r) == rooms[r] # None

Create(r, config) ==
    /\ ~Exists(r)
    /\ rooms' = [rooms EXCEPT ![r] = NewRoom(r, config)]

Enter(r, player) ==
    /\ Exists(r)
    /\ ~IsJoined(rooms[r], player.id)
    /\ NumPlayers(rooms[r]) < rooms[r].config
    /\ rooms' = [rooms EXCEPT ![r] = AddPlayer(@, player)]

Exit(r, id) ==
    /\ Exists(r)
    /\ IsJoined(rooms[r], id)
    /\ rooms' = [rooms EXCEPT ![r] = RemovePlayer(@, id)]

Close(r) ==
    /\ Exists(r)
    /\ NumPlayers(rooms[r]) = 0
    /\ rooms' = [rooms EXCEPT ![r] = None]

RoomsNext ==
    \E r \in RoomId :
        \/ \E config \in RoomConfig : Create(r, config)
        \/ \E player \in Player : Enter(r, player)
        \/ \E id \in PlayerId : Exit(r, id)
        \/ Close(r)

RoomsSpec == RoomsInit /\ [][RoomsNext]_rooms

=============================================================================
