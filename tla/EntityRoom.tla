----------------------------- MODULE EntityRoom -----------------------------
(***************************************************************************)
(* The room entity (src/src/entity/room.rs): a room is a record with its   *)
(* id, its config and the HashMap of its players.  The operators are the   *)
(* methods of the Rust type, as functions from a room to a room or to a    *)
(* result.                                                                 *)
(***************************************************************************)
EXTENDS EntityPlayer, Integers, FiniteSets, Sequences

CONSTANTS
    RoomId,      \* the room ids clients name
    RoomConfig   \* the max_players values of the room configs in use

DefaultConfig == 2   \* the config of a JoinRequest that carries none

ASSUME RoomConfigAssumption ==
    /\ RoomConfig \subseteq Nat
    /\ DefaultConfig \in RoomConfig

PlayerMap == UNION {[D -> Session] : D \in {D \in SUBSET PlayerId : IsFiniteSet(D)}}

Room == [id : RoomId, config : RoomConfig, players : PlayerMap]

ASSUME RoomNoneAssumption == None \notin RoomId /\ None \notin Room

RoomError == {"AlreadyJoinedRoom", "RoomConfigDoesNotMatch", "RoomIsFull"}

NewRoom(id, config) == [id |-> id, config |-> config, players |-> [p \in {} |-> None]]

IsJoined(room, id) == id \in DOMAIN room.players

NumPlayers(room) == Cardinality(DOMAIN room.players)

\* Variant of AddPlayerResult with an off-by-one in the capacity test.
AddPlayerResultOffByOne(room, player, config) ==
    IF room.config # config THEN "RoomConfigDoesNotMatch"
    ELSE IF IsJoined(room, player.id) THEN "AlreadyJoinedRoom"
    ELSE IF NumPlayers(room) > room.config THEN "RoomIsFull"
    ELSE "Ok"

\* The checks of add_player, in the order in which the code makes them.
AddPlayerResult(room, player, config) ==
    IF room.config # config THEN "RoomConfigDoesNotMatch"
    ELSE IF IsJoined(room, player.id) THEN "AlreadyJoinedRoom"
    ELSE IF NumPlayers(room) >= room.config THEN "RoomIsFull"
    ELSE "Ok"

\* The insertion that ends a successful add_player.
AddPlayer(room, player) ==
    [room EXCEPT !.players =
        [id \in DOMAIN room.players \cup {player.id} |->
            IF id = player.id THEN player.sender ELSE room.players[id]]]

\* Variant of RemovePlayer that clears the sender and keeps the entry.
ClearPlayer(room, id) == [room EXCEPT !.players[id] = None]

RemovePlayer(room, id) ==
    [room EXCEPT !.players =
        [other \in DOMAIN room.players \ {id} |-> room.players[other]]]

\* How many events a broadcast puts into the channel of session s: one for each
\* entry of the map that holds its sender.
BroadcastCount(room) ==
    [s \in Session |-> Cardinality({id \in DOMAIN room.players : room.players[id] = s})]

\* How many events sends to each of the targets, a Vec in which an id may repeat,
\* put into the channel of session s.  A target that has not joined is skipped.
SendCount(room, targets) ==
    [s \in Session |->
        Cardinality({k \in DOMAIN targets :
            IsJoined(room, targets[k]) /\ room.players[targets[k]] = s})]

=============================================================================
