----------------------------- MODULE RoomActor -----------------------------
(***************************************************************************)
(* The room actors (src/src/actor/room.rs): the ROOM_CHANNELS directory,   *)
(* the tasks that get_or_create_room_channel spawns, their unbounded event *)
(* channels, and the channels on which the players hear from the rooms.    *)
(*                                                                         *)
(* A room id can be served by several tasks one after the other, so a task *)
(* has an identity of its own, which is also the identity of its channel:  *)
(* a handle (UnboundedSender) is the RoomTask it leads to, and it may      *)
(* outlive the task.  The player actors are the environment: they obtain   *)
(* handles, send any event at any time, take events from their channels,   *)
(* and stop.  Module PlayerActor replaces this environment by the code.    *)
(***************************************************************************)
EXTENDS EntityRoom

CONSTANTS
    RoomTask,   \* the tasks that may be spawned: the bound on room creations
    TargetIds,  \* the target_ids lists of messages
    Body        \* the bodies of messages

ASSUME RoomTaskAssumption == None \notin RoomTask
ASSUME TargetIdsAssumption == TargetIds \subseteq Seq(PlayerId)

VARIABLES
    roomChannels,  \* ROOM_CHANNELS: room id -> handle, or None
    status,        \* how far each room task is
    room,          \* the entity::Room each task owns, None before it is spawned
    roomRx,        \* the event channel of each task
    playerRx,      \* the event channel of each player actor
    listening      \* whether the player actor still holds its player_rx

roomVars == <<roomChannels, status, room, roomRx, playerRx, listening>>

\* "running" is the loop of run; "emptied" waits for the lock that removes the
\* directory entry; "removed" has removed it and still holds room_rx; "dropped"
\* has ended.
Status == {"unborn", "running", "emptied", "removed", "dropped"}

InputEvent ==
    [type : {"Join"}, player : Player, config : RoomConfig]
        \cup [type : {"Leave"}, playerId : PlayerId]
        \cup [type : {"Message"}, sender : PlayerId, targets : TargetIds, body : Body]

OutputEvent ==
    [type : {"Join"}, roomId : RoomId, playerId : PlayerId,
     roomPlayerIds : SUBSET PlayerId, config : RoomConfig]
        \cup [type : {"JoinError"}, error : RoomError, roomId : RoomId, playerId : PlayerId]
        \cup [type : {"Leave"}, roomId : RoomId, playerId : PlayerId]
        \cup [type : {"Message"}, roomId : RoomId, sender : PlayerId, body : Body]

RoomTypeOK ==
    /\ roomChannels \in [RoomId -> RoomTask \cup {None}]
    /\ status \in [RoomTask -> Status]
    /\ room \in [RoomTask -> Room \cup {None}]
    /\ roomRx \in [RoomTask -> Seq(InputEvent)]
    /\ playerRx \in [Session -> Seq(OutputEvent)]
    /\ listening \in [Session -> BOOLEAN]

RoomInit ==
    /\ roomChannels = [r \in RoomId |-> None]
    /\ status = [i \in RoomTask |-> "unborn"]
    /\ room = [i \in RoomTask |-> None]
    /\ roomRx = [i \in RoomTask |-> <<>>]
    /\ playerRx = [s \in Session |-> <<>>]
    /\ listening = [s \in Session |-> TRUE]

-----------------------------------------------------------------------------
(* The directory and the channels, as the player actors use them.          *)

SpawnRoom(r, config, i) ==
    /\ status[i] = "unborn"
    /\ status' = [status EXCEPT ![i] = "running"]
    /\ room' = [room EXCEPT ![i] = NewRoom(r, config)]
    /\ roomChannels' = [roomChannels EXCEPT ![r] = i]
    /\ UNCHANGED <<roomRx, playerRx, listening>>

\* get_room_channel returns handle i.
GetRoomChannel(r, i) == i # None /\ roomChannels[r] = i

\* Variant: the directory is looked up under a read lock that is released before
\* the write lock is taken, so that the entry found missing may exist by then.
GetOrCreateWithoutRecheck(r, config, i) ==
    \/ GetRoomChannel(r, i) /\ UNCHANGED roomVars
    \/ SpawnRoom(r, config, i)

\* get_or_create_room_channel returns handle i: lookup, spawn and insertion are one
\* critical section of the write lock.
GetOrCreateRoomChannel(r, config, i) ==
    \/ GetRoomChannel(r, i) /\ UNCHANGED roomVars
    \/ roomChannels[r] = None /\ SpawnRoom(r, config, i)

\* UnboundedSender::send succeeds as long as the receiver exists, whether or not the
\* task will ever receive again.
CanSend(i) == status[i] \in {"running", "emptied", "removed"}

SendToRoom(i, event) ==
    /\ CanSend(i)
    /\ roomRx' = [roomRx EXCEPT ![i] = Append(@, event)]
    /\ UNCHANGED <<roomChannels, status, room, playerRx, listening>>

\* The player actor of s takes the next event from its channel.
PlayerReceives(s) ==
    /\ listening[s] /\ playerRx[s] # <<>>
    /\ playerRx' = [playerRx EXCEPT ![s] = Tail(@)]
    /\ UNCHANGED <<roomChannels, status, room, roomRx, listening>>

\* The player actor of s ends and drops its player_rx with what is in it.
PlayerStops(s) ==
    /\ listening' = [listening EXCEPT ![s] = FALSE]
    /\ playerRx' = [playerRx EXCEPT ![s] = <<>>]
    /\ UNCHANGED <<roomChannels, status, room, roomRx>>

-----------------------------------------------------------------------------
(* The room task.                                                          *)

\* count[s] copies of the event go to session s; a send to a player actor that is
\* gone fails and is only logged.
Deliver(count, event) ==
    playerRx' = [s \in Session |->
        IF listening[s] THEN playerRx[s] \o [k \in 1..count[s] |-> event] ELSE playerRx[s]]

Receives(i, type) ==
    /\ status[i] = "running"
    /\ roomRx[i] # <<>>
    /\ Head(roomRx[i]).type = type

\* Variant: a room counts as empty while one player is left in it.
StopIfEmptyOffByOne(i, after) ==
    /\ room' = [room EXCEPT ![i] = after]
    /\ status' = [status EXCEPT ![i] = IF NumPlayers(after) <= 1 THEN "emptied" ELSE "running"]
    /\ roomRx' = [roomRx EXCEPT ![i] = Tail(@)]
    /\ UNCHANGED <<roomChannels, listening>>

\* What follows every handler in run: the handled event is gone, the room is now
\* `after`, and a room without players stops.
StopIfEmpty(i, after) ==
    /\ room' = [room EXCEPT ![i] = after]
    /\ status' = [status EXCEPT ![i] = IF NumPlayers(after) = 0 THEN "emptied" ELSE "running"]
    /\ roomRx' = [roomRx EXCEPT ![i] = Tail(@)]
    /\ UNCHANGED <<roomChannels, listening>>

\* Variant: the list of players is made before the player is added.
JoinEventBefore(joined, id) ==
    [type |-> "Join", roomId |-> joined.id, playerId |-> id,
     roomPlayerIds |-> DOMAIN joined.players \ {id}, config |-> joined.config]

JoinEvent(joined, id) ==
    [type |-> "Join", roomId |-> joined.id, playerId |-> id,
     roomPlayerIds |-> DOMAIN joined.players, config |-> joined.config]

LeaveEvent(left, id) == [type |-> "Leave", roomId |-> left.id, playerId |-> id]

\* Variant: the Join is broadcast before the player is inserted.
BroadcastBeforeInsertion(i, event) ==
    LET joined == AddPlayer(room[i], event.player)
    IN  /\ AddPlayerResult(room[i], event.player, event.config) = "Ok"
        /\ Deliver(BroadcastCount(room[i]), JoinEvent(joined, event.player.id))
        /\ StopIfEmpty(i, joined)

AcceptJoin(i, event) ==
    LET joined == AddPlayer(room[i], event.player)
    IN  /\ AddPlayerResult(room[i], event.player, event.config) = "Ok"
        /\ Deliver(BroadcastCount(joined), JoinEvent(joined, event.player.id))
        /\ StopIfEmpty(i, joined)

RefuseJoin(i, event) ==
    LET result == AddPlayerResult(room[i], event.player, event.config)
    IN  /\ result \in RoomError
        /\ Deliver([s \in Session |-> IF s = event.player.sender THEN 1 ELSE 0],
                   [type |-> "JoinError", error |-> result,
                    roomId |-> room[i].id, playerId |-> event.player.id])
        /\ StopIfEmpty(i, room[i])

HandleJoinEvent(i) ==
    /\ Receives(i, "Join")
    /\ AcceptJoin(i, Head(roomRx[i])) \/ RefuseJoin(i, Head(roomRx[i]))

\* The leaver is still in the room when the event is broadcast, and hears it too.
HandleLeaveEvent(i) ==
    LET id == Head(roomRx[i]).playerId
    IN  /\ Receives(i, "Leave")
        /\ \/ /\ IsJoined(room[i], id)
              /\ Deliver(BroadcastCount(room[i]), LeaveEvent(room[i], id))
              /\ StopIfEmpty(i, RemovePlayer(room[i], id))
           \/ /\ ~IsJoined(room[i], id)
              /\ StopIfEmpty(i, room[i])
              /\ UNCHANGED playerRx

\* An empty list of targets means everyone in the room.
HandleMessageEvent(i) ==
    LET event == Head(roomRx[i])
    IN  /\ Receives(i, "Message")
        /\ Deliver(IF event.targets = <<>> THEN BroadcastCount(room[i])
                                           ELSE SendCount(room[i], event.targets),
                   [type |-> "Message", roomId |-> room[i].id,
                    sender |-> event.sender, body |-> event.body])
        /\ StopIfEmpty(i, room[i])

\* Variant: the task ends, dropping its receiver, before it removes its entry.
DropRoomFirst(i) ==
    /\ status[i] \in {"emptied", "removed"}
    /\ status' = [status EXCEPT ![i] = "dropped"]
    /\ roomRx' = [roomRx EXCEPT ![i] = <<>>]
    /\ UNCHANGED <<roomChannels, room, playerRx, listening>>

\* remove_room_from_channels: whatever entry the room's id has.
RemoveRoomFromChannels(i) ==
    /\ status[i] = "emptied"
    /\ roomChannels' = [roomChannels EXCEPT ![room[i].id] = None]
    /\ status' = [status EXCEPT ![i] = "removed"]
    /\ UNCHANGED <<room, roomRx, playerRx, listening>>

\* The end of run: room_rx is dropped with every event still in it.
DropRoom(i) ==
    /\ status[i] = "removed"
    /\ status' = [status EXCEPT ![i] = "dropped"]
    /\ roomRx' = [roomRx EXCEPT ![i] = <<>>]
    /\ UNCHANGED <<roomChannels, room, playerRx, listening>>

RoomStep(i) ==
    \/ HandleJoinEvent(i)
    \/ HandleLeaveEvent(i)
    \/ HandleMessageEvent(i)
    \/ RemoveRoomFromChannels(i)
    \/ DropRoom(i)

RoomNext ==
    \/ \E r \in RoomId, config \in RoomConfig, i \in RoomTask :
           GetOrCreateRoomChannel(r, config, i)
    \/ \E i \in RoomTask, event \in InputEvent : SendToRoom(i, event)
    \/ \E s \in Session : PlayerReceives(s) \/ PlayerStops(s)
    \/ \E i \in RoomTask : RoomStep(i)

RoomActorSpec == RoomInit /\ [][RoomNext]_roomVars

-----------------------------------------------------------------------------
(* Properties.                                                             *)

Live(i) == status[i] \in {"running", "emptied"}

\* The directory and the tasks agree: the entry of a room id leads to a task that
\* serves that id and has not given it up, and every such task is the one its id
\* leads to.  So remove_room_from_channels, which removes by id, never removes the
\* entry of another task, and a send to a looked-up handle reaches a live receiver
\* unless the room stops in between.
DirectoryMatchesTasks ==
    /\ \A r \in RoomId : roomChannels[r] # None =>
           Live(roomChannels[r]) /\ room[roomChannels[r]].id = r
    /\ \A i \in RoomTask : Live(i) => roomChannels[room[i].id] = i

\* Two tasks never serve one room id: players who join the same room id at the same
\* time meet in the same room.
OneLiveTaskPerRoom ==
    \A i, j \in RoomTask : Live(i) /\ Live(j) /\ room[i].id = room[j].id => i = j

\* No interleaving of joins, leaves and refused joins brings more players into a
\* room than its max_players.
CapacityRespected ==
    \A i \in RoomTask : status[i] # "unborn" => NumPlayers(room[i]) <= room[i].config

\* A task that has stopped serving its room leaves nobody behind in it.
StoppedRoomIsEmpty ==
    \A i \in RoomTask : status[i] \in {"emptied", "removed", "dropped"} =>
        NumPlayers(room[i]) = 0

-----------------------------------------------------------------------------
(* The tasks and their directory implement Rooms.                          *)

\* The room an id denotes: the one of the task its entry leads to.
RoomOf(r) == IF roomChannels[r] = None THEN None ELSE room[roomChannels[r]]

AbstractRooms == INSTANCE Rooms WITH rooms <- [r \in RoomId |-> RoomOf(r)]

\* Through every creation, stop and re-creation of tasks, a room id behaves as one room:
\* one config from creation to removal, no more players than it allows, and no removal
\* while a player is in it.
ImplementsRooms == AbstractRooms!RoomsSpec

=============================================================================
