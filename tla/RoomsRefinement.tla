--------------------------- MODULE RoomsRefinement ---------------------------
(***************************************************************************)
(* The room actors implement Rooms: under the mapping that takes a room id *)
(* to the room of the task its entry leads to, the initial state is the    *)
(* one without rooms, spawning a task creates a room, the handlers of Join *)
(* and Leave enter and exit it, removing the entry closes it, and nothing  *)
(* else is visible.  Each step needs RoomInv: only the agreement of the    *)
(* directory with the tasks makes a task's room the room of its id.        *)
(***************************************************************************)
EXTENDS RoomActorProofs

rooms == [r \in RoomId |-> RoomOf(r)]

\* The room of a live task is the room its id denotes.
LEMMA RoomOfLiveTask ==
    ASSUME RoomInv, NEW i \in RoomTask, Live(i)
    PROVE  /\ room[i] \in Room
           /\ room[i].id \in RoomId
           /\ RoomOf(room[i].id) = room[i]
           /\ room[i] # None
<1>1. status[i] # "unborn"
  BY DEF Live
<1>2. room[i] \in Room /\ room[i].id \in RoomId
  BY <1>1, PlayersOfRoom DEF RoomInv, RoomsExist
<1>3. roomChannels[room[i].id] = i
  BY DEF RoomInv, DirectoryMatchesTasks
<1> QED
  BY <1>2, <1>3, RoomTaskAssumption, RoomNoneAssumption DEF RoomOf

\* An entry that is not the one of task i leads to another task.
LEMMA OtherEntries ==
    ASSUME RoomInv, NEW r \in RoomId, roomChannels[r] # None
    PROVE  /\ roomChannels[r] \in RoomTask
           /\ Live(roomChannels[r])
           /\ room[roomChannels[r]].id = r
BY DEF RoomInv, RoomTypeOK, DirectoryMatchesTasks

\* Without a change of the directory and the rooms nothing happens to the rooms.
LEMMA RoomsStutter ==
    ASSUME UNCHANGED <<roomChannels, room>>
    PROVE  UNCHANGED rooms
BY DEF rooms, RoomOf

\* What the end of a handler does to the rooms.
LEMMA HandlerReplacesRoom ==
    ASSUME RoomInv, NEW i \in RoomTask, status[i] = "running", NEW after,
           StopIfEmpty(i, after)
    PROVE  rooms' = [rooms EXCEPT ![room[i].id] = after]
<1>1. PICK q \in RoomId : q = room[i].id
  BY RoomOfLiveTask DEF Live
<1>2. roomChannels[q] = i /\ i # None
  BY <1>1, RoomTaskAssumption DEF RoomInv, DirectoryMatchesTasks, Live
<1>3. /\ roomChannels' = roomChannels
      /\ room'[i] = after
      /\ \A j \in RoomTask : j # i => room'[j] = room[j]
  BY DEF StopIfEmpty, RoomInv, RoomTypeOK
<1>4. RoomOf(q)' = after
  BY <1>2, <1>3 DEF RoomOf
<1>5. ASSUME NEW r \in RoomId, r # q
      PROVE  RoomOf(r)' = RoomOf(r)
  <2>1. CASE roomChannels[r] = None
    BY <1>3, <2>1 DEF RoomOf
  <2>2. CASE roomChannels[r] # None
    <3>1. roomChannels[r] \in RoomTask /\ roomChannels[r] # i
      BY <1>1, <1>5, <2>2, OtherEntries
    <3> QED
      BY <1>3, <2>2, <3>1 DEF RoomOf
  <2> QED
    BY <2>1, <2>2
<1> QED
  BY <1>1, <1>4, <1>5 DEF rooms

\* Rooms counts players as the room entity does.
LEMMA SameNumPlayers ==
    ASSUME NEW entity
    PROVE  AbstractRooms!NumPlayers(entity) = NumPlayers(entity)
BY Zenon DEF AbstractRooms!NumPlayers, NumPlayers, AbstractRooms!Cardinality, Cardinality,
   AbstractRooms!IsFiniteSet, IsFiniteSet

LEMMA InitRefines == RoomInit => AbstractRooms!RoomsInit
BY DEF RoomInit, AbstractRooms!RoomsInit, RoomOf

LEMMA SpawnRoomRefines ==
    ASSUME RoomInv, NEW r \in RoomId, NEW config \in RoomConfig, NEW i \in RoomTask,
           roomChannels[r] = None, SpawnRoom(r, config, i)
    PROVE  AbstractRooms!Create(r, config)
<1>1. /\ status[i] = "unborn"
      /\ roomChannels'[r] = i
      /\ \A q \in RoomId : q # r => roomChannels'[q] = roomChannels[q]
      /\ room'[i] = NewRoom(r, config)
      /\ \A j \in RoomTask : j # i => room'[j] = room[j]
  BY DEF SpawnRoom, RoomInv, RoomTypeOK
<1>2. RoomOf(r) = None
  BY DEF RoomOf
<1>3. RoomOf(r)' = NewRoom(r, config)
  BY <1>1, RoomTaskAssumption DEF RoomOf
<1>4. ASSUME NEW q \in RoomId, q # r
      PROVE  RoomOf(q)' = RoomOf(q)
  <2>1. CASE roomChannels[q] = None
    BY <1>1, <1>4, <2>1 DEF RoomOf
  <2>2. CASE roomChannels[q] # None
    <3>1. roomChannels[q] \in RoomTask /\ roomChannels[q] # i
      BY <1>1, <2>2, OtherEntries DEF Live
    <3> QED
      BY <1>1, <1>4, <2>2, <3>1 DEF RoomOf
  <2> QED
    BY <2>1, <2>2
<1> QED
  BY <1>2, <1>3, <1>4 DEF AbstractRooms!Create, AbstractRooms!Exists,
       AbstractRooms!NewRoom, NewRoom

LEMMA HandleJoinEventRefines ==
    ASSUME RoomInv, NEW i \in RoomTask, HandleJoinEvent(i)
    PROVE  [AbstractRooms!RoomsNext]_rooms
<1> DEFINE event == Head(roomRx[i])
           r == room[i].id
<1>1. /\ status[i] = "running"
      /\ event.player \in Player /\ event.config \in RoomConfig
  BY ReceivesProperties, InputEventFields DEF HandleJoinEvent
<1>2. room[i] \in Room /\ r \in RoomId /\ rooms[r] = room[i] /\ room[i] # None
  BY <1>1, RoomOfLiveTask DEF Live, rooms
<1>3. CASE AcceptJoin(i, event)
  <2>1. /\ AddPlayerResult(room[i], event.player, event.config) = "Ok"
        /\ StopIfEmpty(i, AddPlayer(room[i], event.player))
    BY <1>3 DEF AcceptJoin
  <2>2. rooms' = [rooms EXCEPT ![r] = AddPlayer(room[i], event.player)]
    BY <1>1, <2>1, HandlerReplacesRoom
  <2>3. ~IsJoined(room[i], event.player.id) /\ NumPlayers(room[i]) < room[i].config
    <3>1. ~IsJoined(room[i], event.player.id) /\ ~(NumPlayers(room[i]) >= room[i].config)
      BY <2>1 DEF AddPlayerResult
    <3>2. NumPlayers(room[i]) \in Nat /\ room[i].config \in Nat
      BY <1>2, NumPlayersType, RoomConfigAssumption DEF Room
    <3> QED
      BY <3>1, <3>2
  <2>4. AbstractRooms!Enter(r, event.player)
    BY <1>2, <2>2, <2>3, SameNumPlayers DEF AbstractRooms!Enter, AbstractRooms!Exists, rooms,
         AbstractRooms!IsJoined, AbstractRooms!AddPlayer, IsJoined, AddPlayer
  <2> QED
    BY <1>1, <1>2, <2>4 DEF AbstractRooms!RoomsNext, AbstractRooms!Player, Player
<1>4. CASE RefuseJoin(i, event)
  <2>1. StopIfEmpty(i, room[i])
    BY <1>4 DEF RefuseJoin
  <2>2. rooms' = [rooms EXCEPT ![r] = room[i]]
    BY <1>1, <2>1, HandlerReplacesRoom
  <2> QED
    BY <1>2, <2>2 DEF rooms
<1> QED
  BY <1>3, <1>4 DEF HandleJoinEvent

LEMMA HandleLeaveEventRefines ==
    ASSUME RoomInv, NEW i \in RoomTask, HandleLeaveEvent(i)
    PROVE  [AbstractRooms!RoomsNext]_rooms
<1> DEFINE id == Head(roomRx[i]).playerId
           r == room[i].id
<1>1. status[i] = "running" /\ id \in PlayerId
  BY ReceivesProperties, InputEventFields DEF HandleLeaveEvent
<1>2. room[i] \in Room /\ r \in RoomId /\ rooms[r] = room[i] /\ room[i] # None
  BY <1>1, RoomOfLiveTask DEF Live, rooms
<1>3. CASE IsJoined(room[i], id) /\ StopIfEmpty(i, RemovePlayer(room[i], id))
  <2>1. rooms' = [rooms EXCEPT ![r] = RemovePlayer(room[i], id)]
    BY <1>1, <1>3, HandlerReplacesRoom
  <2>2. AbstractRooms!Exit(r, id)
    BY <1>2, <1>3, <2>1 DEF AbstractRooms!Exit, AbstractRooms!Exists, rooms,
         AbstractRooms!IsJoined, AbstractRooms!RemovePlayer, IsJoined, RemovePlayer
  <2> QED
    BY <1>1, <1>2, <2>2 DEF AbstractRooms!RoomsNext
<1>4. CASE StopIfEmpty(i, room[i])
  <2>1. rooms' = [rooms EXCEPT ![r] = room[i]]
    BY <1>1, <1>4, HandlerReplacesRoom
  <2> QED
    BY <1>2, <2>1 DEF rooms
<1> QED
  BY <1>3, <1>4 DEF HandleLeaveEvent

LEMMA HandleMessageEventRefines ==
    ASSUME RoomInv, NEW i \in RoomTask, HandleMessageEvent(i)
    PROVE  UNCHANGED rooms
<1>1. status[i] = "running" /\ StopIfEmpty(i, room[i])
  BY ReceivesProperties DEF HandleMessageEvent
<1>2. rooms' = [rooms EXCEPT ![room[i].id] = room[i]]
  BY <1>1, HandlerReplacesRoom
<1>3. room[i].id \in RoomId /\ rooms[room[i].id] = room[i]
  BY <1>1, RoomOfLiveTask DEF Live, rooms
<1> QED
  BY <1>2, <1>3 DEF rooms

LEMMA RemoveRoomFromChannelsRefines ==
    ASSUME RoomInv, NEW i \in RoomTask, RemoveRoomFromChannels(i)
    PROVE  AbstractRooms!Close(room[i].id) /\ room[i].id \in RoomId
<1> DEFINE r == room[i].id
<1>1. status[i] = "emptied"
  BY DEF RemoveRoomFromChannels
<1>2. room[i] \in Room /\ r \in RoomId /\ rooms[r] = room[i] /\ room[i] # None
  BY <1>1, RoomOfLiveTask DEF Live, rooms
<1>3. NumPlayers(room[i]) = 0
  BY <1>1 DEF RoomInv, StoppedRoomIsEmpty
<1>4. /\ roomChannels'[r] = None
      /\ \A q \in RoomId : q # r => roomChannels'[q] = roomChannels[q]
      /\ room' = room
  BY <1>2 DEF RemoveRoomFromChannels, RoomInv, RoomTypeOK
<1>5. rooms' = [rooms EXCEPT ![r] = None]
  BY <1>2, <1>4 DEF rooms, RoomOf
<1> QED
  BY <1>2, <1>3, <1>5, SameNumPlayers DEF AbstractRooms!Close, AbstractRooms!Exists, rooms

LEMMA StepRefines == RoomInv /\ [RoomNext]_roomVars => [AbstractRooms!RoomsNext]_rooms
<1> SUFFICES ASSUME RoomInv, [RoomNext]_roomVars PROVE [AbstractRooms!RoomsNext]_rooms
  OBVIOUS
<1>1. ASSUME NEW r \in RoomId, NEW config \in RoomConfig, NEW i \in RoomTask,
             GetOrCreateRoomChannel(r, config, i)
      PROVE  [AbstractRooms!RoomsNext]_rooms
  <2>1. CASE UNCHANGED roomVars
    BY <2>1, RoomsStutter DEF roomVars
  <2>2. CASE roomChannels[r] = None /\ SpawnRoom(r, config, i)
    BY <2>2, SpawnRoomRefines DEF AbstractRooms!RoomsNext
  <2> QED
    BY <1>1, <2>1, <2>2 DEF GetOrCreateRoomChannel
<1>2. ASSUME NEW i \in RoomTask, NEW event \in InputEvent, SendToRoom(i, event)
      PROVE  UNCHANGED rooms
  BY <1>2, RoomsStutter DEF SendToRoom
<1>3. ASSUME NEW s \in Session, PlayerReceives(s) \/ PlayerStops(s)
      PROVE  UNCHANGED rooms
  BY <1>3, RoomsStutter DEF PlayerReceives, PlayerStops
<1>4. ASSUME NEW i \in RoomTask, RoomStep(i)
      PROVE  [AbstractRooms!RoomsNext]_rooms
  <2>1. CASE HandleJoinEvent(i)
    BY <2>1, HandleJoinEventRefines
  <2>2. CASE HandleLeaveEvent(i)
    BY <2>2, HandleLeaveEventRefines
  <2>3. CASE HandleMessageEvent(i)
    BY <2>3, HandleMessageEventRefines
  <2>4. CASE RemoveRoomFromChannels(i)
    BY <2>4, RemoveRoomFromChannelsRefines DEF AbstractRooms!RoomsNext
  <2>5. CASE DropRoom(i)
    BY <2>5, RoomsStutter DEF DropRoom
  <2> QED
    BY <1>4, <2>1, <2>2, <2>3, <2>4, <2>5 DEF RoomStep
<1>5. CASE UNCHANGED roomVars
  BY <1>5, RoomsStutter DEF roomVars
<1> QED
  BY <1>1, <1>2, <1>3, <1>4, <1>5 DEF RoomNext

\* The tasks, channels and the directory of the room actors implement one room per id:
\* every behaviour of RoomActor is, seen through the directory, a behaviour of Rooms.
THEOREM RoomActorsImplementRooms == RoomActorSpec => ImplementsRooms
<1>1. RoomInit => AbstractRooms!RoomsInit
  BY InitRefines
<1>2. RoomInv /\ [RoomNext]_roomVars => [AbstractRooms!RoomsNext]_rooms
  BY StepRefines
<1> QED
  BY <1>1, <1>2, RoomInvInvariant, PTL
  DEF RoomActorSpec, ImplementsRooms, AbstractRooms!RoomsSpec, rooms

=============================================================================
