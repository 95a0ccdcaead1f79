--------------------------- MODULE RoomActorProofs ---------------------------
(***************************************************************************)
(* Safety of the room actors under an arbitrary environment, for any       *)
(* number of rooms, players, sessions and tasks and channels of any        *)
(* length.                                                                 *)
(*                                                                         *)
(* RoomInv is the inductive invariant.  The properties of RoomActor carry  *)
(* each other: that a task removes only its own entry rests on the         *)
(* agreement of directory and tasks, and that a stopped room stays empty   *)
(* on its no longer handling events.                                       *)
(***************************************************************************)
EXTENDS RoomActor, EntityRoomProofs

\* A task that was spawned owns a room.
RoomsExist == \A i \in RoomTask : status[i] # "unborn" => room[i] \in Room

RoomInv ==
    /\ RoomTypeOK
    /\ RoomsExist
    /\ DirectoryMatchesTasks
    /\ CapacityRespected
    /\ StoppedRoomIsEmpty

-----------------------------------------------------------------------------
(* Types.                                                                  *)

\* An event of a given type has the fields of that type.
LEMMA InputEventFields ==
    ASSUME NEW event \in InputEvent
    PROVE  /\ event.type = "Join" => event.player \in Player /\ event.config \in RoomConfig
           /\ event.type = "Leave" => event.playerId \in PlayerId
           /\ event.type = "Message" =>
                  event.sender \in PlayerId /\ event.targets \in TargetIds /\ event.body \in Body
BY DEF InputEvent

\* Delivering a natural number of copies of an event keeps the channels typed.
LEMMA DeliverType ==
    ASSUME RoomTypeOK,
           NEW count \in [Session -> Nat], NEW event \in OutputEvent,
           Deliver(count, event)
    PROVE  playerRx' \in [Session -> Seq(OutputEvent)]
<1>1. ASSUME NEW s \in Session
      PROVE  (IF listening[s] THEN playerRx[s] \o [k \in 1..count[s] |-> event]
                              ELSE playerRx[s]) \in Seq(OutputEvent)
  <2>1. count[s] \in Nat /\ playerRx[s] \in Seq(OutputEvent)
    BY DEF RoomTypeOK
  <2>2. [k \in 1..count[s] |-> event] \in Seq(OutputEvent)
    BY <2>1
  <2> QED
    BY <2>1, <2>2, ConcatProperties
<1> QED
  BY <1>1 DEF Deliver

\* The parts of the invariant other than the types depend on three variables only.
LEMMA RoomInvFrame ==
    ASSUME RoomInv, RoomTypeOK', UNCHANGED <<roomChannels, status, room>>
    PROVE  RoomInv'
BY DEF RoomInv, RoomsExist, DirectoryMatchesTasks, CapacityRespected, StoppedRoomIsEmpty, Live

-----------------------------------------------------------------------------
(* The end of every handler.                                               *)

\* Replacing the room of a running task by one with the same id and config that
\* respects its config, and stopping if it is empty, preserves the invariant.
LEMMA StopIfEmptyPreserves ==
    ASSUME RoomInv,
           NEW i \in RoomTask, status[i] = "running", roomRx[i] # <<>>,
           NEW after \in Room,
           after.id = room[i].id,
           NumPlayers(after) <= after.config,
           StopIfEmpty(i, after),
           playerRx' \in [Session -> Seq(OutputEvent)]
    PROVE  RoomInv'
<1>1. RoomTypeOK'
  <2>1. roomRx[i] \in Seq(InputEvent)
    BY DEF RoomInv, RoomTypeOK
  <2>2. Tail(roomRx[i]) \in Seq(InputEvent)
    BY <2>1, HeadTailProperties
  <2> QED
    BY <2>2 DEF RoomInv, RoomTypeOK, StopIfEmpty, Status
<1>2. /\ room'[i] = after
      /\ status'[i] \in {"running", "emptied"}
      /\ status'[i] = "emptied" => NumPlayers(after) = 0
      /\ \A j \in RoomTask : j # i => room'[j] = room[j] /\ status'[j] = status[j]
      /\ roomChannels' = roomChannels
  BY DEF RoomInv, RoomTypeOK, StopIfEmpty
<1>3. RoomsExist'
  BY <1>2 DEF RoomInv, RoomsExist
<1>4. DirectoryMatchesTasks'
  <2>1. \A j \in RoomTask : Live(j)' = Live(j) /\ room'[j].id = room[j].id
    BY <1>2 DEF Live
  <2>2. roomChannels \in [RoomId -> RoomTask \cup {None}] /\ DirectoryMatchesTasks
    BY DEF RoomInv, RoomTypeOK
  <2> QED
    BY <1>2, <2>1, <2>2 DEF DirectoryMatchesTasks
<1>5. CapacityRespected'
  BY <1>2 DEF RoomInv, CapacityRespected
<1>6. StoppedRoomIsEmpty'
  BY <1>2 DEF RoomInv, StoppedRoomIsEmpty
<1> QED
  BY <1>1, <1>3, <1>4, <1>5, <1>6 DEF RoomInv

\* What a handler can rely on when it receives an event.
LEMMA ReceivesProperties ==
    ASSUME RoomInv, NEW i \in RoomTask, NEW type, Receives(i, type)
    PROVE  /\ status[i] = "running"
           /\ roomRx[i] # <<>>
           /\ Head(roomRx[i]) \in InputEvent
           /\ Head(roomRx[i]).type = type
           /\ room[i] \in Room
           /\ NumPlayers(room[i]) <= room[i].config
<1>1. roomRx[i] \in Seq(InputEvent)
  BY DEF RoomInv, RoomTypeOK
<1> QED
  BY <1>1, HeadTailProperties DEF Receives, RoomInv, RoomsExist, CapacityRespected

\* The players of a room have player ids.
LEMMA PlayersOfRoom ==
    ASSUME NEW entity \in Room
    PROVE  entity.id \in RoomId /\ DOMAIN entity.players \subseteq PlayerId
BY PlayerMapDef DEF Room

-----------------------------------------------------------------------------
(* One lemma for each action of a room task.                               *)

LEMMA HandleJoinEventPreserves ==
    ASSUME RoomInv, NEW i \in RoomTask, HandleJoinEvent(i)
    PROVE  RoomInv'
<1> DEFINE event == Head(roomRx[i])
           joined == AddPlayer(room[i], event.player)
           result == AddPlayerResult(room[i], event.player, event.config)
<1>1. Receives(i, "Join")
  BY DEF HandleJoinEvent
<1>2. /\ status[i] = "running" /\ roomRx[i] # <<>>
      /\ room[i] \in Room /\ NumPlayers(room[i]) <= room[i].config
      /\ event.player \in Player /\ event.config \in RoomConfig
  BY <1>1, ReceivesProperties, InputEventFields
<1>3. event.player.id \in PlayerId /\ event.player.sender \in Session
  BY <1>2 DEF Player
<1>4. CASE AcceptJoin(i, event)
  <2>1. /\ result = "Ok"
        /\ Deliver(BroadcastCount(joined), JoinEvent(joined, event.player.id))
        /\ StopIfEmpty(i, joined)
    BY <1>4 DEF AcceptJoin
  <2>2. /\ joined \in Room
        /\ joined.id = room[i].id
        /\ joined.config = room[i].config
        /\ NumPlayers(joined) <= room[i].config
    BY <1>2, <2>1, AddPlayerProperties
  <2>3. JoinEvent(joined, event.player.id) \in OutputEvent
    <3>1. joined.id \in RoomId /\ joined.config \in RoomConfig
          /\ DOMAIN joined.players \in SUBSET PlayerId
      BY <2>2, PlayersOfRoom DEF Room
    <3> QED
      BY <1>3, <3>1 DEF JoinEvent, OutputEvent
  <2>4. playerRx' \in [Session -> Seq(OutputEvent)]
    BY <2>1, <2>2, <2>3, CountsAreNatural, DeliverType DEF RoomInv
  <2> QED
    BY <1>2, <2>1, <2>2, <2>4, StopIfEmptyPreserves
<1>5. CASE RefuseJoin(i, event)
  <2> DEFINE count == [s \in Session |-> IF s = event.player.sender THEN 1 ELSE 0]
             error == [type |-> "JoinError", error |-> result,
                       roomId |-> room[i].id, playerId |-> event.player.id]
  <2>1. result \in RoomError /\ Deliver(count, error) /\ StopIfEmpty(i, room[i])
    BY <1>5 DEF RefuseJoin
  <2>2. error \in OutputEvent
    BY <1>2, <1>3, <2>1, PlayersOfRoom DEF OutputEvent
  <2>3. count \in [Session -> Nat]
    OBVIOUS
  <2>4. playerRx' \in [Session -> Seq(OutputEvent)]
    BY <2>1, <2>2, <2>3, DeliverType DEF RoomInv
  <2> QED
    BY <1>2, <2>1, <2>4, StopIfEmptyPreserves
<1> QED
  BY <1>4, <1>5 DEF HandleJoinEvent

LEMMA HandleLeaveEventPreserves ==
    ASSUME RoomInv, NEW i \in RoomTask, HandleLeaveEvent(i)
    PROVE  RoomInv'
<1> DEFINE id == Head(roomRx[i]).playerId
           left == RemovePlayer(room[i], id)
<1>1. Receives(i, "Leave")
  BY DEF HandleLeaveEvent
<1>2. /\ status[i] = "running" /\ roomRx[i] # <<>>
      /\ room[i] \in Room /\ NumPlayers(room[i]) <= room[i].config
      /\ id \in PlayerId
  BY <1>1, ReceivesProperties, InputEventFields
<1>3. CASE /\ Deliver(BroadcastCount(room[i]), LeaveEvent(room[i], id))
           /\ StopIfEmpty(i, left)
  <2>1. LeaveEvent(room[i], id) \in OutputEvent
    BY <1>2, PlayersOfRoom DEF LeaveEvent, OutputEvent
  <2>2. playerRx' \in [Session -> Seq(OutputEvent)]
    BY <1>2, <1>3, <2>1, CountsAreNatural, DeliverType DEF RoomInv
  <2>3. /\ left \in Room
        /\ left.id = room[i].id
        /\ left.config = room[i].config
        /\ NumPlayers(left) <= NumPlayers(room[i])
    BY <1>2, RemovePlayerProperties
  <2>4. NumPlayers(left) <= left.config
    <3>1. NumPlayers(left) \in Nat /\ NumPlayers(room[i]) \in Nat
      BY <1>2, <2>3, NumPlayersType
    <3>2. room[i].config \in Nat
      BY <1>2, RoomConfigAssumption DEF Room
    <3> QED
      BY <1>2, <2>3, <3>1, <3>2
  <2> QED
    BY <1>2, <1>3, <2>2, <2>3, <2>4, StopIfEmptyPreserves
<1>4. CASE StopIfEmpty(i, room[i]) /\ UNCHANGED playerRx
  <2>1. playerRx' \in [Session -> Seq(OutputEvent)]
    BY <1>4 DEF RoomInv, RoomTypeOK
  <2> QED
    BY <1>2, <1>4, <2>1, StopIfEmptyPreserves
<1> QED
  BY <1>3, <1>4 DEF HandleLeaveEvent

LEMMA HandleMessageEventPreserves ==
    ASSUME RoomInv, NEW i \in RoomTask, HandleMessageEvent(i)
    PROVE  RoomInv'
<1> DEFINE event == Head(roomRx[i])
           count == IF event.targets = <<>> THEN BroadcastCount(room[i])
                                            ELSE SendCount(room[i], event.targets)
           message == [type |-> "Message", roomId |-> room[i].id,
                       sender |-> event.sender, body |-> event.body]
<1>1. /\ Receives(i, "Message")
      /\ Deliver(count, message)
      /\ StopIfEmpty(i, room[i])
  BY DEF HandleMessageEvent
<1>2. /\ status[i] = "running" /\ roomRx[i] # <<>>
      /\ room[i] \in Room /\ NumPlayers(room[i]) <= room[i].config
      /\ event.sender \in PlayerId /\ event.targets \in TargetIds /\ event.body \in Body
  BY <1>1, ReceivesProperties, InputEventFields
<1>3. count \in [Session -> Nat]
  BY <1>2, CountsAreNatural, TargetIdsAssumption
<1>4. message \in OutputEvent
  BY <1>2, PlayersOfRoom DEF OutputEvent
<1>5. playerRx' \in [Session -> Seq(OutputEvent)]
  BY <1>1, <1>3, <1>4, DeliverType DEF RoomInv
<1> QED
  BY <1>1, <1>2, <1>5, StopIfEmptyPreserves

LEMMA RemoveRoomFromChannelsPreserves ==
    ASSUME RoomInv, NEW i \in RoomTask, RemoveRoomFromChannels(i)
    PROVE  RoomInv'
<1>1. /\ status[i] = "emptied"
      /\ room[i] \in Room /\ room[i].id \in RoomId
      /\ roomChannels[room[i].id] = i
  BY PlayersOfRoom
  DEF RemoveRoomFromChannels, RoomInv, RoomsExist, DirectoryMatchesTasks, Live
<1>2. /\ roomChannels'[room[i].id] = None
      /\ \A r \in RoomId : r # room[i].id => roomChannels'[r] = roomChannels[r]
      /\ status'[i] = "removed"
      /\ \A j \in RoomTask : j # i => status'[j] = status[j]
      /\ room' = room
  BY <1>1 DEF RemoveRoomFromChannels, RoomInv, RoomTypeOK
<1>3. RoomTypeOK'
  BY DEF RemoveRoomFromChannels, RoomInv, RoomTypeOK, Status
<1>4. RoomsExist'
  BY <1>1, <1>2 DEF RoomInv, RoomsExist
<1>5. DirectoryMatchesTasks'
  <2>1. ASSUME NEW r \in RoomId, roomChannels'[r] # None
        PROVE  /\ status'[roomChannels'[r]] \in {"running", "emptied"}
               /\ room'[roomChannels'[r]].id = r
    <3>1. r # room[i].id /\ roomChannels'[r] = roomChannels[r]
      BY <1>2, <2>1
    <3>2. roomChannels[r] \in RoomTask
      BY <2>1, <3>1 DEF RoomInv, RoomTypeOK
    <3>3. Live(roomChannels[r]) /\ room[roomChannels[r]].id = r
      BY <2>1, <3>1 DEF RoomInv, DirectoryMatchesTasks
    <3>4. roomChannels[r] # i
      BY <3>1, <3>3
    <3> QED
      BY <1>2, <3>1, <3>2, <3>3, <3>4 DEF Live
  <2>2. ASSUME NEW j \in RoomTask, Live(j)'
        PROVE  roomChannels'[room'[j].id] = j
    <3>1. j # i /\ Live(j)
      BY <1>2, <2>2 DEF Live
    <3>2. room[j] \in Room /\ room[j].id \in RoomId /\ roomChannels[room[j].id] = j
      BY <3>1, PlayersOfRoom DEF RoomInv, RoomsExist, DirectoryMatchesTasks, Live
    <3> QED
      BY <1>1, <1>2, <3>1, <3>2
  <2> QED
    BY <2>1, <2>2 DEF DirectoryMatchesTasks, Live
<1>6. CapacityRespected'
  BY <1>1, <1>2 DEF RoomInv, CapacityRespected
<1>7. StoppedRoomIsEmpty'
  BY <1>1, <1>2 DEF RoomInv, StoppedRoomIsEmpty
<1> QED
  BY <1>3, <1>4, <1>5, <1>6, <1>7 DEF RoomInv

LEMMA DropRoomPreserves ==
    ASSUME RoomInv, NEW i \in RoomTask, DropRoom(i)
    PROVE  RoomInv'
<1>1. /\ status[i] = "removed" /\ status'[i] = "dropped"
      /\ \A j \in RoomTask : j # i => status'[j] = status[j]
      /\ room' = room /\ roomChannels' = roomChannels
  BY DEF DropRoom, RoomInv, RoomTypeOK
<1>2. RoomTypeOK'
  <2>1. <<>> \in Seq(InputEvent)
    OBVIOUS
  <2> QED
    BY <2>1 DEF DropRoom, RoomInv, RoomTypeOK, Status
<1>3. RoomsExist'
  BY <1>1 DEF RoomInv, RoomsExist
<1>4. DirectoryMatchesTasks'
  BY <1>1 DEF RoomInv, RoomTypeOK, DirectoryMatchesTasks, Live
<1>5. CapacityRespected'
  BY <1>1 DEF RoomInv, CapacityRespected
<1>6. StoppedRoomIsEmpty'
  BY <1>1 DEF RoomInv, StoppedRoomIsEmpty
<1> QED
  BY <1>2, <1>3, <1>4, <1>5, <1>6 DEF RoomInv

-----------------------------------------------------------------------------
(* The environment.                                                        *)

LEMMA SpawnRoomPreserves ==
    ASSUME RoomInv, NEW r \in RoomId, NEW config \in RoomConfig, NEW i \in RoomTask,
           roomChannels[r] = None, SpawnRoom(r, config, i)
    PROVE  RoomInv'
<1> DEFINE new == NewRoom(r, config)
<1>1. new \in Room /\ new.id = r /\ new.config = config /\ NumPlayers(new) = 0
  BY NewRoomProperties
<1>2. /\ status[i] = "unborn" /\ status'[i] = "running"
      /\ room'[i] = new
      /\ \A j \in RoomTask : j # i => room'[j] = room[j] /\ status'[j] = status[j]
      /\ roomChannels'[r] = i
      /\ \A q \in RoomId : q # r => roomChannels'[q] = roomChannels[q]
  BY DEF SpawnRoom, RoomInv, RoomTypeOK
<1>3. RoomTypeOK'
  BY <1>1 DEF SpawnRoom, RoomInv, RoomTypeOK, Status
<1>4. RoomsExist'
  BY <1>1, <1>2 DEF RoomInv, RoomsExist
<1>5. DirectoryMatchesTasks'
  <2>1. ASSUME NEW q \in RoomId, roomChannels'[q] # None
        PROVE  /\ status'[roomChannels'[q]] \in {"running", "emptied"}
               /\ room'[roomChannels'[q]].id = q
    <3>1. CASE q = r
      BY <1>1, <1>2, <3>1 DEF Live
    <3>2. CASE q # r
      <4>1. /\ roomChannels[q] \in RoomTask
            /\ Live(roomChannels[q]) /\ room[roomChannels[q]].id = q
        BY <1>2, <2>1, <3>2 DEF RoomInv, RoomTypeOK, DirectoryMatchesTasks
      <4> QED
        BY <1>2, <3>2, <4>1 DEF Live
    <3> QED
      BY <3>1, <3>2
  <2>2. ASSUME NEW j \in RoomTask, Live(j)'
        PROVE  roomChannels'[room'[j].id] = j
    <3>1. CASE j = i
      BY <1>1, <1>2, <3>1
    <3>2. CASE j # i
      <4>1. Live(j)
        BY <1>2, <2>2, <3>2 DEF Live
      <4>2. room[j].id \in RoomId /\ roomChannels[room[j].id] = j
        BY <4>1, PlayersOfRoom DEF RoomInv, RoomsExist, DirectoryMatchesTasks, Live
      <4>3. room[j].id # r
        BY <4>2, RoomTaskAssumption
      <4> QED
        BY <1>2, <3>2, <4>2, <4>3
    <3> QED
      BY <3>1, <3>2
  <2> QED
    BY <2>1, <2>2 DEF DirectoryMatchesTasks, Live
<1>6. CapacityRespected'
  <2>1. NumPlayers(new) <= new.config
    BY <1>1, RoomConfigAssumption
  <2> QED
    BY <1>2, <2>1 DEF RoomInv, CapacityRespected
<1>7. StoppedRoomIsEmpty'
  BY <1>2 DEF RoomInv, StoppedRoomIsEmpty
<1> QED
  BY <1>3, <1>4, <1>5, <1>6, <1>7 DEF RoomInv

LEMMA SendToRoomPreserves ==
    ASSUME RoomInv, NEW i \in RoomTask, NEW event \in InputEvent, SendToRoom(i, event)
    PROVE  RoomInv'
<1>1. Append(roomRx[i], event) \in Seq(InputEvent)
  BY AppendProperties DEF RoomInv, RoomTypeOK
<1>2. RoomTypeOK'
  BY <1>1 DEF SendToRoom, RoomInv, RoomTypeOK
<1> QED
  BY <1>2, RoomInvFrame DEF SendToRoom

LEMMA PlayerReceivesPreserves ==
    ASSUME RoomInv, NEW s \in Session, PlayerReceives(s)
    PROVE  RoomInv'
<1>1. Tail(playerRx[s]) \in Seq(OutputEvent)
  BY HeadTailProperties DEF PlayerReceives, RoomInv, RoomTypeOK
<1>2. RoomTypeOK'
  BY <1>1 DEF PlayerReceives, RoomInv, RoomTypeOK
<1> QED
  BY <1>2, RoomInvFrame DEF PlayerReceives

LEMMA PlayerStopsPreserves ==
    ASSUME RoomInv, NEW s \in Session, PlayerStops(s)
    PROVE  RoomInv'
<1>1. <<>> \in Seq(OutputEvent)
  OBVIOUS
<1>2. RoomTypeOK'
  BY <1>1 DEF PlayerStops, RoomInv, RoomTypeOK
<1> QED
  BY <1>2, RoomInvFrame DEF PlayerStops

-----------------------------------------------------------------------------
(* The theorems.                                                           *)

LEMMA RoomInitImpliesRoomInv == RoomInit => RoomInv
<1> SUFFICES ASSUME RoomInit PROVE RoomInv
  OBVIOUS
<1>1. <<>> \in Seq(InputEvent) /\ <<>> \in Seq(OutputEvent)
  OBVIOUS
<1>2. RoomTypeOK
  BY <1>1 DEF RoomInit, RoomTypeOK, Status
<1>3. RoomsExist /\ DirectoryMatchesTasks /\ CapacityRespected /\ StoppedRoomIsEmpty
  BY DEF RoomInit, RoomsExist, DirectoryMatchesTasks, CapacityRespected, StoppedRoomIsEmpty, Live
<1> QED
  BY <1>2, <1>3 DEF RoomInv

LEMMA RoomNextPreservesRoomInv == RoomInv /\ [RoomNext]_roomVars => RoomInv'
<1> SUFFICES ASSUME RoomInv, [RoomNext]_roomVars PROVE RoomInv'
  OBVIOUS
<1>1. ASSUME NEW r \in RoomId, NEW config \in RoomConfig, NEW i \in RoomTask,
             GetOrCreateRoomChannel(r, config, i)
      PROVE  RoomInv'
  <2>1. CASE UNCHANGED roomVars
    <3>1. RoomTypeOK'
      BY <2>1 DEF roomVars, RoomInv, RoomTypeOK
    <3> QED
      BY <2>1, <3>1, RoomInvFrame DEF roomVars
  <2>2. CASE roomChannels[r] = None /\ SpawnRoom(r, config, i)
    BY <2>2, SpawnRoomPreserves
  <2> QED
    BY <1>1, <2>1, <2>2 DEF GetOrCreateRoomChannel
<1>2. ASSUME NEW i \in RoomTask, NEW event \in InputEvent, SendToRoom(i, event)
      PROVE  RoomInv'
  BY <1>2, SendToRoomPreserves
<1>3. ASSUME NEW s \in Session, PlayerReceives(s) \/ PlayerStops(s)
      PROVE  RoomInv'
  BY <1>3, PlayerReceivesPreserves, PlayerStopsPreserves
<1>4. ASSUME NEW i \in RoomTask, RoomStep(i)
      PROVE  RoomInv'
  BY <1>4, HandleJoinEventPreserves, HandleLeaveEventPreserves, HandleMessageEventPreserves,
     RemoveRoomFromChannelsPreserves, DropRoomPreserves DEF RoomStep
<1>5. CASE UNCHANGED roomVars
  <2>1. RoomTypeOK'
    BY <1>5 DEF roomVars, RoomInv, RoomTypeOK
  <2> QED
    BY <1>5, <2>1, RoomInvFrame DEF roomVars
<1> QED
  BY <1>1, <1>2, <1>3, <1>4, <1>5 DEF RoomNext

THEOREM RoomInvInvariant == RoomActorSpec => []RoomInv
BY RoomInitImpliesRoomInv, RoomNextPreservesRoomInv, PTL DEF RoomActorSpec

\* The state of the room actors always has its type: channels hold events, every task
\* owns a room whose players are a finite map from ids to senders.
THEOREM RoomTypeCorrect == RoomActorSpec => []RoomTypeOK
<1>1. RoomInv => RoomTypeOK
  BY DEF RoomInv
<1> QED
  BY <1>1, RoomInvInvariant, PTL

\* ROOM_CHANNELS and the tasks agree in every reachable state, for any number of
\* rooms, tasks and players and any interleaving of them.
THEOREM DirectoryAlwaysMatchesTasks == RoomActorSpec => []DirectoryMatchesTasks
<1>1. RoomInv => DirectoryMatchesTasks
  BY DEF RoomInv
<1> QED
  BY <1>1, RoomInvInvariant, PTL

\* No two tasks ever serve one room id.
THEOREM RoomsNeverSplit == RoomActorSpec => []OneLiveTaskPerRoom
<1>1. RoomInv => OneLiveTaskPerRoom
  BY DEF RoomInv, DirectoryMatchesTasks, OneLiveTaskPerRoom
<1> QED
  BY <1>1, RoomInvInvariant, PTL

\* No room ever has more players than its max_players.
THEOREM CapacityAlwaysRespected == RoomActorSpec => []CapacityRespected
<1>1. RoomInv => CapacityRespected
  BY DEF RoomInv
<1> QED
  BY <1>1, RoomInvInvariant, PTL

\* A room that has stopped is and stays empty.
THEOREM StoppedRoomsStayEmpty == RoomActorSpec => []StoppedRoomIsEmpty
<1>1. RoomInv => StoppedRoomIsEmpty
  BY DEF RoomInv
<1> QED
  BY <1>1, RoomInvInvariant, PTL

=============================================================================
