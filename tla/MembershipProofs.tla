--------------------------- MODULE MembershipProofs ---------------------------
(***************************************************************************)
(* What a player actor hears from its rooms and what it believes of them,  *)
(* for any number of sessions, rooms, tasks and messages.                  *)
(***************************************************************************)
EXTENDS PlayerActorProofs

-----------------------------------------------------------------------------
(* Signatures: on its whole way, from the request to the room, a Join      *)
(* carries the sender and the id of the session that has asked for it, and *)
(* that id never changes once the session has been admitted.  An actor     *)
(* holds its end of the event channel exactly until it ends.               *)

\* The login is over and was not refused.
Admitted(s) == pc[s] \notin {"wait_login", "login_error"}

SignedBy(s, id) == Admitted(s) /\ playerId[s] = id

HandlersSign ==
    \A s \in Session : handler[s].at = "send" =>
        /\ LoggedIn(s)
        /\ handler[s].event.type = "Join" =>
               handler[s].event.player = [id |-> playerId[s], sender |-> s]

JoinsAreSigned ==
    \A i \in RoomTask : \A k \in DOMAIN roomRx[i] :
        roomRx[i][k].type = "Join" => SignedBy(roomRx[i][k].player.sender, roomRx[i][k].player.id)

PlayersAreSigned ==
    \A i \in RoomTask : status[i] # "unborn" =>
        \A id \in DOMAIN room[i].players : SignedBy(room[i].players[id], id)

ChannelsListen ==
    \A s \in Session :
        /\ listening[s] <=> pc[s] \in {"wait_login", "login_error", "logged_in"}
        /\ ~LoggedIn(s) => playerRx[s] = <<>>
        /\ pc[s] = "wait_login" => \A r \in RoomId : joinedRooms[s][r] = None

SignedInv ==
    /\ PlayerInv
    /\ HandlersSign
    /\ JoinsAreSigned
    /\ PlayersAreSigned
    /\ ChannelsListen

\* An admitted session stays admitted and keeps its id.
LEMMA SignaturesLast ==
    ASSUME LoginInv, [LoginNext]_loginVars, NEW s \in Session, Admitted(s)
    PROVE  Admitted(s)' /\ playerId'[s] = playerId[s]
<1>1. ASSUME NEW u \in Session, LoginRequest(u)
      PROVE  Admitted(s)' /\ playerId'[s] = playerId[s]
  BY <1>1 DEF LoginRequest, Admit, RefuseAlreadyLoggedIn, RefuseUnauthorized, RefuseLogin,
     Admitted, LoginInv, LoginTypeOK
<1>2. ASSUME NEW u \in Session,
             \/ Disconnect(u) \/ UnregisterRefused(u) \/ GiveUpLogin(u)
             \/ UnregisterPlayer(u) \/ Panic(u)
      PROVE  Admitted(s)' /\ playerId'[s] = playerId[s]
  BY <1>2 DEF Disconnect, UnregisterRefused, GiveUpLogin, UnregisterPlayer, Panic,
     Admitted, LoginInv, LoginTypeOK
<1>3. CASE UNCHANGED loginVars
  BY <1>3 DEF loginVars, Admitted
<1> QED
  BY <1>1, <1>2, <1>3 DEF LoginNext

-----------------------------------------------------------------------------
(* Channels.                                                               *)

\* p is q followed by n copies of e.
Extended(q, p, n, e) ==
    /\ Len(p) = Len(q) + n
    /\ \A k \in 1..Len(q) : p[k] = q[k]
    /\ \A k \in Len(q) + 1..Len(q) + n : p[k] = e

LEMMA AppendExtends ==
    ASSUME NEW S, NEW q \in Seq(S), NEW e \in S
    PROVE  Append(q, e) \in Seq(S) /\ Extended(q, Append(q, e), 1, e)
<1>1. Len(q) \in Nat
  BY LenProperties
<1>2. /\ Append(q, e) \in Seq(S)
      /\ Len(Append(q, e)) = Len(q) + 1
      /\ \A k \in 1..Len(q) : Append(q, e)[k] = q[k]
      /\ Append(q, e)[Len(q) + 1] = e
  BY AppendProperties
<1> QED
  BY <1>1, <1>2 DEF Extended

LEMMA CopiesExtend ==
    ASSUME NEW S, NEW q \in Seq(S), NEW e \in S, NEW n \in Nat
    PROVE  Extended(q, q \o [k \in 1..n |-> e], n, e)
<1> DEFINE copies == [k \in 1..n |-> e]
<1>1. Len(q) \in Nat /\ copies \in Seq(S) /\ Len(copies) = n
  BY LenProperties
<1>2. \A k \in 1..n : copies[k] = e
  OBVIOUS
<1> HIDE DEF copies
<1>3. /\ Len(q \o copies) = Len(q) + n
      /\ \A k \in 1..Len(q) + n :
             (q \o copies)[k] = IF k <= Len(q) THEN q[k] ELSE copies[k - Len(q)]
  BY <1>1, ConcatProperties
<1>4. ASSUME NEW k \in Len(q) + 1..Len(q) + n
      PROVE  (q \o copies)[k] = e
  <2>1. k - Len(q) \in 1..n /\ k \in 1..Len(q) + n /\ ~(k <= Len(q))
    BY <1>1
  <2> QED
    BY <1>2, <1>3, <2>1
<1>5. \A k \in 1..Len(q) : (q \o copies)[k] = q[k]
  BY <1>1, <1>3
<1>6. Extended(q, q \o copies, n, e)
  BY <1>3, <1>4, <1>5 DEF Extended
<1> QED
  BY <1>6 DEF copies

LEMMA TailShifts ==
    ASSUME NEW S, NEW q \in Seq(S), q # <<>>
    PROVE  /\ Len(q) \in Nat /\ Len(q) > 0 /\ DOMAIN q = 1..Len(q)
           /\ q[1] = Head(q) /\ q[1] \in S
           /\ Tail(q) \in Seq(S) /\ DOMAIN Tail(q) = 1..Len(q) - 1
           /\ \A k \in 1..Len(q) - 1 : Tail(q)[k] = q[k + 1]
<1>1. /\ Len(q) \in Nat /\ Len(q) > 0 /\ DOMAIN q = 1..Len(q)
      /\ Tail(q) \in Seq(S) /\ Head(q) \in S /\ q[1] = Head(q)
      /\ Len(Tail(q)) = Len(q) - 1
      /\ \A k \in 1..Len(Tail(q)) : Tail(q)[k] = q[k + 1]
  BY HeadTailProperties, EmptySeq, LenProperties
<1>2. DOMAIN Tail(q) = 1..Len(Tail(q))
  BY <1>1, LenProperties
<1> QED
  BY <1>1, <1>2

-----------------------------------------------------------------------------
(* What a room sends to a session.                                         *)

\* The session is among the players of the room, under that id.
PlaysIn(entity, s, id) == id \in DOMAIN entity.players /\ entity.players[id] = s

\* A session that is in a room under its own id at most hears a broadcast once, and one
\* that is not in it is reached neither by a broadcast nor as a target.
LEMMA CountsOfSession ==
    ASSUME NEW entity \in Room, NEW s \in Session, NEW id,
           \A other \in DOMAIN entity.players : entity.players[other] = s => other = id
    PROVE  /\ BroadcastCount(entity)[s] = IF PlaysIn(entity, s, id) THEN 1 ELSE 0
           /\ \A targets \in Seq(PlayerId) :
                  ~PlaysIn(entity, s, id) => SendCount(entity, targets)[s] = 0
<1>1. CASE PlaysIn(entity, s, id)
  <2>1. {other \in DOMAIN entity.players : entity.players[other] = s} = {id}
    BY <1>1 DEF PlaysIn
  <2>2. Cardinality({id}) = 1
    BY FS_Singleton
  <2> QED
    BY <1>1, <2>1, <2>2 DEF BroadcastCount
<1>2. CASE ~PlaysIn(entity, s, id)
  <2>1. {other \in DOMAIN entity.players : entity.players[other] = s} = {}
    BY <1>2 DEF PlaysIn
  <2>2. Cardinality({}) = 0
    BY FS_EmptySet
  <2>3. ASSUME NEW targets \in Seq(PlayerId)
        PROVE  SendCount(entity, targets)[s] = 0
    <3>1. {k \in DOMAIN targets :
               IsJoined(entity, targets[k]) /\ entity.players[targets[k]] = s} = {}
      BY <1>2 DEF PlaysIn, IsJoined
    <3> QED
      BY <2>2, <3>1 DEF SendCount
  <2> QED
    BY <1>2, <2>1, <2>2, <2>3 DEF BroadcastCount
<1> QED
  BY <1>1, <1>2

\* What Deliver does to the channel of one session.
LEMMA DeliverExtends ==
    ASSUME RoomTypeOK, NEW count \in [Session -> Nat], NEW event \in OutputEvent,
           Deliver(count, event), NEW s \in Session, listening[s]
    PROVE  Extended(playerRx[s], playerRx'[s], count[s], event)
<1>1. playerRx[s] \in Seq(OutputEvent) /\ count[s] \in Nat
  BY DEF RoomTypeOK
<1>2. playerRx'[s] = playerRx[s] \o [k \in 1..count[s] |-> event]
  BY DEF Deliver
<1> QED
  BY <1>1, <1>2, CopiesExtend

LEMMA NothingExtends ==
    ASSUME NEW S, NEW q \in Seq(S), NEW p \in Seq(S), NEW e, Extended(q, p, 0, e)
    PROVE  p = q
<1>1. Len(q) \in Nat /\ Len(p) = Len(q) /\ \A k \in 1..Len(q) : p[k] = q[k]
  BY LenProperties DEF Extended
<1> QED
  BY <1>1, SeqEqual

-----------------------------------------------------------------------------
(* The handlers of a room, as far as the signatures are concerned.         *)

\* What all three handlers share: one event is handled by task i, whose room keeps its id
\* and its signed players, and a session without an actor hears nothing of it.
HandlesOne(i) ==
    /\ status[i] = "running" /\ status'[i] # "unborn"
    /\ room[i] \in Room /\ room'[i] \in Room /\ room'[i].id = room[i].id
    /\ \A j \in RoomTask : j # i => room'[j] = room[j] /\ status'[j] = status[j]
    /\ roomRx' = [roomRx EXCEPT ![i] = Tail(@)] /\ roomRx[i] # <<>>
    /\ listening' = listening /\ roomChannels' = roomChannels
    /\ \A id \in DOMAIN room'[i].players : SignedBy(room'[i].players[id], id)
    /\ \A s \in Session : ~LoggedIn(s) => playerRx'[s] = playerRx[s]

LEMMA StopIfEmptyHandles ==
    ASSUME SignedInv, NEW i \in RoomTask, status[i] = "running", roomRx[i] # <<>>,
           NEW after \in Room, after.id = room[i].id, StopIfEmpty(i, after),
           \A id \in DOMAIN after.players : SignedBy(after.players[id], id),
           \A s \in Session : ~LoggedIn(s) => playerRx'[s] = playerRx[s]
    PROVE  HandlesOne(i) /\ room'[i] = after
BY DEF SignedInv, PlayerInv, RoomInv, RoomTypeOK, RoomsExist, StopIfEmpty, HandlesOne

\* A session that is not admitted, or has no actor any more, is not reached.
LEMMA NotReached ==
    ASSUME SignedInv, NEW count \in [Session -> Nat], NEW event \in OutputEvent,
           Deliver(count, event), NEW s \in Session, ~LoggedIn(s),
           ~Admitted(s) => count[s] = 0
    PROVE  playerRx'[s] = playerRx[s]
<1>1. CASE ~listening[s]
  BY <1>1 DEF Deliver
<1>2. CASE listening[s]
  <2>1. ~Admitted(s)
    BY <1>2 DEF SignedInv, ChannelsListen, Admitted, LoggedIn
  <2>2. Extended(playerRx[s], playerRx'[s], 0, event)
    BY <1>2, <2>1, DeliverExtends DEF SignedInv, PlayerInv, RoomInv
  <2>3. playerRx[s] \in Seq(OutputEvent) /\ playerRx'[s] \in Seq(OutputEvent)
    BY DeliverType DEF SignedInv, PlayerInv, RoomInv, RoomTypeOK
  <2> QED
    BY <2>2, <2>3, NothingExtends
<1> QED
  BY <1>1, <1>2

\* A session that is not admitted is in no room.
LEMMA BroadcastReachesAdmitted ==
    ASSUME NEW entity \in Room,
           \A id \in DOMAIN entity.players : SignedBy(entity.players[id], id),
           NEW s \in Session, ~Admitted(s)
    PROVE  /\ BroadcastCount(entity)[s] = 0
           /\ \A targets \in Seq(PlayerId) : SendCount(entity, targets)[s] = 0
<1>1. \A id \in DOMAIN entity.players : entity.players[id] # s
  BY DEF SignedBy
<1>2. ~PlaysIn(entity, s, None)
  BY <1>1 DEF PlaysIn
<1> QED
  BY <1>1, <1>2, CountsOfSession

LEMMA HandleJoinEventHandles ==
    ASSUME SignedInv, NEW i \in RoomTask, HandleJoinEvent(i)
    PROVE  HandlesOne(i)
<1> DEFINE event == Head(roomRx[i])
           joined == AddPlayer(room[i], event.player)
           result == AddPlayerResult(room[i], event.player, event.config)
<1>1. RoomInv /\ PlayersAreSigned
  BY DEF SignedInv, PlayerInv
<1>2. /\ status[i] = "running" /\ roomRx[i] # <<>>
      /\ room[i] \in Room
      /\ event \in InputEvent /\ event.type = "Join"
      /\ event.player \in Player /\ event.config \in RoomConfig
      /\ event.player.id \in PlayerId /\ event.player.sender \in Session
  BY <1>1, ReceivesProperties, InputEventFields DEF HandleJoinEvent, Player
<1>3. SignedBy(event.player.sender, event.player.id)
  <2>1. roomRx[i] \in Seq(InputEvent)
    BY <1>1 DEF RoomInv, RoomTypeOK
  <2>2. 1 \in DOMAIN roomRx[i] /\ roomRx[i][1] = event
    BY <1>2, <2>1, TailShifts
  <2> QED
    BY <1>2, <2>2 DEF SignedInv, JoinsAreSigned
<1>4. \A id \in DOMAIN room[i].players : SignedBy(room[i].players[id], id)
  BY <1>1, <1>2 DEF PlayersAreSigned
<1>5. CASE AcceptJoin(i, event)
  <2>1. /\ result = "Ok"
        /\ Deliver(BroadcastCount(joined), JoinEvent(joined, event.player.id))
        /\ StopIfEmpty(i, joined)
    BY <1>5 DEF AcceptJoin
  <2>2. joined \in Room /\ joined.id = room[i].id
    BY <1>2, <2>1, AddPlayerProperties
  <2>3. \A id \in DOMAIN joined.players : SignedBy(joined.players[id], id)
    <3>1. /\ DOMAIN joined.players = DOMAIN room[i].players \cup {event.player.id}
          /\ joined.players[event.player.id] = event.player.sender
          /\ \A id \in DOMAIN room[i].players :
                 id # event.player.id => joined.players[id] = room[i].players[id]
      BY <1>2, PlayersAfter, Zenon
    <3> HIDE DEF joined, event
    <3> QED
      BY <1>3, <1>4, <3>1, Zenon
  <2>4. JoinEvent(joined, event.player.id) \in OutputEvent
    <3>1. joined.id \in RoomId /\ joined.config \in RoomConfig
          /\ DOMAIN joined.players \in SUBSET PlayerId
      BY <2>2, PlayersOfRoom DEF Room
    <3> QED
      BY <1>2, <3>1 DEF JoinEvent, OutputEvent
  <2>5. \A s \in Session : ~LoggedIn(s) => playerRx'[s] = playerRx[s]
    <3> HIDE DEF joined
    <3> QED
      BY <2>1, <2>2, <2>3, <2>4, CountsAreNatural, BroadcastReachesAdmitted, NotReached
  <2> QED
    BY <1>2, <2>1, <2>2, <2>3, <2>5, StopIfEmptyHandles
<1>6. CASE RefuseJoin(i, event)
  <2> DEFINE count == [s \in Session |-> IF s = event.player.sender THEN 1 ELSE 0]
             error == [type |-> "JoinError", error |-> result,
                       roomId |-> room[i].id, playerId |-> event.player.id]
  <2>1. result \in RoomError /\ Deliver(count, error) /\ StopIfEmpty(i, room[i])
    BY <1>6 DEF RefuseJoin
  <2>2. error \in OutputEvent
    BY <1>2, <2>1, PlayersOfRoom DEF OutputEvent
  <2>3. count \in [Session -> Nat] /\ \A s \in Session : ~Admitted(s) => count[s] = 0
    BY <1>3 DEF SignedBy
  <2>4. \A s \in Session : ~LoggedIn(s) => playerRx'[s] = playerRx[s]
    <3> HIDE DEF count, error
    <3> QED
      BY <2>1, <2>2, <2>3, NotReached
  <2> QED
    BY <1>2, <1>4, <2>1, <2>4, StopIfEmptyHandles
<1> QED
  BY <1>5, <1>6 DEF HandleJoinEvent

LEMMA HandleLeaveEventHandles ==
    ASSUME SignedInv, NEW i \in RoomTask, HandleLeaveEvent(i)
    PROVE  HandlesOne(i)
<1> DEFINE id == Head(roomRx[i]).playerId
           left == RemovePlayer(room[i], id)
<1>1. RoomInv /\ PlayersAreSigned
  BY DEF SignedInv, PlayerInv
<1>2. /\ status[i] = "running" /\ roomRx[i] # <<>>
      /\ room[i] \in Room /\ id \in PlayerId
  BY <1>1, ReceivesProperties, InputEventFields DEF HandleLeaveEvent
<1>3. \A p \in DOMAIN room[i].players : SignedBy(room[i].players[p], p)
  BY <1>1, <1>2 DEF PlayersAreSigned
<1>4. CASE /\ Deliver(BroadcastCount(room[i]), LeaveEvent(room[i], id))
           /\ StopIfEmpty(i, left)
  <2>1. LeaveEvent(room[i], id) \in OutputEvent
    BY <1>2, PlayersOfRoom DEF LeaveEvent, OutputEvent
  <2>2. left \in Room /\ left.id = room[i].id
    BY <1>2, RemovePlayerProperties
  <2>3. \A p \in DOMAIN left.players : SignedBy(left.players[p], p)
    <3>1. /\ DOMAIN left.players = DOMAIN room[i].players \ {id}
          /\ \A p \in DOMAIN left.players : left.players[p] = room[i].players[p]
      BY <1>2, PlayersAfter, Zenon
    <3> HIDE DEF left, id
    <3> QED
      BY <1>3, <3>1
  <2>4. \A s \in Session : ~LoggedIn(s) => playerRx'[s] = playerRx[s]
    BY <1>2, <1>3, <1>4, <2>1, CountsAreNatural, BroadcastReachesAdmitted, NotReached
  <2> QED
    BY <1>2, <1>4, <2>2, <2>3, <2>4, StopIfEmptyHandles
<1>5. CASE StopIfEmpty(i, room[i]) /\ UNCHANGED playerRx
  BY <1>2, <1>3, <1>5, StopIfEmptyHandles
<1> QED
  BY <1>4, <1>5 DEF HandleLeaveEvent

LEMMA HandleMessageEventHandles ==
    ASSUME SignedInv, NEW i \in RoomTask, HandleMessageEvent(i)
    PROVE  HandlesOne(i)
<1> DEFINE event == Head(roomRx[i])
           count == IF event.targets = <<>> THEN BroadcastCount(room[i])
                                            ELSE SendCount(room[i], event.targets)
           message == [type |-> "Message", roomId |-> room[i].id,
                       sender |-> event.sender, body |-> event.body]
<1>1. /\ Receives(i, "Message")
      /\ Deliver(count, message)
      /\ StopIfEmpty(i, room[i])
  BY DEF HandleMessageEvent
<1>2. /\ status[i] = "running" /\ roomRx[i] # <<>> /\ room[i] \in Room
      /\ event.sender \in PlayerId /\ event.targets \in Seq(PlayerId) /\ event.body \in Body
  BY <1>1, ReceivesProperties, InputEventFields, TargetIdsAssumption DEF SignedInv, PlayerInv
<1>3. \A p \in DOMAIN room[i].players : SignedBy(room[i].players[p], p)
  BY <1>2 DEF SignedInv, PlayersAreSigned
<1>4. /\ count \in [Session -> Nat]
      /\ \A s \in Session : ~Admitted(s) => count[s] = 0
  BY <1>2, <1>3, CountsAreNatural, BroadcastReachesAdmitted
<1>5. message \in OutputEvent
  BY <1>2, PlayersOfRoom DEF OutputEvent
<1>6. \A s \in Session : ~LoggedIn(s) => playerRx'[s] = playerRx[s]
  <2> HIDE DEF count, message
  <2> QED
    BY <1>1, <1>4, <1>5, NotReached
<1> QED
  BY <1>1, <1>2, <1>3, <1>6, StopIfEmptyHandles

-----------------------------------------------------------------------------
(* The signatures under every step.                                        *)

\* The login variables are left alone, and so are the actors.
LEMMA RoomTaskStepSigned ==
    ASSUME SignedInv, NEW i \in RoomTask, RoomTaskStep(i)
    PROVE  HandlersSign' /\ JoinsAreSigned' /\ PlayersAreSigned' /\ ChannelsListen'
<1>1. UNCHANGED <<loginVars, playerVars>>
  BY DEF RoomTaskStep
<1>2. \A s \in Session : \A id : SignedBy(s, id)' = SignedBy(s, id)
  BY <1>1 DEF loginVars, SignedBy, Admitted
<1>3. HandlersSign'
  BY <1>1 DEF SignedInv, HandlersSign, loginVars, playerVars, LoggedIn
<1>4. \A j \in RoomTask :
          /\ roomRx[j] \in Seq(InputEvent)
          /\ \A k \in DOMAIN roomRx[j] :
                 roomRx[j][k].type = "Join" =>
                     /\ roomRx[j][k].player.sender \in Session
                     /\ SignedBy(roomRx[j][k].player.sender, roomRx[j][k].player.id)
  <2>1. ASSUME NEW j \in RoomTask, NEW k \in DOMAIN roomRx[j], roomRx[j][k].type = "Join"
        PROVE  roomRx[j][k].player.sender \in Session
    <3>1. roomRx[j] \in Seq(InputEvent)
      BY DEF SignedInv, PlayerInv, RoomInv, RoomTypeOK
    <3>2. roomRx[j][k] \in InputEvent
      BY <3>1, LenProperties
    <3> QED
      BY <2>1, <3>2, InputEventFields DEF Player
  <2> QED
    BY <2>1 DEF SignedInv, JoinsAreSigned, PlayerInv, RoomInv, RoomTypeOK
<1>5. CASE HandlesOne(i)
  <2>1. JoinsAreSigned'
    <3>1. ASSUME NEW j \in RoomTask, NEW k \in DOMAIN roomRx'[j], roomRx'[j][k].type = "Join"
          PROVE  \E l \in DOMAIN roomRx[j] : roomRx'[j][k] = roomRx[j][l]
      <4>1. CASE j = i
        <5>1. roomRx'[j] = Tail(roomRx[j])
          BY <1>5, <4>1 DEF HandlesOne, SignedInv, PlayerInv, RoomInv, RoomTypeOK
        <5>2. roomRx[j] \in Seq(InputEvent) /\ roomRx[j] # <<>>
          BY <1>4, <1>5, <4>1 DEF HandlesOne
        <5>3. /\ Len(roomRx[j]) \in Nat /\ DOMAIN roomRx[j] = 1..Len(roomRx[j])
              /\ DOMAIN Tail(roomRx[j]) = 1..Len(roomRx[j]) - 1
              /\ \A l \in 1..Len(roomRx[j]) - 1 : Tail(roomRx[j])[l] = roomRx[j][l + 1]
          BY <5>2, TailShifts
        <5>4. k \in 1..Len(roomRx[j]) - 1
          BY <3>1, <5>1, <5>3
        <5>5. k + 1 \in DOMAIN roomRx[j] /\ roomRx'[j][k] = roomRx[j][k + 1]
          BY <5>1, <5>3, <5>4
        <5> QED
          BY <5>5
      <4>2. CASE j # i
        <5>1. roomRx'[j] = roomRx[j]
          BY <1>5, <4>2 DEF HandlesOne, SignedInv, PlayerInv, RoomInv, RoomTypeOK
        <5> QED
          BY <3>1, <5>1
      <4> QED
        BY <4>1, <4>2
    <3> QED
      BY <1>2, <1>4, <3>1 DEF JoinsAreSigned
  <2>2. PlayersAreSigned'
    <3>1. ASSUME NEW j \in RoomTask, status'[j] # "unborn", NEW id \in DOMAIN room'[j].players
          PROVE  SignedBy(room'[j].players[id], id)
      BY <1>5, <3>1 DEF HandlesOne, SignedInv, PlayersAreSigned
    <3> QED
      BY <1>1, <3>1 DEF PlayersAreSigned, SignedBy, Admitted, loginVars
  <2>3. ChannelsListen'
    BY <1>1, <1>5
    DEF HandlesOne, SignedInv, ChannelsListen, LoggedIn, loginVars, playerVars
  <2> QED
    BY <1>3, <2>1, <2>2, <2>3
<1>6. CASE RemoveRoomFromChannels(i) \/ DropRoom(i)
  <2>1. /\ room' = room /\ playerRx' = playerRx /\ listening' = listening
        /\ \A j \in RoomTask : status'[j] # "unborn" => status[j] # "unborn"
        /\ \A j \in RoomTask : roomRx'[j] \in {roomRx[j], <<>>}
    BY <1>6 DEF RemoveRoomFromChannels, DropRoom, SignedInv, PlayerInv, RoomInv, RoomTypeOK
  <2>2. JoinsAreSigned'
    <3>1. DOMAIN <<>> = {}
      OBVIOUS
    <3> QED
      BY <1>2, <1>4, <2>1, <3>1 DEF JoinsAreSigned
  <2>3. PlayersAreSigned'
    BY <1>1, <2>1 DEF SignedInv, PlayersAreSigned, SignedBy, Admitted, loginVars
  <2>4. ChannelsListen'
    BY <1>1, <2>1 DEF SignedInv, ChannelsListen, LoggedIn, loginVars, playerVars
  <2> QED
    BY <1>3, <2>2, <2>3, <2>4
<1> QED
  BY <1>5, <1>6, HandleJoinEventHandles, HandleLeaveEventHandles, HandleMessageEventHandles
  DEF RoomTaskStep, RoomStep

\* Joins that were in a channel, or that an actor has just signed.
LEMMA JoinsStaySigned ==
    ASSUME SignedInv, [LoginNext]_loginVars,
           \A j \in RoomTask : \A k \in DOMAIN roomRx'[j] :
               roomRx'[j][k].type = "Join" =>
                   \/ \E l \in DOMAIN roomRx[j] : roomRx'[j][k] = roomRx[j][l]
                   \/ \E s \in Session :
                          Admitted(s) /\ roomRx'[j][k].player = [id |-> playerId[s], sender |-> s]
    PROVE  JoinsAreSigned'
<1>1. ASSUME NEW s \in Session, NEW id, SignedBy(s, id)
      PROVE  SignedBy(s, id)'
  BY <1>1, SignaturesLast DEF SignedBy, SignedInv, PlayerInv
<1>2. ASSUME NEW j \in RoomTask, NEW l \in DOMAIN roomRx[j], roomRx[j][l].type = "Join"
      PROVE  /\ roomRx[j][l].player.sender \in Session
             /\ SignedBy(roomRx[j][l].player.sender, roomRx[j][l].player.id)
  <2>1. roomRx[j] \in Seq(InputEvent)
    BY DEF SignedInv, PlayerInv, RoomInv, RoomTypeOK
  <2>2. roomRx[j][l] \in InputEvent
    BY <2>1, LenProperties
  <2> QED
    BY <1>2, <2>2, InputEventFields DEF Player, SignedInv, JoinsAreSigned
<1>3. ASSUME NEW j \in RoomTask, NEW k \in DOMAIN roomRx'[j], roomRx'[j][k].type = "Join"
      PROVE  SignedBy(roomRx[j][k].player.sender, roomRx[j][k].player.id)'
  <2>1. PICK u, id : /\ u \in Session /\ SignedBy(u, id)
                     /\ roomRx'[j][k].player.sender = u
                     /\ roomRx'[j][k].player.id = id
    <3>1. CASE \E l \in DOMAIN roomRx[j] : roomRx'[j][k] = roomRx[j][l]
      BY <1>2, <1>3, <3>1
    <3>2. CASE \E s \in Session :
                  Admitted(s) /\ roomRx'[j][k].player = [id |-> playerId[s], sender |-> s]
      BY <3>2 DEF SignedBy
    <3> QED
      BY <1>3, <3>1, <3>2
  <2> QED
    BY <1>1, <2>1 DEF SignedBy
<1> QED
  BY <1>3 DEF JoinsAreSigned

\* Rooms that are left alone, or are new and empty.
LEMMA PlayersStaySigned ==
    ASSUME SignedInv, [LoginNext]_loginVars,
           \A j \in RoomTask : status'[j] # "unborn" =>
               \/ status[j] # "unborn" /\ room'[j] = room[j]
               \/ DOMAIN room'[j].players = {}
    PROVE  PlayersAreSigned'
<1>1. ASSUME NEW s \in Session, NEW id, SignedBy(s, id)
      PROVE  SignedBy(s, id)'
  BY <1>1, SignaturesLast DEF SignedBy, SignedInv, PlayerInv
<1>2. ASSUME NEW j \in RoomTask, status[j] # "unborn", NEW id \in DOMAIN room[j].players
      PROVE  room[j].players[id] \in Session /\ SignedBy(room[j].players[id], id)
  BY <1>2, PlayerMapDef DEF SignedInv, PlayersAreSigned, PlayerInv, RoomInv, RoomsExist, Room
<1>3. ASSUME NEW j \in RoomTask, status'[j] # "unborn", NEW id \in DOMAIN room'[j].players
      PROVE  SignedBy(room[j].players[id], id)'
  <2>1. status[j] # "unborn" /\ room'[j] = room[j] /\ id \in DOMAIN room[j].players
    BY <1>3
  <2>2. PICK u \in Session : SignedBy(u, id) /\ room'[j].players[id] = u
    BY <1>2, <2>1
  <2> QED
    BY <1>1, <2>2 DEF SignedBy
<1> QED
  BY <1>3 DEF PlayersAreSigned

\* One event is put into the channel of a task.
LEMMA SendKeepsSigned ==
    ASSUME SignedInv, [LoginNext]_loginVars,
           NEW i \in RoomTask, NEW event \in InputEvent, SendToRoom(i, event),
           event.type = "Join" =>
               \E s \in Session : Admitted(s) /\ event.player = [id |-> playerId[s], sender |-> s]
    PROVE  JoinsAreSigned' /\ PlayersAreSigned'
<1>1. ASSUME NEW j \in RoomTask, NEW k \in DOMAIN roomRx'[j]
      PROVE  (\E l \in DOMAIN roomRx[j] : roomRx'[j][k] = roomRx[j][l]) \/ roomRx'[j][k] = event
  <2>1. CASE j = i
    <3>1. roomRx[i] \in Seq(InputEvent) /\ roomRx'[i] = Append(roomRx[i], event)
      BY DEF SendToRoom, SignedInv, PlayerInv, RoomInv, RoomTypeOK
    <3>2. /\ Len(roomRx[i]) \in Nat /\ DOMAIN roomRx[i] = 1..Len(roomRx[i])
          /\ roomRx'[i] \in Seq(InputEvent)
          /\ Extended(roomRx[i], roomRx'[i], 1, event)
      BY <3>1, AppendExtends, LenProperties
    <3>3. DOMAIN roomRx'[i] = 1..Len(roomRx[i]) + 1
      BY <3>2, LenProperties DEF Extended
    <3>4. k \in 1..Len(roomRx[i]) \/ k \in Len(roomRx[i]) + 1..Len(roomRx[i]) + 1
      BY <2>1, <3>2, <3>3
    <3> QED
      BY <2>1, <3>2, <3>4 DEF Extended
  <2>2. CASE j # i
    <3>1. roomRx'[j] = roomRx[j]
      BY <2>2 DEF SendToRoom, SignedInv, PlayerInv, RoomInv, RoomTypeOK
    <3> QED
      BY <3>1
  <2> QED
    BY <2>1, <2>2
<1>2. JoinsAreSigned'
  BY <1>1, JoinsStaySigned
<1>3. PlayersAreSigned'
  BY PlayersStaySigned DEF SendToRoom
<1> QED
  BY <1>2, <1>3

\* Logins, and the ends of actors.
LEMMA SessionStepSigned ==
    ASSUME SignedInv, [LoginNext]_loginVars, NEW s \in Session,
           LogIn(s) \/ Drop(s) \/ EndWithoutLogin(s) \/ OnRoomIsFull(s) \/ FinishSession(s)
    PROVE  HandlersSign' /\ JoinsAreSigned' /\ PlayersAreSigned' /\ ChannelsListen'
<1>1. /\ roomRx' = roomRx /\ room' = room /\ status' = status
      /\ UNCHANGED playerVars
  BY DEF LogIn, Drop, EndWithoutLogin, OnRoomIsFull, FinishSession, PlayerStops, roomVars
<1>2. JoinsAreSigned' /\ PlayersAreSigned'
  BY <1>1, JoinsStaySigned, PlayersStaySigned
<1>3. /\ \A t \in Session : t # s => pc'[t] = pc[t] /\ playerId'[t] = playerId[t]
      /\ \/ /\ UNCHANGED <<listening, playerRx>> /\ playerId'[s] = playerId[s] /\ pc'[s] = pc[s]
         \/ /\ pc[s] = "wait_login" /\ pc'[s] # "wait_login"
            /\ pc'[s] \in {"login_error", "logged_in"}
            /\ UNCHANGED <<listening, playerRx>>
         \/ /\ pc'[s] \in {"finished", "panicked"}
            /\ pc[s] # "logged_in" \/ handler[s].at # "send"
            /\ PlayerStops(s)
  <2>1. CASE LogIn(s)
    BY <2>1 DEF LogIn, LoginRequest, Admit, RefuseAlreadyLoggedIn, RefuseUnauthorized, RefuseLogin,
       SignedInv, PlayerInv, LoginInv, LoginTypeOK, roomVars
  <2>2. CASE Drop(s)
    BY <2>2 DEF Drop, Disconnect, roomVars
  <2>3. CASE EndWithoutLogin(s)
    BY <2>3 DEF EndWithoutLogin, UnregisterRefused, GiveUpLogin,
       SignedInv, PlayerInv, LoginInv, LoginTypeOK
  <2>4. CASE OnRoomIsFull(s) \/ FinishSession(s)
    BY <2>4 DEF OnRoomIsFull, FinishSession, Panic, UnregisterPlayer, AtSelect,
       SignedInv, PlayerInv, LoginInv, LoginTypeOK
  <2> QED
    BY <2>1, <2>2, <2>3, <2>4
<1>4. HandlersSign'
  <2>1. ASSUME NEW t \in Session, handler[t].at = "send"
        PROVE  /\ pc'[t] = "logged_in" /\ playerId'[t] = playerId[t]
               /\ handler[t].event.type = "Join" =>
                      handler[t].event.player = [id |-> playerId[t], sender |-> t]
    <3>1. /\ pc[t] = "logged_in"
          /\ handler[t].event.type = "Join" =>
                 handler[t].event.player = [id |-> playerId[t], sender |-> t]
      BY <2>1 DEF SignedInv, HandlersSign, LoggedIn
    <3> QED
      BY <1>3, <2>1, <3>1
  <2>2. handler' = handler
    BY <1>1 DEF playerVars
  <2> QED
    BY <2>1, <2>2 DEF HandlersSign, LoggedIn
<1>5. ChannelsListen'
  <2>1. /\ joinedRooms' = joinedRooms
        /\ listening \in [Session -> BOOLEAN] /\ playerRx \in [Session -> Seq(OutputEvent)]
    BY <1>1 DEF playerVars, SignedInv, PlayerInv, RoomInv, RoomTypeOK
  <2>2. ASSUME NEW t \in Session
        PROVE  /\ listening'[t] <=> pc'[t] \in {"wait_login", "login_error", "logged_in"}
               /\ pc'[t] # "logged_in" => playerRx'[t] = <<>>
               /\ pc'[t] = "wait_login" => \A r \in RoomId : joinedRooms[t][r] = None
    <3>1. /\ listening[t] <=> pc[t] \in {"wait_login", "login_error", "logged_in"}
          /\ pc[t] # "logged_in" => playerRx[t] = <<>>
          /\ pc[t] = "wait_login" => \A r \in RoomId : joinedRooms[t][r] = None
      BY DEF SignedInv, ChannelsListen, LoggedIn
    <3>2. CASE PlayerStops(s) /\ pc'[s] \in {"finished", "panicked"}
      BY <1>3, <2>1, <3>1, <3>2 DEF PlayerStops
    <3>3. CASE UNCHANGED <<listening, playerRx>> /\ pc'[s] = pc[s]
      <4>1. pc'[t] = pc[t]
        BY <1>3, <3>3
      <4> QED
        BY <3>1, <3>3, <4>1
    <3>4. CASE /\ UNCHANGED <<listening, playerRx>>
               /\ pc[s] = "wait_login" /\ pc'[s] \in {"login_error", "logged_in"}
      <4>1. CASE t = s
        BY <3>1, <3>4, <4>1
      <4>2. CASE t # s
        BY <1>3, <3>1, <3>4, <4>2
      <4> QED
        BY <4>1, <4>2
    <3> QED
      BY <1>3, <3>2, <3>3, <3>4
  <2> QED
    BY <2>1, <2>2 DEF ChannelsListen, LoggedIn
<1> QED
  BY <1>2, <1>4, <1>5

\* Requests: an actor signs the event that it is about to send.
LEMMA ClientMessageSigned ==
    ASSUME SignedInv, [LoginNext]_loginVars, NEW s \in Session, ClientMessage(s)
    PROVE  HandlersSign' /\ JoinsAreSigned' /\ PlayersAreSigned' /\ ChannelsListen'
<1>1. /\ LoggedIn(s) /\ UNCHANGED <<loginVars, joinedRooms>>
      /\ roomRx' = roomRx /\ playerRx' = playerRx /\ listening' = listening
  <2>1. ReceivesRequest(s) /\ UNCHANGED <<loginVars, joinedRooms>>
    BY Zenon DEF ClientMessage, OnJoinRequest, OnLeaveRequest, OnLeaveRequestWithoutRoom,
       OnSendMessage
  <2>2. \/ UNCHANGED roomVars
        \/ \E r \in RoomId, i \in RoomTask, config \in RoomConfig :
               GetOrCreateRoomChannel(r, config, i)
    BY Zenon DEF ClientMessage, OnJoinRequest, OnLeaveRequest, OnLeaveRequestWithoutRoom,
       OnSendMessage
  <2> QED
    BY <2>1, <2>2 DEF ReceivesRequest, AtSelect, GetOrCreateRoomChannel, SpawnRoom, roomVars
<1>2. ChannelsListen'
  BY <1>1 DEF SignedInv, ChannelsListen, LoggedIn, loginVars
<1>3. \/ \E r \in RoomId, i \in RoomTask : \E event :
            /\ GoesToSend(s, r, i, event)
            /\ event.type = "Join" => event.player = [id |-> playerId[s], sender |-> s]
      \/ handler' = handler
  <2>1. ASSUME NEW r \in RoomId, NEW i \in RoomTask, NEW config \in RoomConfig,
               OnJoinRequest(s, r, config, i)
        PROVE  \E event :
                   /\ GoesToSend(s, r, i, event)
                   /\ event.type = "Join" => event.player = [id |-> playerId[s], sender |-> s]
    BY <2>1 DEF OnJoinRequest
  <2>2. ASSUME NEW r \in RoomId, NEW i \in RoomTask, OnLeaveRequest(s, r, i)
        PROVE  \E event : GoesToSend(s, r, i, event) /\ event.type # "Join"
    <3> DEFINE event == [type |-> "Leave", playerId |-> playerId[s]]
    <3>1. event.type # "Join" /\ GoesToSend(s, r, i, event)
      BY <2>2 DEF OnLeaveRequest
    <3> QED
      BY <3>1
  <2>3. ASSUME NEW r \in RoomId, NEW i \in RoomTask, NEW targets, NEW body,
               OnSendMessage(s, r, i, targets, body)
        PROVE  \E event : GoesToSend(s, r, i, event) /\ event.type # "Join"
    <3> DEFINE event == [type |-> "Message", sender |-> playerId[s],
                         targets |-> targets, body |-> body]
    <3>1. event.type # "Join" /\ GoesToSend(s, r, i, event)
      BY <2>3 DEF OnSendMessage
    <3> QED
      BY <3>1
  <2>4. ASSUME NEW r \in RoomId, OnLeaveRequestWithoutRoom(s, r)
        PROVE  handler' = handler
    BY <2>4 DEF OnLeaveRequestWithoutRoom
  <2> QED
    BY <2>1, <2>2, <2>3, <2>4, Zenon DEF ClientMessage
<1>4. HandlersSign'
  <2>1. CASE handler' = handler
    BY <1>1, <2>1 DEF SignedInv, HandlersSign, LoggedIn, loginVars
  <2>2. ASSUME NEW r \in RoomId, NEW i \in RoomTask, NEW event, GoesToSend(s, r, i, event),
               event.type = "Join" => event.player = [id |-> playerId[s], sender |-> s]
        PROVE  HandlersSign'
    <3>1. /\ handler'[s].event = event
          /\ \A t \in Session : t # s => handler'[t] = handler[t]
      BY <2>2 DEF GoesToSend, SignedInv, PlayerInv, PlayerTypeOK
    <3> QED
      BY <1>1, <2>2, <3>1 DEF SignedInv, HandlersSign, LoggedIn, loginVars
  <2> QED
    BY <1>3, <2>1, <2>2
<1>5. \A j \in RoomTask : status'[j] # "unborn" =>
          \/ status[j] # "unborn" /\ room'[j] = room[j]
          \/ DOMAIN room'[j].players = {}
  <2>1. CASE room' = room /\ status' = status
    BY <2>1
  <2>2. ASSUME NEW r \in RoomId, NEW i \in RoomTask, NEW config \in RoomConfig,
               SpawnRoom(r, config, i)
        PROVE  \A j \in RoomTask : status'[j] # "unborn" =>
                   \/ status[j] # "unborn" /\ room'[j] = room[j]
                   \/ DOMAIN room'[j].players = {}
    BY <2>2 DEF SpawnRoom, NewRoom, SignedInv, PlayerInv, RoomInv, RoomTypeOK
  <2>3. \/ room' = room /\ status' = status
        \/ \E r \in RoomId, i \in RoomTask, config \in RoomConfig : SpawnRoom(r, config, i)
    BY DEF ClientMessage, OnJoinRequest, OnLeaveRequest, OnLeaveRequestWithoutRoom,
       OnSendMessage, GetOrCreateRoomChannel, roomVars
  <2> QED
    BY <2>1, <2>2, <2>3
<1>6. JoinsAreSigned' /\ PlayersAreSigned'
  BY <1>1, <1>5, JoinsStaySigned, PlayersStaySigned
<1> QED
  BY <1>2, <1>4, <1>6

\* The other steps of an actor that is logged in.
LEMMA ActorStepSigned ==
    ASSUME SignedInv, [LoginNext]_loginVars, NEW s \in Session,
           \/ SendEvent(s) \/ OnOutputEvent(s) \/ OnClosed(s)
           \/ \E r \in RoomId : LeaveOnDisconnect(s, r)
    PROVE  HandlersSign' /\ JoinsAreSigned' /\ PlayersAreSigned' /\ ChannelsListen'
<1>1. CASE SendEvent(s)
  <2>1. /\ UNCHANGED loginVars /\ LoggedIn(s)
        /\ handler[s].roomTx \in RoomTask /\ handler[s].event \in InputEvent
        /\ playerRx' = playerRx /\ listening' = listening /\ joinedRooms' = joinedRooms
    BY <1>1, EventOfSend DEF SendEvent, SendToRoom, roomVars, SignedInv
  <2>2. JoinsAreSigned' /\ PlayersAreSigned'
    <3>1. CASE SendToRoom(handler[s].roomTx, handler[s].event)
      <4>1. handler[s].event.type = "Join" =>
                Admitted(s) /\ handler[s].event.player = [id |-> playerId[s], sender |-> s]
        BY <1>1, <2>1 DEF SendEvent, SignedInv, HandlersSign, LoggedIn, Admitted
      <4> QED
        BY <2>1, <3>1, <4>1, SendKeepsSigned
    <3>2. CASE UNCHANGED roomVars
      BY <3>2, JoinsStaySigned, PlayersStaySigned DEF roomVars
    <3> QED
      BY <1>1, <3>1, <3>2 DEF SendEvent
  <2>3. HandlersSign' /\ ChannelsListen'
    BY <1>1, <2>1
    DEF SendEvent, SignedInv, HandlersSign, ChannelsListen, LoggedIn, loginVars,
        PlayerInv, PlayerTypeOK
  <2> QED
    BY <2>2, <2>3
<1>2. CASE OnOutputEvent(s)
  <2>1. /\ UNCHANGED loginVars /\ LoggedIn(s) /\ handler' = handler
        /\ roomRx' = roomRx /\ room' = room /\ status' = status /\ listening' = listening
        /\ \A t \in Session : t # s => playerRx'[t] = playerRx[t] /\ joinedRooms'[t] = joinedRooms[t]
    BY <1>2 DEF OnOutputEvent, AtSelect, PlayerReceives, OnOwnJoin, OnJoinError, OnOwnLeave, Notify,
       SignedInv, PlayerInv, PlayerTypeOK, RoomInv, RoomTypeOK
  <2>2. JoinsAreSigned' /\ PlayersAreSigned'
    BY <2>1, JoinsStaySigned, PlayersStaySigned
  <2>3. HandlersSign' /\ ChannelsListen'
    BY <2>1 DEF SignedInv, HandlersSign, ChannelsListen, LoggedIn, loginVars
  <2> QED
    BY <2>2, <2>3
<1>3. CASE OnClosed(s)
  <2>1. /\ UNCHANGED <<loginVars, roomVars, joinedRooms>>
        /\ \A t \in Session : handler'[t].at = "send" => handler'[t] = handler[t]
    BY <1>3 DEF OnClosed, SignedInv, PlayerInv, PlayerTypeOK
  <2>2. JoinsAreSigned' /\ PlayersAreSigned'
    BY <2>1, JoinsStaySigned, PlayersStaySigned DEF roomVars
  <2>3. HandlersSign' /\ ChannelsListen'
    BY <2>1 DEF SignedInv, HandlersSign, ChannelsListen, LoggedIn, loginVars, roomVars
  <2> QED
    BY <2>2, <2>3
<1>4. ASSUME NEW r \in RoomId, LeaveOnDisconnect(s, r)
      PROVE  HandlersSign' /\ JoinsAreSigned' /\ PlayersAreSigned' /\ ChannelsListen'
  <2>1. /\ UNCHANGED <<loginVars, handler>>
        /\ joinedRooms[s][r] \in RoomTask /\ playerId[s] \in PlayerId
        /\ playerRx' = playerRx /\ listening' = listening
        /\ \A t \in Session, q \in RoomId : joinedRooms'[t][q] \in {joinedRooms[t][q], None}
    BY <1>4 DEF LeaveOnDisconnect, SendToRoom, roomVars, SignedInv, PlayerInv, PlayerTypeOK, IdsAreKnown
  <2>2. JoinsAreSigned' /\ PlayersAreSigned'
    <3>1. CASE SendToRoom(joinedRooms[s][r], [type |-> "Leave", playerId |-> playerId[s]])
      <4>1. [type |-> "Leave", playerId |-> playerId[s]] \in InputEvent
        BY <2>1 DEF InputEvent
      <4> QED
        BY <2>1, <3>1, <4>1, SendKeepsSigned
    <3>2. CASE UNCHANGED roomVars
      BY <3>2, JoinsStaySigned, PlayersStaySigned DEF roomVars
    <3> QED
      BY <1>4, <3>1, <3>2 DEF LeaveOnDisconnect
  <2>3. HandlersSign' /\ ChannelsListen'
    BY <2>1 DEF SignedInv, HandlersSign, ChannelsListen, LoggedIn, loginVars
  <2> QED
    BY <2>2, <2>3
<1> QED
  BY <1>1, <1>2, <1>3, <1>4

LEMMA InitImpliesSignedInv == Init => SignedInv
<1> SUFFICES ASSUME Init PROVE SignedInv
  OBVIOUS
<1>1. HandlersSign /\ JoinsAreSigned /\ PlayersAreSigned /\ ChannelsListen
  BY DEF Init, RoomInit, LoginInit, PlayerInit, HandlersSign, JoinsAreSigned, PlayersAreSigned,
     ChannelsListen, LoggedIn
<1> QED
  BY <1>1, InitImpliesPlayerInv DEF SignedInv

LEMMA NextPreservesSignedInv == SignedInv /\ [Next]_vars => SignedInv'
<1> SUFFICES ASSUME SignedInv, [Next]_vars PROVE SignedInv'
  OBVIOUS
<1>1. PlayerInv' /\ [LoginNext]_loginVars
  BY NextPreservesPlayerInv, StepOfLogins DEF SignedInv
<1>2. CASE UNCHANGED vars
  <2>1. HandlersSign' /\ ChannelsListen'
    BY <1>2 DEF vars, roomVars, loginVars, playerVars, SignedInv, HandlersSign, ChannelsListen,
       LoggedIn
  <2>2. JoinsAreSigned' /\ PlayersAreSigned'
    BY <1>1, <1>2, JoinsStaySigned, PlayersStaySigned DEF vars, roomVars
  <2> QED
    BY <1>1, <2>1, <2>2 DEF SignedInv
<1>3. CASE Next
  <2>1. HandlersSign' /\ JoinsAreSigned' /\ PlayersAreSigned' /\ ChannelsListen'
    BY <1>1, <1>3, RoomTaskStepSigned, SessionStepSigned, ClientMessageSigned, ActorStepSigned
    DEF Next, ClientStep, PlayerTaskStep
  <2> QED
    BY <1>1, <2>1 DEF SignedInv
<1> QED
  BY <1>2, <1>3

-----------------------------------------------------------------------------
(* What a handler of task i means for a session that is logged in: it      *)
(* enters the room, leaves it, or stays what it was; and what it hears.    *)

HearsOwn(s, i, type) ==
    \E event \in OutputEvent :
        /\ event.type = type /\ event.playerId = playerId[s] /\ event.roomId = room[i].id
        /\ type = "Join" => event.roomPlayerIds = DOMAIN room'[i].players
        /\ Extended(playerRx[s], playerRx'[s], 1, event)

\* The task is handling a Join that s has sent.
Asks(s, i) == Head(roomRx[i]).type = "Join" /\ Head(roomRx[i]).player.sender = s

Enters(s, i) == ~Member(s, i) /\ Member(s, i)' /\ HearsOwn(s, i, "Join") /\ Asks(s, i)

Leaves(s, i) == Member(s, i) /\ ~Member(s, i)' /\ HearsOwn(s, i, "Leave") /\ ~Asks(s, i)

\* A player hears of everybody who enters or leaves.
HearsOfOthers(i, event, n) ==
    LET before == DOMAIN room[i].players
        after == DOMAIN room'[i].players
    IN  \/ (n = 0 \/ event.type \notin {"Join", "Leave"}) /\ after = before
        \/ n = 1 /\ event.type = "Join" /\ after = before \cup {event.playerId}
        \/ n = 1 /\ event.type = "Leave" /\ after = before \ {event.playerId}

Stays(s, i) ==
    /\ Member(s, i)' <=> Member(s, i)
    /\ \E event \in OutputEvent, n \in Nat :
           /\ ~Own(s, event) \/ n = 0
           /\ event.roomId = room[i].id
           /\ event.type = "JoinError" \/ n = 0 \/ Member(s, i)
           /\ Member(s, i) => HearsOfOthers(i, event, n)
           /\ IF Asks(s, i) THEN n = 1 /\ event.type = "JoinError" /\ event.playerId = playerId[s]
                            ELSE n = 0 \/ event.type # "JoinError"
           /\ Extended(playerRx[s], playerRx'[s], n, event)

\* Membership of a session that is in its rooms under its own id only.
LEMMA MemberPlays ==
    ASSUME SignedInv, NEW i \in RoomTask, NEW s \in Session, status[i] # "unborn"
    PROVE  /\ Member(s, i) <=> PlaysIn(room[i], s, playerId[s])
           /\ \A id \in DOMAIN room[i].players : room[i].players[id] = s => id = playerId[s]
BY DEF Member, PlaysIn, IsJoined, SignedInv, PlayersAreSigned, SignedBy

LEMMA HandleJoinEventHeard ==
    ASSUME SignedInv, NEW i \in RoomTask, HandleJoinEvent(i), UNCHANGED loginVars,
           NEW s \in Session, LoggedIn(s)
    PROVE  Enters(s, i) \/ Stays(s, i)
<1> DEFINE event == Head(roomRx[i])
           joined == AddPlayer(room[i], event.player)
           result == AddPlayerResult(room[i], event.player, event.config)
<1>1. RoomInv /\ RoomTypeOK /\ listening[s] /\ playerId'[s] = playerId[s]
  BY DEF SignedInv, PlayerInv, RoomInv, ChannelsListen, LoggedIn, loginVars
<1>2. /\ status[i] = "running" /\ room[i] \in Room
      /\ event.player \in Player /\ event.config \in RoomConfig
      /\ event.player.id \in PlayerId /\ event.player.sender \in Session
      /\ roomRx[i] # <<>> /\ event.type = "Join"
  BY <1>1, ReceivesProperties, InputEventFields DEF HandleJoinEvent, Player
<1>3. SignedBy(event.player.sender, event.player.id)
  <2>1. roomRx[i] \in Seq(InputEvent)
    BY <1>1 DEF RoomTypeOK
  <2>2. 1 \in DOMAIN roomRx[i] /\ roomRx[i][1] = event
    BY <1>2, <2>1, TailShifts
  <2> QED
    BY <1>2, <2>2 DEF SignedInv, JoinsAreSigned
<1>4. HandlesOne(i)
  BY HandleJoinEventHandles
<1>5. /\ Member(s, i) <=> PlaysIn(room[i], s, playerId[s])
      /\ \A id \in DOMAIN room[i].players : room[i].players[id] = s => id = playerId[s]
  BY <1>2, MemberPlays
<1>6. CASE AcceptJoin(i, event)
  <2> DEFINE heard == JoinEvent(joined, event.player.id)
  <2>1. /\ result = "Ok"
        /\ Deliver(BroadcastCount(joined), heard)
        /\ room'[i] = joined
    BY <1>1, <1>6 DEF AcceptJoin, StopIfEmpty, RoomTypeOK
  <2>2. joined \in Room /\ joined.id = room[i].id /\ event.player.id \notin DOMAIN room[i].players
    BY <1>2, <2>1, AddPlayerProperties DEF IsJoined
  <2>3. /\ DOMAIN joined.players = DOMAIN room[i].players \cup {event.player.id}
        /\ joined.players[event.player.id] = event.player.sender
        /\ \A id \in DOMAIN room[i].players :
               id # event.player.id => joined.players[id] = room[i].players[id]
    BY <1>2, PlayersAfter, Zenon
  <2>4. heard \in OutputEvent
    <3>1. joined.id \in RoomId /\ joined.config \in RoomConfig
          /\ DOMAIN joined.players \in SUBSET PlayerId
      BY <2>2, PlayersOfRoom DEF Room
    <3> QED
      BY <1>2, <3>1 DEF JoinEvent, OutputEvent
  <2>5. /\ heard.type = "Join" /\ heard.playerId = event.player.id
        /\ heard.roomId = room[i].id /\ heard.roomPlayerIds = DOMAIN joined.players
    BY <2>2 DEF JoinEvent
  <2> HIDE DEF event, joined, heard
  <2>6. \A id \in DOMAIN joined.players : joined.players[id] = s => id = playerId[s]
    BY <1>3, <1>5, <2>3 DEF SignedBy
  <2>7. BroadcastCount(joined)[s] = IF PlaysIn(joined, s, playerId[s]) THEN 1 ELSE 0
    BY <2>2, <2>6, CountsOfSession
  <2>8. Extended(playerRx[s], playerRx'[s], BroadcastCount(joined)[s], heard)
    BY <1>1, <2>1, <2>2, <2>4, CountsAreNatural, DeliverExtends
  <2>9. Member(s, i)' <=> PlaysIn(joined, s, playerId[s])
    BY <1>1, <1>4, <2>1 DEF Member, PlaysIn, IsJoined, HandlesOne
  <2>10. CASE s = event.player.sender
    <3>1. ~Member(s, i) /\ Member(s, i)' /\ playerId[s] = event.player.id
      BY <1>3, <1>5, <2>2, <2>3, <2>9, <2>10 DEF PlaysIn, SignedBy
    <3>2. HearsOwn(s, i, "Join")
      BY <2>1, <2>4, <2>5, <2>7, <2>8, <2>9, <3>1 DEF HearsOwn
    <3>3. Asks(s, i)
      BY <1>2, <2>10 DEF Asks, event
    <3> QED
      BY <3>1, <3>2, <3>3 DEF Enters
  <2>11. CASE s # event.player.sender
    <3>1. PlaysIn(joined, s, playerId[s]) <=> PlaysIn(room[i], s, playerId[s])
      BY <2>2, <2>3, <2>11 DEF PlaysIn
    <3>2. PlaysIn(joined, s, playerId[s]) => playerId[s] # event.player.id
      BY <2>3, <2>11 DEF PlaysIn
    <3>3. Member(s, i)' <=> Member(s, i)
      BY <1>5, <2>9, <3>1
    <3>4. PICK n \in Nat : n = BroadcastCount(joined)[s]
      BY <2>7
    <3>5. /\ ~Own(s, heard) \/ n = 0
          /\ heard.type = "JoinError" \/ n = 0 \/ Member(s, i)
          /\ Member(s, i) => HearsOfOthers(i, heard, n)
      BY <1>5, <2>1, <2>3, <2>5, <2>7, <3>1, <3>2, <3>4 DEF Own, HearsOfOthers
    <3>6. ~Asks(s, i) /\ heard.type # "JoinError"
      BY <2>5, <2>11 DEF Asks, event
    <3> QED
      BY <2>4, <2>5, <2>8, <3>3, <3>4, <3>5, <3>6 DEF Stays
  <2> QED
    BY <2>10, <2>11
<1>7. CASE RefuseJoin(i, event)
  <2> DEFINE count == [t \in Session |-> IF t = event.player.sender THEN 1 ELSE 0]
             error == [type |-> "JoinError", error |-> result,
                       roomId |-> room[i].id, playerId |-> event.player.id]
  <2>1. result \in RoomError /\ Deliver(count, error) /\ room'[i] = room[i]
    BY <1>1, <1>7 DEF RefuseJoin, StopIfEmpty, RoomTypeOK
  <2>2. error \in OutputEvent
    BY <1>2, <2>1, PlayersOfRoom DEF OutputEvent
  <2>3. count \in [Session -> Nat] /\ count[s] \in Nat
    OBVIOUS
  <2>4. error.type = "JoinError" /\ error.roomId = room[i].id
    OBVIOUS
  <2>8. IF Asks(s, i) THEN count[s] = 1 /\ error.playerId = playerId[s] ELSE count[s] = 0
    BY <1>2, <1>3 DEF Asks, SignedBy
  <2> HIDE DEF count, error
  <2>5. Extended(playerRx[s], playerRx'[s], count[s], error)
    BY <1>1, <2>1, <2>2, <2>3, DeliverExtends
  <2>6. Member(s, i)' <=> Member(s, i)
    BY <1>1, <1>2, <1>4, <2>1 DEF Member, HandlesOne
  <2>7. /\ ~Own(s, error)
        /\ Member(s, i) => HearsOfOthers(i, error, count[s])
    BY <2>1, <2>4 DEF Own, HearsOfOthers
  <2> QED
    BY <2>2, <2>3, <2>4, <2>5, <2>6, <2>7, <2>8 DEF Stays
<1> QED
  BY <1>6, <1>7 DEF HandleJoinEvent

LEMMA HandleLeaveEventHeard ==
    ASSUME SignedInv, NEW i \in RoomTask, HandleLeaveEvent(i), UNCHANGED loginVars,
           NEW s \in Session, LoggedIn(s)
    PROVE  \/ Leaves(s, i) /\ playerId[s] = Head(roomRx[i]).playerId
           \/ Stays(s, i) /\ (Member(s, i) => playerId[s] # Head(roomRx[i]).playerId)
<1> DEFINE id == Head(roomRx[i]).playerId
           left == RemovePlayer(room[i], id)
           heard == LeaveEvent(room[i], id)
<1>1. RoomInv /\ RoomTypeOK /\ listening[s] /\ playerId'[s] = playerId[s]
  BY DEF SignedInv, PlayerInv, RoomInv, ChannelsListen, LoggedIn, loginVars
<1>2. status[i] = "running" /\ room[i] \in Room /\ id \in PlayerId /\ ~Asks(s, i)
  BY <1>1, ReceivesProperties, InputEventFields DEF HandleLeaveEvent, Asks
<1>3. HandlesOne(i)
  BY HandleLeaveEventHandles
<1>4. /\ Member(s, i) <=> PlaysIn(room[i], s, playerId[s])
      /\ \A other \in DOMAIN room[i].players : room[i].players[other] = s => other = playerId[s]
  BY <1>2, MemberPlays
<1>5. /\ heard.type = "Leave" /\ heard.playerId = id /\ heard.roomId = room[i].id
      /\ heard \in OutputEvent
  BY <1>2, PlayersOfRoom DEF LeaveEvent, OutputEvent
<1>6. CASE /\ Deliver(BroadcastCount(room[i]), heard)
           /\ StopIfEmpty(i, left)
  <2>1. room'[i] = left
    BY <1>1, <1>6 DEF StopIfEmpty, RoomTypeOK
  <2>2. /\ DOMAIN left.players = DOMAIN room[i].players \ {id}
        /\ \A other \in DOMAIN left.players : left.players[other] = room[i].players[other]
    BY <1>2, PlayersAfter, Zenon
  <2> HIDE DEF id, left, heard
  <2>3. Extended(playerRx[s], playerRx'[s], BroadcastCount(room[i])[s], heard)
    BY <1>1, <1>2, <1>5, <1>6, CountsAreNatural, DeliverExtends
  <2>4. BroadcastCount(room[i])[s] = IF PlaysIn(room[i], s, playerId[s]) THEN 1 ELSE 0
    BY <1>2, <1>4, CountsOfSession
  <2>5. Member(s, i)' <=> PlaysIn(left, s, playerId[s])
    BY <1>1, <1>3, <2>1 DEF Member, PlaysIn, IsJoined, HandlesOne
  <2>6. CASE Member(s, i) /\ playerId[s] = id
    <3>1. ~Member(s, i)'
      BY <2>2, <2>5, <2>6 DEF PlaysIn
    <3>2. HearsOwn(s, i, "Leave")
      BY <1>4, <1>5, <2>3, <2>4, <2>6 DEF HearsOwn
    <3> QED
      BY <1>2, <2>6, <3>1, <3>2 DEF Leaves, id
  <2>7. CASE ~(Member(s, i) /\ playerId[s] = id)
    <3>1. Member(s, i)' <=> Member(s, i)
      BY <1>4, <2>2, <2>5, <2>7 DEF PlaysIn
    <3>2. PICK n \in Nat : n = BroadcastCount(room[i])[s]
      BY <2>4
    <3>3. /\ ~Own(s, heard) \/ n = 0
          /\ heard.type = "JoinError" \/ n = 0 \/ Member(s, i)
          /\ Member(s, i) => HearsOfOthers(i, heard, n)
      BY <1>4, <1>5, <2>1, <2>2, <2>4, <2>7, <3>2 DEF Own, HearsOfOthers
    <3> QED
      BY <1>2, <1>5, <2>3, <2>7, <3>1, <3>2, <3>3 DEF Stays, id
  <2> QED
    BY <2>6, <2>7
<1>7. CASE ~IsJoined(room[i], id) /\ StopIfEmpty(i, room[i]) /\ UNCHANGED playerRx
  <2>1. room'[i] = room[i]
    BY <1>1, <1>7 DEF StopIfEmpty, RoomTypeOK
  <2>2. Member(s, i)' <=> Member(s, i)
    BY <1>1, <1>2, <1>3, <2>1 DEF Member, HandlesOne
  <2>3. Extended(playerRx[s], playerRx'[s], 0, heard)
    <3>1. Len(playerRx[s]) \in Nat
      BY <1>1, LenProperties DEF RoomTypeOK
    <3> QED
      BY <1>7, <3>1 DEF Extended
  <2>4. Member(s, i) => HearsOfOthers(i, heard, 0)
    BY <2>1 DEF HearsOfOthers
  <2>5. Stays(s, i)
    <3> HIDE DEF heard
    <3> QED
      BY <1>2, <1>5, <2>2, <2>3, <2>4 DEF Stays
  <2>6. Member(s, i) => playerId[s] # id
    BY <1>7 DEF Member
  <2> QED
    BY <2>5, <2>6
<1> QED
  BY <1>6, <1>7 DEF HandleLeaveEvent

LEMMA HandleMessageEventHeard ==
    ASSUME SignedInv, NEW i \in RoomTask, HandleMessageEvent(i), UNCHANGED loginVars,
           NEW s \in Session, LoggedIn(s)
    PROVE  Stays(s, i)
<1> DEFINE event == Head(roomRx[i])
           count == IF event.targets = <<>> THEN BroadcastCount(room[i])
                                            ELSE SendCount(room[i], event.targets)
           message == [type |-> "Message", roomId |-> room[i].id,
                       sender |-> event.sender, body |-> event.body]
<1>1. RoomInv /\ RoomTypeOK /\ listening[s] /\ playerId'[s] = playerId[s]
  BY DEF SignedInv, PlayerInv, RoomInv, ChannelsListen, LoggedIn, loginVars
<1>2. Receives(i, "Message") /\ Deliver(count, message) /\ StopIfEmpty(i, room[i])
  BY DEF HandleMessageEvent
<1>3. /\ status[i] = "running" /\ room[i] \in Room
      /\ event.sender \in PlayerId /\ event.targets \in Seq(PlayerId) /\ event.body \in Body
      /\ ~Asks(s, i)
  BY <1>1, <1>2, ReceivesProperties, InputEventFields, TargetIdsAssumption DEF Asks
<1>4. /\ Member(s, i) <=> PlaysIn(room[i], s, playerId[s])
      /\ \A other \in DOMAIN room[i].players : room[i].players[other] = s => other = playerId[s]
  BY <1>3, MemberPlays
<1>5. /\ count \in [Session -> Nat] /\ count[s] \in Nat
      /\ count[s] = 0 \/ Member(s, i)
  BY <1>3, <1>4, CountsAreNatural, CountsOfSession
<1>6. message \in OutputEvent /\ message.type = "Message" /\ message.roomId = room[i].id
  BY <1>3, PlayersOfRoom DEF OutputEvent
<1>7. room'[i] = room[i]
  BY <1>1, <1>2 DEF StopIfEmpty, RoomTypeOK
<1>8. Member(s, i)' <=> Member(s, i)
  BY <1>1, <1>3, <1>7, HandleMessageEventHandles DEF Member, HandlesOne
<1> HIDE DEF count, message
<1>9. Extended(playerRx[s], playerRx'[s], count[s], message)
  BY <1>1, <1>2, <1>5, <1>6, DeliverExtends
<1>10. ~Own(s, message) /\ HearsOfOthers(i, message, count[s])
  BY <1>6, <1>7 DEF Own, HearsOfOthers
<1> QED
  BY <1>3, <1>5, <1>6, <1>8, <1>9, <1>10 DEF Stays

-----------------------------------------------------------------------------
(* What a session believes, hears and is.                                  *)

\* The last event about itself tells whether it is in the room.
LastTells(s, r) ==
    OwnEvents(s, r) # {} =>
        \E k \in OwnEvents(s, r) :
            /\ \A l \in OwnEvents(s, r) : l <= k
            /\ playerRx[s][k].type = "Join" <=> MemberTasks(s, r) # {}

\* Its Joins and Leaves alternate.
Alternate(s, r) ==
    \A k \in OwnEvents(s, r) :
        \/ \A l \in OwnEvents(s, r) : l <= k
        \/ \E l \in OwnEvents(s, r) :
               /\ l > k /\ playerRx[s][l].type # playerRx[s][k].type
               /\ \A m \in OwnEvents(s, r) : m <= k \/ l <= m

\* With nothing about itself to hear, it knows where it is.
Knows(s, r) ==
    handler[s].at # "disconnect" /\ OwnEvents(s, r) = {} =>
        \A i \in RoomTask : joinedRooms[s][r] = i <=> i \in MemberTasks(s, r)

\* The parts of KnownRoomsAreLeft, OnlyMembersHear and RosterAddsUp that are about s.
IsLeft(s, i) ==
    \/ joinedRooms[s][room[i].id] = i
    \/ LeavePending(s, i)
    \/ LastIsJoin(s, OwnEvents(s, room[i].id))

LeavesAll(s) ==
    handler[s].at = "disconnect" => \A i \in RoomTask : Member(s, i) => IsLeft(s, i)

OwnBefore(s, k) == {l \in OwnEvents(s, playerRx[s][k].roomId) : l < k}

HeardInside(s, k) ==
    IF OwnBefore(s, k) # {} THEN LastIsJoin(s, OwnBefore(s, k))
    ELSE \/ joinedRooms[s][playerRx[s][k].roomId] # None
         \/ FirstIsLeave(s, OwnEvents(s, playerRx[s][k].roomId))

HearsInside(s) ==
    handler[s].at # "disconnect" =>
        \A k \in DOMAIN playerRx[s] :
            /\ playerRx[s][k].type # "JoinError"
            /\ ~(Own(s, playerRx[s][k]) /\ playerRx[s][k].type = "Join")
            => HeardInside(s, k)

Tells(s, k, type, r, id) ==
    playerRx[s][k].type = type /\ playerRx[s][k].roomId = r /\ playerRx[s][k].playerId = id

LeftBefore(s, r, id, k) ==
    \A l \in DOMAIN playerRx[s] : Tells(s, l, "Leave", r, id) => l < k

RosterFrom(s, r, k) ==
    {id \in playerRx[s][k].roomPlayerIds : LeftBefore(s, r, id, k)}
        \cup {id \in PlayerId : \E j \in DOMAIN playerRx[s] :
                  j > k /\ Tells(s, j, "Join", r, id) /\ LeftBefore(s, r, id, j)}

KnowsRoster(s, i) ==
    \A k \in DOMAIN playerRx[s] :
        Tells(s, k, "Join", room[i].id, playerId[s])
            /\ LeftBefore(s, room[i].id, playerId[s], k)
        => DOMAIN room[i].players = RosterFrom(s, room[i].id, k)

RosterKnown(s) == \A i \in RoomTask : Member(s, i) => KnowsRoster(s, i)

Mirrors(s) ==
    /\ \A r \in RoomId : LastTells(s, r) /\ Alternate(s, r) /\ Knows(s, r)
    /\ LeavesAll(s)
    /\ HearsInside(s)
    /\ RosterKnown(s)

MirrorInv ==
    /\ SignedInv
    /\ \A s \in Session : LoggedIn(s) => Mirrors(s)

\* A task that has s as a player is the one its room id leads to.
LEMMA MembersAreServed ==
    ASSUME RoomInv, NEW s \in Session, NEW i \in RoomTask, Member(s, i)
    PROVE  /\ status[i] = "running" /\ room[i] \in Room /\ room[i].id \in RoomId
           /\ roomChannels[room[i].id] = i
<1>1. status[i] # "unborn" /\ room[i] \in Room /\ room[i].id \in RoomId
  BY PlayersOfRoom DEF Member, RoomInv, RoomsExist
<1>2. NumPlayers(room[i]) # 0
  <2>1. DOMAIN room[i].players # {} /\ IsFiniteSet(DOMAIN room[i].players)
    BY <1>1, PlayerMapDef DEF Member, IsJoined, Room
  <2> QED
    BY <2>1, FS_EmptySet DEF NumPlayers
<1>3. status[i] = "running"
  BY <1>1, <1>2 DEF RoomInv, RoomTypeOK, Status, StoppedRoomIsEmpty
<1> QED
  BY <1>1, <1>3 DEF RoomInv, DirectoryMatchesTasks, Live

LEMMA OneMemberTask ==
    ASSUME RoomInv, NEW s \in Session, NEW r \in RoomId, NEW i \in MemberTasks(s, r)
    PROVE  MemberTasks(s, r) = {i} /\ roomChannels[r] = i
BY MembersAreServed DEF MemberTasks

\* n copies of an event arrive in the channel of s.
Arrives(s, event, n) ==
    /\ DOMAIN playerRx[s] = 1..Len(playerRx[s]) /\ Len(playerRx[s]) \in Nat
    /\ DOMAIN playerRx'[s] = 1..Len(playerRx[s]) + n
    /\ \A k \in 1..Len(playerRx[s]) : playerRx'[s][k] = playerRx[s][k]
    /\ \A k \in DOMAIN playerRx'[s] : k > Len(playerRx[s]) => playerRx'[s][k] = event
    /\ \A r : ~(Own(s, event) /\ event.roomId = r) \/ n = 0 =>
           OwnEvents(s, r)' = OwnEvents(s, r)
    /\ n = 1 /\ Own(s, event) =>
           OwnEvents(s, event.roomId)' = OwnEvents(s, event.roomId) \cup {Len(playerRx[s]) + 1}

\* The channel of s when something is put at its end.
LEMMA OwnEventsExtended ==
    ASSUME NEW s \in Session, playerId'[s] = playerId[s],
           playerRx[s] \in Seq(OutputEvent), playerRx'[s] \in Seq(OutputEvent),
           NEW n \in Nat, NEW event, Extended(playerRx[s], playerRx'[s], n, event)
    PROVE  Arrives(s, event, n)
<1>1. /\ DOMAIN playerRx[s] = 1..Len(playerRx[s]) /\ Len(playerRx[s]) \in Nat
      /\ DOMAIN playerRx'[s] = 1..Len(playerRx[s]) + n
  BY LenProperties DEF Extended
<1>2. /\ \A k \in 1..Len(playerRx[s]) : playerRx'[s][k] = playerRx[s][k]
      /\ \A k \in Len(playerRx[s]) + 1..Len(playerRx[s]) + n : playerRx'[s][k] = event
  BY DEF Extended
<1>3. \A k \in DOMAIN playerRx'[s] : k > Len(playerRx[s]) => playerRx'[s][k] = event
  BY <1>1, <1>2
<1>4. \A e : Own(s, e)' = Own(s, e)
  BY DEF Own
<1>5. ASSUME NEW r, ~(Own(s, event) /\ event.roomId = r) \/ n = 0
      PROVE  OwnEvents(s, r)' = OwnEvents(s, r)
  <2>1. ASSUME NEW k
        PROVE  k \in OwnEvents(s, r)' <=> k \in OwnEvents(s, r)
    BY <1>1, <1>2, <1>3, <1>4, <1>5 DEF OwnEvents
  <2> QED
    BY <2>1
<1>6. ASSUME n = 1, Own(s, event)
      PROVE  OwnEvents(s, event.roomId)' = OwnEvents(s, event.roomId) \cup {Len(playerRx[s]) + 1}
  <2>1. ASSUME NEW k
        PROVE  k \in OwnEvents(s, event.roomId)' <=>
                   k \in OwnEvents(s, event.roomId) \/ k = Len(playerRx[s]) + 1
    BY <1>1, <1>2, <1>3, <1>4, <1>6 DEF OwnEvents
  <2> QED
    BY <2>1
<1> QED
  BY <1>1, <1>2, <1>3, <1>5, <1>6 DEF Arrives

\* The channel of s when its head has been taken.
LEMMA OwnEventsShifted ==
    ASSUME NEW s \in Session, playerRx[s] \in Seq(OutputEvent), playerRx[s] # <<>>,
           playerId'[s] = playerId[s], playerRx'[s] = Tail(playerRx[s])
    PROVE  /\ DOMAIN playerRx[s] = 1..Len(playerRx[s]) /\ Len(playerRx[s]) \in Nat \ {0}
           /\ playerRx[s][1] = Head(playerRx[s]) /\ Head(playerRx[s]) \in OutputEvent
           /\ DOMAIN playerRx'[s] = 1..Len(playerRx[s]) - 1
           /\ \A k \in DOMAIN playerRx'[s] : playerRx'[s][k] = playerRx[s][k + 1]
           /\ \A r : \A k : k \in OwnEvents(s, r)' <=> k \in Nat \ {0} /\ k + 1 \in OwnEvents(s, r)
<1>1. /\ DOMAIN playerRx[s] = 1..Len(playerRx[s]) /\ Len(playerRx[s]) \in Nat \ {0}
      /\ playerRx[s][1] = Head(playerRx[s]) /\ Head(playerRx[s]) \in OutputEvent
      /\ DOMAIN playerRx'[s] = 1..Len(playerRx[s]) - 1
      /\ \A k \in DOMAIN playerRx'[s] : playerRx'[s][k] = playerRx[s][k + 1]
  BY TailShifts
<1>2. ASSUME NEW r, NEW k
      PROVE  k \in OwnEvents(s, r)' <=> k \in Nat \ {0} /\ k + 1 \in OwnEvents(s, r)
  <2>1. \A e : Own(s, e)' = Own(s, e)
    BY DEF Own
  <2>2. k \in DOMAIN playerRx'[s] <=> k \in Nat \ {0} /\ k + 1 \in DOMAIN playerRx[s]
    BY <1>1
  <2> QED
    BY <1>1, <2>1, <2>2 DEF OwnEvents
<1> QED
  BY <1>1, <1>2

-----------------------------------------------------------------------------
(* What a session believes under every step.  First what does not concern  *)
(* the room in question.                                                   *)

\* Nothing that s hears of itself in r, is in r, or believes of r has changed.
Agrees(s, r) ==
    /\ OwnEvents(s, r)' = OwnEvents(s, r)
    /\ \A k \in OwnEvents(s, r) : playerRx'[s][k] = playerRx[s][k]
    /\ MemberTasks(s, r)' = MemberTasks(s, r)
    /\ joinedRooms'[s][r] = joinedRooms[s][r]
    /\ handler'[s].at = "disconnect" <=> handler[s].at = "disconnect"

LEMMA AgreeingTells ==
    ASSUME NEW s \in Session, NEW r \in RoomId, Agrees(s, r),
           LastTells(s, r), Alternate(s, r), Knows(s, r)
    PROVE  LastTells(s, r)' /\ Alternate(s, r)' /\ Knows(s, r)'
<1>1. LastTells(s, r)'
  BY DEF Agrees, LastTells
<1>2. Alternate(s, r)'
  BY DEF Agrees, Alternate
<1>3. Knows(s, r)'
  BY DEF Agrees, Knows
<1> QED
  BY <1>1, <1>2, <1>3

\* Nothing of what s has to hear, is or believes has changed.
Undisturbed(s) ==
    /\ playerId'[s] = playerId[s] /\ playerRx'[s] = playerRx[s]
    /\ joinedRooms'[s] = joinedRooms[s]
    /\ handler'[s].at = "disconnect" <=> handler[s].at = "disconnect"
    /\ \A i \in RoomTask :
           /\ Member(s, i)' <=> Member(s, i)
           /\ Member(s, i) =>
                  /\ room'[i] = room[i]
                  /\ LeavePending(s, i) => LeavePending(s, i)'

LEMMA UndisturbedMirrors ==
    ASSUME NEW s \in Session, Mirrors(s), Undisturbed(s)
    PROVE  Mirrors(s)'
<1>1. \A r : /\ OwnEvents(s, r)' = OwnEvents(s, r)
             /\ MemberTasks(s, r)' = MemberTasks(s, r)
  <2>1. ASSUME NEW r
        PROVE  OwnEvents(s, r)' = OwnEvents(s, r)
    BY DEF Undisturbed, OwnEvents, Own
  <2>2. ASSUME NEW r
        PROVE  MemberTasks(s, r)' = MemberTasks(s, r)
    BY DEF Undisturbed, MemberTasks
  <2> QED
    BY <2>1, <2>2
<1>2. \A r \in RoomId : LastTells(s, r)' /\ Alternate(s, r)' /\ Knows(s, r)'
  BY <1>1, AgreeingTells DEF Agrees, Undisturbed, Mirrors
<1>3. LeavesAll(s)'
  <2>1. ASSUME NEW i \in RoomTask, Member(s, i), IsLeft(s, i)
        PROVE  IsLeft(s, i)'
    BY <1>1, <2>1 DEF IsLeft, LastIsJoin, Undisturbed
  <2> QED
    BY <2>1 DEF Mirrors, LeavesAll, Undisturbed
<1>4. HearsInside(s)'
  <2>1. ASSUME NEW k
        PROVE  /\ OwnBefore(s, k)' = OwnBefore(s, k)
               /\ HeardInside(s, k)' <=> HeardInside(s, k)
               /\ Own(s, playerRx[s][k])' <=> Own(s, playerRx[s][k])
    BY <1>1 DEF OwnBefore, HeardInside, LastIsJoin, FirstIsLeave, Own, Undisturbed
  <2> QED
    BY <2>1 DEF Mirrors, HearsInside, Undisturbed
<1>5. RosterKnown(s)'
  <2>1. ASSUME NEW r, NEW k
        PROVE  RosterFrom(s, r, k)' = RosterFrom(s, r, k)
    BY DEF RosterFrom, LeftBefore, Tells, Undisturbed
  <2>2. ASSUME NEW r, NEW k, NEW id
        PROVE  /\ LeftBefore(s, r, id, k)' <=> LeftBefore(s, r, id, k)
               /\ Tells(s, k, "Join", r, id)' <=> Tells(s, k, "Join", r, id)
    BY DEF LeftBefore, Tells, Undisturbed
  <2>3. ASSUME NEW i \in RoomTask, Member(s, i)', NEW k \in DOMAIN playerRx'[s],
               Tells(s, k, "Join", room[i].id, playerId[s])',
               LeftBefore(s, room[i].id, playerId[s], k)'
        PROVE  DOMAIN room'[i].players = RosterFrom(s, room[i].id, k)'
    <3>1. /\ Member(s, i) /\ room'[i] = room[i] /\ playerId'[s] = playerId[s]
          /\ k \in DOMAIN playerRx[s]
      BY <2>3 DEF Undisturbed
    <3>2. PICK r, id : r = room[i].id /\ id = playerId[s]
      OBVIOUS
    <3>3. Tells(s, k, "Join", r, id) /\ LeftBefore(s, r, id, k)
      BY <2>3, <3>1, <3>2 DEF Tells, LeftBefore, Undisturbed
    <3>4. DOMAIN room[i].players = RosterFrom(s, r, k)
      BY <3>1, <3>2, <3>3 DEF Mirrors, RosterKnown, KnowsRoster
    <3>5. RosterFrom(s, r, k) = RosterFrom(s, room[i].id, k)'
      BY <3>1, <3>2 DEF RosterFrom, LeftBefore, Tells, Undisturbed
    <3> QED
      BY <3>1, <3>4, <3>5
  <2> QED
    BY <2>3 DEF RosterKnown, KnowsRoster
<1> QED
  BY <1>2, <1>3, <1>4, <1>5 DEF Mirrors

-----------------------------------------------------------------------------
(* Then what a handler of task i does.                                     *)

\* The tasks around a handler of task i, as s sees them.
LEMMA TasksAround ==
    ASSUME SignedInv, NEW i \in RoomTask, HandlesOne(i), NEW s \in Session,
           playerId'[s] = playerId[s]
    PROVE  /\ room[i].id \in RoomId
           /\ MemberTasks(s, room[i].id) = IF Member(s, i) THEN {i} ELSE {}
           /\ MemberTasks(s, room[i].id)' = IF Member(s, i)' THEN {i} ELSE {}
           /\ \A r : r # room[i].id => MemberTasks(s, r)' = MemberTasks(s, r)
           /\ \A j \in RoomTask : j # i =>
                  /\ Member(s, j)' <=> Member(s, j)
                  /\ room'[j] = room[j]
                  /\ Member(s, j) => room[j].id # room[i].id
                  /\ LeavePending(s, j)' <=> LeavePending(s, j)
<1>1. RoomInv /\ RoomTypeOK
  BY DEF SignedInv, PlayerInv, RoomInv
<1>2. /\ room[i].id \in RoomId /\ roomChannels[room[i].id] = i
      /\ room'[i].id = room[i].id
  BY <1>1, PlayersOfRoom DEF HandlesOne, RoomInv, DirectoryMatchesTasks, Live
<1>3. ASSUME NEW j \in RoomTask, j # i
      PROVE  /\ Member(s, j)' <=> Member(s, j)
             /\ room'[j] = room[j]
             /\ Member(s, j) => room[j].id # room[i].id
             /\ LeavePending(s, j)' <=> LeavePending(s, j)
  <2>1. room'[j] = room[j] /\ status'[j] = status[j] /\ roomRx'[j] = roomRx[j]
    BY <1>1, <1>3 DEF HandlesOne, RoomTypeOK
  <2>2. Member(s, j) => roomChannels[room[j].id] = j
    BY <1>1, MembersAreServed
  <2> QED
    BY <1>2, <1>3, <2>1, <2>2 DEF Member, LeavePending
<1>4. MemberTasks(s, room[i].id) = IF Member(s, i) THEN {i} ELSE {}
  BY <1>3 DEF MemberTasks
<1>5. ASSUME NEW r, r = room[i].id
      PROVE  MemberTasks(s, r)' = IF Member(s, i)' THEN {i} ELSE {}
  BY <1>2, <1>3, <1>5 DEF MemberTasks
<1>6. MemberTasks(s, room[i].id)' = IF Member(s, i)' THEN {i} ELSE {}
  BY <1>2, <1>5
<1>7. ASSUME NEW r, r # room[i].id
      PROVE  MemberTasks(s, r)' = MemberTasks(s, r)
  BY <1>2, <1>3, <1>7 DEF MemberTasks
<1> QED
  BY <1>2, <1>3, <1>4, <1>6, <1>7

\* The roster that s can work out after that, from its place k.
RosterFollows(s, event, n, r, k) ==
    /\ n = 0 \/ event.type \notin {"Join", "Leave"} \/ event.roomId # r =>
           /\ \A id : LeftBefore(s, r, id, k)' <=> LeftBefore(s, r, id, k)
           /\ RosterFrom(s, r, k)' = RosterFrom(s, r, k)
    /\ n = 1 /\ event.type = "Join" /\ event.roomId = r =>
           /\ \A id : LeftBefore(s, r, id, k)' <=> LeftBefore(s, r, id, k)
           /\ RosterFrom(s, r, k)' = RosterFrom(s, r, k) \cup {event.playerId}
    /\ n = 1 /\ event.type = "Leave" /\ event.roomId = r =>
           /\ \A id : LeftBefore(s, r, id, k)' <=> LeftBefore(s, r, id, k) /\ id # event.playerId
           /\ RosterFrom(s, r, k)' = RosterFrom(s, r, k) \ {event.playerId}

LEMMA RosterExtended ==
    ASSUME NEW s \in Session, NEW n \in Nat, NEW event \in OutputEvent, Arrives(s, event, n),
           NEW r, NEW k \in DOMAIN playerRx[s]
    PROVE  RosterFollows(s, event, n, r, k)
<1>0. PICK N \in Nat :
          /\ DOMAIN playerRx[s] = 1..N /\ DOMAIN playerRx'[s] = 1..N + n
          /\ \A l \in 1..N : playerRx'[s][l] = playerRx[s][l]
          /\ \A l \in DOMAIN playerRx'[s] : l > N => playerRx'[s][l] = event
  BY DEF Arrives
<1>1. \A l \in 1..N : \A type, id : Tells(s, l, type, r, id)' <=> Tells(s, l, type, r, id)
  BY <1>0 DEF Tells
<1>2. \A l \in N + 1..N + n : \A type, id : Tells(s, l, type, r, id)' <=>
          event.type = type /\ event.roomId = r /\ event.playerId = id
  <2>1. ASSUME NEW l \in N + 1..N + n
        PROVE  playerRx'[s][l] = event
    BY <1>0
  <2> QED
    BY <2>1 DEF Tells
<1>3. \A l : l \in 1..N + n <=> l \in 1..N \/ l \in N + 1..N + n
  OBVIOUS
<1>4. k \in 1..N /\ playerRx'[s][k].roomPlayerIds = playerRx[s][k].roomPlayerIds
  BY <1>0
<1>5. CASE n = 0 \/ event.type \notin {"Join", "Leave"} \/ event.roomId # r
  <2>1. \A l \in N + 1..N + n : \A id : ~Tells(s, l, "Join", r, id)' /\ ~Tells(s, l, "Leave", r, id)'
    BY <1>2, <1>5
  <2>2. \A id : \A m : LeftBefore(s, r, id, m)' <=> LeftBefore(s, r, id, m)
    BY <1>0, <1>1, <1>3, <2>1 DEF LeftBefore
  <2>3. RosterFrom(s, r, k)' = RosterFrom(s, r, k)
    <3>1. ASSUME NEW id
          PROVE  (\E j \in DOMAIN playerRx'[s] :
                     j > k /\ Tells(s, j, "Join", r, id)' /\ LeftBefore(s, r, id, j)')
                 <=> (\E j \in DOMAIN playerRx[s] :
                     j > k /\ Tells(s, j, "Join", r, id) /\ LeftBefore(s, r, id, j))
      BY <1>0, <1>1, <1>3, <2>1, <2>2
    <3> QED
      BY <1>4, <2>2, <3>1 DEF RosterFrom
  <2> QED
    BY <1>5, <2>2, <2>3 DEF RosterFollows
<1>6. CASE n = 1 /\ event.type = "Join" /\ event.roomId = r
  <2>1. event.playerId \in PlayerId
    BY <1>6 DEF OutputEvent
  <2>2. \A id : \A m : LeftBefore(s, r, id, m)' <=> LeftBefore(s, r, id, m)
    BY <1>0, <1>1, <1>2, <1>3, <1>6 DEF LeftBefore
  <2>3. \A id : LeftBefore(s, r, id, N + 1)
    BY <1>0, <1>6 DEF LeftBefore
  <2>4. \A id : Tells(s, N + 1, "Join", r, id)' <=> id = event.playerId
    BY <1>2, <1>6
  <2>5. RosterFrom(s, r, k)' = RosterFrom(s, r, k) \cup {event.playerId}
    <3>1. ASSUME NEW id
          PROVE  (\E j \in DOMAIN playerRx'[s] :
                     j > k /\ Tells(s, j, "Join", r, id)' /\ LeftBefore(s, r, id, j)')
                 <=> \/ \E j \in DOMAIN playerRx[s] :
                            j > k /\ Tells(s, j, "Join", r, id) /\ LeftBefore(s, r, id, j)
                     \/ id = event.playerId
      <4>1. \A l : l \in 1..N + 1 <=> l \in 1..N \/ l = N + 1
        OBVIOUS
      <4>2. N + 1 > k
        BY <1>4
      <4> QED
        BY <1>0, <1>1, <1>6, <2>2, <2>3, <2>4, <4>1, <4>2
    <3> QED
      BY <1>4, <2>1, <2>2, <3>1 DEF RosterFrom
  <2> QED
    BY <1>6, <2>2, <2>5 DEF RosterFollows
<1>7. CASE n = 1 /\ event.type = "Leave" /\ event.roomId = r
  <2>1. \A id : Tells(s, N + 1, "Leave", r, id)' <=> id = event.playerId
    BY <1>2, <1>7
  <2>2. \A l : l \in 1..N + 1 <=> l \in 1..N \/ l = N + 1
    OBVIOUS
  <2>3. ASSUME NEW id, NEW m \in 1..N + 1
        PROVE  LeftBefore(s, r, id, m)' <=> LeftBefore(s, r, id, m) /\ id # event.playerId
    <3>1. ~(N + 1 < m)
      OBVIOUS
    <3> QED
      BY <1>0, <1>1, <1>7, <2>1, <2>2, <3>1 DEF LeftBefore
  <2>4. \A id : ~Tells(s, N + 1, "Join", r, id)'
    BY <1>2, <1>7
  <2>5. RosterFrom(s, r, k)' = RosterFrom(s, r, k) \ {event.playerId}
    <3>1. ASSUME NEW id
          PROVE  (\E j \in DOMAIN playerRx'[s] :
                     j > k /\ Tells(s, j, "Join", r, id)' /\ LeftBefore(s, r, id, j)')
                 <=> /\ \E j \in DOMAIN playerRx[s] :
                            j > k /\ Tells(s, j, "Join", r, id) /\ LeftBefore(s, r, id, j)
                     /\ id # event.playerId
      BY <1>0, <1>1, <1>4, <1>7, <2>2, <2>3, <2>4
    <3>2. \A id : LeftBefore(s, r, id, k)' <=> LeftBefore(s, r, id, k) /\ id # event.playerId
      BY <1>4, <1>7, <2>3
    <3> QED
      BY <1>4, <3>1, <3>2 DEF RosterFrom
  <2> QED
    BY <1>4, <1>7, <2>3, <2>5 DEF RosterFollows
<1> QED
  BY <1>5, <1>6, <1>7 DEF RosterFollows

\* What all the handlers of task i share: an event of its room arrives n times.
Hears(s, i, event, n) ==
    /\ SignedInv /\ SignedInv' /\ HandlesOne(i) /\ UNCHANGED <<loginVars, playerVars>>
    /\ Mirrors(s)
    /\ event.roomId = room[i].id
    /\ Extended(playerRx[s], playerRx'[s], n, event)

LEMMA HeardEvents ==
    ASSUME NEW s \in Session, NEW i \in RoomTask, NEW event \in OutputEvent, NEW n \in Nat,
           Hears(s, i, event, n)
    PROVE  /\ playerId'[s] = playerId[s] /\ joinedRooms' = joinedRooms /\ handler' = handler
           /\ event.roomId = room[i].id
           /\ Arrives(s, event, n)
<1>1. playerId'[s] = playerId[s] /\ joinedRooms' = joinedRooms /\ handler' = handler
  BY DEF Hears, loginVars, playerVars
<1>2. playerRx[s] \in Seq(OutputEvent) /\ playerRx'[s] \in Seq(OutputEvent)
  BY DEF Hears, SignedInv, PlayerInv, RoomInv, RoomTypeOK
<1>3. event.roomId = room[i].id /\ Extended(playerRx[s], playerRx'[s], n, event)
  BY DEF Hears
<1>4. Arrives(s, event, n)
  BY <1>1, <1>2, <1>3, OwnEventsExtended
<1> QED
  BY <1>1, <1>3, <1>4

\* What s has heard of its other rooms, and what it has heard before, stays as it was.
LEMMA HeardElsewhere ==
    ASSUME NEW s \in Session, NEW i \in RoomTask, NEW event \in OutputEvent, NEW n \in Nat,
           Hears(s, i, event, n), n \in {0, 1} \/ ~Own(s, event)
    PROVE  /\ \A r \in RoomId : r # room[i].id =>
                  LastTells(s, r)' /\ Alternate(s, r)' /\ Knows(s, r)'
           /\ handler[s].at = "disconnect" =>
                  \A j \in RoomTask : j # i /\ Member(s, j)' => IsLeft(s, j)'
           /\ handler[s].at # "disconnect" =>
                  \A k \in DOMAIN playerRx[s] :
                      /\ playerRx'[s][k].type # "JoinError"
                      /\ ~(Own(s, playerRx[s][k])' /\ playerRx'[s][k].type = "Join")
                      => HeardInside(s, k)'
           /\ \A j \in RoomTask : j # i /\ Member(s, j)' => KnowsRoster(s, j)'
<1>0. Arrives(s, event, n)
  BY HeardEvents
<1>1. /\ playerId'[s] = playerId[s] /\ joinedRooms' = joinedRooms /\ handler' = handler
      /\ DOMAIN playerRx[s] = 1..Len(playerRx[s]) /\ Len(playerRx[s]) \in Nat
      /\ DOMAIN playerRx'[s] = 1..Len(playerRx[s]) + n
      /\ \A k \in 1..Len(playerRx[s]) : playerRx'[s][k] = playerRx[s][k]
      /\ \A k \in DOMAIN playerRx'[s] : k > Len(playerRx[s]) => playerRx'[s][k] = event
  BY <1>0, HeardEvents DEF Arrives
<1>2. PICK N \in Nat : N = Len(playerRx[s])
  BY <1>1
<1>3. \A r : /\ OwnEvents(s, r) \subseteq 1..N
             /\ r # room[i].id => OwnEvents(s, r)' = OwnEvents(s, r)
             /\ \/ OwnEvents(s, r)' = OwnEvents(s, r)
                \/ OwnEvents(s, r)' = OwnEvents(s, r) \cup {N + 1}
  <2>1. \A r : OwnEvents(s, r) \subseteq 1..N
    BY <1>1, <1>2 DEF OwnEvents
  <2>2. /\ event.roomId = room[i].id
        /\ \A r : ~(Own(s, event) /\ event.roomId = r) \/ n = 0 =>
               OwnEvents(s, r)' = OwnEvents(s, r)
        /\ n = 1 /\ Own(s, event) =>
               OwnEvents(s, event.roomId)' = OwnEvents(s, event.roomId) \cup {N + 1}
    <3>1. /\ event.roomId = room[i].id
          /\ \A r : ~(Own(s, event) /\ event.roomId = r) \/ n = 0 =>
                 OwnEvents(s, r)' = OwnEvents(s, r)
          /\ n = 1 /\ Own(s, event) =>
                 OwnEvents(s, event.roomId)' =
                     OwnEvents(s, event.roomId) \cup {Len(playerRx[s]) + 1}
      BY <1>0, HeardEvents DEF Arrives
    <3> QED
      BY <1>2, <3>1
  <2> QED
    BY <2>1, <2>2
<1>4. /\ \A r : r # room[i].id => MemberTasks(s, r)' = MemberTasks(s, r)
      /\ \A j \in RoomTask : j # i =>
             /\ Member(s, j)' <=> Member(s, j)
             /\ room'[j] = room[j]
             /\ Member(s, j) => room[j].id # room[i].id
             /\ LeavePending(s, j)' <=> LeavePending(s, j)
  BY <1>1, TasksAround DEF Hears
<1>5. ASSUME NEW r \in RoomId, r # room[i].id
      PROVE  LastTells(s, r)' /\ Alternate(s, r)' /\ Knows(s, r)'
  <2>1. Agrees(s, r)
    BY <1>1, <1>2, <1>3, <1>4, <1>5 DEF Agrees
  <2> QED
    BY <2>1, AgreeingTells DEF Hears, Mirrors
<1>6. ASSUME handler[s].at = "disconnect", NEW j \in RoomTask, j # i, Member(s, j)'
      PROVE  IsLeft(s, j)'
  <2>1. Member(s, j) /\ room'[j] = room[j] /\ IsLeft(s, j)
    BY <1>4, <1>6 DEF Hears, Mirrors, LeavesAll
  <2>2. PICK r : r = room[j].id /\ r # room[i].id
    BY <1>4, <1>6
  <2>3. OwnEvents(s, r)' = OwnEvents(s, r)
    BY <1>3, <2>2
  <2>4. LastIsJoin(s, OwnEvents(s, r)) => LastIsJoin(s, OwnEvents(s, r))'
    BY <1>1, <1>2, <1>3, <2>3 DEF LastIsJoin
  <2>5. OwnEvents(s, r)' = OwnEvents(s, room[j].id)'
    BY <2>1, <2>2 DEF OwnEvents
  <2> QED
    BY <1>1, <1>4, <1>6, <2>1, <2>2, <2>4, <2>5 DEF IsLeft, LastIsJoin
<1>7. ASSUME handler[s].at # "disconnect", NEW k \in DOMAIN playerRx[s],
             playerRx'[s][k].type # "JoinError",
             ~(Own(s, playerRx[s][k])' /\ playerRx'[s][k].type = "Join")
      PROVE  HeardInside(s, k)'
  <2>1. /\ k \in 1..N /\ playerRx'[s][k] = playerRx[s][k]
        /\ Own(s, playerRx[s][k])' <=> Own(s, playerRx[s][k])
    BY <1>1, <1>2, <1>7 DEF Own
  <2>2. HeardInside(s, k)
    BY <1>7, <2>1 DEF Hears, Mirrors, HearsInside
  <2>3. PICK r : r = playerRx[s][k].roomId /\ r = playerRx'[s][k].roomId
    BY <2>1
  <2>4. /\ OwnBefore(s, k) = {l \in OwnEvents(s, r) : l < k}
        /\ OwnBefore(s, k)' = {l \in OwnEvents(s, r)' : l < k}
    BY <2>3 DEF OwnBefore, OwnEvents
  <2>5. OwnBefore(s, k)' = OwnBefore(s, k) /\ OwnBefore(s, k) \subseteq 1..N
    <3>1. ~(N + 1 < k)
      BY <2>1
    <3> QED
      BY <1>3, <2>4, <3>1
  <2>6. LastIsJoin(s, OwnBefore(s, k)) => LastIsJoin(s, OwnBefore(s, k))'
    BY <1>1, <1>2, <2>5 DEF LastIsJoin
  <2>7. FirstIsLeave(s, OwnEvents(s, r)) => FirstIsLeave(s, OwnEvents(s, r))'
    BY <1>1, <1>2, <1>3 DEF FirstIsLeave
  <2>8. FirstIsLeave(s, OwnEvents(s, r))' => FirstIsLeave(s, OwnEvents(s, playerRx[s][k].roomId))'
    BY <2>3 DEF FirstIsLeave, OwnEvents
  <2> QED
    BY <1>1, <2>2, <2>3, <2>5, <2>6, <2>7, <2>8 DEF HeardInside
<1>8. ASSUME NEW j \in RoomTask, j # i, Member(s, j)'
      PROVE  KnowsRoster(s, j)'
  <2>1. Member(s, j) /\ room'[j] = room[j] /\ KnowsRoster(s, j)
    BY <1>4, <1>8 DEF Hears, Mirrors, RosterKnown
  <2>2. PICK r, id : r = room[j].id /\ r # room[i].id /\ id = playerId[s]
    BY <1>4, <1>8
  <2>3. ASSUME NEW k \in DOMAIN playerRx'[s], Tells(s, k, "Join", r, id)'
        PROVE  k \in 1..N /\ Tells(s, k, "Join", r, id)
    <3>1. ~(k > N)
      BY <1>1, <1>2, <2>2, <2>3 DEF Tells, Hears
    <3> QED
      BY <1>1, <1>2, <2>3, <3>1 DEF Tells
  <2>4. ASSUME NEW k \in 1..N
        PROVE  /\ LeftBefore(s, r, id, k)' <=> LeftBefore(s, r, id, k)
               /\ RosterFrom(s, r, k)' = RosterFrom(s, r, k)
    <3>1. event.roomId # r
      BY <2>2 DEF Hears
    <3>2. RosterFollows(s, event, n, r, k)
      BY <1>0, <1>1, <1>2, RosterExtended
    <3> QED
      BY <3>1, <3>2 DEF RosterFollows
  <2>5. ASSUME NEW k \in DOMAIN playerRx'[s],
               Tells(s, k, "Join", r, id)', LeftBefore(s, r, id, k)'
        PROVE  DOMAIN room'[j].players = RosterFrom(s, r, k)'
    <3>1. k \in 1..N /\ Tells(s, k, "Join", r, id) /\ LeftBefore(s, r, id, k)
      BY <2>3, <2>4, <2>5
    <3>2. k \in DOMAIN playerRx[s] /\ DOMAIN room[j].players = RosterFrom(s, r, k)
      BY <1>1, <1>2, <2>1, <2>2, <3>1 DEF KnowsRoster
    <3> QED
      BY <2>1, <2>4, <3>1, <3>2
  <2>6. r = room'[j].id /\ id = playerId'[s]
    BY <1>1, <2>1, <2>2
  <2> QED
    BY <2>5, <2>6 DEF KnowsRoster, RosterFrom, LeftBefore, Tells
<1> QED
  BY <1>5, <1>6, <1>7, <1>8

\* Task i tells s that it has entered or left the room.
LEMMA OwnNewsMirrors ==
    ASSUME NEW s \in Session, NEW i \in RoomTask, NEW event \in OutputEvent,
           Hears(s, i, event, 1),
           event.type \in {"Join", "Leave"}, event.playerId = playerId[s],
           Member(s, i) <=> event.type = "Leave",
           Member(s, i)' <=> event.type = "Join",
           event.type = "Join" => event.roomPlayerIds = DOMAIN room'[i].players
    PROVE  Mirrors(s)'
<1>1. /\ playerId'[s] = playerId[s] /\ joinedRooms' = joinedRooms /\ handler' = handler
      /\ Arrives(s, event, 1)
  BY HeardEvents
<1>2. PICK N \in Nat :
          /\ N = Len(playerRx[s])
          /\ DOMAIN playerRx[s] = 1..N /\ DOMAIN playerRx'[s] = 1..N + 1
          /\ \A k \in 1..N : playerRx'[s][k] = playerRx[s][k]
          /\ playerRx'[s][N + 1] = event
  <2>1. /\ Len(playerRx[s]) \in Nat
        /\ DOMAIN playerRx[s] = 1..Len(playerRx[s])
        /\ DOMAIN playerRx'[s] = 1..Len(playerRx[s]) + 1
        /\ \A k \in 1..Len(playerRx[s]) : playerRx'[s][k] = playerRx[s][k]
        /\ \A k \in DOMAIN playerRx'[s] :
               k > Len(playerRx[s]) => playerRx'[s][k] = event
    BY <1>1 DEF Arrives
  <2>2. playerRx'[s][Len(playerRx[s]) + 1] = event
    <3>1. /\ Len(playerRx[s]) + 1 \in DOMAIN playerRx'[s]
          /\ Len(playerRx[s]) + 1 > Len(playerRx[s])
      BY <2>1
    <3> QED
      BY <2>1, <3>1
  <2> QED
    BY <2>1, <2>2
<1>0. PICK r \in RoomId : r = room[i].id
  BY <1>1, TasksAround DEF Hears, HandlesOne
<1>3. PICK id : /\ r = room[i].id /\ r = room'[i].id /\ r = event.roomId
                /\ id = playerId[s] /\ id = playerId'[s] /\ id = event.playerId
  BY <1>0, <1>1, TasksAround DEF Hears, HandlesOne
<1>4. Own(s, event) /\ Own(s, event)'
  BY <1>1 DEF Own
<1>5. /\ OwnEvents(s, r)' = OwnEvents(s, r) \cup {N + 1}
      /\ OwnEvents(s, r) \subseteq 1..N
      /\ \A k \in OwnEvents(s, r) : playerRx[s][k].type \in {"Join", "Leave"}
  BY <1>1, <1>2, <1>3, <1>4 DEF Arrives, OwnEvents, Own
<1>6. /\ MemberTasks(s, r) = IF Member(s, i) THEN {i} ELSE {}
      /\ MemberTasks(s, r)' = IF Member(s, i)' THEN {i} ELSE {}
  <2>1. MemberTasks(s, r)' = MemberTasks(s, room[i].id)'
    BY <1>3 DEF MemberTasks
  <2> QED
    BY <1>1, <1>3, <2>1, TasksAround DEF Hears
<1>7. \A k \in OwnEvents(s, r) :
          (\A l \in OwnEvents(s, r) : l <= k) => playerRx[s][k].type # event.type
  <2>1. ASSUME NEW k \in OwnEvents(s, r), \A l \in OwnEvents(s, r) : l <= k
        PROVE  playerRx[s][k].type # event.type
    <3>1. PICK m \in OwnEvents(s, r) :
              /\ \A l \in OwnEvents(s, r) : l <= m
              /\ playerRx[s][m].type = "Join" <=> MemberTasks(s, r) # {}
      BY <2>1 DEF Hears, Mirrors, LastTells
    <3>2. m = k
      BY <1>5, <2>1, <3>1
    <3> QED
      BY <1>5, <1>6, <3>1, <3>2
  <2> QED
    BY <2>1
<1>8. LastTells(s, r)'
  <2>1. \A l \in OwnEvents(s, r)' : l <= N + 1
    BY <1>5
  <2> QED
    BY <1>2, <1>5, <1>6, <2>1 DEF LastTells
<1>9. Alternate(s, r)'
  <2>1. ASSUME NEW k \in OwnEvents(s, r)'
        PROVE  \/ \A l \in OwnEvents(s, r)' : l <= k
               \/ \E l \in OwnEvents(s, r)' :
                      /\ l > k /\ playerRx'[s][l].type # playerRx'[s][k].type
                      /\ \A m \in OwnEvents(s, r)' : m <= k \/ l <= m
    <3>1. CASE k = N + 1
      BY <1>5, <3>1
    <3>2. CASE k \in OwnEvents(s, r) /\ \A l \in OwnEvents(s, r) : l <= k
      <4>1. N + 1 \in OwnEvents(s, r)' /\ N + 1 > k
        BY <1>5, <3>2
      <4>2. playerRx'[s][N + 1].type # playerRx'[s][k].type
        BY <1>2, <1>5, <1>7, <3>2
      <4>3. \A m \in OwnEvents(s, r)' : m <= k \/ N + 1 <= m
        BY <1>5, <3>2
      <4> QED
        BY <4>1, <4>2, <4>3
    <3>3. CASE k \in OwnEvents(s, r) /\ ~\A l \in OwnEvents(s, r) : l <= k
      <4>1. PICK l \in OwnEvents(s, r) :
                /\ l > k /\ playerRx[s][l].type # playerRx[s][k].type
                /\ \A m \in OwnEvents(s, r) : m <= k \/ l <= m
        BY <3>3 DEF Hears, Mirrors, Alternate
      <4>2. l <= N + 1
        BY <1>5
      <4>3. \A m \in OwnEvents(s, r)' : m <= k \/ l <= m
        BY <1>5, <4>1, <4>2
      <4>4. playerRx'[s][l].type # playerRx'[s][k].type
        BY <1>2, <1>5, <3>3, <4>1
      <4> QED
        BY <1>5, <4>1, <4>3, <4>4
    <3> QED
      BY <1>5, <2>1, <3>1, <3>2, <3>3
  <2> QED
    BY <2>1 DEF Alternate
<1>10. Knows(s, r)'
  BY <1>5 DEF Knows
<1>11. LeavesAll(s)'
  <2>1. ASSUME handler[s].at = "disconnect", Member(s, i)'
        PROVE  IsLeft(s, i)'
    <3>1. LastIsJoin(s, OwnEvents(s, r))'
      <4>1. \A l \in OwnEvents(s, r)' : l <= N + 1
        BY <1>5
      <4> QED
        BY <1>2, <1>5, <2>1, <4>1 DEF LastIsJoin
    <3> QED
      BY <1>3, <3>1 DEF IsLeft, LastIsJoin, OwnEvents
  <2> QED
    BY <1>1, <1>4, <2>1, HeardElsewhere DEF LeavesAll
<1>12. HearsInside(s)'
  <2>1. ASSUME handler[s].at # "disconnect", event.type = "Leave"
        PROVE  HeardInside(s, N + 1)'
    <3>1. OwnBefore(s, N + 1)' = OwnEvents(s, r)
      <4>1. OwnBefore(s, N + 1)' = {l \in OwnEvents(s, r)' : l < N + 1}
        BY <1>2, <1>3 DEF OwnBefore, OwnEvents
      <4>2. ~(N + 1 < N + 1) /\ \A l \in OwnEvents(s, r) : l < N + 1
        BY <1>2, <1>5
      <4>3. {l \in OwnEvents(s, r) \cup {N + 1} : l < N + 1} = OwnEvents(s, r)
        BY <4>2
      <4> QED
        BY <1>5, <4>1, <4>3
    <3>2. CASE OwnEvents(s, r) = {}
      <4>1. joinedRooms[s][r] = i
        BY <1>6, <2>1, <3>2 DEF Hears, Mirrors, Knows
      <4>2. joinedRooms'[s][playerRx'[s][N + 1].roomId] # None
        BY <1>1, <1>2, <1>3, <4>1, RoomTaskAssumption
      <4> QED
        BY <3>1, <3>2, <4>2 DEF HeardInside
    <3>3. CASE OwnEvents(s, r) # {}
      <4>1. LastIsJoin(s, OwnEvents(s, r))
        BY <1>6, <2>1, <3>3 DEF Hears, Mirrors, LastTells, LastIsJoin
      <4>2. LastIsJoin(s, OwnBefore(s, N + 1))'
        BY <1>2, <1>5, <3>1, <4>1 DEF LastIsJoin
      <4> QED
        BY <3>1, <3>3, <4>2 DEF HeardInside
    <3> QED
      BY <3>2, <3>3
  <2>2. ASSUME handler'[s].at # "disconnect", NEW k \in DOMAIN playerRx'[s],
               playerRx'[s][k].type # "JoinError",
               ~(Own(s, playerRx[s][k])' /\ playerRx'[s][k].type = "Join")
        PROVE  HeardInside(s, k)'
    <3>1. CASE k \in 1..N
      BY <1>1, <1>2, <1>4, <2>2, <3>1, HeardElsewhere
    <3>2. CASE k = N + 1
      BY <1>1, <1>2, <1>4, <2>1, <2>2, <3>2
    <3> QED
      BY <1>2, <3>1, <3>2
  <2> QED
    BY <2>2 DEF HearsInside
<1>13. ASSUME Member(s, i)'
       PROVE  KnowsRoster(s, i)'
  <2>1. event.type = "Join" /\ event.roomPlayerIds = DOMAIN room'[i].players
    BY <1>13
  <2>2. ASSUME NEW k \in 1..N, Tells(s, k, "Join", r, id)', LeftBefore(s, r, id, k)'
        PROVE  FALSE
    <3>1. k \in OwnEvents(s, r) /\ playerRx[s][k].type = "Join"
      BY <1>2, <1>3, <2>2 DEF Tells, OwnEvents, Own
    <3>2. ~\A l \in OwnEvents(s, r) : l <= k
      BY <1>7, <2>1, <3>1
    <3>3. PICK l \in OwnEvents(s, r) : l > k /\ playerRx[s][l].type # playerRx[s][k].type
      BY <3>1, <3>2 DEF Hears, Mirrors, Alternate
    <3>4. l \in 1..N /\ Tells(s, l, "Leave", r, id)'
      BY <1>2, <1>3, <1>5, <3>1, <3>3 DEF Tells, OwnEvents, Own
    <3>5. l < k
      BY <1>2, <2>2, <3>4 DEF LeftBefore
    <3> QED
      BY <3>3, <3>4, <3>5
  <2>3. DOMAIN room'[i].players = RosterFrom(s, r, N + 1)'
    <3>1. \A l \in 1..N + 1 : ~(l > N + 1) /\ (l = N + 1 \/ l < N + 1)
      OBVIOUS
    <3>2. \A p : ~Tells(s, N + 1, "Leave", r, p)'
      BY <1>2, <2>1 DEF Tells
    <3>3. \A p : LeftBefore(s, r, p, N + 1)'
      BY <1>2, <3>1, <3>2 DEF LeftBefore
    <3>4. \A j \in DOMAIN playerRx'[s] : ~(j > N + 1)
      BY <1>2, <3>1
    <3> QED
      BY <1>2, <2>1, <3>3, <3>4 DEF RosterFrom
  <2>4. ASSUME NEW k \in DOMAIN playerRx'[s],
               Tells(s, k, "Join", r, id)', LeftBefore(s, r, id, k)'
        PROVE  DOMAIN room'[i].players = RosterFrom(s, r, k)'
    <3>1. k \in 1..N \/ k = N + 1
      BY <1>2
    <3> QED
      BY <2>2, <2>3, <2>4, <3>1
  <2> QED
    BY <1>3, <2>4 DEF KnowsRoster, RosterFrom, LeftBefore, Tells
<1>14. RosterKnown(s)'
  BY <1>4, <1>13, HeardElsewhere DEF RosterKnown
<1>15. \A q \in RoomId : LastTells(s, q)' /\ Alternate(s, q)' /\ Knows(s, q)'
  BY <1>3, <1>4, <1>8, <1>9, <1>10, HeardElsewhere
<1> QED
  BY <1>11, <1>12, <1>14, <1>15 DEF Mirrors

\* Task i tells s of somebody else, or nothing.
LEMMA OthersNewsMirrors ==
    ASSUME NEW s \in Session, NEW i \in RoomTask, NEW event \in OutputEvent, NEW n \in Nat,
           Hears(s, i, event, n),
           ~Own(s, event) \/ n = 0,
           Member(s, i)' <=> Member(s, i),
           event.type = "JoinError" \/ n = 0 \/ Member(s, i),
           Member(s, i) => HearsOfOthers(i, event, n),
           Member(s, i) /\ LeavePending(s, i) => LeavePending(s, i)'
    PROVE  Mirrors(s)'
<1>1. /\ playerId'[s] = playerId[s] /\ joinedRooms' = joinedRooms /\ handler' = handler
      /\ Arrives(s, event, n)
  BY HeardEvents
<1>2. PICK N \in Nat :
          /\ N = Len(playerRx[s])
          /\ DOMAIN playerRx[s] = 1..N /\ DOMAIN playerRx'[s] = 1..N + n
          /\ \A k \in 1..N : playerRx'[s][k] = playerRx[s][k]
          /\ \A k \in DOMAIN playerRx'[s] : k > N => playerRx'[s][k] = event
  BY <1>1 DEF Arrives
<1>0. PICK r \in RoomId : r = room[i].id
  BY <1>1, TasksAround DEF Hears, HandlesOne
<1>3. PICK id : /\ r = room[i].id /\ r = room'[i].id /\ r = event.roomId
                /\ id = playerId[s] /\ id = playerId'[s]
  BY <1>0, <1>1, TasksAround DEF Hears, HandlesOne
<1>4. n \in {0, 1} \/ ~Own(s, event)
  OBVIOUS
<1>5. /\ OwnEvents(s, r)' = OwnEvents(s, r) /\ OwnEvents(s, r) \subseteq 1..N
      /\ Own(s, event)' <=> Own(s, event)
  BY <1>1, <1>2 DEF Arrives, OwnEvents, Own
<1>6. /\ MemberTasks(s, r) = IF Member(s, i) THEN {i} ELSE {}
      /\ MemberTasks(s, r)' = MemberTasks(s, r)
  <2>1. MemberTasks(s, r)' = MemberTasks(s, room[i].id)'
    BY <1>3 DEF MemberTasks
  <2>2. /\ MemberTasks(s, room[i].id) = IF Member(s, i) THEN {i} ELSE {}
        /\ MemberTasks(s, room[i].id)' = IF Member(s, i)' THEN {i} ELSE {}
    BY <1>1, TasksAround DEF Hears
  <2> QED
    BY <1>3, <2>1, <2>2
<1>7. LastTells(s, r)' /\ Alternate(s, r)' /\ Knows(s, r)'
  <2>1. Agrees(s, r)
    BY <1>1, <1>2, <1>5, <1>6 DEF Agrees
  <2> QED
    BY <2>1, AgreeingTells DEF Hears, Mirrors
<1>8. LeavesAll(s)'
  <2>1. ASSUME handler[s].at = "disconnect", Member(s, i)'
        PROVE  IsLeft(s, i)'
    <3>1. IsLeft(s, i)
      BY <2>1 DEF Hears, Mirrors, LeavesAll
    <3>2. LastIsJoin(s, OwnEvents(s, r)) => LastIsJoin(s, OwnEvents(s, r))'
      BY <1>2, <1>5 DEF LastIsJoin
    <3>3. OwnEvents(s, r)' = OwnEvents(s, room[i].id)'
      BY <1>3 DEF OwnEvents
    <3> QED
      BY <1>1, <1>3, <2>1, <3>1, <3>2, <3>3 DEF IsLeft, LastIsJoin
  <2> QED
    BY <1>1, <1>4, <2>1, HeardElsewhere DEF LeavesAll
<1>9. HearsInside(s)'
  <2>1. ASSUME handler[s].at # "disconnect", NEW k \in N + 1..N + n, Member(s, i)
        PROVE  HeardInside(s, k)'
    <3>1. playerRx'[s][k] = event
      BY <1>2
    <3>2. OwnBefore(s, k)' = OwnEvents(s, r)
      <4>1. OwnBefore(s, k)' = {l \in OwnEvents(s, r)' : l < k}
        BY <1>3, <3>1 DEF OwnBefore, OwnEvents
      <4> QED
        BY <1>5, <4>1
    <3>3. CASE OwnEvents(s, r) = {}
      <4>1. joinedRooms[s][r] = i
        BY <1>6, <2>1, <3>3 DEF Hears, Mirrors, Knows
      <4>2. joinedRooms'[s][playerRx'[s][k].roomId] # None
        BY <1>1, <1>3, <3>1, <4>1, RoomTaskAssumption
      <4> QED
        BY <3>2, <3>3, <4>2 DEF HeardInside
    <3>4. CASE OwnEvents(s, r) # {}
      <4>1. LastIsJoin(s, OwnEvents(s, r))
        BY <1>6, <2>1, <3>4 DEF Hears, Mirrors, LastTells, LastIsJoin
      <4>2. LastIsJoin(s, OwnBefore(s, k))'
        BY <1>2, <1>5, <3>2, <4>1 DEF LastIsJoin
      <4> QED
        BY <3>2, <3>4, <4>2 DEF HeardInside
    <3> QED
      BY <3>3, <3>4
  <2>2. ASSUME handler'[s].at # "disconnect", NEW k \in DOMAIN playerRx'[s],
               playerRx'[s][k].type # "JoinError",
               ~(Own(s, playerRx[s][k])' /\ playerRx'[s][k].type = "Join")
        PROVE  HeardInside(s, k)'
    <3>1. CASE k \in 1..N
      BY <1>1, <1>2, <1>4, <2>2, <3>1, HeardElsewhere
    <3>2. CASE k \in N + 1..N + n
      <4>1. playerRx'[s][k] = event /\ n # 0
        BY <1>2, <3>2
      <4> QED
        BY <1>1, <2>1, <2>2, <3>2, <4>1
    <3> QED
      BY <1>2, <3>1, <3>2
  <2> QED
    BY <2>2 DEF HearsInside
<1>10. ASSUME Member(s, i)'
       PROVE  KnowsRoster(s, i)'
  <2>1. HearsOfOthers(i, event, n) /\ KnowsRoster(s, i)
    BY <1>10 DEF Hears, Mirrors, RosterKnown
  <2>2. ASSUME NEW k \in DOMAIN playerRx'[s], Tells(s, k, "Join", r, id)'
        PROVE  k \in DOMAIN playerRx[s] /\ Tells(s, k, "Join", r, id)
    <3>1. CASE k \in 1..N
      BY <1>2, <2>2, <3>1 DEF Tells
    <3>2. CASE k \in N + 1..N + n
      <4>1. playerRx'[s][k] = event /\ n # 0
        BY <1>2, <3>2
      <4> QED
        BY <1>3, <2>2, <4>1 DEF Tells, Own
    <3> QED
      BY <1>2, <3>1, <3>2
  <2>3. ASSUME NEW k \in DOMAIN playerRx'[s],
               Tells(s, k, "Join", r, id)', LeftBefore(s, r, id, k)'
        PROVE  DOMAIN room'[i].players = RosterFrom(s, r, k)'
    <3>1. k \in DOMAIN playerRx[s] /\ Tells(s, k, "Join", r, id)
      BY <2>2, <2>3
    <3>2. RosterFollows(s, event, n, r, k)
      BY <1>1, <3>1, RosterExtended
    <3>3. LeftBefore(s, r, id, k)
      BY <1>3, <2>1, <2>3, <3>2 DEF RosterFollows, HearsOfOthers
    <3>4. DOMAIN room[i].players = RosterFrom(s, r, k)
      BY <1>3, <2>1, <3>1, <3>3 DEF KnowsRoster
    <3> QED
      BY <1>3, <2>1, <3>2, <3>4 DEF RosterFollows, HearsOfOthers
  <2> QED
    BY <1>3, <2>3 DEF KnowsRoster, RosterFrom, LeftBefore, Tells
<1>11. RosterKnown(s)'
  BY <1>4, <1>10, HeardElsewhere DEF RosterKnown
<1>12. \A q \in RoomId : LastTells(s, q)' /\ Alternate(s, q)' /\ Knows(s, q)'
  BY <1>3, <1>4, <1>7, HeardElsewhere
<1> QED
  BY <1>8, <1>9, <1>11, <1>12 DEF Mirrors

\* A handler that tells s nothing about itself leaves its Leave alone.
LEMMA LeaveStaysPending ==
    ASSUME SignedInv, NEW i \in RoomTask, HandlesOne(i), NEW s \in Session,
           playerId'[s] = playerId[s], LeavePending(s, i),
           Head(roomRx[i]).type # "Leave" \/ Head(roomRx[i]).playerId # playerId[s]
    PROVE  LeavePending(s, i)'
<1>1. roomRx[i] \in Seq(InputEvent) /\ roomRx[i] # <<>> /\ roomRx'[i] = Tail(roomRx[i])
  BY DEF HandlesOne, SignedInv, PlayerInv, RoomInv, RoomTypeOK
<1>2. /\ Len(roomRx[i]) \in Nat /\ DOMAIN roomRx[i] = 1..Len(roomRx[i])
      /\ roomRx[i][1] = Head(roomRx[i])
      /\ DOMAIN roomRx'[i] = 1..Len(roomRx[i]) - 1
      /\ \A k \in 1..Len(roomRx[i]) - 1 : roomRx'[i][k] = roomRx[i][k + 1]
  BY <1>1, TailShifts
<1>3. PICK k \in DOMAIN roomRx[i] :
          roomRx[i][k].type = "Leave" /\ roomRx[i][k].playerId = playerId[s]
  BY DEF LeavePending
<1>4. k - 1 \in DOMAIN roomRx'[i] /\ roomRx'[i][k - 1] = roomRx[i][k]
  BY <1>2, <1>3
<1> QED
  BY <1>3, <1>4 DEF LeavePending

\* The room tasks.
LEMMA RoomTaskStepMirrors ==
    ASSUME SignedInv, SignedInv', NEW i \in RoomTask, RoomTaskStep(i),
           NEW s \in Session, LoggedIn(s), Mirrors(s)
    PROVE  Mirrors(s)'
<1>1. /\ UNCHANGED <<loginVars, playerVars>> /\ UNCHANGED loginVars
      /\ playerId' = playerId /\ joinedRooms' = joinedRooms /\ handler' = handler
  BY DEF RoomTaskStep, loginVars, playerVars
<1>2. ASSUME HandlesOne(i), Enters(s, i) \/ Leaves(s, i)
      PROVE  Mirrors(s)'
  <2>1. PICK type \in {"Join", "Leave"} :
            /\ HearsOwn(s, i, type)
            /\ Member(s, i) <=> type = "Leave"
            /\ Member(s, i)' <=> type = "Join"
    BY <1>2 DEF Enters, Leaves
  <2>2. PICK event \in OutputEvent :
            /\ event.type = type /\ event.playerId = playerId[s] /\ event.roomId = room[i].id
            /\ type = "Join" => event.roomPlayerIds = DOMAIN room'[i].players
            /\ Extended(playerRx[s], playerRx'[s], 1, event)
    BY <2>1 DEF HearsOwn
  <2>3. Hears(s, i, event, 1)
    BY <1>1, <1>2, <2>2 DEF Hears
  <2> QED
    BY <2>1, <2>2, <2>3, OwnNewsMirrors
<1>3. ASSUME HandlesOne(i), Stays(s, i),
             \/ ~Member(s, i)
             \/ Head(roomRx[i]).type # "Leave"
             \/ Head(roomRx[i]).playerId # playerId[s]
      PROVE  Mirrors(s)'
  <2>1. PICK event \in OutputEvent, n \in Nat :
            /\ ~Own(s, event) \/ n = 0
            /\ event.roomId = room[i].id
            /\ event.type = "JoinError" \/ n = 0 \/ Member(s, i)
            /\ Member(s, i) => HearsOfOthers(i, event, n)
            /\ Extended(playerRx[s], playerRx'[s], n, event)
    BY <1>3 DEF Stays
  <2>2. Hears(s, i, event, n)
    BY <1>1, <1>3, <2>1 DEF Hears
  <2>3. Member(s, i) /\ LeavePending(s, i) => LeavePending(s, i)'
    BY <1>1, <1>3, LeaveStaysPending
  <2>4. Member(s, i)' <=> Member(s, i)
    BY <1>3 DEF Stays
  <2> QED
    BY <2>1, <2>2, <2>3, <2>4, OthersNewsMirrors
<1>4. CASE HandleJoinEvent(i)
  BY <1>1, <1>2, <1>3, <1>4, HandleJoinEventHandles, HandleJoinEventHeard
  DEF HandleJoinEvent, Receives
<1>5. CASE HandleLeaveEvent(i)
  BY <1>1, <1>2, <1>3, <1>5, HandleLeaveEventHandles, HandleLeaveEventHeard
<1>6. CASE HandleMessageEvent(i)
  BY <1>1, <1>3, <1>6, HandleMessageEventHandles, HandleMessageEventHeard
  DEF HandleMessageEvent, Receives
<1>7. CASE RemoveRoomFromChannels(i) \/ DropRoom(i)
  <2>1. /\ room' = room /\ playerRx' = playerRx
        /\ status[i] \in {"emptied", "removed"} /\ status'[i] # "unborn"
        /\ \A j \in RoomTask : j # i => status'[j] = status[j] /\ roomRx'[j] = roomRx[j]
    BY <1>7 DEF RemoveRoomFromChannels, DropRoom, SignedInv, PlayerInv, RoomInv, RoomTypeOK
  <2>2. ASSUME NEW j \in RoomTask
        PROVE  /\ Member(s, j)' <=> Member(s, j)
               /\ Member(s, j) =>
                      /\ room'[j] = room[j]
                      /\ LeavePending(s, j) => LeavePending(s, j)'
    <3>1. Member(s, j)' <=> Member(s, j)
      BY <1>1, <2>1 DEF Member
    <3>2. Member(s, j) => j # i
      BY <2>1, MembersAreServed DEF SignedInv, PlayerInv
    <3> QED
      BY <1>1, <2>1, <3>1, <3>2 DEF LeavePending
  <2>3. Undisturbed(s)
    BY <1>1, <2>1, <2>2 DEF Undisturbed
  <2> QED
    BY <2>3, UndisturbedMirrors
<1> QED
  BY <1>4, <1>5, <1>6, <1>7 DEF RoomTaskStep, RoomStep

-----------------------------------------------------------------------------
(* What the actor of s does itself.                                        *)

\* It takes the next event from its channel.
LEMMA OnOutputEventMirrors ==
    ASSUME SignedInv, NEW s \in Session, OnOutputEvent(s), Mirrors(s)
    PROVE  Mirrors(s)'
<1>1. /\ playerRx[s] \in Seq(OutputEvent) /\ playerRx[s] # <<>>
      /\ playerRx'[s] = Tail(playerRx[s])
      /\ playerId'[s] = playerId[s] /\ handler' = handler /\ handler[s].at = "select"
      /\ room' = room /\ status' = status
      /\ joinedRooms \in [Session -> [RoomId -> RoomTask \cup {None}]]
      /\ \A r \in RoomId : roomChannels[r] \in RoomTask \cup {None}
  BY DEF OnOutputEvent, AtSelect, PlayerReceives, loginVars,
     SignedInv, PlayerInv, RoomInv, RoomTypeOK, PlayerTypeOK
<1>2. PICK N \in Nat :
          /\ DOMAIN playerRx[s] = 1..N /\ N # 0 /\ DOMAIN playerRx'[s] = 1..N - 1
          /\ playerRx[s][1] = Head(playerRx[s])
          /\ \A k \in 1..N - 1 : playerRx'[s][k] = playerRx[s][k + 1]
          /\ \A r : \A k : k \in OwnEvents(s, r)' <=> k \in Nat \ {0} /\ k + 1 \in OwnEvents(s, r)
  BY <1>1, OwnEventsShifted
<1>3. \A r : /\ OwnEvents(s, r) \subseteq 1..N
             /\ OwnEvents(s, r)' \subseteq 1..N - 1
             /\ \A k \in 1..N - 1 : k \in OwnEvents(s, r)' <=> k + 1 \in OwnEvents(s, r)
             /\ \A k \in OwnEvents(s, r) : k # 1 =>
                    /\ k - 1 \in OwnEvents(s, r)'
                    /\ playerRx'[s][k - 1] = playerRx[s][k]
             /\ \A k \in OwnEvents(s, r) : playerRx[s][k].type \in {"Join", "Leave"}
  <2>1. ASSUME NEW r
        PROVE  OwnEvents(s, r) \subseteq 1..N /\ OwnEvents(s, r)' \subseteq 1..N - 1
    BY <1>2 DEF OwnEvents
  <2>2. ASSUME NEW r
        PROVE  \A k \in OwnEvents(s, r) : playerRx[s][k].type \in {"Join", "Leave"}
    BY DEF OwnEvents, Own
  <2>3. ASSUME NEW r, NEW k \in OwnEvents(s, r), k # 1
        PROVE  k - 1 \in OwnEvents(s, r)' /\ playerRx'[s][k - 1] = playerRx[s][k]
    <3>1. k \in 1..N /\ k - 1 \in 1..N - 1 /\ (k - 1) + 1 = k /\ k - 1 \in Nat \ {0}
      BY <2>1, <2>3
    <3> QED
      BY <1>2, <3>1
  <2>4. ASSUME NEW r, NEW k \in 1..N - 1
        PROVE  k \in OwnEvents(s, r)' <=> k + 1 \in OwnEvents(s, r)
    <3>1. k \in Nat \ {0}
      OBVIOUS
    <3> QED
      BY <1>2, <3>1
  <2> QED
    BY <2>1, <2>2, <2>3, <2>4, Zenon
<1>4. \A i \in RoomTask : Member(s, i)' <=> Member(s, i)
  BY <1>1 DEF Member
<1>5. \A r : MemberTasks(s, r)' = MemberTasks(s, r)
  BY <1>1, <1>4 DEF MemberTasks
<1>6. ASSUME NEW r \in RoomId
      PROVE  /\ 1 \notin OwnEvents(s, r) => joinedRooms'[s][r] = joinedRooms[s][r]
             /\ 1 \in OwnEvents(s, r) /\ playerRx[s][1].type = "Join" =>
                    joinedRooms'[s][r] = IF roomChannels[r] = None THEN joinedRooms[s][r]
                                                                   ELSE roomChannels[r]
             /\ 1 \in OwnEvents(s, r) /\ playerRx[s][1].type = "Leave" =>
                    joinedRooms'[s][r] = None
  <2>1. PICK event : event = playerRx[s][1] /\ event = Head(playerRx[s])
    BY <1>2
  <2>2. 1 \in OwnEvents(s, r) <=> Own(s, event) /\ event.roomId = r
    BY <1>2, <2>1 DEF OwnEvents
  <2>3. OnOwnJoin(s, event) \/ OnJoinError(s, event) \/ OnOwnLeave(s, event) \/ Notify(s, event)
    BY <2>1 DEF OnOutputEvent
  <2>4. event.roomId \in RoomId
    BY <1>1, <2>1, HeadOfPlayerRx, OutputEventFields DEF SignedInv, PlayerInv
  <2>5. CASE OnOwnJoin(s, event)
    BY <1>1, <2>1, <2>2, <2>4, <2>5 DEF OnOwnJoin
  <2>6. CASE OnOwnLeave(s, event)
    BY <1>1, <2>1, <2>2, <2>4, <2>6 DEF OnOwnLeave
  <2>7. CASE OnJoinError(s, event) \/ Notify(s, event)
    BY <2>1, <2>2, <2>7 DEF OnJoinError, Notify, Own
  <2> QED
    BY <2>3, <2>5, <2>6, <2>7
<1>7. ASSUME NEW r \in RoomId
      PROVE  LastTells(s, r)'
  <2>1. ASSUME OwnEvents(s, r)' # {}
        PROVE  LastTells(s, r)'
    <3>1. PICK k \in OwnEvents(s, r)' : k + 1 \in OwnEvents(s, r) /\ k \in 1..N - 1
      BY <1>3, <2>1
    <3>2. PICK m \in OwnEvents(s, r) :
              /\ \A l \in OwnEvents(s, r) : l <= m
              /\ playerRx[s][m].type = "Join" <=> MemberTasks(s, r) # {}
      BY <3>1 DEF Mirrors, LastTells
    <3>3. m # 1 /\ m \in 1..N
      BY <1>3, <3>1, <3>2
    <3>4. \A l \in OwnEvents(s, r)' : l <= m - 1
      BY <1>3, <3>2, <3>3
    <3> QED
      BY <1>3, <1>5, <3>2, <3>3, <3>4 DEF LastTells
  <2> QED
    BY <2>1 DEF LastTells
<1>8. ASSUME NEW r \in RoomId
      PROVE  Alternate(s, r)'
  <2>1. ASSUME NEW k \in OwnEvents(s, r)', ~\A l \in OwnEvents(s, r)' : l <= k
        PROVE  \E l \in OwnEvents(s, r)' :
                   /\ l > k /\ playerRx'[s][l].type # playerRx'[s][k].type
                   /\ \A m \in OwnEvents(s, r)' : m <= k \/ l <= m
    <3>1. /\ k \in 1..N - 1 /\ k + 1 \in OwnEvents(s, r)
          /\ playerRx'[s][k] = playerRx[s][k + 1]
      BY <1>2, <1>3
    <3>2. ~\A l \in OwnEvents(s, r) : l <= k + 1
      BY <1>3, <2>1, <3>1
    <3>3. PICK l \in OwnEvents(s, r) :
              /\ l > k + 1 /\ playerRx[s][l].type # playerRx[s][k + 1].type
              /\ \A m \in OwnEvents(s, r) : m <= k + 1 \/ l <= m
      BY <3>1, <3>2 DEF Mirrors, Alternate
    <3>4. l \in 1..N /\ l # 1 /\ l - 1 > k
      BY <1>3, <3>1, <3>3
    <3>5. ASSUME NEW m \in OwnEvents(s, r)'
          PROVE  m <= k \/ l - 1 <= m
      <4>1. m \in 1..N - 1 /\ m + 1 \in OwnEvents(s, r)
        BY <1>3
      <4>2. m + 1 <= k + 1 \/ l <= m + 1
        BY <3>3, <4>1
      <4> QED
        BY <3>1, <3>4, <4>1, <4>2
    <3> QED
      BY <1>3, <3>1, <3>3, <3>4, <3>5
  <2> QED
    BY <2>1 DEF Alternate
<1>9. ASSUME NEW r \in RoomId, NEW i \in MemberTasks(s, r)
      PROVE  MemberTasks(s, r) = {i} /\ roomChannels[r] = i
  BY <1>9, OneMemberTask DEF SignedInv, PlayerInv, MemberTasks
<1>10. ASSUME NEW r \in RoomId
       PROVE  Knows(s, r)'
  <2>1. ASSUME OwnEvents(s, r)' = {}, NEW i \in RoomTask
        PROVE  joinedRooms'[s][r] = i <=> i \in MemberTasks(s, r)
    <3>1. \A k \in OwnEvents(s, r) : k = 1
      BY <1>3, <2>1
    <3>2. CASE OwnEvents(s, r) = {}
      BY <1>1, <1>6, <3>2 DEF Mirrors, Knows
    <3>3. CASE OwnEvents(s, r) # {}
      <4>1. 1 \in OwnEvents(s, r) /\ (playerRx[s][1].type = "Join" <=> MemberTasks(s, r) # {})
        BY <3>1, <3>3 DEF Mirrors, LastTells
      <4>2. CASE MemberTasks(s, r) = {}
        <5>1. joinedRooms'[s][r] = None
          BY <1>3, <1>6, <4>1, <4>2
        <5> QED
          BY <4>2, <5>1, RoomTaskAssumption
      <4>3. CASE MemberTasks(s, r) # {}
        <5>1. PICK j \in MemberTasks(s, r) : MemberTasks(s, r) = {j} /\ roomChannels[r] = j
          BY <1>9, <4>3
        <5>2. j \in RoomTask
          BY DEF MemberTasks
        <5>3. joinedRooms'[s][r] = j
          BY <1>6, <4>1, <4>3, <5>1, <5>2, RoomTaskAssumption
        <5> QED
          BY <5>1, <5>3
      <4> QED
        BY <4>2, <4>3
    <3> QED
      BY <3>2, <3>3
  <2> QED
    BY <1>5, <2>1 DEF Knows
<1>11. LeavesAll(s)'
  BY <1>1 DEF LeavesAll
<1>12. HearsInside(s)'
  <2>1. ASSUME NEW k \in 1..N - 1, HeardInside(s, k + 1)
        PROVE  HeardInside(s, k)'
    <3>1. PICK r \in RoomId : r = playerRx[s][k + 1].roomId /\ r = playerRx'[s][k].roomId
      <4>1. k + 1 \in 1..N /\ playerRx[s][k + 1] \in OutputEvent
        BY <1>1, <1>2
      <4> QED
        BY <1>2, <4>1, OutputEventFields
    <3>2. /\ OwnBefore(s, k + 1) = {l \in OwnEvents(s, r) : l < k + 1}
          /\ OwnBefore(s, k)' = {l \in OwnEvents(s, r)' : l < k}
      BY <3>1 DEF OwnBefore, OwnEvents
    <3>3. /\ \A l \in OwnBefore(s, k)' :
                 l \in 1..N - 1 /\ l + 1 \in OwnBefore(s, k + 1) /\ playerRx'[s][l] = playerRx[s][l + 1]
          /\ \A l \in OwnBefore(s, k + 1) : l \in 1..N /\ (l # 1 =>
                 l - 1 \in OwnBefore(s, k)' /\ playerRx'[s][l - 1] = playerRx[s][l])
      BY <1>2, <1>3, <3>2
    <3>4. CASE OwnBefore(s, k)' # {}
      <4>1. OwnBefore(s, k + 1) # {}
        BY <3>3, <3>4
      <4>2. PICK m \in OwnBefore(s, k + 1) :
                playerRx[s][m].type = "Join" /\ \A l \in OwnBefore(s, k + 1) : l <= m
        BY <2>1, <4>1 DEF HeardInside, LastIsJoin
      <4>3. m # 1 /\ m \in 1..N
        BY <3>3, <3>4, <4>2
      <4>4. \A l \in OwnBefore(s, k)' : l <= m - 1
        BY <3>3, <4>2, <4>3
      <4>5. LastIsJoin(s, OwnBefore(s, k))'
        BY <3>3, <4>2, <4>3, <4>4 DEF LastIsJoin
      <4> QED
        BY <3>4, <4>5 DEF HeardInside
    <3>5. CASE OwnBefore(s, k)' = {} /\ OwnBefore(s, k + 1) = {}
      <4>1. 1 \notin OwnEvents(s, r)
        BY <3>2, <3>5
      <4>2. joinedRooms'[s][r] = joinedRooms[s][r]
        BY <1>6, <4>1
      <4>3. ASSUME FirstIsLeave(s, OwnEvents(s, r))
            PROVE  FirstIsLeave(s, OwnEvents(s, r))'
        <5>1. PICK m \in OwnEvents(s, r) :
                  playerRx[s][m].type = "Leave" /\ \A l \in OwnEvents(s, r) : m <= l
          BY <4>3 DEF FirstIsLeave
        <5>2. m # 1 /\ m \in 1..N
          BY <1>3, <4>1
        <5>3. \A l \in OwnEvents(s, r)' : m - 1 <= l
          BY <1>3, <5>1, <5>2
        <5> QED
          BY <1>3, <5>1, <5>2, <5>3 DEF FirstIsLeave
      <4>4. FirstIsLeave(s, OwnEvents(s, r))' =>
                FirstIsLeave(s, OwnEvents(s, playerRx[s][k].roomId))'
        BY <3>1 DEF FirstIsLeave, OwnEvents
      <4> QED
        BY <2>1, <3>1, <3>5, <4>2, <4>3, <4>4 DEF HeardInside
    <3>6. CASE OwnBefore(s, k)' = {} /\ OwnBefore(s, k + 1) # {}
      <4>1. 1 \in OwnEvents(s, r) /\ playerRx[s][1].type = "Join"
        <5>1. \A l \in OwnBefore(s, k + 1) : l = 1
          BY <3>3, <3>6
        <5> QED
          BY <2>1, <3>2, <3>6, <5>1 DEF HeardInside, LastIsJoin
      <4>2. CASE roomChannels[r] # None
        BY <1>6, <3>1, <3>6, <4>1, <4>2 DEF HeardInside
      <4>3. CASE roomChannels[r] = None
        <5>1. MemberTasks(s, r) = {}
          BY <1>9, <4>3, RoomTaskAssumption DEF MemberTasks
        <5>2. PICK m \in OwnEvents(s, r) :
                  /\ \A l \in OwnEvents(s, r) : l <= m
                  /\ playerRx[s][m].type # "Join"
          BY <4>1, <5>1 DEF Mirrors, LastTells
        <5>3. ~\A l \in OwnEvents(s, r) : l <= 1
          BY <1>3, <4>1, <5>2
        <5>4. PICK l \in OwnEvents(s, r) :
                  /\ l > 1 /\ playerRx[s][l].type # playerRx[s][1].type
                  /\ \A n \in OwnEvents(s, r) : n <= 1 \/ l <= n
          BY <4>1, <5>3 DEF Mirrors, Alternate
        <5>5. l # 1 /\ l \in 1..N /\ playerRx[s][l].type = "Leave"
          BY <1>3, <4>1, <5>4
        <5>6. ASSUME NEW n \in OwnEvents(s, r)'
              PROVE  l - 1 <= n
          <6>1. n \in 1..N - 1 /\ n + 1 \in OwnEvents(s, r)
            BY <1>3
          <6>2. n + 1 <= 1 \/ l <= n + 1
            BY <5>4, <6>1
          <6> QED
            BY <5>5, <6>1, <6>2
        <5>7. FirstIsLeave(s, OwnEvents(s, r))'
          BY <1>3, <5>5, <5>6 DEF FirstIsLeave
        <5>8. FirstIsLeave(s, OwnEvents(s, r))' =>
                  FirstIsLeave(s, OwnEvents(s, playerRx[s][k].roomId))'
          BY <3>1 DEF FirstIsLeave, OwnEvents
        <5> QED
          BY <3>6, <5>7, <5>8 DEF HeardInside
      <4> QED
        BY <4>2, <4>3
    <3> QED
      BY <3>4, <3>5, <3>6
  <2>2. ASSUME NEW k \in DOMAIN playerRx'[s],
               playerRx'[s][k].type # "JoinError",
               ~(Own(s, playerRx[s][k])' /\ playerRx'[s][k].type = "Join")
        PROVE  HeardInside(s, k)'
    <3>1. /\ k \in 1..N - 1 /\ k + 1 \in DOMAIN playerRx[s]
          /\ playerRx'[s][k] = playerRx[s][k + 1]
      BY <1>2
    <3>2. HeardInside(s, k + 1)
      BY <1>1, <2>2, <3>1 DEF Mirrors, HearsInside, Own
    <3> QED
      BY <2>1, <3>1, <3>2
  <2> QED
    BY <2>2 DEF HearsInside
<1>13. RosterKnown(s)'
  <2>1. ASSUME NEW i \in RoomTask, Member(s, i)'
        PROVE  KnowsRoster(s, i)'
    <3>1. PICK r, id : /\ r = room[i].id /\ r = room'[i].id
                       /\ id = playerId[s] /\ id = playerId'[s]
      BY <1>1
    <3>2. KnowsRoster(s, i)
      BY <1>4, <2>1 DEF Mirrors, RosterKnown
    <3>3. \A k \in 1..N - 1 : \A type, p :
              Tells(s, k, type, r, p)' <=> Tells(s, k + 1, type, r, p)
      BY <1>2 DEF Tells
    <3>4. ASSUME NEW k \in 1..N - 1, NEW p
          PROVE  LeftBefore(s, r, p, k)' <=> LeftBefore(s, r, p, k + 1)
      <4>1. ASSUME LeftBefore(s, r, p, k)', NEW l \in 1..N, Tells(s, l, "Leave", r, p)
            PROVE  l < k + 1
        <5>1. CASE l = 1
          BY <5>1
        <5>2. CASE l # 1
          <6>1. l - 1 \in 1..N - 1 /\ (l - 1) + 1 = l
            BY <5>2
          <6>2. l - 1 < k
            BY <1>2, <3>3, <4>1, <6>1 DEF LeftBefore
          <6> QED
            BY <6>1, <6>2
        <5> QED
          BY <5>1, <5>2
      <4>2. ASSUME LeftBefore(s, r, p, k + 1), NEW l \in 1..N - 1, Tells(s, l, "Leave", r, p)'
            PROVE  l < k
        <5>1. l + 1 \in 1..N /\ Tells(s, l + 1, "Leave", r, p)
          BY <3>3, <4>2
        <5>2. l + 1 < k + 1
          BY <1>2, <4>2, <5>1 DEF LeftBefore
        <5> QED
          BY <5>2
      <4> QED
        BY <1>2, <4>1, <4>2 DEF LeftBefore
    <3>5. ASSUME NEW k \in 1..N - 1
          PROVE  RosterFrom(s, r, k)' = RosterFrom(s, r, k + 1)
      <4>1. playerRx'[s][k].roomPlayerIds = playerRx[s][k + 1].roomPlayerIds
        BY <1>2
      <4>2. ASSUME NEW p
            PROVE  (\E j \in 1..N - 1 :
                       j > k /\ Tells(s, j, "Join", r, p)' /\ LeftBefore(s, r, p, j)')
                   <=> (\E j \in 1..N :
                       j > k + 1 /\ Tells(s, j, "Join", r, p) /\ LeftBefore(s, r, p, j))
        <5>1. ASSUME NEW j \in 1..N - 1, j > k, Tells(s, j, "Join", r, p)', LeftBefore(s, r, p, j)'
              PROVE  /\ j + 1 \in 1..N /\ j + 1 > k + 1
                     /\ Tells(s, j + 1, "Join", r, p) /\ LeftBefore(s, r, p, j + 1)
          BY <3>3, <3>4, <5>1
        <5>2. ASSUME NEW j \in 1..N, j > k + 1, Tells(s, j, "Join", r, p), LeftBefore(s, r, p, j)
              PROVE  \E l \in 1..N - 1 :
                         l > k /\ Tells(s, l, "Join", r, p)' /\ LeftBefore(s, r, p, l)'
          <6>1. j - 1 \in 1..N - 1 /\ (j - 1) + 1 = j /\ j - 1 > k
            BY <5>2
          <6> QED
            BY <3>3, <3>4, <5>2, <6>1
        <5> QED
          BY <5>1, <5>2
      <4> QED
        BY <1>2, <3>4, <4>1, <4>2 DEF RosterFrom
    <3>6. ASSUME NEW k \in DOMAIN playerRx'[s],
                 Tells(s, k, "Join", r, id)', LeftBefore(s, r, id, k)'
          PROVE  DOMAIN room'[i].players = RosterFrom(s, r, k)'
      <4>1. k \in 1..N - 1 /\ k + 1 \in DOMAIN playerRx[s]
        BY <1>2
      <4>2. Tells(s, k + 1, "Join", r, id) /\ LeftBefore(s, r, id, k + 1)
        BY <3>3, <3>4, <3>6, <4>1
      <4>3. DOMAIN room[i].players = RosterFrom(s, r, k + 1)
        BY <3>1, <3>2, <4>1, <4>2 DEF KnowsRoster
      <4> QED
        BY <1>1, <3>5, <4>1, <4>3
    <3> QED
      BY <3>1, <3>6 DEF KnowsRoster, RosterFrom, LeftBefore, Tells
  <2> QED
    BY <2>1 DEF RosterKnown
<1> QED
  BY <1>7, <1>8, <1>10, <1>11, <1>12, <1>13 DEF Mirrors

\* A Leave that waits, or is sent, is pending.
LEMMA SendKeepsPending ==
    ASSUME SignedInv, NEW i \in RoomTask, NEW event \in InputEvent,
           roomRx' = [roomRx EXCEPT ![i] = Append(@, event)],
           NEW s \in Session, playerId'[s] = playerId[s]
    PROVE  /\ \A j \in RoomTask : LeavePending(s, j) => LeavePending(s, j)'
           /\ event.type = "Leave" /\ event.playerId = playerId[s] => LeavePending(s, i)'
<1>1. roomRx[i] \in Seq(InputEvent) /\ roomRx'[i] = Append(roomRx[i], event)
  BY DEF SignedInv, PlayerInv, RoomInv, RoomTypeOK
<1>2. PICK N \in Nat :
          /\ DOMAIN roomRx[i] = 1..N /\ DOMAIN roomRx'[i] = 1..N + 1
          /\ \A k \in 1..N : roomRx'[i][k] = roomRx[i][k]
          /\ roomRx'[i][N + 1] = event
  <2>1. Len(roomRx[i]) \in Nat /\ DOMAIN roomRx[i] = 1..Len(roomRx[i])
    BY <1>1, LenProperties
  <2>2. roomRx'[i] \in Seq(InputEvent) /\ Extended(roomRx[i], roomRx'[i], 1, event)
    BY <1>1, AppendExtends
  <2>3. DOMAIN roomRx'[i] = 1..Len(roomRx[i]) + 1
    BY <2>2, LenProperties DEF Extended
  <2> QED
    BY <2>1, <2>2, <2>3 DEF Extended
<1>3. ASSUME NEW j \in RoomTask, LeavePending(s, j)
      PROVE  LeavePending(s, j)'
  <2>1. CASE j = i
    <3>1. PICK k \in DOMAIN roomRx[i] :
              roomRx[i][k].type = "Leave" /\ roomRx[i][k].playerId = playerId[s]
      BY <1>3, <2>1 DEF LeavePending
    <3>2. k \in DOMAIN roomRx'[i] /\ roomRx'[i][k] = roomRx[i][k]
      BY <1>2
    <3> QED
      BY <2>1, <3>1, <3>2 DEF LeavePending
  <2>2. CASE j # i
    <3>1. roomRx'[j] = roomRx[j]
      BY <2>2 DEF SignedInv, PlayerInv, RoomInv, RoomTypeOK
    <3> QED
      BY <1>3, <3>1 DEF LeavePending
  <2> QED
    BY <2>1, <2>2
<1>4. ASSUME event.type = "Leave", event.playerId = playerId[s]
      PROVE  LeavePending(s, i)'
  <2>1. N + 1 \in DOMAIN roomRx'[i]
    BY <1>2
  <2> QED
    BY <1>2, <1>4, <2>1 DEF LeavePending
<1> QED
  BY <1>3, <1>4

\* It notices the disconnection.
LEMMA OnClosedMirrors ==
    ASSUME SignedInv, NEW s \in Session, OnClosed(s), Mirrors(s)
    PROVE  Mirrors(s)'
<1>1. /\ UNCHANGED <<roomVars, loginVars, joinedRooms>>
      /\ playerRx' = playerRx /\ room' = room /\ status' = status /\ playerId' = playerId
      /\ roomRx' = roomRx /\ joinedRooms' = joinedRooms
      /\ handler[s].at = "select" /\ handler'[s].at = "disconnect"
  BY DEF OnClosed, AtSelect, roomVars, loginVars, SignedInv, PlayerInv, PlayerTypeOK
<1>2. /\ \A r : OwnEvents(s, r)' = OwnEvents(s, r) /\ MemberTasks(s, r)' = MemberTasks(s, r)
      /\ \A i \in RoomTask : Member(s, i)' <=> Member(s, i)
  BY <1>1 DEF OwnEvents, Own, MemberTasks, Member
<1>3. \A r \in RoomId : LastTells(s, r)' /\ Alternate(s, r)' /\ Knows(s, r)'
  BY <1>1, <1>2 DEF Mirrors, LastTells, Alternate, Knows
<1>4. LeavesAll(s)'
  <2>1. ASSUME NEW i \in RoomTask, Member(s, i)
        PROVE  joinedRooms[s][room[i].id] = i \/ LastIsJoin(s, OwnEvents(s, room[i].id))
    <3>1. PICK r \in RoomId : r = room[i].id
      BY <2>1, MembersAreServed DEF SignedInv, PlayerInv
    <3>2. i \in MemberTasks(s, r)
      BY <2>1, <3>1 DEF MemberTasks
    <3>3. CASE OwnEvents(s, r) = {}
      BY <1>1, <3>1, <3>2, <3>3 DEF Mirrors, Knows
    <3>4. CASE OwnEvents(s, r) # {}
      BY <3>1, <3>2, <3>4 DEF Mirrors, LastTells, LastIsJoin
    <3> QED
      BY <3>3, <3>4
  <2>2. ASSUME NEW i \in RoomTask, Member(s, i)
        PROVE  IsLeft(s, i)'
    <3>1. joinedRooms'[s][room'[i].id] = i \/ LastIsJoin(s, OwnEvents(s, room[i].id))'
      BY <1>1, <1>2, <2>1, <2>2 DEF LastIsJoin, OwnEvents, Own
    <3> QED
      BY <3>1 DEF IsLeft
  <2> QED
    BY <1>2, <2>2 DEF LeavesAll
<1>5. HearsInside(s)'
  BY <1>1 DEF HearsInside
<1>6. RosterKnown(s)'
  BY <1>1, <1>2 DEF Mirrors, RosterKnown, KnowsRoster, RosterFrom, LeftBefore, Tells
<1> QED
  BY <1>3, <1>4, <1>5, <1>6 DEF Mirrors

\* It leaves a room on its way out.
LEMMA LeaveOnDisconnectMirrors ==
    ASSUME SignedInv, NEW s \in Session, NEW r \in RoomId, LeaveOnDisconnect(s, r), Mirrors(s)
    PROVE  Mirrors(s)'
<1>1. /\ playerRx' = playerRx /\ room' = room /\ status' = status /\ playerId' = playerId
      /\ handler' = handler /\ handler[s].at = "disconnect"
      /\ joinedRooms[s][r] \in RoomTask /\ joinedRooms'[s][r] = None
      /\ \A q \in RoomId : q # r => joinedRooms'[s][q] = joinedRooms[s][q]
      /\ playerId[s] \in PlayerId
  BY DEF LeaveOnDisconnect, SendToRoom, roomVars, loginVars,
     SignedInv, PlayerInv, PlayerTypeOK, IdsAreKnown
<1>2. PICK i \in RoomTask : i = joinedRooms[s][r]
  BY <1>1
<1>3. PICK leave \in InputEvent :
          /\ leave = [type |-> "Leave", playerId |-> playerId[s]]
          /\ leave.type = "Leave" /\ leave.playerId = playerId[s]
  <2>1. [type |-> "Leave", playerId |-> playerId[s]] \in InputEvent
    BY <1>1 DEF InputEvent
  <2> QED
    BY <2>1
<1>10. \/ roomRx' = [roomRx EXCEPT ![i] = Append(@, leave)]
       \/ ~CanSend(i) /\ roomRx' = roomRx
  <2>1. \/ roomRx' = [roomRx EXCEPT ![joinedRooms[s][r]] =
                           Append(@, [type |-> "Leave", playerId |-> playerId[s]])]
        \/ ~CanSend(joinedRooms[s][r]) /\ roomRx' = roomRx
    BY DEF LeaveOnDisconnect, SendToRoom, roomVars
  <2> QED
    BY <1>2, <1>3, <2>1
<1>4. /\ \A j \in RoomTask : LeavePending(s, j) => LeavePending(s, j)'
      /\ CanSend(i) => LeavePending(s, i)'
  <2>1. CASE roomRx' = [roomRx EXCEPT ![i] = Append(@, leave)]
    BY <1>1, <1>3, <2>1, SendKeepsPending
  <2>2. CASE ~CanSend(i) /\ roomRx' = roomRx
    BY <1>1, <2>2 DEF LeavePending
  <2> QED
    BY <1>10, <2>1, <2>2
<1>5. /\ \A q : OwnEvents(s, q)' = OwnEvents(s, q) /\ MemberTasks(s, q)' = MemberTasks(s, q)
      /\ \A j \in RoomTask : Member(s, j)' <=> Member(s, j)
  BY <1>1 DEF OwnEvents, Own, MemberTasks, Member
<1>6. \A q \in RoomId : LastTells(s, q)' /\ Alternate(s, q)' /\ Knows(s, q)'
  BY <1>1, <1>5 DEF Mirrors, LastTells, Alternate, Knows
<1>7. LeavesAll(s)'
  <2>1. ASSUME NEW j \in RoomTask, Member(s, j)
        PROVE  IsLeft(s, j)'
    <3>1. IsLeft(s, j) /\ room[j].id \in RoomId /\ CanSend(j)
      BY <1>1, <2>1, MembersAreServed DEF Mirrors, LeavesAll, CanSend, SignedInv, PlayerInv
    <3>2. CASE joinedRooms[s][room[j].id] = j /\ room[j].id = r
      BY <1>2, <1>4, <3>1, <3>2 DEF IsLeft
    <3>3. CASE joinedRooms[s][room[j].id] = j /\ room[j].id # r
      BY <1>1, <3>1, <3>3 DEF IsLeft
    <3>4. CASE LeavePending(s, j)
      BY <1>4, <3>4 DEF IsLeft
    <3>5. CASE LastIsJoin(s, OwnEvents(s, room[j].id))
      <4>1. LastIsJoin(s, OwnEvents(s, room[j].id))'
        BY <1>1, <3>5 DEF LastIsJoin, OwnEvents, Own
      <4> QED
        BY <4>1 DEF IsLeft
    <3> QED
      BY <3>1, <3>2, <3>3, <3>4, <3>5 DEF IsLeft
  <2> QED
    BY <1>5, <2>1 DEF LeavesAll
<1>8. HearsInside(s)'
  BY <1>1 DEF HearsInside
<1>9. RosterKnown(s)'
  BY <1>1, <1>5 DEF Mirrors, RosterKnown, KnowsRoster, RosterFrom, LeftBefore, Tells
<1> QED
  BY <1>6, <1>7, <1>8, <1>9 DEF Mirrors

\* It has just logged in.
LEMMA LogInMirrors ==
    ASSUME SignedInv, NEW s \in Session, LogIn(s)
    PROVE  Mirrors(s)'
<1>1. /\ pc[s] = "wait_login"
      /\ playerRx' = playerRx /\ room' = room /\ status' = status /\ joinedRooms' = joinedRooms
  BY DEF LogIn, LoginRequest, Admit, RefuseAlreadyLoggedIn, RefuseUnauthorized,
     roomVars, playerVars
<1>2. /\ playerRx'[s] = <<>>
      /\ \A r \in RoomId : joinedRooms'[s][r] = None
  BY <1>1 DEF SignedInv, ChannelsListen, LoggedIn
<1>3. \A i \in RoomTask : ~Member(s, i)'
  BY <1>1 DEF Member, IsJoined, SignedInv, PlayersAreSigned, SignedBy, Admitted
<1>4. \A r : OwnEvents(s, r)' = {} /\ MemberTasks(s, r)' = {}
  <2>1. DOMAIN playerRx'[s] = {}
    BY <1>2
  <2> QED
    BY <1>3, <2>1 DEF OwnEvents, MemberTasks
<1>5. \A r \in RoomId : LastTells(s, r)' /\ Alternate(s, r)' /\ Knows(s, r)'
  BY <1>2, <1>4, RoomTaskAssumption DEF LastTells, Alternate, Knows
<1>6. LeavesAll(s)' /\ RosterKnown(s)'
  BY <1>3 DEF LeavesAll, RosterKnown
<1>7. HearsInside(s)'
  <2>1. DOMAIN playerRx'[s] = {}
    BY <1>2
  <2> QED
    BY <2>1 DEF HearsInside
<1> QED
  BY <1>5, <1>6, <1>7 DEF Mirrors

-----------------------------------------------------------------------------
(* What the other actors do, and what changes nothing for s.               *)

\* A request looks up a room or makes an empty one.
LEMMA ClientMessageMirrors ==
    ASSUME SignedInv, NEW u \in Session, ClientMessage(u), NEW s \in Session, Mirrors(s)
    PROVE  Mirrors(s)'
<1>1. /\ UNCHANGED <<loginVars, joinedRooms>> /\ handler[u].at = "select"
      /\ roomRx' = roomRx /\ playerRx' = playerRx
  BY Zenon DEF ClientMessage, OnJoinRequest, OnLeaveRequest, OnLeaveRequestWithoutRoom,
     OnSendMessage, ReceivesRequest, AtSelect, GetOrCreateRoomChannel, SpawnRoom, roomVars
<1>2. handler'[s].at = "disconnect" <=> handler[s].at = "disconnect"
  <2>1. handler' = handler \/ \E r \in RoomId, i \in RoomTask : \E event : GoesToSend(u, r, i, event)
    BY Zenon DEF ClientMessage, OnJoinRequest, OnLeaveRequest, OnLeaveRequestWithoutRoom,
       OnSendMessage
  <2>2. handler' = handler \/ \E h : h.at = "send" /\ handler' = [handler EXCEPT ![u] = h]
    BY <2>1 DEF GoesToSend
  <2> QED
    BY <1>1, <2>2 DEF SignedInv, PlayerInv, PlayerTypeOK
<1>3. \A i \in RoomTask :
          /\ Member(s, i)' <=> Member(s, i)
          /\ Member(s, i) => room'[i] = room[i]
  <2>1. playerId' = playerId
    BY <1>1 DEF loginVars
  <2>2. CASE room' = room /\ status' = status
    BY <2>1, <2>2 DEF Member
  <2>3. ASSUME NEW r \in RoomId, NEW j \in RoomTask, NEW config \in RoomConfig,
               SpawnRoom(r, config, j)
        PROVE  \A i \in RoomTask :
                   /\ Member(s, i)' <=> Member(s, i)
                   /\ Member(s, i) => room'[i] = room[i]
    <3>1. /\ status[j] = "unborn"
          /\ DOMAIN room'[j].players = {}
          /\ \A i \in RoomTask : i # j => room'[i] = room[i] /\ status'[i] = status[i]
      BY <2>3 DEF SpawnRoom, NewRoom, SignedInv, PlayerInv, RoomInv, RoomTypeOK
    <3> QED
      BY <2>1, <3>1 DEF Member, IsJoined
  <2>4. \/ room' = room /\ status' = status
        \/ \E r \in RoomId, i \in RoomTask, config \in RoomConfig : SpawnRoom(r, config, i)
    BY DEF ClientMessage, OnJoinRequest, OnLeaveRequest, OnLeaveRequestWithoutRoom,
       OnSendMessage, GetOrCreateRoomChannel, roomVars
  <2> QED
    BY <2>2, <2>3, <2>4
<1>4. Undisturbed(s)
  BY <1>1, <1>2, <1>3 DEF Undisturbed, LeavePending, loginVars
<1> QED
  BY <1>4, UndisturbedMirrors

\* A send that succeeds or fails.
LEMMA SendEventMirrors ==
    ASSUME SignedInv, NEW u \in Session, SendEvent(u), NEW s \in Session, Mirrors(s)
    PROVE  Mirrors(s)'
<1>1. /\ room' = room /\ status' = status /\ playerRx' = playerRx
      /\ playerId' = playerId /\ joinedRooms' = joinedRooms
      /\ handler'[s].at = "disconnect" <=> handler[s].at = "disconnect"
  BY DEF SendEvent, SendToRoom, roomVars, loginVars, SignedInv, PlayerInv, PlayerTypeOK
<1>2. PICK i \in RoomTask, event \in InputEvent :
          i = handler[u].roomTx /\ event = handler[u].event
  BY EventOfSend DEF SignedInv
<1>3. roomRx' = roomRx \/ roomRx' = [roomRx EXCEPT ![i] = Append(@, event)]
  BY <1>2 DEF SendEvent, SendToRoom, roomVars
<1>4. \A j \in RoomTask : LeavePending(s, j) => LeavePending(s, j)'
  <2>1. CASE roomRx' = roomRx
    BY <1>1, <2>1 DEF LeavePending
  <2>2. CASE roomRx' = [roomRx EXCEPT ![i] = Append(@, event)]
    BY <1>1, <2>2, SendKeepsPending
  <2> QED
    BY <1>3, <2>1, <2>2
<1>5. Undisturbed(s)
  BY <1>1, <1>4 DEF Undisturbed, Member
<1> QED
  BY <1>5, UndisturbedMirrors

\* Another actor logs in, loses its connection, receives, leaves its rooms or ends.
LEMMA OtherActorMirrors ==
    ASSUME SignedInv, NEW u \in Session, NEW s \in Session, u # s, LoggedIn(s), Mirrors(s),
           \/ LogIn(u) \/ EndWithoutLogin(u) \/ OnRoomIsFull(u) \/ FinishSession(u)
           \/ OnOutputEvent(u) \/ OnClosed(u) \/ \E r \in RoomId : LeaveOnDisconnect(u, r)
    PROVE  Mirrors(s)'
<1>1. /\ playerId'[s] = playerId[s]
      /\ room' = room /\ status' = status
      /\ playerRx'[s] = playerRx[s] /\ joinedRooms'[s] = joinedRooms[s]
      /\ handler'[s] = handler[s]
  <2>1. CASE LogIn(u)
    BY <2>1 DEF LogIn, LoginRequest, Admit, RefuseAlreadyLoggedIn, RefuseUnauthorized, RefuseLogin,
       roomVars, playerVars, SignedInv, PlayerInv, LoginInv, LoginTypeOK
  <2>2. CASE EndWithoutLogin(u) \/ OnRoomIsFull(u) \/ FinishSession(u)
    BY <2>2 DEF EndWithoutLogin, OnRoomIsFull, FinishSession, PlayerStops, UnregisterRefused,
       GiveUpLogin, Panic, UnregisterPlayer, playerVars, SignedInv, PlayerInv, RoomInv, RoomTypeOK
  <2>3. CASE OnOutputEvent(u)
    BY <2>3 DEF OnOutputEvent, PlayerReceives, OnOwnJoin, OnJoinError, OnOwnLeave, Notify,
       loginVars, SignedInv, PlayerInv, PlayerTypeOK, RoomInv, RoomTypeOK
  <2>4. CASE OnClosed(u)
    BY <2>4 DEF OnClosed, roomVars, loginVars, SignedInv, PlayerInv, PlayerTypeOK
  <2>5. CASE \E r \in RoomId : LeaveOnDisconnect(u, r)
    BY <2>5 DEF LeaveOnDisconnect, SendToRoom, roomVars, loginVars,
       SignedInv, PlayerInv, PlayerTypeOK
  <2> QED
    BY <2>1, <2>2, <2>3, <2>4, <2>5
<1>2. \A j \in RoomTask : LeavePending(s, j) => LeavePending(s, j)'
  <2>1. CASE roomRx' = roomRx
    BY <1>1, <2>1 DEF LeavePending
  <2>2. ASSUME NEW i \in RoomTask, NEW event \in InputEvent,
               roomRx' = [roomRx EXCEPT ![i] = Append(@, event)]
        PROVE  \A j \in RoomTask : LeavePending(s, j) => LeavePending(s, j)'
    BY <1>1, <2>2, SendKeepsPending
  <2>3. \/ roomRx' = roomRx
        \/ \E i \in RoomTask, event \in InputEvent :
               roomRx' = [roomRx EXCEPT ![i] = Append(@, event)]
    <3>1. ASSUME NEW r \in RoomId, LeaveOnDisconnect(u, r), roomRx' # roomRx
          PROVE  \E i \in RoomTask, event \in InputEvent :
                     roomRx' = [roomRx EXCEPT ![i] = Append(@, event)]
      <4>1. joinedRooms[u][r] \in RoomTask /\ playerId[u] \in PlayerId
        BY <3>1 DEF LeaveOnDisconnect, SignedInv, PlayerInv, PlayerTypeOK, IdsAreKnown
      <4>2. [type |-> "Leave", playerId |-> playerId[u]] \in InputEvent
        BY <4>1 DEF InputEvent
      <4>3. roomRx' = [roomRx EXCEPT ![joinedRooms[u][r]] =
                           Append(@, [type |-> "Leave", playerId |-> playerId[u]])]
        BY <3>1 DEF LeaveOnDisconnect, SendToRoom, roomVars
      <4> QED
        BY <4>1, <4>2, <4>3
    <3>2. (\E r \in RoomId : LeaveOnDisconnect(u, r)) \/ roomRx' = roomRx
      BY DEF LogIn, EndWithoutLogin, OnRoomIsFull, FinishSession, OnOutputEvent, OnClosed,
         PlayerStops, PlayerReceives, roomVars
    <3> QED
      BY <3>1, <3>2
  <2> QED
    BY <2>1, <2>2, <2>3
<1>3. Undisturbed(s)
  BY <1>1, <1>2 DEF Undisturbed, Member
<1> QED
  BY <1>3, UndisturbedMirrors

-----------------------------------------------------------------------------
(* The inductive invariant, and what follows from it.                      *)

LEMMA InitImpliesMirrorInv == Init => MirrorInv
BY InitImpliesSignedInv DEF MirrorInv, Init, LoginInit, LoggedIn

LEMMA NextPreservesMirrorInv == MirrorInv /\ [Next]_vars => MirrorInv'
<1> SUFFICES ASSUME MirrorInv, [Next]_vars PROVE MirrorInv'
  OBVIOUS
<1>1. SignedInv /\ SignedInv' /\ [LoginNext]_loginVars
  BY NextPreservesSignedInv, StepOfLogins DEF MirrorInv
<1>2. ASSUME NEW s \in Session, LoggedIn(s)'
      PROVE  Mirrors(s)'
  <2>1. ASSUME NEW i \in RoomTask, RoomTaskStep(i)
        PROVE  Mirrors(s)'
    <3>1. LoggedIn(s)
      BY <1>2, <2>1 DEF RoomTaskStep, loginVars, LoggedIn
    <3> QED
      BY <1>1, <2>1, <3>1, RoomTaskStepMirrors DEF MirrorInv
  <2>2. ASSUME NEW u \in Session, LogIn(u)
        PROVE  Mirrors(s)'
    <3>1. CASE u = s
      BY <1>1, <2>2, <3>1, LogInMirrors
    <3>2. CASE u # s
      <4>1. LoggedIn(s)
        BY <1>2, <2>2, <3>2 DEF LogIn, LoginRequest, Admit, RefuseAlreadyLoggedIn,
           RefuseUnauthorized, RefuseLogin, LoggedIn, SignedInv, PlayerInv, LoginInv, LoginTypeOK,
           MirrorInv
      <4> QED
        BY <1>1, <2>2, <3>2, <4>1, OtherActorMirrors DEF MirrorInv
    <3> QED
      BY <3>1, <3>2
  <2>3. ASSUME NEW u \in Session, ClientMessage(u)
        PROVE  Mirrors(s)'
    <3>1. LoggedIn(s)
      BY <1>2, <2>3 DEF ClientMessage, OnJoinRequest, OnLeaveRequest, OnLeaveRequestWithoutRoom,
         OnSendMessage, loginVars, LoggedIn
    <3> QED
      BY <1>1, <2>3, <3>1, ClientMessageMirrors DEF MirrorInv
  <2>4. CASE (\E u \in Session : Drop(u)) \/ UNCHANGED vars
    <3>1. /\ LoggedIn(s) /\ playerId' = playerId
          /\ UNCHANGED <<roomVars, playerVars>>
      BY <1>2, <2>4 DEF Drop, Disconnect, LoggedIn, vars, loginVars
    <3>2. Undisturbed(s)
      BY <3>1 DEF Undisturbed, Member, LeavePending, roomVars, playerVars
    <3> QED
      BY <3>1, <3>2, UndisturbedMirrors DEF MirrorInv
  <2>5. ASSUME NEW u \in Session, EndWithoutLogin(u) \/ OnRoomIsFull(u) \/ FinishSession(u)
        PROVE  Mirrors(s)'
    <3>1. u # s /\ LoggedIn(s)
      BY <1>2, <2>5 DEF EndWithoutLogin, OnRoomIsFull, FinishSession, UnregisterRefused,
         GiveUpLogin, Panic, UnregisterPlayer, LoggedIn,
         MirrorInv, SignedInv, PlayerInv, LoginInv, LoginTypeOK
    <3> QED
      BY <1>1, <2>5, <3>1, OtherActorMirrors DEF MirrorInv
  <2>6. ASSUME NEW u \in Session,
               \/ SendEvent(u) \/ OnOutputEvent(u) \/ OnClosed(u)
               \/ \E r \in RoomId : LeaveOnDisconnect(u, r)
        PROVE  Mirrors(s)'
    <3>1. LoggedIn(s)
      BY <1>2, <2>6 DEF SendEvent, OnOutputEvent, OnClosed, LeaveOnDisconnect, loginVars, LoggedIn
    <3>2. Mirrors(s)
      BY <3>1 DEF MirrorInv
    <3>3. CASE SendEvent(u)
      BY <1>1, <3>2, <3>3, SendEventMirrors
    <3>4. CASE u # s /\ ~SendEvent(u)
      BY <1>1, <2>6, <3>1, <3>2, <3>4, OtherActorMirrors
    <3>5. CASE u = s /\ ~SendEvent(u)
      BY <1>1, <2>6, <3>2, <3>5, OnOutputEventMirrors, OnClosedMirrors, LeaveOnDisconnectMirrors
    <3> QED
      BY <3>3, <3>4, <3>5
  <2> QED
    BY <2>1, <2>2, <2>3, <2>4, <2>5, <2>6 DEF Next, ClientStep, PlayerTaskStep
<1> QED
  BY <1>1, <1>2 DEF MirrorInv

LEMMA MirrorInvImpliesMirror == MirrorInv => JoinedRoomsMirrorMembership
<1> SUFFICES ASSUME MirrorInv, NEW s \in Session, LoggedIn(s), handler[s].at # "disconnect",
                    NEW r \in RoomId
             PROVE  IF OwnEvents(s, r) = {}
                    THEN \A i \in RoomTask : joinedRooms[s][r] = i <=> i \in MemberTasks(s, r)
                    ELSE LastIsJoin(s, OwnEvents(s, r)) <=> MemberTasks(s, r) # {}
  BY DEF JoinedRoomsMirrorMembership
<1>1. CASE OwnEvents(s, r) = {}
  BY <1>1 DEF MirrorInv, Mirrors, Knows
<1>2. CASE OwnEvents(s, r) # {}
  <2>1. PICK k \in OwnEvents(s, r) :
            /\ \A l \in OwnEvents(s, r) : l <= k
            /\ playerRx[s][k].type = "Join" <=> MemberTasks(s, r) # {}
    BY <1>2 DEF MirrorInv, Mirrors, LastTells
  <2>2. OwnEvents(s, r) \subseteq Nat
    <3>1. playerRx[s] \in Seq(OutputEvent)
      BY DEF MirrorInv, SignedInv, PlayerInv, RoomInv, RoomTypeOK
    <3>2. DOMAIN playerRx[s] = 1..Len(playerRx[s]) /\ Len(playerRx[s]) \in Nat
      BY <3>1, LenProperties
    <3> QED
      BY <3>2 DEF OwnEvents
  <2>3. ASSUME NEW m \in OwnEvents(s, r), \A l \in OwnEvents(s, r) : l <= m
        PROVE  m = k
    BY <2>1, <2>2, <2>3
  <2> QED
    BY <1>2, <2>1, <2>3 DEF LastIsJoin
<1> QED
  BY <1>1, <1>2

LEMMA MirrorInvImpliesRoster == MirrorInv => RosterAddsUp
<1> SUFFICES ASSUME MirrorInv PROVE RosterAddsUp
  OBVIOUS
<1>1. ASSUME NEW s \in Session, NEW i \in RoomTask, Member(s, i),
             NEW k \in DOMAIN playerRx[s],
             Tells(s, k, "Join", room[i].id, playerId[s]),
             LeftBefore(s, room[i].id, playerId[s], k)
      PROVE  DOMAIN room[i].players = RosterFrom(s, room[i].id, k)
  <2>1. LoggedIn(s)
    BY <1>1 DEF MirrorInv, SignedInv, ChannelsListen
  <2> QED
    BY <1>1, <2>1 DEF MirrorInv, Mirrors, RosterKnown, KnowsRoster
<1>2. ASSUME NEW s \in Session, NEW i \in RoomTask, Member(s, i)
      PROVE  LET heard(k, type, id) == /\ playerRx[s][k].type = type
                                       /\ playerRx[s][k].roomId = room[i].id
                                       /\ playerRx[s][k].playerId = id
                 events == DOMAIN playerRx[s]
                 leaves(id) == {k \in events : heard(k, "Leave", id)}
                 ownJoins == {k \in events : heard(k, "Join", playerId[s])}
             IN  \A k \in ownJoins : (\A l \in leaves(playerId[s]) : l < k) =>
                     DOMAIN room[i].players =
                         {id \in playerRx[s][k].roomPlayerIds : \A l \in leaves(id) : l < k}
                             \cup {id \in PlayerId : \E j \in events :
                                        j > k /\ heard(j, "Join", id) /\ \A l \in leaves(id) : l < j}
  BY <1>1, <1>2 DEF Tells, LeftBefore, RosterFrom
<1> QED
  BY <1>2, Zenon DEF RosterAddsUp

\* The signatures, and what every session hears, believes and is, hold together in
\* every reachable state.
THEOREM MirrorInvInvariant == Spec => []MirrorInv
BY InitImpliesMirrorInv, NextPreservesMirrorInv, PTL DEF Spec

\* What an actor believes of its rooms is what they believe of it, up to the events that
\* wait in its channel: on_output_event keeps joined_rooms true, whatever the rooms, the
\* other players and the directory do in between.
THEOREM BeliefsMirrorRooms == Spec => []JoinedRoomsMirrorMembership
BY MirrorInvInvariant, MirrorInvImpliesMirror, PTL

\* The loop over joined_rooms after a disconnection misses no room whose Join the actor
\* had heard of: each has its Leave on the way, or is yet to be told.
THEOREM DisconnectedLeaveKnownRooms == Spec => []KnownRoomsAreLeft
<1>1. MirrorInv => KnownRoomsAreLeft
  BY DEF MirrorInv, Mirrors, LeavesAll, IsLeft, KnownRoomsAreLeft
<1> QED
  BY <1>1, MirrorInvInvariant, PTL

\* Whatever of a room waits in the channel of an actor happened while its player was in
\* the room; only the answers to a Join are heard from outside.
THEOREM OnlyMembersAlwaysHear == Spec => []OnlyMembersHear
<1>1. MirrorInv => OnlyMembersHear
  BY DEF MirrorInv, Mirrors, HearsInside, HeardInside, OwnBefore, OnlyMembersHear
<1> QED
  BY <1>1, MirrorInvInvariant, PTL

\* The players named by the Join that an actor gets, with the Joins and Leaves that follow
\* it in the channel, are the players of the room.
THEOREM RosterAlwaysAddsUp == Spec => []RosterAddsUp
BY MirrorInvInvariant, MirrorInvImpliesRoster, PTL

=============================================================================
