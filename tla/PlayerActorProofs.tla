-------------------------- MODULE PlayerActorProofs --------------------------
(***************************************************************************)
(* The player actors, as an environment of the room actors and of the      *)
(* logins, do only what those modules allow, for any number of sessions,   *)
(* rooms, tasks and messages.  So every theorem about RoomActor and Login  *)
(* holds of the composition.                                               *)
(*                                                                         *)
(* PlayerInv is the inductive invariant: the invariants of the two parts,  *)
(* the types, and that an actor that can address a room has an id to sign  *)
(* with.                                                                   *)
(***************************************************************************)
EXTENDS PlayerActor, RoomActorProofs, LoginProofs

\* The playerId of an actor past its login is an id.
IdsAreKnown ==
    \A s \in Session : LoggedIn(s) \/ handler[s].at # "select" => playerId[s] \in PlayerId

PlayerInv ==
    /\ RoomInv
    /\ LoginInv
    /\ PlayerTypeOK
    /\ IdsAreKnown

-----------------------------------------------------------------------------
(* Facts about handlers and events.                                        *)

LEMMA HandlerFields ==
    ASSUME NEW h \in Handler, h.at = "send"
    PROVE  h.roomId \in RoomId /\ h.roomTx \in RoomTask /\ h.event \in InputEvent
BY DEF Handler

LEMMA HandlerValues ==
    /\ [at |-> "select"] \in Handler
    /\ [at |-> "disconnect"] \in Handler
    /\ \A r \in RoomId, i \in RoomTask, event \in InputEvent :
           [at |-> "send", roomId |-> r, roomTx |-> i, event |-> event] \in Handler
BY DEF Handler

LEMMA OutputEventFields ==
    ASSUME NEW event \in OutputEvent
    PROVE  event.roomId \in RoomId
BY DEF OutputEvent

LEMMA HeadOfPlayerRx ==
    ASSUME RoomInv, NEW s \in Session, playerRx[s] # <<>>
    PROVE  Head(playerRx[s]) \in OutputEvent
<1>1. playerRx[s] \in Seq(OutputEvent)
  BY DEF RoomInv, RoomTypeOK
<1> QED
  BY <1>1, HeadTailProperties

\* A count of one room changed by an integer keeps its type.
LEMMA AnswersType ==
    ASSUME NEW owed \in [Session -> [RoomId -> Int]], NEW s \in Session, NEW r \in RoomId
    PROVE  /\ Answers(owed, s, r) \in [Session -> [RoomId -> Int]]
           /\ [owed EXCEPT ![s][r] = @ + 1] \in [Session -> [RoomId -> Int]]
BY DEF Answers

-----------------------------------------------------------------------------
(* What each kind of step does to the rooms.                               *)

LEMMA EventOfSend ==
    ASSUME PlayerInv, NEW s \in Session, SendEvent(s)
    PROVE  /\ handler[s].roomId \in RoomId
           /\ handler[s].roomTx \in RoomTask
           /\ handler[s].event \in InputEvent
<1>1. handler[s] \in Handler /\ handler[s].at = "send"
  BY DEF PlayerInv, PlayerTypeOK, SendEvent
<1> QED
  BY <1>1, HandlerFields

LEMMA StepOfRooms == PlayerInv /\ [Next]_vars => [RoomNext]_roomVars
<1> SUFFICES ASSUME PlayerInv, [Next]_vars PROVE [RoomNext]_roomVars
  OBVIOUS
<1>1. ASSUME NEW i \in RoomTask, RoomTaskStep(i)
      PROVE  [RoomNext]_roomVars
  BY <1>1 DEF RoomTaskStep, RoomNext
<1>2. ASSUME NEW s \in Session, LogIn(s) \/ Drop(s)
      PROVE  [RoomNext]_roomVars
  BY <1>2 DEF LogIn, Drop
<1>3. ASSUME NEW s \in Session, EndWithoutLogin(s) \/ OnRoomIsFull(s) \/ FinishSession(s)
      PROVE  [RoomNext]_roomVars
  BY <1>3 DEF EndWithoutLogin, OnRoomIsFull, FinishSession, RoomNext
<1>4. ASSUME NEW s \in Session, ClientMessage(s)
      PROVE  [RoomNext]_roomVars
  <2>1. ASSUME NEW r \in RoomId, NEW i \in RoomTask, NEW config \in RoomConfig,
               OnJoinRequest(s, r, config, i)
        PROVE  [RoomNext]_roomVars
    BY <2>1 DEF OnJoinRequest, RoomNext
  <2>2. ASSUME NEW r \in RoomId, NEW i \in RoomTask,
               \/ OnLeaveRequest(s, r, i)
               \/ \E targets \in TargetIds, body \in Body : OnSendMessage(s, r, i, targets, body)
        PROVE  [RoomNext]_roomVars
    BY <2>2 DEF OnLeaveRequest, OnSendMessage
  <2>3. ASSUME NEW r \in RoomId, OnLeaveRequestWithoutRoom(s, r)
        PROVE  [RoomNext]_roomVars
    BY <2>3 DEF OnLeaveRequestWithoutRoom
  <2> QED
    BY <1>4, <2>1, <2>2, <2>3 DEF ClientMessage
<1>5. ASSUME NEW s \in Session, SendEvent(s)
      PROVE  [RoomNext]_roomVars
  <2>1. handler[s].roomTx \in RoomTask /\ handler[s].event \in InputEvent
    BY <1>5, EventOfSend
  <2> QED
    BY <1>5, <2>1 DEF SendEvent, RoomNext
<1>6. ASSUME NEW s \in Session, OnOutputEvent(s)
      PROVE  [RoomNext]_roomVars
  BY <1>6 DEF OnOutputEvent, RoomNext
<1>7. ASSUME NEW s \in Session, OnClosed(s)
      PROVE  [RoomNext]_roomVars
  BY <1>7 DEF OnClosed
<1>8. ASSUME NEW s \in Session, NEW r \in RoomId, LeaveOnDisconnect(s, r)
      PROVE  [RoomNext]_roomVars
  <2>1. joinedRooms[s][r] \in RoomTask
    BY <1>8 DEF PlayerInv, PlayerTypeOK, LeaveOnDisconnect
  <2>2. playerId[s] \in PlayerId
    BY <1>8 DEF PlayerInv, IdsAreKnown, LeaveOnDisconnect
  <2>3. [type |-> "Leave", playerId |-> playerId[s]] \in InputEvent
    BY <2>2 DEF InputEvent
  <2> QED
    BY <1>8, <2>1, <2>3 DEF LeaveOnDisconnect, RoomNext
<1>9. CASE UNCHANGED vars
  BY <1>9 DEF vars
<1> QED
  BY <1>1, <1>2, <1>3, <1>4, <1>5, <1>6, <1>7, <1>8, <1>9
  DEF Next, ClientStep, PlayerTaskStep

-----------------------------------------------------------------------------
(* What each kind of step does to the logins; no invariant is needed.      *)

LEMMA StepOfLogins == [Next]_vars => [LoginNext]_loginVars
<1> SUFFICES ASSUME [Next]_vars PROVE [LoginNext]_loginVars
  OBVIOUS
<1>1. ASSUME NEW i \in RoomTask, RoomTaskStep(i)
      PROVE  [LoginNext]_loginVars
  BY <1>1 DEF RoomTaskStep
<1>2. ASSUME NEW s \in Session, LogIn(s) \/ Drop(s)
      PROVE  [LoginNext]_loginVars
  BY <1>2 DEF LogIn, Drop, LoginNext
<1>3. ASSUME NEW s \in Session, EndWithoutLogin(s) \/ OnRoomIsFull(s) \/ FinishSession(s)
      PROVE  [LoginNext]_loginVars
  BY <1>3 DEF EndWithoutLogin, OnRoomIsFull, FinishSession, LoginNext
<1>4. ASSUME NEW s \in Session, ClientMessage(s)
      PROVE  [LoginNext]_loginVars
  BY <1>4 DEF ClientMessage, OnJoinRequest, OnLeaveRequest, OnSendMessage,
     OnLeaveRequestWithoutRoom
<1>5. ASSUME NEW s \in Session,
             \/ SendEvent(s) \/ OnOutputEvent(s) \/ OnClosed(s)
             \/ \E r \in RoomId : LeaveOnDisconnect(s, r)
      PROVE  [LoginNext]_loginVars
  BY <1>5 DEF SendEvent, OnOutputEvent, OnClosed, LeaveOnDisconnect
<1>6. CASE UNCHANGED vars
  BY <1>6 DEF vars
<1> QED
  BY <1>1, <1>2, <1>3, <1>4, <1>5, <1>6 DEF Next, ClientStep, PlayerTaskStep

-----------------------------------------------------------------------------
(* The types and the ids.                                                  *)

\* The login gives an actor its id once and for all.
LEMMA IdsStayKnown ==
    ASSUME LoginInv, [LoginNext]_loginVars
    PROVE  \A s \in Session :
               /\ playerId[s] \in PlayerId => playerId'[s] \in PlayerId
               /\ LoggedIn(s)' /\ ~LoggedIn(s) => playerId'[s] \in PlayerId
<1> SUFFICES ASSUME NEW s \in Session
             PROVE  /\ playerId[s] \in PlayerId => playerId'[s] \in PlayerId
                    /\ LoggedIn(s)' /\ ~LoggedIn(s) => playerId'[s] \in PlayerId
  OBVIOUS
<1>1. ASSUME NEW u \in Session, LoginRequest(u)
      PROVE  /\ playerId[s] \in PlayerId => playerId'[s] \in PlayerId
             /\ LoggedIn(s)' /\ ~LoggedIn(s) => playerId'[s] \in PlayerId
  BY <1>1 DEF LoginRequest, Admit, RefuseAlreadyLoggedIn, RefuseUnauthorized, RefuseLogin,
     LoggedIn, LoginInv, LoginTypeOK
<1>2. ASSUME NEW u \in Session,
             \/ Disconnect(u) \/ UnregisterRefused(u) \/ GiveUpLogin(u)
             \/ UnregisterPlayer(u) \/ Panic(u)
      PROVE  playerId' = playerId /\ (LoggedIn(s)' => LoggedIn(s))
  BY <1>2 DEF Disconnect, UnregisterRefused, GiveUpLogin, UnregisterPlayer, Panic,
     LoggedIn, LoginInv, LoginTypeOK
<1>3. CASE UNCHANGED loginVars
  BY <1>3 DEF loginVars, LoggedIn
<1> QED
  BY <1>1, <1>2, <1>3 DEF LoginNext

\* The types of an actor that has received a client message.
LEMMA ClientMessageTypes ==
    ASSUME PlayerInv, NEW s \in Session, ClientMessage(s)
    PROVE  PlayerTypeOK' /\ LoggedIn(s)
           /\ \A t \in Session : t # s => handler'[t] = handler[t]
<1>1. /\ LoggedIn(s) /\ requests' \in 0..MaxRequests
      /\ playerId[s] \in PlayerId
  <2>1. ReceivesRequest(s)
    BY Zenon DEF ClientMessage, OnJoinRequest, OnLeaveRequest, OnLeaveRequestWithoutRoom,
       OnSendMessage
  <2> QED
    BY <2>1, MaxRequestsAssumption
    DEF ReceivesRequest, AtSelect, PlayerInv, PlayerTypeOK, IdsAreKnown
<1>2. ASSUME NEW r \in RoomId, NEW i \in RoomTask, NEW event \in InputEvent,
             GoesToSend(s, r, i, event)
      PROVE  /\ handler' \in [Session -> Handler]
             /\ \A t \in Session : t # s => handler'[t] = handler[t]
  BY <1>2, HandlerValues DEF GoesToSend, PlayerInv, PlayerTypeOK
<1>3. ASSUME NEW r \in RoomId, NEW i \in RoomTask, NEW config \in RoomConfig,
             OnJoinRequest(s, r, config, i)
      PROVE  PlayerTypeOK' /\ \A t \in Session : t # s => handler'[t] = handler[t]
  <2>1. [type |-> "Join", config |-> config,
         player |-> [id |-> playerId[s], sender |-> s]] \in InputEvent
    BY <1>1 DEF InputEvent, Player
  <2>2. joinsOwed' \in [Session -> [RoomId -> Int]]
    BY <1>3 DEF OnJoinRequest, PlayerInv, PlayerTypeOK
  <2> QED
    BY <1>1, <1>2, <1>3, <2>1, <2>2 DEF OnJoinRequest, PlayerInv, PlayerTypeOK
<1>4. ASSUME NEW r \in RoomId, NEW i \in RoomTask, OnLeaveRequest(s, r, i)
      PROVE  PlayerTypeOK' /\ \A t \in Session : t # s => handler'[t] = handler[t]
  <2>1. [type |-> "Leave", playerId |-> playerId[s]] \in InputEvent
    BY <1>1 DEF InputEvent
  <2>2. leavesOwed' \in [Session -> [RoomId -> Int]]
    BY <1>4 DEF OnLeaveRequest, PlayerInv, PlayerTypeOK
  <2> QED
    BY <1>1, <1>2, <1>4, <2>1, <2>2 DEF OnLeaveRequest, PlayerInv, PlayerTypeOK
<1>5. ASSUME NEW r \in RoomId, NEW i \in RoomTask, NEW targets \in TargetIds, NEW body \in Body,
             OnSendMessage(s, r, i, targets, body)
      PROVE  PlayerTypeOK' /\ \A t \in Session : t # s => handler'[t] = handler[t]
  <2>1. [type |-> "Message", sender |-> playerId[s], targets |-> targets, body |-> body]
            \in InputEvent
    BY <1>1 DEF InputEvent
  <2> QED
    BY <1>1, <1>2, <1>5, <2>1 DEF OnSendMessage, PlayerInv, PlayerTypeOK
<1>6. ASSUME NEW r \in RoomId, OnLeaveRequestWithoutRoom(s, r)
      PROVE  PlayerTypeOK' /\ \A t \in Session : t # s => handler'[t] = handler[t]
  BY <1>1, <1>6 DEF OnLeaveRequestWithoutRoom, PlayerInv, PlayerTypeOK
<1>7. CASE \E r \in RoomId, i \in RoomTask :
               \/ \E config \in RoomConfig : OnJoinRequest(s, r, config, i)
               \/ OnLeaveRequest(s, r, i)
               \/ \E targets \in TargetIds, body \in Body : OnSendMessage(s, r, i, targets, body)
  <2>1. PICK r \in RoomId, i \in RoomTask :
            \/ \E config \in RoomConfig : OnJoinRequest(s, r, config, i)
            \/ OnLeaveRequest(s, r, i)
            \/ \E targets \in TargetIds, body \in Body : OnSendMessage(s, r, i, targets, body)
    BY <1>7
  <2> QED
    BY <1>1, <1>3, <1>4, <1>5, <2>1
<1> QED
  BY <1>1, <1>6, <1>7 DEF ClientMessage

\* The types of an actor that has taken a step by itself.
LEMMA PlayerTaskStepTypes ==
    ASSUME PlayerInv, NEW s \in Session, PlayerTaskStep(s)
    PROVE  /\ PlayerTypeOK'
           /\ \A t \in Session :
                  handler'[t].at # "select" => LoggedIn(t) \/ handler[t].at # "select"
<1>1. ASSUME SendEvent(s)
      PROVE  /\ PlayerTypeOK'
             /\ \A t \in Session : handler'[t].at # "select" => handler[t].at # "select"
  <2>1. handler[s].roomId \in RoomId
    BY <1>1, EventOfSend
  <2>2. joinsOwed' \in [Session -> [RoomId -> Int]]
    BY <1>1, <2>1 DEF SendEvent, Answers, PlayerInv, PlayerTypeOK
  <2>3. /\ handler' \in [Session -> Handler]
        /\ handler'[s].at = "select"
        /\ \A t \in Session : t # s => handler'[t] = handler[t]
    BY <1>1, HandlerValues DEF SendEvent, PlayerInv, PlayerTypeOK
  <2> QED
    BY <1>1, <2>2, <2>3 DEF SendEvent, PlayerInv, PlayerTypeOK
<1>2. ASSUME OnOutputEvent(s)
      PROVE  PlayerTypeOK' /\ handler' = handler
  <2>1. PICK event \in OutputEvent :
            /\ event.roomId \in RoomId
            /\ OnOwnJoin(s, event) \/ OnJoinError(s, event) \/ OnOwnLeave(s, event) \/ Notify(s, event)
    BY <1>2, HeadOfPlayerRx, OutputEventFields DEF OnOutputEvent, PlayerReceives, PlayerInv
  <2>2. PICK r \in RoomId : r = event.roomId
    BY <2>1
  <2>3. /\ joinsOwed' \in {joinsOwed, Answers(joinsOwed, s, r)}
        /\ leavesOwed' \in {leavesOwed, Answers(leavesOwed, s, r)}
    BY <2>1, <2>2 DEF OnOwnJoin, OnJoinError, OnOwnLeave, Notify
  <2>4. /\ joinsOwed' \in [Session -> [RoomId -> Int]]
        /\ leavesOwed' \in [Session -> [RoomId -> Int]]
    <3>1. /\ joinsOwed \in [Session -> [RoomId -> Int]]
          /\ leavesOwed \in [Session -> [RoomId -> Int]]
      BY DEF PlayerInv, PlayerTypeOK
    <3>2. /\ Answers(joinsOwed, s, r) \in [Session -> [RoomId -> Int]]
          /\ Answers(leavesOwed, s, r) \in [Session -> [RoomId -> Int]]
      BY <3>1, AnswersType
    <3> QED
      BY <2>3, <3>1, <3>2
  <2>5. joinedRooms' \in [Session -> [RoomId -> RoomTask \cup {None}]]
    <3>1. /\ joinedRooms \in [Session -> [RoomId -> RoomTask \cup {None}]]
          /\ roomChannels[r] \in RoomTask \cup {None}
      BY DEF PlayerInv, PlayerTypeOK, RoomInv, RoomTypeOK
    <3>2. \/ joinedRooms' = joinedRooms
          \/ joinedRooms' = [joinedRooms EXCEPT ![s][r] = roomChannels[r]]
          \/ joinedRooms' = [joinedRooms EXCEPT ![s][r] = None]
      BY <2>1, <2>2 DEF OnOwnJoin, OnJoinError, OnOwnLeave, Notify
    <3> QED
      BY <3>1, <3>2
  <2> QED
    BY <1>2, <2>4, <2>5 DEF OnOutputEvent, PlayerInv, PlayerTypeOK
<1>3. ASSUME OnRoomIsFull(s) \/ FinishSession(s)
      PROVE  PlayerTypeOK' /\ handler' = handler
  BY <1>3 DEF OnRoomIsFull, FinishSession, playerVars, PlayerInv, PlayerTypeOK
<1>4. ASSUME OnClosed(s)
      PROVE  /\ PlayerTypeOK' /\ LoggedIn(s)
             /\ \A t \in Session : t # s => handler'[t] = handler[t]
  <2>1. handler' \in [Session -> Handler] /\ \A t \in Session : t # s => handler'[t] = handler[t]
    BY <1>4, HandlerValues DEF OnClosed, PlayerInv, PlayerTypeOK
  <2> QED
    BY <1>4, <2>1 DEF OnClosed, AtSelect, PlayerInv, PlayerTypeOK
<1>5. ASSUME NEW r \in RoomId, LeaveOnDisconnect(s, r)
      PROVE  PlayerTypeOK' /\ handler' = handler
  BY <1>5 DEF LeaveOnDisconnect, PlayerInv, PlayerTypeOK
<1> QED
  BY <1>1, <1>2, <1>3, <1>4, <1>5 DEF PlayerTaskStep

\* The types and the guard of the ids under any step.
LEMMA StepOfTypes ==
    ASSUME PlayerInv, [Next]_vars
    PROVE  /\ PlayerTypeOK'
           /\ \A t \in Session :
                  handler'[t].at # "select" => LoggedIn(t) \/ handler[t].at # "select"
<1>1. ASSUME NEW s \in Session, ClientMessage(s)
      PROVE  /\ PlayerTypeOK'
             /\ \A t \in Session :
                    handler'[t].at # "select" => LoggedIn(t) \/ handler[t].at # "select"
  BY <1>1, ClientMessageTypes
<1>2. CASE UNCHANGED playerVars
  BY <1>2 DEF playerVars, PlayerInv, PlayerTypeOK
<1>3. ASSUME NEW s \in Session, LogIn(s) \/ Drop(s) \/ EndWithoutLogin(s)
      PROVE  UNCHANGED playerVars
  BY <1>3 DEF LogIn, Drop, EndWithoutLogin
<1>4. ASSUME NEW i \in RoomTask, RoomTaskStep(i)
      PROVE  UNCHANGED playerVars
  BY <1>4 DEF RoomTaskStep
<1>5. ASSUME UNCHANGED vars
      PROVE  UNCHANGED playerVars
  BY <1>5 DEF vars
<1> QED
  BY <1>1, <1>2, <1>3, <1>4, <1>5, PlayerTaskStepTypes DEF Next, ClientStep

-----------------------------------------------------------------------------
(* The invariant and the theorems.                                         *)

LEMMA InitImpliesPlayerInv == Init => PlayerInv
<1> SUFFICES ASSUME Init PROVE PlayerInv
  OBVIOUS
<1>1. RoomInv /\ LoginInv
  BY RoomInitImpliesRoomInv, LoginInitImpliesLoginInv DEF Init
<1>2. PlayerTypeOK
  BY HandlerValues, MaxRequestsAssumption DEF Init, PlayerInit, PlayerTypeOK
<1>3. IdsAreKnown
  BY DEF Init, PlayerInit, LoginInit, IdsAreKnown, LoggedIn
<1> QED
  BY <1>1, <1>2, <1>3 DEF PlayerInv

LEMMA NextPreservesPlayerInv == PlayerInv /\ [Next]_vars => PlayerInv'
<1> SUFFICES ASSUME PlayerInv, [Next]_vars PROVE PlayerInv'
  OBVIOUS
<1>1. [RoomNext]_roomVars /\ [LoginNext]_loginVars
  BY StepOfRooms, StepOfLogins
<1>2. RoomInv' /\ LoginInv'
  BY <1>1, RoomNextPreservesRoomInv, LoginNextPreservesLoginInv DEF PlayerInv
<1>3. /\ PlayerTypeOK'
      /\ \A t \in Session :
             handler'[t].at # "select" => LoggedIn(t) \/ handler[t].at # "select"
  BY StepOfTypes
<1>4. \A t \in Session :
          /\ playerId[t] \in PlayerId => playerId'[t] \in PlayerId
          /\ LoggedIn(t)' /\ ~LoggedIn(t) => playerId'[t] \in PlayerId
  BY <1>1, IdsStayKnown DEF PlayerInv
<1>5. IdsAreKnown'
  BY <1>3, <1>4 DEF PlayerInv, IdsAreKnown
<1> QED
  BY <1>2, <1>3, <1>5 DEF PlayerInv

THEOREM PlayerInvInvariant == Spec => []PlayerInv
BY InitImpliesPlayerInv, NextPreservesPlayerInv, PTL DEF Spec

\* The state of player actors, rooms and logins always has its type: what an actor
\* carries to a room is an event of that room, what it keeps in joined_rooms a handle.
THEOREM PlayerActorTypeCorrect == Spec => []TypeOK
<1>1. PlayerInv => TypeOK
  BY DEF PlayerInv, RoomInv, LoginInv, TypeOK
<1> QED
  BY <1>1, PlayerInvInvariant, PTL

\* The player actors use the directory and the channels only in the ways RoomActor
\* allows its environment: what is proved of RoomActor holds of the composition.
THEOREM PlayerActorsUseRoomActors == Spec => RoomActorSpec
<1>1. Init => RoomInit
  BY DEF Init
<1>2. PlayerInv /\ [Next]_vars => [RoomNext]_roomVars
  BY StepOfRooms
<1> QED
  BY <1>1, <1>2, PlayerInvInvariant, PTL DEF Spec, RoomActorSpec

\* The player actors log in and out only in the ways Login allows: what is proved of
\* Login holds of the composition.
THEOREM PlayerActorsUseLogin == Spec => LoginSpec
<1>1. Init => LoginInit
  BY DEF Init
<1>2. [Next]_vars => [LoginNext]_loginVars
  BY StepOfLogins
<1> QED
  BY <1>1, <1>2, PTL DEF Spec, LoginSpec

=============================================================================
