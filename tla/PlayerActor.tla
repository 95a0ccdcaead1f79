---------------------------- MODULE PlayerActor ----------------------------
(***************************************************************************)
(* The player actors (src/src/actor/player.rs) at work with the room       *)
(* actors: the loop of Player::new, on_client_message, on_output_event and *)
(* the clean-up after a disconnection.  The rooms are those of RoomActor   *)
(* and the logins those of Login, whose environments this module replaces. *)
(*                                                                         *)
(* What a client sends is taken when the actor receives it, which may be   *)
(* long after it was sent and even after the disconnection.  What the      *)
(* actor answers is kept as the number of answers it owes.                 *)
(***************************************************************************)
EXTENDS RoomActor, Login

CONSTANT MaxRequests   \* bound on the client messages the actors receive after login

ASSUME MaxRequestsAssumption == MaxRequests \in Nat

VARIABLES
    handler,      \* what the actor is doing: waiting in select!, about to send an
                  \* event to the room channel it has looked up, or leaving its rooms
    joinedRooms,  \* joined_rooms: room id -> handle, or None
    requests,     \* how many client messages the actors have received after login
    joinsOwed,    \* JoinRequests received less JoinResponses sent, per room id
    leavesOwed    \* LeaveRequests received less LeaveResponses sent, per room id

playerVars == <<handler, joinedRooms, requests, joinsOwed, leavesOwed>>

vars == <<roomVars, loginVars, playerVars>>

Handler ==
    [at : {"select", "disconnect"}]
        \cup [at : {"send"}, roomId : RoomId, roomTx : RoomTask, event : InputEvent]

PlayerTypeOK ==
    /\ handler \in [Session -> Handler]
    /\ joinedRooms \in [Session -> [RoomId -> RoomTask \cup {None}]]
    /\ requests \in 0..MaxRequests
    /\ joinsOwed \in [Session -> [RoomId -> Int]]
    /\ leavesOwed \in [Session -> [RoomId -> Int]]

TypeOK == RoomTypeOK /\ LoginTypeOK /\ PlayerTypeOK

PlayerInit ==
    /\ handler = [s \in Session |-> [at |-> "select"]]
    /\ joinedRooms = [s \in Session |-> [r \in RoomId |-> None]]
    /\ requests = 0
    /\ joinsOwed = [s \in Session |-> [r \in RoomId |-> 0]]
    /\ leavesOwed = [s \in Session |-> [r \in RoomId |-> 0]]

Init == RoomInit /\ LoginInit /\ PlayerInit

-----------------------------------------------------------------------------
(* Before the login and after a failed one.                                *)

Drop(s) == Disconnect(s) /\ UNCHANGED <<roomVars, playerVars>>

LogIn(s) == LoginRequest(s) /\ UNCHANGED <<roomVars, playerVars>>

\* wait_login has returned None: the actor ends before its loop.
EndWithoutLogin(s) ==
    /\ UnregisterRefused(s) \/ GiveUpLogin(s)
    /\ PlayerStops(s)
    /\ UNCHANGED playerVars

-----------------------------------------------------------------------------
(* on_client_message.  The room channel is looked up in one step and used  *)
(* in a later one: the lock is released in between.                        *)

AtSelect(s) == LoggedIn(s) /\ handler[s].at = "select"

ReceivesRequest(s) ==
    /\ AtSelect(s)
    /\ requests < MaxRequests
    /\ requests' = requests + 1

GoesToSend(s, r, i, event) ==
    handler' = [handler EXCEPT ![s] =
        [at |-> "send", roomId |-> r, roomTx |-> i, event |-> event]]

\* Variant: a Join makes its room without looking whether there is one.
OnJoinRequestSpawns(s, r, config, i) ==
    /\ ReceivesRequest(s)
    /\ SpawnRoom(r, config, i)
    /\ GoesToSend(s, r, i, [type |-> "Join", config |-> config,
                            player |-> [id |-> playerId[s], sender |-> s]])
    /\ joinsOwed' = [joinsOwed EXCEPT ![s][r] = @ + 1]
    /\ UNCHANGED <<loginVars, joinedRooms, leavesOwed>>

\* A JoinRequest without a config joins with DefaultConfig, one of RoomConfig.
OnJoinRequest(s, r, config, i) ==
    /\ ReceivesRequest(s)
    /\ GetOrCreateRoomChannel(r, config, i)
    /\ GoesToSend(s, r, i, [type |-> "Join", config |-> config,
                            player |-> [id |-> playerId[s], sender |-> s]])
    /\ joinsOwed' = [joinsOwed EXCEPT ![s][r] = @ + 1]
    /\ UNCHANGED <<loginVars, joinedRooms, leavesOwed>>

OnLeaveRequest(s, r, i) ==
    /\ ReceivesRequest(s)
    /\ GetRoomChannel(r, i)
    /\ GoesToSend(s, r, i, [type |-> "Leave", playerId |-> playerId[s]])
    /\ leavesOwed' = [leavesOwed EXCEPT ![s][r] = @ + 1]
    /\ UNCHANGED <<roomVars, loginVars, joinedRooms, joinsOwed>>

\* The room does not exist: FailedPrecondition is the answer, at once.
OnLeaveRequestWithoutRoom(s, r) ==
    /\ ReceivesRequest(s)
    /\ roomChannels[r] = None
    /\ UNCHANGED <<roomVars, loginVars, handler, joinedRooms, joinsOwed, leavesOwed>>

OnSendMessage(s, r, i, targets, body) ==
    /\ ReceivesRequest(s)
    /\ GetRoomChannel(r, i)
    /\ GoesToSend(s, r, i, [type |-> "Message", sender |-> playerId[s],
                            targets |-> targets, body |-> body])
    /\ UNCHANGED <<roomVars, loginVars, joinedRooms, joinsOwed, leavesOwed>>

Answers(owed, s, r) == [owed EXCEPT ![s][r] = @ - 1]

\* Variant: a Join that cannot be sent is forgotten as well.
SendOrForget(s) ==
    /\ LoggedIn(s) /\ handler[s].at = "send"
    /\ IF CanSend(handler[s].roomTx)
       THEN SendToRoom(handler[s].roomTx, handler[s].event) ELSE UNCHANGED roomVars
    /\ handler' = [handler EXCEPT ![s] = [at |-> "select"]]
    /\ UNCHANGED <<loginVars, joinedRooms, requests, joinsOwed, leavesOwed>>

\* room_tx.send.  A Join that cannot be sent is answered with RoomNotFound; a Leave
\* or a Message that cannot be sent is forgotten.
SendEvent(s) ==
    /\ LoggedIn(s) /\ handler[s].at = "send"
    /\ \/ /\ SendToRoom(handler[s].roomTx, handler[s].event)
          /\ UNCHANGED joinsOwed
       \/ /\ ~CanSend(handler[s].roomTx)
          /\ joinsOwed' = IF handler[s].event.type = "Join"
                          THEN Answers(joinsOwed, s, handler[s].roomId) ELSE joinsOwed
          /\ UNCHANGED roomVars
    /\ handler' = [handler EXCEPT ![s] = [at |-> "select"]]
    /\ UNCHANGED <<loginVars, joinedRooms, requests, leavesOwed>>

ClientMessage(s) ==
    \/ \E r \in RoomId, i \in RoomTask :
           \/ \E config \in RoomConfig : OnJoinRequest(s, r, config, i)
           \/ OnLeaveRequest(s, r, i)
           \/ \E targets \in TargetIds, body \in Body : OnSendMessage(s, r, i, targets, body)
    \/ \E r \in RoomId : OnLeaveRequestWithoutRoom(s, r)

-----------------------------------------------------------------------------
(* on_output_event: receiving, the lookup and what follows it in one step, *)
(* since only the lookup touches what other tasks see.                     *)

Own(s, event) == event.type \in {"Join", "Leave"} /\ event.playerId = playerId[s]

\* The handle kept is the one the directory has by now.  If the room is gone already
\* the answer is RoomNotFound.
OnOwnJoin(s, event) ==
    /\ event.type = "Join" /\ Own(s, event)
    /\ joinedRooms' = IF roomChannels[event.roomId] = None THEN joinedRooms
                      ELSE [joinedRooms EXCEPT ![s][event.roomId] = roomChannels[event.roomId]]
    /\ joinsOwed' = Answers(joinsOwed, s, event.roomId)
    /\ UNCHANGED leavesOwed

OnJoinError(s, event) ==
    /\ event.type = "JoinError" /\ event.error # "RoomIsFull"
    /\ joinsOwed' = Answers(joinsOwed, s, event.roomId)
    /\ UNCHANGED <<joinedRooms, leavesOwed>>

\* Variant: a Leave is taken for the player's own whoever has left.
ForgetOnAnyLeave(s, event) ==
    /\ event.type = "Leave"
    /\ joinedRooms' = [joinedRooms EXCEPT ![s][event.roomId] = None]
    /\ leavesOwed' = IF Own(s, event) THEN Answers(leavesOwed, s, event.roomId) ELSE leavesOwed
    /\ UNCHANGED joinsOwed

OnOwnLeave(s, event) ==
    /\ event.type = "Leave" /\ Own(s, event)
    /\ joinedRooms' = [joinedRooms EXCEPT ![s][event.roomId] = None]
    /\ leavesOwed' = Answers(leavesOwed, s, event.roomId)
    /\ UNCHANGED joinsOwed

\* JoinNotification, LeaveNotification, MessageNotification.
Notify(s, event) ==
    /\ event.type # "JoinError" /\ ~Own(s, event)
    /\ UNCHANGED <<joinedRooms, joinsOwed, leavesOwed>>

OnOutputEvent(s) ==
    LET event == Head(playerRx[s])
    IN  /\ AtSelect(s)
        /\ PlayerReceives(s)
        /\ \/ OnOwnJoin(s, event)
           \/ OnJoinError(s, event)
           \/ OnOwnLeave(s, event)
           \/ Notify(s, event)
        /\ UNCHANGED <<loginVars, handler, requests>>

\* The unreachable! that a RoomIsFull reaches.
OnRoomIsFull(s) ==
    /\ AtSelect(s)
    /\ playerRx[s] # <<>>
    /\ Head(playerRx[s]).type = "JoinError" /\ Head(playerRx[s]).error = "RoomIsFull"
    /\ Panic(s)
    /\ PlayerStops(s)
    /\ UNCHANGED playerVars

-----------------------------------------------------------------------------
(* The closed branch of select!.                                           *)

\* Variant: joined_rooms is cleared before the loop over it.
ForgetOnClosed(s) ==
    /\ AtSelect(s)
    /\ ~connected[s]
    /\ handler' = [handler EXCEPT ![s] = [at |-> "disconnect"]]
    /\ joinedRooms' = [joinedRooms EXCEPT ![s] = [r \in RoomId |-> None]]
    /\ UNCHANGED <<roomVars, loginVars, requests, joinsOwed, leavesOwed>>

\* Variant: a handler that is still at work is cancelled by the disconnection.
CancelOnClosed(s) ==
    /\ LoggedIn(s) /\ handler[s].at \in {"select", "send"}
    /\ ~connected[s]
    /\ handler' = [handler EXCEPT ![s] = [at |-> "disconnect"]]
    /\ UNCHANGED <<roomVars, loginVars, joinedRooms, requests, joinsOwed, leavesOwed>>

OnClosed(s) ==
    /\ AtSelect(s)
    /\ ~connected[s]
    /\ handler' = [handler EXCEPT ![s] = [at |-> "disconnect"]]
    /\ UNCHANGED <<roomVars, loginVars, joinedRooms, requests, joinsOwed, leavesOwed>>

\* Variant: the loop insists on sending and so waits for a room that is gone.
LeaveInsists(s, r) ==
    /\ handler[s].at = "disconnect"
    /\ joinedRooms[s][r] # None
    /\ SendToRoom(joinedRooms[s][r], [type |-> "Leave", playerId |-> playerId[s]])
    /\ joinedRooms' = [joinedRooms EXCEPT ![s][r] = None]
    /\ UNCHANGED <<loginVars, handler, requests, joinsOwed, leavesOwed>>

\* One turn of the loop over joined_rooms, in no particular order.  A room that is gone
\* is passed over.
LeaveOnDisconnect(s, r) ==
    /\ handler[s].at = "disconnect"
    /\ joinedRooms[s][r] # None
    /\ \/ SendToRoom(joinedRooms[s][r], [type |-> "Leave", playerId |-> playerId[s]])
       \/ ~CanSend(joinedRooms[s][r]) /\ UNCHANGED roomVars
    /\ joinedRooms' = [joinedRooms EXCEPT ![s][r] = None]
    /\ UNCHANGED <<loginVars, handler, requests, joinsOwed, leavesOwed>>

\* Variant: the id is unregistered before the rooms are told.
UnregisterFirst(s) ==
    /\ handler[s].at = "disconnect"
    /\ UnregisterPlayer(s)
    /\ PlayerStops(s)
    /\ UNCHANGED playerVars

\* Variant: the actor returns without unregister_player.
FinishRegistered(s) ==
    /\ handler[s].at = "disconnect"
    /\ \A r \in RoomId : joinedRooms[s][r] = None
    /\ pc[s] = "logged_in"
    /\ pc' = [pc EXCEPT ![s] = "finished"]
    /\ PlayerStops(s)
    /\ UNCHANGED <<PLAYERS, connected, playerId, refusal, playerVars>>

\* unregister_player and the end of the task.
FinishSession(s) ==
    /\ handler[s].at = "disconnect"
    /\ \A r \in RoomId : joinedRooms[s][r] = None
    /\ UnregisterPlayer(s)
    /\ PlayerStops(s)
    /\ UNCHANGED playerVars

-----------------------------------------------------------------------------

RoomTaskStep(i) == RoomStep(i) /\ UNCHANGED <<loginVars, playerVars>>

\* What the task of a player actor does without waiting for its client.
PlayerTaskStep(s) ==
    \/ SendEvent(s)
    \/ OnOutputEvent(s)
    \/ OnRoomIsFull(s)
    \/ OnClosed(s)
    \/ \E r \in RoomId : LeaveOnDisconnect(s, r)
    \/ FinishSession(s)

ClientStep(s) == LogIn(s) \/ ClientMessage(s) \/ Drop(s)

Next ==
    \/ \E i \in RoomTask : RoomTaskStep(i)
    \/ \E s \in Session : ClientStep(s) \/ EndWithoutLogin(s) \/ PlayerTaskStep(s)

Spec == Init /\ [][Next]_vars

\* The runtime runs every task that can run; clients may stay silent and connected.
\* A wait for the first message ends by itself only once the connection is gone.
Fairness ==
    /\ \A i \in RoomTask : WF_vars(RoomTaskStep(i))
    /\ \A s \in Session :
           /\ WF_vars(PlayerTaskStep(s))
           /\ WF_vars((pc[s] = "login_error" \/ ~connected[s]) /\ EndWithoutLogin(s))

FairSpec == Spec /\ Fairness

-----------------------------------------------------------------------------
(* Properties.                                                             *)

\* Task i has session s among its players, under the id of s.
Member(s, i) ==
    /\ status[i] # "unborn"
    /\ IsJoined(room[i], playerId[s])
    /\ room[i].players[playerId[s]] = s

\* The tasks serving r, now or in the past, that have s as a player.
MemberTasks(s, r) == {i \in RoomTask : Member(s, i) /\ room[i].id = r}

\* Where the news about s itself in room r waits in its channel.
OwnEvents(s, r) ==
    {k \in DOMAIN playerRx[s] : Own(s, playerRx[s][k]) /\ playerRx[s][k].roomId = r}

\* The last of these places of the channel of s holds a Join.
LastIsJoin(s, events) ==
    \E k \in events : playerRx[s][k].type = "Join" /\ \A l \in events : l <= k

FirstIsLeave(s, events) ==
    \E k \in events : playerRx[s][k].type = "Leave" /\ \A l \in events : k <= l

LeavePending(s, i) ==
    \E k \in DOMAIN roomRx[i] : roomRx[i][k].type = "Leave" /\ roomRx[i][k].playerId = playerId[s]

\* No login was refused for an id in use, so no id was taken from its session.
NoTakeover == \A s \in Session : refusal[s] # "AlreadyLoggedIn"

\* What a player actor believes is what the rooms believe, up to the events still in
\* its channel: once it has heard everything, joined_rooms holds exactly the rooms it
\* is a player of, each with the handle of the very task it is a player of; before
\* that, the last event about itself tells whether it is in the room.
JoinedRoomsMirrorMembership ==
    \A s \in Session : LoggedIn(s) /\ handler[s].at # "disconnect" =>
        \A r \in RoomId :
            IF OwnEvents(s, r) = {}
            THEN \A i \in RoomTask : joinedRooms[s][r] = i <=> i \in MemberTasks(s, r)
            ELSE LastIsJoin(s, OwnEvents(s, r)) <=> MemberTasks(s, r) # {}

\* A disconnected actor on its way out misses no room it knew of: each room it is still
\* a player of is either yet to be told, has its Leave on the way, or is one whose Join
\* it had not heard of.
KnownRoomsAreLeft ==
    \A s \in Session : LoggedIn(s) /\ handler[s].at = "disconnect" =>
        \A i \in RoomTask : Member(s, i) =>
            \/ joinedRooms[s][room[i].id] = i
            \/ LeavePending(s, i)
            \/ LastIsJoin(s, OwnEvents(s, room[i].id))

\* A leaver hears of its own Leave and of nothing in the room after that: whatever of a
\* room waits in a player's channel, the player was in the room when it happened.
OnlyMembersHear ==
    \A s \in Session : LoggedIn(s) /\ handler[s].at # "disconnect" =>
        \A k \in DOMAIN playerRx[s] :
            LET event == playerRx[s][k]
                ownBefore == {l \in OwnEvents(s, event.roomId) : l < k}
            IN  event.type # "JoinError" /\ ~(Own(s, event) /\ event.type = "Join") =>
                    IF ownBefore # {} THEN LastIsJoin(s, ownBefore)
                    ELSE \/ joinedRooms[s][event.roomId] # None
                         \/ FirstIsLeave(s, OwnEvents(s, event.roomId))

\* The players that a Join names and the Joins and Leaves heard after it add up to who is
\* in the room: nobody enters between the list and the first notification, or leaves
\* unheard.
RosterAddsUp ==
    \A s \in Session, i \in RoomTask : Member(s, i) =>
        LET heard(k, type, id) == /\ playerRx[s][k].type = type
                                  /\ playerRx[s][k].roomId = room[i].id
                                  /\ playerRx[s][k].playerId = id
            events == DOMAIN playerRx[s]
            leaves(id) == {k \in events : heard(k, "Leave", id)}
            ownJoins == {k \in events : heard(k, "Join", playerId[s])}
        IN  \A k \in ownJoins : (\A l \in leaves(playerId[s]) : l < k) =>
                DOMAIN room[i].players =
                    {id \in playerRx[s][k].roomPlayerIds : \A l \in leaves(id) : l < k}
                        \cup {id \in PlayerId : \E j \in events :
                                   j > k /\ heard(j, "Join", id) /\ \A l \in leaves(id) : l < j}

\* The Joins of s for r that are somewhere between their request and their answer.
JoinsInFlight(s, r) ==
    LET sending == {k \in {1} : /\ handler[s].at = "send" /\ handler[s].roomId = r
                                /\ handler[s].event.type = "Join"}
        inRoom == UNION {{i} \X {k \in DOMAIN roomRx[i] :
                                    /\ roomRx[i][k].type = "Join"
                                    /\ roomRx[i][k].player.sender = s} :
                         i \in {i \in RoomTask : status[i] # "unborn" /\ room[i].id = r}}
        answered == {k \in DOMAIN playerRx[s] :
                        LET event == playerRx[s][k]
                        IN  /\ event.type \in {"Join", "JoinError"}
                            /\ event.playerId = playerId[s] /\ event.roomId = r}
    IN  Cardinality(sending) + Cardinality(inRoom) + Cardinality(answered)

\* No JoinRequest is answered twice or without being asked, and none is lost as long
\* as no task of its room has been dropped.
JoinsAnsweredOnce ==
    \A s \in Session : LoggedIn(s) => \A r \in RoomId :
        /\ JoinsInFlight(s, r) <= joinsOwed[s][r]
        /\ (\A i \in RoomTask : status[i] = "dropped" => room[i].id # r) =>
               JoinsInFlight(s, r) = joinsOwed[s][r]

\* A player is told that it has left only if it has asked to: a Leave that a session
\* sent for its id never removes a later session with the same id from a room.
NoUnaskedLeave ==
    NoTakeover => \A s \in Session, r \in RoomId : LoggedIn(s) => leavesOwed[s][r] >= 0

-----------------------------------------------------------------------------
(* Liveness, under FairSpec.                                               *)

\* A disconnection ends the session, however many events and messages wait: no actor
\* stays in its loop for a client that is gone.
DisconnectionEndsSession ==
    \A s \in Session : ~connected[s] ~> pc[s] \in {"finished", "panicked"}

\* A Join of s is in the channel of a task of r that serves no more and has yet to drop it.
JoinInStoppedRoom(s, r) ==
    \E i \in RoomTask :
        /\ status[i] \in {"emptied", "removed"} /\ room[i].id = r
        /\ \E k \in DOMAIN roomRx[i] :
               roomRx[i][k].type = "Join" /\ roomRx[i][k].player.sender = s

\* A JoinRequest that is somewhere under way gets its JoinResponse, from the room, from a
\* room that is gone when it is sent or when it is heard of: the number of those owed falls
\* (requests are finitely many), unless the session ends or, then or later, a task of the
\* room stops with a Join of the session in its channel.
JoinsAnsweredUnlessDropped ==
    \A s \in Session, r \in RoomId, n \in 1..MaxRequests :
        JoinsInFlight(s, r) > 0 /\ joinsOwed[s][r] = n ~>
            \/ joinsOwed[s][r] < n
            \/ ~LoggedIn(s)
            \/ JoinInStoppedRoom(s, r)

\* A Leave that is in the channel of the player's room takes effect: whatever waits
\* before it, the room does not stop while it still has the player.
LeaveTakesEffect ==
    \A s \in Session, i \in RoomTask :
        Member(s, i) /\ LeavePending(s, i) ~> ~Member(s, i)

HasPlayers(i) == status[i] # "unborn" /\ NumPlayers(room[i]) > 0

\* A room is created before the Join that is to enter it is sent, and looks whether it is
\* empty only after an event.  Still no room stays empty for ever: somebody enters or
\* its task ends, whatever becomes of the session that has created it.
NoRoomStaysEmpty ==
    \A i \in RoomTask :
        status[i] = "running" /\ ~HasPlayers(i) ~> status[i] = "dropped" \/ HasPlayers(i)

-----------------------------------------------------------------------------
(* What comments, assertions and messages of the code say and the code does not do. *)

\* "unreachable!": no error of a Join stops the task of a player actor.
NoPanic == \A s \in Session : pc[s] # "panicked"

\* "On disconnection, send a Leave event to the joined rooms": no room keeps a player
\* whose session has finished, unless its Leave is on the way.
NoMemberOutlivesSession ==
    \A s \in Session, i \in RoomTask :
        pc[s] = "finished" /\ Member(s, i) => LeavePending(s, i)

\* "In this case an error is returned": a Join that meets a stopping room is answered.
NoJoinIsLost ==
    \A s \in Session : LoggedIn(s) => \A r \in RoomId :
        JoinsInFlight(s, r) = joinsOwed[s][r]

\* "You have not joined the room or it does not exist": a LeaveRequest is answered in
\* either case.
LeavesAnswered ==
    \A s \in Session, r \in RoomId :
        leavesOwed[s][r] > 0 ~> leavesOwed[s][r] <= 0 \/ ~LoggedIn(s)

=============================================================================
