----------------------------- MODULE Connection -----------------------------
(***************************************************************************)
(* The connections (src/src/network_protocol): the server that main runs,  *)
(* its shutdown, and the task of each connection, which loops in select!   *)
(* between its client and its player actor until one of them is gone.      *)
(*                                                                         *)
(* There are three such tasks, handle_rw_stream (TCP), handle_ws           *)
(* (WebSocket) and the task of start (gRPC).  They share the branch that   *)
(* takes an output of the actor and differ in what they do about a client  *)
(* that ends its stream or is lost, and about an actor that has ended.     *)
(*                                                                         *)
(* The login part of the actor is that of Login; a logged-in actor takes   *)
(* requests and produces outputs as it likes.  Outputs are numbered in the *)
(* order the actor sends them.                                             *)
(***************************************************************************)
EXTENDS Login, Integers, Sequences

CONSTANTS
    MaxRequests,  \* bound on the requests and pings read from each client
    MaxOutputs,   \* bound on the outputs of each actor
    Capacity      \* outputs that fit between a task and its client: the channel of gRPC
                  \* and the buffers of the sockets

ASSUME ConnectionAssumption ==
    MaxRequests \in Nat /\ MaxOutputs \in Nat \ {0} /\ Capacity \in Nat \ {0}

VARIABLES
    protocol,  \* the server that main runs, as --protocol says
    server,    \* whether it still listens, was told to stop, or has exited
    client,    \* "open"; "closed" has ended its stream; "reset" is known to be lost
    task,      \* where the task of the connection is
    requests,  \* how many requests and pings the task has read
    inputRx,   \* the actor's input channel
    outputRx,  \* the actor's output channel
    emitted,   \* the number of the last output sent on it
    wire,      \* the outputs on their way from the task to the client
    heard      \* the number of the last output that the client has received

channelVars == <<inputRx, outputRx, emitted, wire, heard>>
connectionVars == <<protocol, server, client, task, requests, channelVars>>
vars == <<loginVars, connectionVars>>

Protocol == {"tcp", "websocket", "grpc"}

\* The ClientMessages as the actor tells them apart; "empty" has no data.
Request == {"login", "other", "empty"}

\* "absent" is not accepted yet; "pong" and "closing" are waiting to send a control frame;
\* the last four have ended: without an actor, for the actor's end, for the client's, by a
\* panic.
Task ==
    [at : {"absent", "handshake", "select", "pong", "closing",
           "refused", "actor_gone", "client_gone", "panicked"}]
        \cup [at : {"sending"}, output : 1..MaxOutputs]

ConnectionTypeOK ==
    /\ protocol \in Protocol
    /\ server \in {"listening", "stopping", "exited"}
    /\ client \in [Session -> {"open", "closed", "reset"}]
    /\ task \in [Session -> Task]
    /\ requests \in [Session -> 0..MaxRequests]
    /\ inputRx \in [Session -> Seq(Request)]
    /\ outputRx \in [Session -> Seq(1..MaxOutputs)]
    /\ emitted \in [Session -> 0..MaxOutputs]
    /\ wire \in [Session -> Seq(1..MaxOutputs)]
    /\ heard \in [Session -> 0..MaxOutputs]

TypeOK == LoginTypeOK /\ ConnectionTypeOK

\* main matches --protocol and runs one server.
Init ==
    /\ LoginInit
    /\ protocol \in Protocol
    /\ server = "listening"
    /\ client = [s \in Session |-> "open"]
    /\ task = [s \in Session |-> [at |-> "absent"]]
    /\ requests = [s \in Session |-> 0]
    /\ inputRx = [s \in Session |-> <<>>]
    /\ outputRx = [s \in Session |-> <<>>]
    /\ emitted = [s \in Session |-> 0]
    /\ wire = [s \in Session |-> <<>>]
    /\ heard = [s \in Session |-> 0]

-----------------------------------------------------------------------------
(* The server.                                                             *)

\* The task of a connection has begun and has not ended.
Open(s) == task[s].at \in {"handshake", "select", "sending", "pong", "closing"}

GoesTo(s, place) == task' = [task EXCEPT ![s] = [at |-> place]]

StartTask(s, place) ==
    /\ task[s].at = "absent"
    /\ GoesTo(s, place)
    /\ UNCHANGED <<loginVars, protocol, server, client, requests, channelVars>>

\* A connection is accepted, and actor::Player::new spawns its actor.  A listener that has
\* been told to stop may take the accept branch once more.  The task of a TCP connection
\* with TLS has the handshake before it; that of the others is in their libraries.
Accept(s) ==
    \/ StartTask(s, "select")
    \/ protocol = "tcp" /\ StartTask(s, "handshake")

\* The TLS handshake ends: only then there is an actor.
Handshake(s, place) ==
    /\ task[s].at = "handshake"
    /\ GoesTo(s, place)
    /\ UNCHANGED <<loginVars, protocol, server, client, requests, channelVars>>

\* SIGTERM or SIGINT.
Signal ==
    /\ server = "listening"
    /\ server' = "stopping"
    /\ UNCHANGED <<loginVars, protocol, client, task, requests, channelVars>>

\* The listener's task returns and run does, whatever connections there are.
TcpServerReturns == protocol = "tcp"

\* bind_with_graceful_shutdown does not know of connections upgraded to WebSockets.
WebSocketServerReturns == protocol = "websocket"

\* serve_with_shutdown waits for every call: until its client is lost, or its response
\* stream has ended and is drained, which is after the task of start has dropped its end of
\* it.  For that task, spawned by start, it does not wait.
GrpcServerReturns ==
    /\ protocol = "grpc"
    /\ \A s \in Session : client[s] = "reset" \/ (~Open(s) /\ wire[s] = <<>>)

\* The end of main, and of every task with it.
Exit ==
    /\ server = "stopping"
    /\ TcpServerReturns \/ WebSocketServerReturns \/ GrpcServerReturns
    /\ server' = "exited"
    /\ UNCHANGED <<loginVars, protocol, client, task, requests, channelVars>>

-----------------------------------------------------------------------------
(* The client.                                                             *)

\* A FIN, the end of a request stream, or a Close frame.  The client may still be reading.
CloseStream(s) ==
    /\ Open(s) /\ client[s] = "open"
    /\ client' = [client EXCEPT ![s] = "closed"]
    /\ UNCHANGED <<loginVars, protocol, server, task, requests, channelVars>>

\* The connection fails, or the client cancels the call, and the server's side notices,
\* also when the task has ended and there are outputs left to receive.
Reset(s) ==
    /\ Open(s) \/ wire[s] # <<>>
    /\ client[s] # "reset"
    /\ client' = [client EXCEPT ![s] = "reset"]
    /\ UNCHANGED <<loginVars, protocol, server, task, requests, channelVars>>

ClientReceives(s) ==
    /\ client[s] # "reset" /\ wire[s] # <<>>
    /\ heard' = [heard EXCEPT ![s] = Head(wire[s])]
    /\ wire' = [wire EXCEPT ![s] = Tail(@)]
    /\ UNCHANGED <<loginVars, protocol, server, client, task, requests,
                   inputRx, outputRx, emitted>>

-----------------------------------------------------------------------------
(* The task: its end, and the branch of player_actor.recv().               *)

AtSelect(s) == task[s].at = "select"

HasRoom(s) == client[s] # "reset" /\ Len(wire[s]) < Capacity

\* The actor holds its ends of the two channels until it ends.
ActorRuns(s) == pc[s] \notin {"finished", "panicked"}

\* The task returns or unwinds, and drops actor::Player with what is left to receive.
EndTask(s, place) ==
    /\ GoesTo(s, place)
    /\ Disconnect(s)
    /\ outputRx' = [outputRx EXCEPT ![s] = <<>>]
    /\ UNCHANGED <<protocol, server, client, requests, inputRx, emitted, wire, heard>>

ReceiveOutput(s) ==
    /\ AtSelect(s) /\ outputRx[s] # <<>>
    /\ task' = [task EXCEPT ![s] = [at |-> "sending", output |-> Head(outputRx[s])]]
    /\ outputRx' = [outputRx EXCEPT ![s] = Tail(@)]
    /\ UNCHANGED <<loginVars, protocol, server, client, requests, inputRx, emitted,
                   wire, heard>>

\* Variant: a closed output channel is taken for one with nothing in it.
EndWithActorAndClient(s) ==
    /\ AtSelect(s) /\ outputRx[s] = <<>> /\ ~ActorRuns(s)
    /\ client[s] # "open"
    /\ EndTask(s, "actor_gone")

\* recv returns None: the actor has ended and everything it sent was taken.
ReceiveNone(s) ==
    /\ AtSelect(s) /\ outputRx[s] = <<>> /\ ~ActorRuns(s)
    /\ EndTask(s, "actor_gone")

\* Variant: an output that finds no room is dropped.
SendOrDrop(s) ==
    /\ task[s].at = "sending" /\ client[s] # "reset"
    /\ wire' = IF HasRoom(s) THEN [wire EXCEPT ![s] = Append(@, task[s].output)] ELSE wire
    /\ GoesTo(s, "select")
    /\ UNCHANGED <<loginVars, protocol, server, client, requests, inputRx, outputRx,
                   emitted, heard>>

\* send(..).await completes once there is room for the output.
SendOutput(s) ==
    /\ task[s].at = "sending" /\ HasRoom(s)
    /\ wire' = [wire EXCEPT ![s] = Append(@, task[s].output)]
    /\ GoesTo(s, "select")
    /\ UNCHANGED <<loginVars, protocol, server, client, requests, inputRx, outputRx,
                   emitted, heard>>

\* The send fails, also one that is waiting for room: an unwrap in TCP and WebSocket.
SendFails(s) ==
    /\ task[s].at = "sending" /\ client[s] = "reset"
    /\ EndTask(s, IF protocol = "grpc" THEN "client_gone" ELSE "panicked")

-----------------------------------------------------------------------------
(* The task: the branch of the client's stream.                            *)

\* A request that was sent before the end of the stream may be read after it.
Reads(s) ==
    /\ AtSelect(s) /\ client[s] # "reset"
    /\ requests[s] < MaxRequests
    /\ requests' = [requests EXCEPT ![s] = @ + 1]

Forward(s, request) ==
    /\ ActorRuns(s)
    /\ inputRx' = [inputRx EXCEPT ![s] = Append(@, request)]
    /\ UNCHANGED <<loginVars, protocol, server, client, task, outputRx, emitted, wire, heard>>

\* The actor has ended: the send fails and its result is ignored.
ForwardInVain(s) ==
    /\ ~ActorRuns(s)
    /\ UNCHANGED <<loginVars, protocol, server, client, task, channelVars>>

\* Bytes that are no frame or no ClientMessage.
ReadInvalid(s) ==
    /\ AtSelect(s) /\ client[s] # "reset"
    /\ EndTask(s, "client_gone")

ReadError(s) ==
    /\ AtSelect(s) /\ client[s] = "reset"
    /\ EndTask(s, "client_gone")

\* Variant: the result of the send is unwrapped.
TcpRequestUnwrapped(s) ==
    /\ protocol = "tcp"
    /\ \/ \E request \in Request : Reads(s) /\ Forward(s, request)
       \/ AtSelect(s) /\ ~ActorRuns(s) /\ EndTask(s, "panicked")
       \/ ReadInvalid(s)

TcpRequest(s) ==
    /\ protocol = "tcp"
    /\ \/ \E request \in Request : Reads(s) /\ (Forward(s, request) \/ ForwardInVain(s))
       \/ ReadInvalid(s)

\* No branch takes the None that next returns at the end of the stream: the loop goes
\* round, and only an error ends it.
TcpEnd(s) == protocol = "tcp" /\ ReadError(s)

\* A text message is ignored.
WebSocketRequest(s) ==
    /\ protocol = "websocket"
    /\ \/ \E request \in Request : Reads(s) /\ (Forward(s, request) \/ ForwardInVain(s))
       \/ /\ Reads(s)
          /\ GoesTo(s, "pong")
          /\ UNCHANGED <<loginVars, protocol, server, client, channelVars>>
       \/ ReadInvalid(s)

\* An error of sending the pong is only logged.
SendPong(s) ==
    /\ task[s].at = "pong"
    /\ HasRoom(s) \/ client[s] = "reset"
    /\ GoesTo(s, "select")
    /\ UNCHANGED <<loginVars, protocol, server, client, requests, channelVars>>

\* A Close frame, which is answered by one; a stream that ends without it is an error.
WebSocketEnd(s) ==
    /\ protocol = "websocket"
    /\ \/ /\ AtSelect(s) /\ client[s] = "closed"
          /\ GoesTo(s, "closing")
          /\ UNCHANGED <<loginVars, protocol, server, client, requests, channelVars>>
       \/ ReadError(s)

SendClose(s) ==
    /\ task[s].at = "closing"
    /\ HasRoom(s) \/ client[s] = "reset"
    /\ EndTask(s, "client_gone")

\* The result of the send is unwrapped.
GrpcRequest(s) ==
    /\ protocol = "grpc"
    /\ \/ \E request \in Request : Reads(s) /\ Forward(s, request)
       \/ /\ AtSelect(s) /\ client[s] # "reset" /\ requests[s] < MaxRequests
          /\ ~ActorRuns(s)
          /\ EndTask(s, "panicked")
       \/ ReadInvalid(s)

\* Variant: the end of the stream matches no branch, as in TCP.
GrpcIgnoresEnd(s) == protocol = "grpc" /\ ReadError(s)

\* The end of the stream and every error of it, BrokenPipe or not, end the task.
GrpcEnd(s) ==
    /\ protocol = "grpc"
    /\ \/ AtSelect(s) /\ client[s] = "closed" /\ EndTask(s, "client_gone")
       \/ ReadError(s)

-----------------------------------------------------------------------------
(* The actor.                                                              *)

\* An output for a task that is gone is lost.
Output(s) ==
    IF connected[s]
    THEN /\ emitted' = [emitted EXCEPT ![s] = @ + 1]
         /\ outputRx' = [outputRx EXCEPT ![s] = Append(@, emitted[s] + 1)]
    ELSE UNCHANGED <<emitted, outputRx>>

TakeInput(s) ==
    /\ inputRx[s] # <<>>
    /\ inputRx' = [inputRx EXCEPT ![s] = Tail(@)]

DropInput(s) == inputRx' = [inputRx EXCEPT ![s] = <<>>]

\* wait_login takes messages until one has data, or the channel is closed and empty.
WaitLogin(s) ==
    /\ pc[s] = "wait_login"
    /\ \/ /\ TakeInput(s) /\ Head(inputRx[s]) = "login"
          /\ LoginRequest(s)
          /\ Output(s)
       \/ /\ TakeInput(s) /\ Head(inputRx[s]) = "empty"
          /\ UNCHANGED <<loginVars, emitted, outputRx>>
       \/ /\ IF inputRx[s] = <<>> THEN ~connected[s] ELSE Head(inputRx[s]) = "other"
          /\ GiveUpLogin(s)
          /\ DropInput(s)
          /\ UNCHANGED <<emitted, outputRx>>
    /\ UNCHANGED <<protocol, server, client, task, requests, wire, heard>>

\* Variant: the actor ends without giving its id back.
EndRegistered(s) ==
    /\ \/ UnregisterRefused(s)
       \/ /\ pc[s] = "logged_in" /\ ~connected[s]
          /\ pc' = [pc EXCEPT ![s] = "finished"]
          /\ UNCHANGED <<PLAYERS, connected, playerId, refusal>>
    /\ DropInput(s)
    /\ UNCHANGED <<protocol, server, client, task, requests, outputRx, emitted, wire, heard>>

\* The end of a refused login, and of a session whose actor has seen output_tx closed.
EndActor(s) ==
    /\ UnregisterRefused(s) \/ UnregisterPlayer(s)
    /\ DropInput(s)
    /\ UNCHANGED <<protocol, server, client, task, requests, outputRx, emitted, wire, heard>>

ActorPanics(s) ==
    /\ Panic(s)
    /\ DropInput(s)
    /\ UNCHANGED <<protocol, server, client, task, requests, outputRx, emitted, wire, heard>>

\* A request taken, with an answer at once or without, or an event heard from a room.
ActorWorks(s) ==
    /\ pc[s] = "logged_in"
    /\ \/ TakeInput(s) /\ UNCHANGED <<emitted, outputRx>>
       \/ TakeInput(s) /\ emitted[s] < MaxOutputs /\ Output(s)
       \/ UNCHANGED inputRx /\ emitted[s] < MaxOutputs /\ Output(s)
    /\ UNCHANGED <<loginVars, protocol, server, client, task, requests, wire, heard>>

-----------------------------------------------------------------------------

\* What the task of a connection does whether or not its client sends anything.
TaskStep(s) ==
    \/ client[s] # "open" /\ Handshake(s, "refused")
    \/ ReceiveOutput(s)
    \/ ReceiveNone(s)
    \/ SendOutput(s)
    \/ SendFails(s)
    \/ SendPong(s)
    \/ SendClose(s)
    \/ TcpEnd(s)
    \/ WebSocketEnd(s)
    \/ GrpcEnd(s)

ClientStep(s) ==
    \/ client[s] = "open" /\ (Handshake(s, "select") \/ Handshake(s, "refused"))
    \/ TcpRequest(s)
    \/ WebSocketRequest(s)
    \/ GrpcRequest(s)
    \/ CloseStream(s)
    \/ Reset(s)
    \/ ClientReceives(s)

Next ==
    /\ server # "exited"
    /\ \/ Signal
       \/ Exit
       \/ \E s \in Session :
              \/ Accept(s)
              \/ ClientStep(s)
              \/ TaskStep(s)
              \/ WaitLogin(s)
              \/ EndActor(s)
              \/ ActorPanics(s)
              \/ ActorWorks(s)

Spec == Init /\ [][Next]_vars

\* The runtime runs every task that can run, and main.  Nothing is assumed of the clients:
\* they need not send, receive, close their stream, or be found to be lost.
Fairness ==
    /\ WF_vars(Exit)
    /\ \A s \in Session :
           /\ WF_vars(server # "exited" /\ TaskStep(s))
           /\ WF_vars(server # "exited" /\ (WaitLogin(s) \/ EndActor(s)))

FairSpec == Spec /\ Fairness

-----------------------------------------------------------------------------
(* Properties.                                                             *)

\* The outputs between the actor and the client, the oldest first.
InTransit(s) ==
    wire[s] \o (IF task[s].at = "sending" THEN <<task[s].output>> ELSE <<>>) \o outputRx[s]

Ended(s) == task[s].at \in {"actor_gone", "client_gone", "panicked"}

\* A client receives the outputs of its actor in the order the actor sent them, each
\* once and without a gap, however full the wire and whatever the task reads in between;
\* while the connection lasts none is lost.
OutputsInOrder ==
    \A s \in Session :
        LET outputs == IF Ended(s) THEN wire[s] ELSE InTransit(s)
        IN  /\ \A k \in DOMAIN outputs : outputs[k] = heard[s] + k
            /\ ~Ended(s) => heard[s] + Len(outputs) = emitted[s]

\* A connection that ends although its client has neither left nor sent anything invalid
\* has delivered all that the actor sent: a refused client hears why, even if it goes on
\* sending to an actor that has ended.  The panic of gRPC is excepted (GrpcSendsSucceed).
EndLosesNothing ==
    \A s \in Session :
        \/ task[s].at \notin {"actor_gone", "panicked"}
        \/ client[s] = "reset"
        \/ protocol = "grpc" /\ task[s].at = "panicked"
        \/ heard[s] + Len(wire[s]) = emitted[s]

Blocked(s) == task[s].at \in {"sending", "pong", "closing"} /\ ~HasRoom(s)

Serving(s) == server # "exited" /\ Open(s)

\* A client that has ended its stream or is lost does not keep its actor, and with it its
\* id and its places in rooms, for ever: the task ends, unless it is waiting for ever for
\* a client that is not lost to read.  The end of a TCP stream, once the handshake is over,
\* is excepted (EndOfStreamIsNoticed).
DepartureEndsConnection ==
    \A s \in Session :
        <>[](Serving(s) /\ client[s] # "open") =>
            \/ protocol = "tcp" /\ <>[](AtSelect(s) /\ client[s] = "closed")
            \/ <>[](Blocked(s) /\ client[s] = "closed")

\* A connection whose actor has ended, by a refusal, a first message that is no
\* LoginRequest or a panic, is closed, unless its client never reads what is left.
ActorEndClosesConnection ==
    \A s \in Session :
        <>[](Serving(s) /\ ~ActorRuns(s)) => <>[](Blocked(s) /\ client[s] # "reset")

\* Once signalled, the server exits.  Only that of gRPC can wait for ever, and only for a
\* client that stays connected while its actor runs, or for one that is not lost and never
\* reads what is left, be it that its task waits to write or has ended.
ShutdownCompletes ==
    <>[](server = "stopping") =>
        /\ protocol = "grpc"
        /\ \E s \in Session :
               \/ <>[](Open(s) /\ client[s] = "open" /\ ActorRuns(s))
               \/ <>[](wire[s] # <<>> /\ client[s] # "reset")

-----------------------------------------------------------------------------
(* What comments of the code say and the code does not do.                 *)

\* "It should not fail as long as player_actor is not dropped": the send to the actor,
\* whose failure panics the task of a gRPC connection.
GrpcSendsSucceed ==
    \A s \in Session : protocol = "grpc" => task[s].at # "panicked"

\* "On disconnection, send a Leave event to the joined rooms": a TCP client that has
\* closed its connection is noticed, so that its actor can.
EndOfStreamIsNoticed ==
    \A s \in Session :
        protocol = "tcp" /\ client[s] = "closed" /\ Serving(s) ~> ~Serving(s)

=============================================================================
