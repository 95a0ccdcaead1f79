-------------------------- MODULE ConnectionProofs --------------------------
(***************************************************************************)
(* Safety of the connections, for any number of sessions and ids, any      *)
(* number of outputs, a wire of any capacity and each of the three         *)
(* servers.                                                                *)
(*                                                                         *)
(* ConnectionInv is the inductive invariant.  Wherever an output is, on    *)
(* the wire, in the hand of the task or in the actor's channel, its number *)
(* is determined by its place (Numbered): that is what survives the steps  *)
(* that move outputs, and OutputsInOrder follows from it.                  *)
(***************************************************************************)
EXTENDS Connection, LoginProofs, SequenceTheorems

\* The outputs of a channel have the numbers that follow n.
InOrder(q, n) == \A k \in 1..Len(q) : q[k] = n + k

\* How many outputs the task holds.
InHand(s) == IF task[s].at = "sending" THEN 1 ELSE 0

\* How many outputs are ahead of those in the actor's channel.
Ahead(s) == heard[s] + Len(wire[s]) + InHand(s)

Numbered(s) ==
    /\ InOrder(wire[s], heard[s])
    /\ task[s].at = "sending" => task[s].output = heard[s] + Len(wire[s]) + 1
    /\ ~Ended(s) =>
           /\ InOrder(outputRx[s], Ahead(s))
           /\ Ahead(s) + Len(outputRx[s]) = emitted[s]

\* The part of EndLosesNothing that is about s.
DeliveredAtEnd(s) ==
    \/ task[s].at \notin {"actor_gone", "panicked"}
    \/ client[s] = "reset"
    \/ protocol = "grpc" /\ task[s].at = "panicked"
    \/ heard[s] + Len(wire[s]) = emitted[s]

\* The task holds its actor::Player until it ends, and an actor that waits for its login
\* has not sent anything.
SessionInv(s) ==
    /\ Numbered(s)
    /\ connected[s] <=> ~Ended(s)
    /\ pc[s] = "wait_login" => emitted[s] = 0
    /\ DeliveredAtEnd(s)

ConnectionInv ==
    /\ LoginInv
    /\ ConnectionTypeOK
    /\ \A s \in Session : SessionInv(s)

-----------------------------------------------------------------------------
(* Channels whose outputs are in order.                                    *)

\* The next number put at the end.
LEMMA AppendedInOrder ==
    ASSUME NEW S, NEW q \in Seq(S), NEW e \in S, NEW n \in Nat,
           InOrder(q, n), e = n + Len(q) + 1
    PROVE  /\ Append(q, e) \in Seq(S)
           /\ Len(Append(q, e)) = Len(q) + 1
           /\ InOrder(Append(q, e), n)
<1>1. Len(q) \in Nat
  BY LenProperties
<1>2. /\ Append(q, e) \in Seq(S)
      /\ Len(Append(q, e)) = Len(q) + 1
      /\ \A k \in 1..Len(q) : Append(q, e)[k] = q[k]
      /\ Append(q, e)[Len(q) + 1] = e
  BY AppendProperties
<1>3. ASSUME NEW k \in 1..Len(q) + 1
      PROVE  Append(q, e)[k] = n + k
  <2>1. CASE k = Len(q) + 1
    BY <1>1, <1>2, <2>1
  <2>2. CASE k \in 1..Len(q)
    BY <1>1, <1>2, <2>2 DEF InOrder
  <2> QED
    BY <1>1, <2>1, <2>2
<1> QED
  BY <1>1, <1>2, <1>3 DEF InOrder

\* What is left when the head is taken is numbered on from it.
LEMMA TailInOrder ==
    ASSUME NEW S, NEW q \in Seq(S), q # <<>>, NEW n \in Nat, InOrder(q, n)
    PROVE  /\ Head(q) \in S /\ Tail(q) \in Seq(S)
           /\ Len(q) = Len(Tail(q)) + 1
           /\ Head(q) = n + 1
           /\ InOrder(Tail(q), n + 1)
<1>1. /\ Len(q) \in Nat /\ Len(q) > 0
      /\ Tail(q) \in Seq(S) /\ Head(q) \in S
      /\ Len(Tail(q)) = Len(q) - 1
      /\ \A k \in 1..Len(Tail(q)) : Tail(q)[k] = q[k + 1]
  BY HeadTailProperties, EmptySeq
<1>2. Head(q) = n + 1
  BY <1>1 DEF InOrder
<1>3. InOrder(Tail(q), n + 1)
  BY <1>1 DEF InOrder
<1> QED
  BY <1>1, <1>2, <1>3

-----------------------------------------------------------------------------
(* Facts about tasks.                                                      *)

LEMMA TaskFields ==
    ASSUME NEW place \in Task, place.at = "sending"
    PROVE  place.output \in 1..MaxOutputs
BY DEF Task

LEMMA TaskValues ==
    /\ \A place \in {"absent", "handshake", "select", "pong", "closing",
                     "refused", "actor_gone", "client_gone", "panicked"} : [at |-> place] \in Task
    /\ \A n \in 1..MaxOutputs : [at |-> "sending", output |-> n] \in Task
BY DEF Task

\* What the type says of one session.
LEMMA SessionTypes ==
    ASSUME ConnectionTypeOK, NEW s \in Session
    PROVE  /\ task[s] \in Task
           /\ inputRx[s] \in Seq(Request)
           /\ outputRx[s] \in Seq(1..MaxOutputs) /\ Len(outputRx[s]) \in Nat
           /\ wire[s] \in Seq(1..MaxOutputs) /\ Len(wire[s]) \in Nat
           /\ emitted[s] \in 0..MaxOutputs /\ emitted[s] \in Nat
           /\ heard[s] \in 0..MaxOutputs /\ heard[s] \in Nat
           /\ MaxOutputs \in Nat \ {0}
<1>1. /\ task[s] \in Task
      /\ inputRx[s] \in Seq(Request)
      /\ outputRx[s] \in Seq(1..MaxOutputs)
      /\ wire[s] \in Seq(1..MaxOutputs)
      /\ emitted[s] \in 0..MaxOutputs
      /\ heard[s] \in 0..MaxOutputs
  BY DEF ConnectionTypeOK
<1>2. Len(outputRx[s]) \in Nat /\ Len(wire[s]) \in Nat
  BY <1>1, LenProperties
<1> QED
  BY <1>1, <1>2, ConnectionAssumption

-----------------------------------------------------------------------------
(* What leaves the outputs of a session where they are.                    *)

\* A session whose task, outputs and actor are left alone.
LEMMA SessionFrame ==
    ASSUME NEW s \in Session, SessionInv(s),
           protocol' = protocol,
           task'[s] = task[s], wire'[s] = wire[s], heard'[s] = heard[s],
           outputRx'[s] = outputRx[s], emitted'[s] = emitted[s],
           connected'[s] = connected[s],
           client[s] = "reset" => client'[s] = "reset",
           pc'[s] = "wait_login" => pc[s] = "wait_login"
    PROVE  SessionInv(s)'
<1>1. Numbered(s)'
  BY DEF SessionInv, Numbered, InOrder, Ahead, InHand, Ended
<1> QED
  BY <1>1 DEF SessionInv, Ended, DeliveredAtEnd

\* A task that goes from one place to another with nothing in its hand.
LEMMA SessionMoves ==
    ASSUME NEW s \in Session, SessionInv(s),
           protocol' = protocol,
           task[s].at # "sending", ~Ended(s), task'[s].at # "sending", ~Ended(s)',
           wire'[s] = wire[s], heard'[s] = heard[s],
           outputRx'[s] = outputRx[s], emitted'[s] = emitted[s],
           connected'[s] = connected[s], pc'[s] = pc[s]
    PROVE  SessionInv(s)'
<1>1. Numbered(s)'
  BY DEF SessionInv, Numbered, InOrder, Ahead, InHand
<1> QED
  BY <1>1 DEF SessionInv, Ended, DeliveredAtEnd

\* Other sessions are not touched by the steps of one.
LEMMA OtherSessions ==
    ASSUME ConnectionInv, ConnectionTypeOK', NEW s \in Session,
           protocol' = protocol,
           \A t \in Session : t # s =>
               /\ task'[t] = task[t] /\ wire'[t] = wire[t] /\ heard'[t] = heard[t]
               /\ outputRx'[t] = outputRx[t] /\ emitted'[t] = emitted[t]
               /\ connected'[t] = connected[t] /\ client'[t] = client[t] /\ pc'[t] = pc[t],
           LoginInv', SessionInv(s)'
    PROVE  ConnectionInv'
<1>1. ASSUME NEW t \in Session, t # s
      PROVE  SessionInv(t)'
  BY <1>1, SessionFrame DEF ConnectionInv
<1> QED
  BY <1>1 DEF ConnectionInv

-----------------------------------------------------------------------------
(* The steps of the logins.                                                *)

LEMMA StepOfLogins == [Next]_vars => [LoginNext]_loginVars
<1> SUFFICES ASSUME [Next]_vars PROVE [LoginNext]_loginVars
  OBVIOUS
<1>1. CASE Signal \/ Exit
  BY <1>1 DEF Signal, Exit
<1>2. ASSUME NEW s \in Session, Accept(s) \/ Handshake(s, "select") \/ Handshake(s, "refused")
      PROVE  [LoginNext]_loginVars
  BY <1>2 DEF Accept, StartTask, Handshake
<1>3. ASSUME NEW s \in Session, NEW place, EndTask(s, place)
      PROVE  [LoginNext]_loginVars
  BY <1>3 DEF EndTask, LoginNext
<1>4. ASSUME NEW s \in Session, CloseStream(s) \/ Reset(s) \/ ClientReceives(s)
      PROVE  [LoginNext]_loginVars
  BY <1>4 DEF CloseStream, Reset, ClientReceives
<1>5. ASSUME NEW s \in Session, TcpRequest(s) \/ WebSocketRequest(s) \/ GrpcRequest(s)
      PROVE  [LoginNext]_loginVars
  BY <1>3, <1>5
  DEF TcpRequest, WebSocketRequest, GrpcRequest, ReadInvalid, Forward, ForwardInVain
<1>6. ASSUME NEW s \in Session,
             ReceiveOutput(s) \/ ReceiveNone(s) \/ SendOutput(s) \/ SendFails(s) \/ SendPong(s)
                 \/ SendClose(s)
      PROVE  [LoginNext]_loginVars
  BY <1>3, <1>6
  DEF ReceiveOutput, ReceiveNone, SendOutput, SendFails, SendPong, SendClose
<1>7. ASSUME NEW s \in Session, TcpEnd(s) \/ WebSocketEnd(s) \/ GrpcEnd(s)
      PROVE  [LoginNext]_loginVars
  BY <1>3, <1>7 DEF TcpEnd, WebSocketEnd, GrpcEnd, ReadError
<1>8. ASSUME NEW s \in Session, WaitLogin(s) \/ EndActor(s) \/ ActorPanics(s) \/ ActorWorks(s)
      PROVE  [LoginNext]_loginVars
  BY <1>8 DEF WaitLogin, EndActor, ActorPanics, ActorWorks, LoginNext
<1>9. CASE UNCHANGED vars
  BY <1>9 DEF vars
<1> QED
  BY <1>1, <1>2, <1>4, <1>5, <1>6, <1>7, <1>8, <1>9 DEF Next, ClientStep, TaskStep

-----------------------------------------------------------------------------
(* The ways in which steps touch the outputs.                              *)

\* Steps that touch neither tasks nor outputs.
LEMMA StillPreserves ==
    ASSUME ConnectionInv, ConnectionTypeOK', LoginInv',
           UNCHANGED <<protocol, task, wire, heard, outputRx, emitted, connected>>,
           \A s \in Session : client[s] = "reset" => client'[s] = "reset",
           \A s \in Session : pc'[s] = "wait_login" => pc[s] = "wait_login"
    PROVE  ConnectionInv'
BY SessionFrame DEF ConnectionInv

\* A task goes from one place to another with nothing in its hand.
LEMMA MovePreserves ==
    ASSUME ConnectionInv, LoginInv', NEW s \in Session,
           NEW place \in {"handshake", "select", "pong", "closing", "refused"},
           task[s].at # "sending", ~Ended(s), GoesTo(s, place),
           UNCHANGED <<loginVars, protocol, server, client, channelVars>>,
           requests' \in [Session -> 0..MaxRequests]
    PROVE  ConnectionInv'
<1>1. [at |-> place] \in Task
  BY TaskValues
<1>2. ConnectionTypeOK'
  BY <1>1 DEF ConnectionInv, ConnectionTypeOK, GoesTo, channelVars
<1>3. /\ task'[s] = [at |-> place]
      /\ \A t \in Session : t # s => task'[t] = task[t]
  BY DEF ConnectionInv, ConnectionTypeOK, GoesTo
<1>4. SessionInv(s)'
  <2>1. task'[s].at # "sending" /\ ~Ended(s)'
    BY <1>3 DEF Ended
  <2> QED
    BY <2>1, SessionMoves DEF ConnectionInv, loginVars, channelVars
<1> QED
  BY <1>2, <1>3, <1>4, OtherSessions DEF loginVars, channelVars

\* A task ends; what it has not sent is lost, unless the end is one that loses nothing.
LEMMA EndTaskPreserves ==
    ASSUME ConnectionInv, LoginInv', NEW s \in Session,
           NEW place \in {"actor_gone", "client_gone", "panicked"},
           EndTask(s, place),
           \/ place = "client_gone"
           \/ client[s] = "reset"
           \/ protocol = "grpc" /\ place = "panicked"
           \/ heard[s] + Len(wire[s]) = emitted[s]
    PROVE  ConnectionInv'
<1>1. [at |-> place] \in Task /\ <<>> \in Seq(1..MaxOutputs)
  BY TaskValues
<1>2. ConnectionTypeOK'
  BY <1>1 DEF ConnectionInv, ConnectionTypeOK, EndTask, GoesTo
<1>3. /\ task'[s] = [at |-> place] /\ ~connected'[s]
      /\ \A t \in Session : t # s =>
             /\ task'[t] = task[t] /\ outputRx'[t] = outputRx[t] /\ connected'[t] = connected[t]
  BY DEF ConnectionInv, LoginInv, LoginTypeOK, ConnectionTypeOK, EndTask, GoesTo, Disconnect
<1>4. SessionInv(s)'
  <2>1. Numbered(s)'
    BY <1>3 DEF EndTask, ConnectionInv, SessionInv, Numbered, InOrder, Ended
  <2>2. DeliveredAtEnd(s)'
    BY <1>3 DEF EndTask, DeliveredAtEnd
  <2> QED
    BY <1>3, <2>1, <2>2 DEF EndTask, Disconnect, ConnectionInv, SessionInv, Ended
<1> QED
  BY <1>2, <1>3, <1>4, OtherSessions DEF EndTask, Disconnect

\* The actor sends an output, which nobody receives once the task has ended.
LEMMA OutputPreserves ==
    ASSUME ConnectionInv, LoginInv', NEW s \in Session,
           emitted[s] < MaxOutputs, Output(s),
           UNCHANGED <<protocol, server, client, task, requests, wire, heard, connected>>,
           inputRx' \in [Session -> Seq(Request)],
           pc'[s] # "wait_login",
           \A t \in Session : t # s => pc'[t] = pc[t]
    PROVE  ConnectionInv'
<1>1. /\ outputRx[s] \in Seq(1..MaxOutputs) /\ Len(outputRx[s]) \in Nat
      /\ Len(wire[s]) \in Nat /\ heard[s] \in Nat /\ emitted[s] \in Nat
      /\ emitted[s] + 1 \in 1..MaxOutputs /\ emitted[s] + 1 \in 0..MaxOutputs
  BY SessionTypes DEF ConnectionInv
<1>2. ConnectionTypeOK'
  <2>1. Append(outputRx[s], emitted[s] + 1) \in Seq(1..MaxOutputs)
    BY <1>1, AppendProperties
  <2>2. /\ emitted' \in [Session -> 0..MaxOutputs]
        /\ outputRx' \in [Session -> Seq(1..MaxOutputs)]
    BY <1>1, <2>1 DEF ConnectionInv, ConnectionTypeOK, Output
  <2> QED
    BY <2>2 DEF ConnectionInv, ConnectionTypeOK
<1>3. CASE ~connected[s]
  <2>1. UNCHANGED <<emitted, outputRx>>
    BY <1>3 DEF Output
  <2>2. \A t \in Session : pc'[t] = "wait_login" => pc[t] = "wait_login"
    OBVIOUS
  <2> QED
    BY <1>2, <2>1, <2>2, StillPreserves
<1>4. CASE connected[s]
  <2>1. /\ emitted'[s] = emitted[s] + 1
        /\ outputRx'[s] = Append(outputRx[s], emitted[s] + 1)
        /\ \A t \in Session : t # s => emitted'[t] = emitted[t] /\ outputRx'[t] = outputRx[t]
    BY <1>4 DEF Output, ConnectionInv, ConnectionTypeOK
  <2>2. ~Ended(s) /\ Numbered(s)
    BY <1>4 DEF ConnectionInv, SessionInv
  <2>3. Ahead(s) \in Nat
    BY <1>1 DEF Ahead, InHand
  <2>4. InOrder(outputRx[s], Ahead(s)) /\ Ahead(s) + Len(outputRx[s]) = emitted[s]
    BY <2>2 DEF Numbered
  <2>5. /\ Len(outputRx'[s]) = Len(outputRx[s]) + 1
        /\ InOrder(outputRx'[s], Ahead(s))
        /\ Ahead(s) + Len(outputRx'[s]) = emitted'[s]
    <3>1. PICK n \in Nat, m \in Nat, e \in Nat :
              n = Ahead(s) /\ m = Len(outputRx[s]) /\ e = emitted[s]
      BY <1>1, <2>3
    <3>2. n + m = e /\ e + 1 = n + m + 1 /\ n + (m + 1) = e + 1
      BY <2>4, <3>1
    <3>3. /\ Len(Append(outputRx[s], e + 1)) = m + 1
          /\ InOrder(Append(outputRx[s], e + 1), n)
      BY <1>1, <2>4, <3>1, <3>2, AppendedInOrder, Zenon
    <3> QED
      BY <2>1, <3>1, <3>2, <3>3, Zenon
  <2>6. Ahead(s)' = Ahead(s)
    BY DEF Ahead, InHand
  <2>7. InOrder(outputRx[s], Ahead(s))' /\ (Ahead(s) + Len(outputRx[s]) = emitted[s])'
    BY <2>5, <2>6, Zenon
  <2>8. Numbered(s)'
    BY <2>2, <2>7 DEF Numbered, InOrder
  <2>9. SessionInv(s)'
    BY <2>2, <2>8 DEF ConnectionInv, SessionInv, DeliveredAtEnd, Ended
  <2> QED
    BY <1>2, <2>1, <2>9, OtherSessions
<1> QED
  BY <1>3, <1>4

\* The task takes the head of the actor's channel into its hand.
LEMMA ReceiveOutputPreserves ==
    ASSUME ConnectionInv, LoginInv', NEW s \in Session, ReceiveOutput(s)
    PROVE  ConnectionInv'
<1>1. /\ outputRx[s] \in Seq(1..MaxOutputs) /\ outputRx[s] # <<>>
      /\ Len(wire[s]) \in Nat /\ heard[s] \in Nat
      /\ ~Ended(s) /\ task[s].at # "sending" /\ Numbered(s)
  BY SessionTypes DEF ConnectionInv, SessionInv, ReceiveOutput, AtSelect, Ended
<1>2. Ahead(s) \in Nat /\ Ahead(s) = heard[s] + Len(wire[s])
  BY <1>1 DEF Ahead, InHand
<1>3. InOrder(outputRx[s], Ahead(s)) /\ Ahead(s) + Len(outputRx[s]) = emitted[s]
  BY <1>1 DEF Numbered
<1>4. /\ Head(outputRx[s]) \in 1..MaxOutputs /\ Tail(outputRx[s]) \in Seq(1..MaxOutputs)
      /\ Len(outputRx[s]) = Len(Tail(outputRx[s])) + 1
      /\ Head(outputRx[s]) = Ahead(s) + 1
      /\ InOrder(Tail(outputRx[s]), Ahead(s) + 1)
  BY <1>1, <1>2, <1>3, TailInOrder, Zenon
<1>5. [at |-> "sending", output |-> Head(outputRx[s])] \in Task
  BY <1>4, TaskValues
<1>6. /\ task'[s] = [at |-> "sending", output |-> Head(outputRx[s])]
      /\ outputRx'[s] = Tail(outputRx[s])
      /\ \A t \in Session : t # s => task'[t] = task[t] /\ outputRx'[t] = outputRx[t]
  BY DEF ReceiveOutput, ConnectionInv, ConnectionTypeOK
<1>7. ConnectionTypeOK'
  BY <1>4, <1>5 DEF ReceiveOutput, ConnectionInv, ConnectionTypeOK
<1>8. SessionInv(s)'
  <2>1. task'[s].at = "sending" /\ task'[s].output = Head(outputRx[s])
    BY <1>6
  <2>2. Ahead(s)' = Ahead(s) + 1
    BY <1>1, <1>2, <2>1 DEF Ahead, InHand, ReceiveOutput
  <2>3. Len(Tail(outputRx[s])) \in Nat /\ emitted'[s] = emitted[s]
    BY <1>4, LenProperties DEF ReceiveOutput
  <2>4. (Ahead(s) + 1) + Len(Tail(outputRx[s])) = emitted[s]
    BY <1>2, <1>3, <1>4, <2>3
  <2>5. InOrder(outputRx[s], Ahead(s))' /\ (Ahead(s) + Len(outputRx[s]) = emitted[s])'
    BY <1>4, <1>6, <2>2, <2>3, <2>4, Zenon DEF InOrder
  <2>6. (task[s].output = heard[s] + Len(wire[s]) + 1)'
    BY <1>2, <1>4, <2>1 DEF ReceiveOutput
  <2>7. InOrder(wire[s], heard[s])'
    BY <1>1 DEF Numbered, InOrder, ReceiveOutput
  <2>8. Numbered(s)'
    BY <2>5, <2>6, <2>7 DEF Numbered
  <2>9. connected'[s] /\ ~Ended(s)' /\ DeliveredAtEnd(s)' /\ (pc[s] = "wait_login" => emitted[s] = 0)'
    BY <1>1, <2>1 DEF ConnectionInv, SessionInv, ReceiveOutput, loginVars, Ended, DeliveredAtEnd
  <2> QED
    BY <2>8, <2>9 DEF SessionInv
<1> QED
  BY <1>6, <1>7, <1>8, OtherSessions DEF ReceiveOutput, loginVars

\* The task puts what it holds on the wire.
LEMMA SendOutputPreserves ==
    ASSUME ConnectionInv, LoginInv', NEW s \in Session, SendOutput(s)
    PROVE  ConnectionInv'
<1>1. /\ wire[s] \in Seq(1..MaxOutputs) /\ Len(wire[s]) \in Nat /\ heard[s] \in Nat
      /\ ~Ended(s) /\ task[s].at = "sending" /\ Numbered(s)
      /\ task[s].output \in 1..MaxOutputs
  BY SessionTypes, TaskFields DEF ConnectionInv, SessionInv, SendOutput, Ended
<1>2. /\ InOrder(wire[s], heard[s]) /\ task[s].output = heard[s] + Len(wire[s]) + 1
      /\ InOrder(outputRx[s], Ahead(s)) /\ Ahead(s) + Len(outputRx[s]) = emitted[s]
  BY <1>1 DEF Numbered
<1>3. /\ Append(wire[s], task[s].output) \in Seq(1..MaxOutputs)
      /\ Len(Append(wire[s], task[s].output)) = Len(wire[s]) + 1
      /\ InOrder(Append(wire[s], task[s].output), heard[s])
  BY <1>1, <1>2, AppendedInOrder, Zenon
<1>4. /\ task'[s] = [at |-> "select"] /\ wire'[s] = Append(wire[s], task[s].output)
      /\ \A t \in Session : t # s => task'[t] = task[t] /\ wire'[t] = wire[t]
  BY DEF SendOutput, GoesTo, ConnectionInv, ConnectionTypeOK
<1>5. ConnectionTypeOK'
  BY <1>3, TaskValues DEF SendOutput, GoesTo, ConnectionInv, ConnectionTypeOK
<1>6. SessionInv(s)'
  <2>1. task'[s].at = "select"
    BY <1>4
  <2>2. Ahead(s)' = Ahead(s)
    BY <1>1, <1>3, <1>4, <2>1 DEF Ahead, InHand, SendOutput
  <2>3. InOrder(outputRx[s], Ahead(s))' /\ (Ahead(s) + Len(outputRx[s]) = emitted[s])'
    BY <1>2, <2>2, Zenon DEF InOrder, SendOutput
  <2>4. InOrder(wire[s], heard[s])'
    BY <1>3, <1>4, Zenon DEF InOrder, SendOutput
  <2>5. Numbered(s)'
    BY <2>1, <2>3, <2>4 DEF Numbered
  <2>6. connected'[s] /\ ~Ended(s)' /\ DeliveredAtEnd(s)' /\ (pc[s] = "wait_login" => emitted[s] = 0)'
    BY <1>1, <2>1 DEF ConnectionInv, SessionInv, SendOutput, loginVars, Ended, DeliveredAtEnd
  <2> QED
    BY <2>5, <2>6 DEF SessionInv
<1> QED
  BY <1>4, <1>5, <1>6, OtherSessions DEF SendOutput, loginVars

\* The client takes the head of the wire, whatever has become of the task.
LEMMA ClientReceivesPreserves ==
    ASSUME ConnectionInv, LoginInv', NEW s \in Session, ClientReceives(s)
    PROVE  ConnectionInv'
<1>1. /\ wire[s] \in Seq(1..MaxOutputs) /\ wire[s] # <<>> /\ heard[s] \in Nat
      /\ InOrder(wire[s], heard[s])
  BY SessionTypes DEF ConnectionInv, SessionInv, Numbered, ClientReceives
<1>2. /\ Head(wire[s]) \in 1..MaxOutputs /\ Tail(wire[s]) \in Seq(1..MaxOutputs)
      /\ Len(wire[s]) = Len(Tail(wire[s])) + 1
      /\ Head(wire[s]) = heard[s] + 1
      /\ InOrder(Tail(wire[s]), heard[s] + 1)
  BY <1>1, TailInOrder, Zenon
<1>3. /\ wire'[s] = Tail(wire[s]) /\ heard'[s] = heard[s] + 1
      /\ \A t \in Session : t # s => wire'[t] = wire[t] /\ heard'[t] = heard[t]
  BY <1>2 DEF ClientReceives, ConnectionInv, ConnectionTypeOK
<1>4. ConnectionTypeOK'
  <2>1. Head(wire[s]) \in 0..MaxOutputs
    BY <1>2, ConnectionAssumption
  <2> QED
    BY <1>2, <2>1 DEF ClientReceives, ConnectionInv, ConnectionTypeOK
<1>5. SessionInv(s)'
  <2>1. Len(Tail(wire[s])) \in Nat
    BY <1>2, LenProperties
  <2>2. heard'[s] + Len(wire'[s]) = heard[s] + Len(wire[s])
    BY <1>1, <1>2, <1>3, <2>1
  <2>3. Ahead(s)' = Ahead(s)
    BY <2>2 DEF Ahead, InHand, ClientReceives
  <2>4. InOrder(wire[s], heard[s])'
    BY <1>2, <1>3, Zenon DEF InOrder
  <2>5. Numbered(s)
    BY DEF ConnectionInv, SessionInv
  <2>6. Numbered(s)'
    BY <2>2, <2>3, <2>4, <2>5 DEF Numbered, InOrder, Ended, ClientReceives
  <2> QED
    BY <2>2, <2>6 DEF ConnectionInv, SessionInv, ClientReceives, loginVars, Ended, DeliveredAtEnd
<1> QED
  BY <1>3, <1>4, <1>5, OtherSessions DEF ClientReceives, loginVars

-----------------------------------------------------------------------------
(* One lemma for each part of Next.                                        *)

\* Signal and Exit, the clients' ends, and the steps of tasks that only go elsewhere.
LEMMA ServerPreserves ==
    ASSUME ConnectionInv, LoginInv', Signal \/ Exit
    PROVE  ConnectionInv'
<1>1. ConnectionTypeOK'
  BY DEF ConnectionInv, ConnectionTypeOK, Signal, Exit, channelVars
<1> QED
  BY <1>1, StillPreserves DEF Signal, Exit, channelVars, loginVars

LEMMA AcceptPreserves ==
    ASSUME ConnectionInv, LoginInv', NEW s \in Session,
           Accept(s) \/ Handshake(s, "select") \/ Handshake(s, "refused")
    PROVE  ConnectionInv'
<1>1. /\ task[s].at \in {"absent", "handshake"}
      /\ \E place \in {"handshake", "select", "refused"} : GoesTo(s, place)
      /\ UNCHANGED <<loginVars, protocol, server, client, channelVars>>
      /\ requests' \in [Session -> 0..MaxRequests]
  BY DEF Accept, StartTask, Handshake, ConnectionInv, ConnectionTypeOK
<1>2. task[s].at # "sending" /\ ~Ended(s)
  BY <1>1 DEF Ended
<1> QED
  BY <1>1, <1>2, MovePreserves

LEMMA ClientEndsPreserve ==
    ASSUME ConnectionInv, LoginInv', NEW s \in Session, CloseStream(s) \/ Reset(s)
    PROVE  ConnectionInv'
<1>1. ConnectionTypeOK'
  BY DEF ConnectionInv, ConnectionTypeOK, CloseStream, Reset, channelVars
<1>2. \A t \in Session : client[t] = "reset" => client'[t] = "reset"
  BY DEF ConnectionInv, ConnectionTypeOK, CloseStream, Reset
<1> QED
  BY <1>1, <1>2, StillPreserves DEF CloseStream, Reset, channelVars, loginVars

\* A request is handed to the actor, or its actor has ended.
LEMMA ForwardPreserves ==
    ASSUME ConnectionInv, LoginInv', NEW s \in Session, NEW request \in Request,
           Reads(s), Forward(s, request) \/ ForwardInVain(s)
    PROVE  ConnectionInv'
<1>1. requests' \in [Session -> 0..MaxRequests]
  BY ConnectionAssumption DEF ConnectionInv, ConnectionTypeOK, Reads
<1>2. inputRx' \in [Session -> Seq(Request)]
  <2>1. Append(inputRx[s], request) \in Seq(Request)
    BY SessionTypes, AppendProperties DEF ConnectionInv
  <2> QED
    BY <2>1 DEF ConnectionInv, ConnectionTypeOK, Forward, ForwardInVain, channelVars
<1>3. ConnectionTypeOK'
  BY <1>1, <1>2 DEF ConnectionInv, ConnectionTypeOK, Forward, ForwardInVain, channelVars
<1> QED
  BY <1>3, StillPreserves DEF Forward, ForwardInVain, channelVars, loginVars

\* A step of the client's branch that ends the task for the client's sake.
LEMMA ClientGonePreserves ==
    ASSUME ConnectionInv, LoginInv', NEW s \in Session, EndTask(s, "client_gone")
    PROVE  ConnectionInv'
BY EndTaskPreserves

LEMMA RequestPreserves ==
    ASSUME ConnectionInv, LoginInv', NEW s \in Session,
           TcpRequest(s) \/ WebSocketRequest(s) \/ GrpcRequest(s)
    PROVE  ConnectionInv'
<1>1. CASE ReadInvalid(s)
  BY <1>1, ClientGonePreserves DEF ReadInvalid
<1>2. CASE \E request \in Request : Reads(s) /\ (Forward(s, request) \/ ForwardInVain(s))
  BY <1>2, ForwardPreserves
<1>3. CASE /\ Reads(s)
           /\ GoesTo(s, "pong")
           /\ UNCHANGED <<loginVars, protocol, server, client, channelVars>>
  <2>1. requests' \in [Session -> 0..MaxRequests]
    BY <1>3, ConnectionAssumption DEF ConnectionInv, ConnectionTypeOK, Reads
  <2>2. task[s].at # "sending" /\ ~Ended(s)
    BY <1>3 DEF Reads, AtSelect, Ended
  <2> QED
    BY <1>3, <2>1, <2>2, MovePreserves
<1>4. CASE protocol = "grpc" /\ EndTask(s, "panicked")
  BY <1>4, EndTaskPreserves
<1> QED
  BY <1>1, <1>2, <1>3, <1>4 DEF TcpRequest, WebSocketRequest, GrpcRequest

\* The ends of the client's stream, as far as they make the task do something.
LEMMA StreamEndPreserves ==
    ASSUME ConnectionInv, LoginInv', NEW s \in Session,
           TcpEnd(s) \/ WebSocketEnd(s) \/ GrpcEnd(s) \/ SendPong(s) \/ SendClose(s)
    PROVE  ConnectionInv'
<1>1. CASE EndTask(s, "client_gone")
  BY <1>1, ClientGonePreserves
<1>2. CASE /\ task[s].at \in {"select", "pong"}
           /\ \E place \in {"select", "closing"} : GoesTo(s, place)
           /\ UNCHANGED <<loginVars, protocol, server, client, requests, channelVars>>
  <2>1. task[s].at # "sending" /\ ~Ended(s)
    BY <1>2 DEF Ended
  <2>2. requests' \in [Session -> 0..MaxRequests]
    BY <1>2 DEF ConnectionInv, ConnectionTypeOK
  <2> QED
    BY <1>2, <2>1, <2>2, MovePreserves
<1> QED
  BY <1>1, <1>2
  DEF TcpEnd, WebSocketEnd, GrpcEnd, ReadError, SendPong, SendClose, AtSelect

\* recv returns None only when nothing is left to send.
LEMMA ReceiveNonePreserves ==
    ASSUME ConnectionInv, LoginInv', NEW s \in Session, ReceiveNone(s)
    PROVE  ConnectionInv'
<1>1. /\ ~Ended(s) /\ task[s].at # "sending" /\ Numbered(s)
      /\ Len(outputRx[s]) = 0 /\ Len(wire[s]) \in Nat /\ heard[s] \in Nat
  BY SessionTypes, EmptySeq DEF ConnectionInv, SessionInv, ReceiveNone, AtSelect, Ended
<1>2. heard[s] + Len(wire[s]) = emitted[s]
  BY <1>1 DEF Numbered, Ahead, InHand
<1> QED
  BY <1>2, EndTaskPreserves DEF ReceiveNone

LEMMA SendFailsPreserves ==
    ASSUME ConnectionInv, LoginInv', NEW s \in Session, SendFails(s)
    PROVE  ConnectionInv'
BY EndTaskPreserves DEF SendFails

\* The first output an actor can send is the answer to its login.
LEMMA WaitLoginPreserves ==
    ASSUME ConnectionInv, LoginInv', NEW s \in Session, WaitLogin(s)
    PROVE  ConnectionInv'
<1>1. inputRx' \in [Session -> Seq(Request)]
  <2>1. /\ <<>> \in Seq(Request)
        /\ inputRx[s] # <<>> => Tail(inputRx[s]) \in Seq(Request)
    BY SessionTypes, HeadTailProperties DEF ConnectionInv
  <2> QED
    BY <2>1 DEF ConnectionInv, ConnectionTypeOK, WaitLogin, TakeInput, DropInput
<1>2. CASE LoginRequest(s) /\ Output(s)
  <2>1. emitted[s] < MaxOutputs
    BY ConnectionAssumption DEF WaitLogin, ConnectionInv, SessionInv
  <2>2. /\ connected' = connected /\ pc'[s] # "wait_login"
        /\ \A t \in Session : t # s => pc'[t] = pc[t]
    BY <1>2
    DEF LoginRequest, Admit, RefuseAlreadyLoggedIn, RefuseUnauthorized, RefuseLogin,
        ConnectionInv, LoginInv, LoginTypeOK
  <2> QED
    BY <1>1, <1>2, <2>1, <2>2, OutputPreserves DEF WaitLogin
<1>3. CASE UNCHANGED <<loginVars, emitted, outputRx>> \/ (GiveUpLogin(s) /\ UNCHANGED <<emitted, outputRx>>)
  <2>1. ConnectionTypeOK'
    BY <1>1, <1>3 DEF ConnectionInv, ConnectionTypeOK, WaitLogin
  <2>2. \A t \in Session : pc'[t] = "wait_login" => pc[t] = "wait_login"
    BY <1>3 DEF GiveUpLogin, ConnectionInv, LoginInv, LoginTypeOK, loginVars
  <2>3. connected' = connected
    BY <1>3 DEF GiveUpLogin, loginVars
  <2> QED
    BY <1>3, <2>1, <2>2, <2>3, StillPreserves DEF WaitLogin
<1> QED
  BY <1>2, <1>3 DEF WaitLogin

LEMMA ActorEndsPreserve ==
    ASSUME ConnectionInv, LoginInv', NEW s \in Session, EndActor(s) \/ ActorPanics(s)
    PROVE  ConnectionInv'
<1>1. /\ connected' = connected
      /\ \A t \in Session : pc'[t] = "wait_login" => pc[t] = "wait_login"
  BY DEF EndActor, ActorPanics, UnregisterRefused, UnregisterPlayer, Panic,
         ConnectionInv, LoginInv, LoginTypeOK
<1>2. ConnectionTypeOK'
  <2>1. inputRx' \in [Session -> Seq(Request)]
    <3>1. <<>> \in Seq(Request)
      OBVIOUS
    <3> QED
      BY <3>1 DEF EndActor, ActorPanics, DropInput, ConnectionInv, ConnectionTypeOK
  <2> QED
    BY <2>1 DEF EndActor, ActorPanics, ConnectionInv, ConnectionTypeOK
<1> QED
  BY <1>1, <1>2, StillPreserves DEF EndActor, ActorPanics

LEMMA ActorWorksPreserves ==
    ASSUME ConnectionInv, LoginInv', NEW s \in Session, ActorWorks(s)
    PROVE  ConnectionInv'
<1>1. inputRx' \in [Session -> Seq(Request)]
  <2>1. inputRx[s] # <<>> => Tail(inputRx[s]) \in Seq(Request)
    BY SessionTypes, HeadTailProperties DEF ConnectionInv
  <2> QED
    BY <2>1 DEF ConnectionInv, ConnectionTypeOK, ActorWorks, TakeInput
<1>2. CASE UNCHANGED <<emitted, outputRx>>
  <2>1. ConnectionTypeOK'
    BY <1>1, <1>2 DEF ConnectionInv, ConnectionTypeOK, ActorWorks
  <2> QED
    BY <1>2, <2>1, StillPreserves DEF ActorWorks, loginVars
<1>3. CASE emitted[s] < MaxOutputs /\ Output(s)
  BY <1>1, <1>3, OutputPreserves DEF ActorWorks, loginVars
<1> QED
  BY <1>2, <1>3 DEF ActorWorks

-----------------------------------------------------------------------------

LEMMA InitImpliesConnectionInv == Init => ConnectionInv
<1> SUFFICES ASSUME Init PROVE ConnectionInv
  OBVIOUS
<1>1. LoginInv
  BY LoginInitImpliesLoginInv DEF Init
<1>2. ConnectionTypeOK
  BY ConnectionAssumption, TaskValues DEF Init, ConnectionTypeOK
<1>3. ASSUME NEW s \in Session
      PROVE  SessionInv(s)
  <2>1. /\ task[s].at = "absent" /\ heard[s] = 0 /\ emitted[s] = 0 /\ connected[s]
        /\ Len(wire[s]) = 0 /\ Len(outputRx[s]) = 0
    BY EmptySeq DEF Init, LoginInit
  <2>2. Ahead(s) = 0
    BY <2>1 DEF Ahead, InHand
  <2> QED
    BY <2>1, <2>2 DEF SessionInv, Numbered, InOrder, Ended, DeliveredAtEnd
<1> QED
  BY <1>1, <1>2, <1>3 DEF ConnectionInv

LEMMA NextPreservesConnectionInv == ConnectionInv /\ [Next]_vars => ConnectionInv'
<1> SUFFICES ASSUME ConnectionInv, [Next]_vars PROVE ConnectionInv'
  OBVIOUS
<1>1. LoginInv'
  BY StepOfLogins, LoginNextPreservesLoginInv DEF ConnectionInv
<1>2. CASE Signal \/ Exit
  BY <1>1, <1>2, ServerPreserves
<1>3. ASSUME NEW s \in Session, Accept(s)
      PROVE  ConnectionInv'
  BY <1>1, <1>3, AcceptPreserves
<1>4. ASSUME NEW s \in Session, ClientStep(s)
      PROVE  ConnectionInv'
  BY <1>1, <1>4, AcceptPreserves, RequestPreserves, ClientEndsPreserve, ClientReceivesPreserves
  DEF ClientStep
<1>5. ASSUME NEW s \in Session, TaskStep(s)
      PROVE  ConnectionInv'
  BY <1>1, <1>5, AcceptPreserves, ReceiveOutputPreserves, ReceiveNonePreserves,
     SendOutputPreserves, SendFailsPreserves, StreamEndPreserves
  DEF TaskStep
<1>6. ASSUME NEW s \in Session, WaitLogin(s) \/ EndActor(s) \/ ActorPanics(s) \/ ActorWorks(s)
      PROVE  ConnectionInv'
  BY <1>1, <1>6, WaitLoginPreserves, ActorEndsPreserve, ActorWorksPreserves
<1>7. CASE UNCHANGED vars
  <2>1. ConnectionTypeOK'
    BY <1>7 DEF vars, connectionVars, channelVars, ConnectionInv, ConnectionTypeOK
  <2> QED
    BY <1>1, <1>7, <2>1, StillPreserves DEF vars, connectionVars, channelVars, loginVars
<1> QED
  BY <1>2, <1>3, <1>4, <1>5, <1>6, <1>7 DEF Next

THEOREM ConnectionInvInvariant == Spec => []ConnectionInv
BY InitImpliesConnectionInv, NextPreservesConnectionInv, PTL DEF Spec

\* The type invariant of the connections holds for all constants.
THEOREM ConnectionTypeCorrect == Spec => []TypeOK
<1>1. ConnectionInv => TypeOK
  BY DEF ConnectionInv, LoginInv, TypeOK
<1> QED
  BY <1>1, ConnectionInvInvariant, PTL

\* The connections use the logins: whatever a connection and its client do, what
\* they do to a login is what Login says can happen to it, so that its theorems hold here.
THEOREM ConnectionsUseLogin == Spec => LoginSpec
<1>1. Init => LoginInit
  BY DEF Init
<1> QED
  BY <1>1, StepOfLogins, PTL DEF Spec, LoginSpec

-----------------------------------------------------------------------------
(* The outputs, from the actor to the client.                              *)

\* Two channels one after the other.
LEMMA ConcatenatedInOrder ==
    ASSUME NEW S, NEW p \in Seq(S), NEW q \in Seq(S), NEW n \in Nat,
           InOrder(p, n), InOrder(q, n + Len(p))
    PROVE  /\ p \o q \in Seq(S)
           /\ Len(p \o q) = Len(p) + Len(q)
           /\ InOrder(p \o q, n)
<1>1. /\ Len(p) \in Nat /\ Len(q) \in Nat
      /\ p \o q \in Seq(S)
      /\ Len(p \o q) = Len(p) + Len(q)
      /\ \A i \in 1..Len(p) + Len(q) :
             (p \o q)[i] = IF i <= Len(p) THEN p[i] ELSE q[i - Len(p)]
  BY ConcatProperties, LenProperties
<1>2. ASSUME NEW i \in 1..Len(p) + Len(q)
      PROVE  (p \o q)[i] = n + i
  <2>1. CASE i \in 1..Len(p)
    BY <1>1, <2>1 DEF InOrder
  <2>2. CASE i - Len(p) \in 1..Len(q)
    <3>1. PICK j \in 1..Len(q) : j = i - Len(p)
      BY <2>2
    <3>2. q[j] = n + Len(p) + j
      BY DEF InOrder
    <3>3. (p \o q)[i] = q[j]
      BY <1>1, <2>2, <3>1
    <3> QED
      BY <1>1, <3>1, <3>2, <3>3
  <2> QED
    BY <1>1, <2>1, <2>2
<1> QED
  BY <1>1, <1>2 DEF InOrder

\* Everything between the actor and the client of a connection that lasts.
LEMMA InTransitInOrder ==
    ASSUME ConnectionInv, NEW s \in Session, ~Ended(s)
    PROVE  /\ InTransit(s) \in Seq(1..MaxOutputs)
           /\ InOrder(InTransit(s), heard[s])
           /\ heard[s] + Len(InTransit(s)) = emitted[s]
<1> DEFINE hand == IF task[s].at = "sending" THEN <<task[s].output>> ELSE <<>>
<1>1. /\ wire[s] \in Seq(1..MaxOutputs) /\ Len(wire[s]) \in Nat /\ heard[s] \in Nat
      /\ outputRx[s] \in Seq(1..MaxOutputs) /\ Len(outputRx[s]) \in Nat
      /\ task[s] \in Task /\ Numbered(s)
  BY SessionTypes DEF ConnectionInv, SessionInv
<1>2. /\ hand \in Seq(1..MaxOutputs) /\ Len(hand) = InHand(s)
      /\ InOrder(hand, heard[s] + Len(wire[s]))
  <2>1. CASE task[s].at = "sending"
    <3>1. /\ hand = <<task[s].output>> /\ InHand(s) = 1
          /\ task[s].output \in 1..MaxOutputs
          /\ task[s].output = heard[s] + Len(wire[s]) + 1
      BY <1>1, <2>1, TaskFields DEF InHand, Numbered
    <3>2. \A e \in 1..MaxOutputs :
              Len(<<e>>) = 1 /\ <<e>>[1] = e /\ <<e>> \in Seq(1..MaxOutputs)
      OBVIOUS
    <3>3. Len(hand) = 1 /\ hand[1] = task[s].output /\ hand \in Seq(1..MaxOutputs)
      <4> HIDE DEF hand
      <4> QED
        BY <3>1, <3>2, Zenon
    <3> QED
      BY <1>1, <3>1, <3>3 DEF InOrder
  <2>2. CASE task[s].at # "sending"
    BY <2>2, EmptySeq DEF InHand, InOrder
  <2> QED
    BY <2>1, <2>2
<1>3. /\ wire[s] \o hand \in Seq(1..MaxOutputs)
      /\ Len(wire[s] \o hand) = Len(wire[s]) + InHand(s)
      /\ InOrder(wire[s] \o hand, heard[s])
  <2> HIDE DEF hand
  <2>1. InOrder(wire[s], heard[s])
    BY <1>1 DEF Numbered
  <2> QED
    BY <1>1, <1>2, <2>1, ConcatenatedInOrder
<1>4. /\ InHand(s) \in Nat
      /\ Ahead(s) = heard[s] + Len(wire[s] \o hand)
      /\ InOrder(outputRx[s], Ahead(s)) /\ Ahead(s) + Len(outputRx[s]) = emitted[s]
  <2> HIDE DEF hand
  <2>1. InHand(s) \in Nat
    BY DEF InHand
  <2> QED
    BY <1>1, <1>3, <2>1 DEF Numbered, Ahead
<1>5. /\ (wire[s] \o hand) \o outputRx[s] \in Seq(1..MaxOutputs)
      /\ Len((wire[s] \o hand) \o outputRx[s]) = Len(wire[s] \o hand) + Len(outputRx[s])
      /\ InOrder((wire[s] \o hand) \o outputRx[s], heard[s])
  <2> HIDE DEF hand
  <2> QED
    BY <1>1, <1>3, <1>4, ConcatenatedInOrder, Zenon
<1>6. heard[s] + (Len(wire[s] \o hand) + Len(outputRx[s])) = emitted[s]
  <2> HIDE DEF hand
  <2> QED
    BY <1>1, <1>3, <1>4
<1> QED
  BY <1>5, <1>6, Zenon DEF InTransit

\* Whatever the task reads in between, however full the wire and however the connection
\* ends, a client receives the outputs of its actor in the order the actor sent them, each
\* once and without a gap, and while the connection lasts none is lost.
THEOREM OutputsAlwaysInOrder == Spec => []OutputsInOrder
<1>1. ASSUME ConnectionInv, NEW s \in Session, Ended(s)
      PROVE  \A k \in DOMAIN wire[s] : wire[s][k] = heard[s] + k
  <2>1. wire[s] \in Seq(1..MaxOutputs) /\ InOrder(wire[s], heard[s])
    BY <1>1, SessionTypes DEF ConnectionInv, SessionInv, Numbered
  <2> QED
    BY <2>1, LenProperties DEF InOrder
<1>2. ASSUME ConnectionInv, NEW s \in Session, ~Ended(s)
      PROVE  /\ \A k \in DOMAIN InTransit(s) : InTransit(s)[k] = heard[s] + k
             /\ heard[s] + Len(InTransit(s)) = emitted[s]
  <2>1. DOMAIN InTransit(s) = 1..Len(InTransit(s))
    BY <1>2, InTransitInOrder, LenProperties
  <2> QED
    BY <1>2, <2>1, InTransitInOrder, Zenon DEF InOrder
<1>3. ConnectionInv => OutputsInOrder
  BY <1>1, <1>2, Zenon DEF OutputsInOrder
<1> QED
  BY <1>3, ConnectionInvInvariant, PTL

\* A connection ends for its actor's end only when all that the actor sent has been
\* passed on: the client of a refused login hears why, whatever it goes on sending.
THEOREM EndAlwaysLosesNothing == Spec => []EndLosesNothing
<1>1. ConnectionInv => EndLosesNothing
  BY DEF ConnectionInv, SessionInv, DeliveredAtEnd, EndLosesNothing
<1> QED
  BY <1>1, ConnectionInvInvariant, PTL

=============================================================================
