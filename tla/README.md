# Verification of mini-realtime-server-rs

TLA+ models of the actors of a small real-time server: clients connect over TCP, WebSocket or
gRPC, log in with a player id, join rooms, send each other messages through them, leave, and
disconnect at any time. The models are checked by TLC on small instances. Proved by TLAPS for
every value of the constants are all their safety invariants, that the room actors implement an
atomic specification of rooms, and that player actors and connections use the other modules only
as they allow.

## 1. Inventory: the system's parts

| part | source | state | operations |
|---|---|---|---|
| player entity | `src/entity/player.rs` | id, sender of the player's event channel | `send` |
| room entity | `src/entity/room.rs` | id, config (`max_players`), `HashMap` of players | `new`, `add_player`, `remove_player`, `is_joined`, `num_players`, `broadcast`, `send` |
| room actors | `src/actor/room.rs`, `event.rs` | static `ROOM_CHANNELS`: room id -> sender; per task a room and its event channel | `get_room_channel`, `get_or_create_room_channel`, `remove_room_from_channels`, `run` with one handler for each of Join, Leave, Message |
| logins | `src/actor/player.rs` (15-25, 103-207) | static `PLAYERS`: ids in use | `register_player`, `unregister_player`, `wait_login`, `send_login_ok`, `send_login_error` |
| player actors | `src/actor/player.rs` (27-83, 209-525) | per connection: `joined_rooms` (room id -> sender), `player_rx`, `input_rx`, `output_tx` | the `select!` loop: `on_client_message`, `on_output_event`, the clean-up once `output_tx` is closed |
| connection handlers | `src/network_protocol/{tcp,websocket,grpc}.rs` | per connection: an `actor::Player`, a stream, for gRPC a response channel of 128 | `handle_rw_stream`, `handle_ws`, the task of `start`: the `select!` loop between the stream and the actor |
| servers, shutdown | same files, `server.rs`, `main.rs` | a listener; which of the three servers runs | accept, `wait_signal`, `run` |
| configuration | `src/config.rs`, `main.rs` | bearer token, `enable_bearer`, TLS files | parsing |

How they interact. A connection handler owns an `actor::Player`: the sender of the actor's input
and the receiver of its output. The player actor reads and writes `PLAYERS` at login and at its
end; it looks a room channel up in `ROOM_CHANNELS` (creating the room if a Join finds none) and
sends Join, Leave and Message events on it; the room task answers on the player's own event
channel, and the player actor turns those events into responses and notifications, which the
handler writes to its client. When the handler drops its `actor::Player`, the actor sees
`output_tx` closed, sends a Leave to each room in `joined_rooms`, frees its id and ends. In the
other direction, an actor that ends (after a refused login, say) closes its channels, and its
handler ends the connection. All channels between actors are unbounded; no actor waits for
another except for the two locks, which are held across no other wait. A handler waits for its
client to take what it writes.

What is hard here:

* **Concurrency.** Every connection and every room is a task. The sender looked up under the
  lock of `ROOM_CHANNELS` is used after the lock is released. A room id is served by a new task
  as soon as the previous one has given the id up, while senders of the old one are still held.
* **Ordering.** `select!` chooses among ready branches at random, so a disconnection may be
  handled before the events that wait in `player_rx`, or before client messages that arrived
  earlier. Removal from the directory is by id and precedes the drop of the receiver.
* **Failure.** Clients vanish at any point. A room may be gone, or about to go, when it is sent
  an event: `send` fails only once the receiver is dropped. A panicking actor runs none of its
  clean-up. An actor may end while its client is still sending, and a client may leave while
  its handler is waiting to write.
* **Liveness.** Requests are to be answered, disconnected sessions to end, empty rooms to go,
  connections to close when either side is gone, the server to exit.

What makes each part correct: the directory and the tasks agree, ids are never served twice and
rooms are neither overfilled nor abandoned with players in them (room actors); a registered id
has a session that answers for it, and two sessions do not share one (logins); what an actor
believes of its rooms is what the rooms believe, up to the events on their way, each Join is
answered exactly once, what a player hears of a room adds up to who is in it, a departing
session leaves its rooms and cannot hurt its successor (player actors); outputs reach the client
in order and none is lost when the actor ends, and a connection outlives neither of its sides
(connections). `PROJECT.json` lists the hazards line by line.

## 2. The modules

```
EntityPlayer ── EntityRoom ──┬── Rooms            abstract: one room per id, four atomic actions
     │                       │     ▲ implemented by
     │                       └── RoomActor ────┐
     └── Login ──┬─────────────────────────────┴── PlayerActor
                 └── Connection
```

| module | what it models |
|---|---|
| `EntityPlayer`, `EntityRoom` | the entities as records, their methods as operators. A player's sender is the session it leads to. |
| `Rooms` | what the room actors promise together: a room id is at most one room, created, entered, left and closed in single steps. |
| `RoomActor` | the directory, the room tasks and both kinds of channels. The player actors are an open environment that may do anything the types allow: send any event to any live task at any time, take events, stop. |
| `Login` | `PLAYERS` and the login part of each player actor. What happens between login and end is open. |
| `PlayerActor` | EXTENDS the last two and closes their environments with the code of the player actor. It is shown to refine both. |
| `Connection` | EXTENDS `Login` and closes the other side of its environment: which server runs, its shutdown, and the task of each connection between a client and an actor. The actor logs in as `Login` says; what it does once logged in is open. It is shown to refine `Login`. |
| `MCLogin`, `MCRoomActor`, `MCPlayerActor` | constants, bounds and symmetry for TLC. |
| `EntityRoomProofs`, `RoomActorProofs`, `RoomsRefinement`, `LoginProofs`, `PlayerActorProofs`, `MembershipProofs`, `AnswersProofs`, `ConnectionProofs` | theorems (section 4). |

### State and steps

* A **room task** is an element of `RoomTask`, and so is its channel: a handle
  (`UnboundedSender`) is the task it leads to. `status` follows the task through `run`:
  `running` (the loop), `emptied` (the room is empty, `remove_room_from_channels` waits for the
  lock), `removed` (the entry is gone, the receiver still exists and `send` still succeeds),
  `dropped`. Each handler together with the `num_players() == 0` test after it is one step:
  between them the task does not wait, and it touches only its own room and the senders of the
  players. Appending to several channels in one step hides only orders that no receiver can
  tell: a receiver sees its own channel, to which each handler appends the copies of one event.
  `get_or_create_room_channel` is one step, since it holds the write lock from lookup to
  insertion.
* A receiver's channel never closes under a running room: the directory holds a sender until the
  room removes it (`DirectoryMatchesTasks`), so `recv` returning `None` does not occur and is
  not a step. In the same way an actor holds a sender of its own `player_rx`.
* A **session** is one connection with its player actor. `pc` follows it through login and end,
  `handler` through the `select!` loop. Where the code waits between reading shared state and
  acting on it, the step is split: a looked-up room channel is carried in `handler` and used by
  `SendEvent`, any number of other steps later; the `for` loop of the clean-up is a step per
  room (`LeaveOnDisconnect`); a refused login sends its error and unregisters the id in two
  steps (`RefuseLogin`, `UnregisterRefused`). Testing and inserting an id is one step
  (`HashSet::insert` under the write lock); comparing the token after it reads nothing shared
  and is part of that step.
* `on_output_event` is one step although it waits for the read lock in one case: nothing but the
  lookup in it concerns what other tasks see, and taking the event from the actor's own channel
  at the moment of the lookup instead of before it is seen by no one. (A disconnection is seen
  by the actor only in `select!`.)
* The **input queue** of an actor is not kept. A client message is chosen when the actor
  receives it, also after the disconnection, when messages sent before it are still read. The
  messages of one client are unconstrained, so every order a client could have sent is covered.
* **Responses** are counted: `joinsOwed` and `leavesOwed` are the requests received less the
  responses sent, for each session and room. A response sent to a connection that is gone is
  ignored by the code and counts as sent here. A `LoginRequest` after login only sends an error
  response and messages without data are ignored; neither changes any state and neither is a
  step.
* `config.max_players` is a natural number from the finite set `RoomConfig`; a `JoinRequest`
  without a config is one with `DefaultConfig`. The body of a message is opaque, its
  `target_ids` a sequence in which ids may repeat or be of players elsewhere.
* In `PlayerActor` a connection handler appears only as `Disconnect`: it drops its
  `actor::Player`, for whatever reason and at whatever time. `Connection` says for which reasons
  and when. The two modules share `Login`: each refines it, `Connection` with an actor that does
  after login whatever it likes, `PlayerActor` with a handler that ends whenever it likes.
* In `Connection`, `task` follows the task of a connection: `select`, `sending` (an output was
  taken from the actor and `send(..).await` has not completed; no other branch runs meanwhile),
  `pong` and `closing` (waiting to write a WebSocket control frame), and four ends. A TCP
  connection with TLS is in `handshake` first; it gets to `select`, with an actor, or ends
  `refused`, without one. The client may leave meanwhile, and a handshake may take for ever
  while its client is there. The handshakes of the others happen in warp and tonic.
  `TcpRequest`, `TcpEnd` and their like are the branch of the client's stream in each of the
  three tasks, split by what the client has to do: requests come when clients send them, the
  ends are found whenever the loop looks. Every end, a panic included, drops `actor::Player` in
  the same step (`EndTask`), as returning and unwinding both do.
* A **client** is `open`, `closed` (it has ended its stream: FIN, END_STREAM or a Close frame;
  it may still be reading), or `reset` (the connection is known to be lost: reads and writes
  fail). A TCP client that closes its connection is `closed`; it becomes `reset` if it answers
  a write with RST, which nothing obliges it to within the model. A request may be read after
  `closed`, since it may have been sent before.
* `wire` holds what the task has written and the client has not received, at most `Capacity`
  outputs: the channel of 128 and the HTTP/2 window in gRPC, the socket buffers in all three. Its
  size matters only for being full. Control frames wait for room, but take none.
* Outputs are numbers, given in the order the actor sends them, so that order, loss and
  duplication can be told.
* `server` is `listening`, `stopping` after SIGTERM or SIGINT, or `exited`, when no task takes
  another step. Whether `run` returns is a definition per server (`TcpServerReturns`, ...); those
  of warp and tonic are what their graceful shutdown does. For gRPC that is to wait for every
  call: until its client is lost, or its task has ended and its responses are drained. The task
  itself is spawned apart from the call and not waited for. (What is left and fits into the
  buffers of the socket is not waited for in fact; the model waits for that too, which can only
  make it exit later.) A client that is lost is noticed also while it leaves responses unread
  after the end of its task. A listener may accept until then.
  Errors of `accept` leave no session behind and are not steps.

Operators marked `Variant` in the modules are plausible wrong versions of the definition that
follows them. No specification uses them; each property is known to fail with one of them
(`PROJECT.json`, "mutants").

## 3. What TLC checks

`max` in the table is the bound on client messages received after login, over all sessions
together (`MaxRequests`).

| run | bounds | shows |
|---|---|---|
| `room_actor` | 2 room ids, 2 tasks, 2 player ids, 1 channel to hear on, capacities 0 and 2, channels explored up to 1 event (`MaxRoomRx`, `MaxPlayerRx`) | type, `DirectoryMatchesTasks`, `OneLiveTaskPerRoom`, `CapacityRespected`, `StoppedRoomIsEmpty`, and that RoomActor implements `Rooms` |
| `player_actor` | 2 sessions, 1 room id, 2 tasks, capacities 1 and 2, max 4 | type, `JoinedRoomsMirrorMembership`, `KnownRoomsAreLeft`, `JoinsAnsweredOnce`, `OnlyMembersHear`, `RosterAddsUp`, and the refinements of `RoomActorSpec` and `LoginSpec` |
| `player_ids` | 3 sessions over 2 ids, 1 task, capacity 2, no messages, max 4 | `NoUnaskedLeave` across sessions that use the same id one after the other; `RegisteredIdsAreAnswerable`, `SharedIdNeedsRefusal` |
| `player_liveness` | 2 sessions, capacity 2, no messages, max 3 | `DisconnectionEndsSession`, `JoinsAnsweredUnlessDropped`, `LeaveTakesEffect`, `NoRoomStaysEmpty` |
| `connection` | each of the 3 servers, 1 session, 4 requests or pings, 5 outputs, `Capacity` 2 | type, `OutputsInOrder`, `EndLosesNothing`, the refinement of `LoginSpec`, `DepartureEndsConnection`, `ActorEndClosesConnection`, `ShutdownCompletes` |
| `login_one_session`, `no_panic`, `no_zombie_member`, `no_lost_join`, `leaves_answered` | as above, max 3 | one finding each (section 6) |
| `grpc_send`, `tcp_end_of_stream` | as `connection`, 2 requests, 1 or 2 outputs, `Capacity` 1 | one finding each |

Why the bounds are enough. *Tasks*: two for one room id is a stop and a re-creation while
handles of the first are still held; two for two ids is two rooms at once. *Channels in
`room_actor`*: the environment may put any event into a channel as soon as there is room, so a
longer queue only delays what one event can already do; the invariants other than the type do
not mention the channels' contents, and they are proved for channels of any length. *max 4*: the shortest
histories that re-create a room under a player (Join, Leave, another Join, and a Message or a
refused Join of the other) fit. Capacity 1 makes rooms full with two players; 0 makes a room
that refuses its creator; two capacities make configs mismatch. *Three sessions* are a session,
its successor with the same id, and a third one that keeps the room alive between them; fewer
cannot violate `NoUnaskedLeave`, and one task is enough, since a Leave to a room that is gone
reaches nobody; they are also two sessions that share an id and the refusal that made it
possible. *One session in `connection`*: connections meet only in `PLAYERS`, which the other
runs check with several sessions, and in the exit of the gRPC server, which waits for each
alike. Four requests are messages without data, a login, and two more, which reach the actor
after it has ended as well as before; five outputs fill the wire, the hand of the task and the
channel of the actor, with some received before. Symmetry (of tasks, sessions and ids, none of which the models order) is used in the
runs without liveness only.

Deadlock is not an error in these models: the message budget ends, clients may do nothing for
ever, and a server exits. That nobody waits for ever who should not is what the liveness properties say.

`NoTakeover` conditions `NoUnaskedLeave` on no login having been refused with `AlreadyLoggedIn`:
finding 2 makes two sessions share an id, and then the Leave of one removes the other from its
rooms. The other properties hold in spite of it: a room has one player per id, so that at most
one of the sessions hears of itself there.

### Fairness

`FairSpec` assumes weak fairness of each room task, of the steps a player actor takes without
its client, and of the end of a refused or abandoned login. The tokio runtime polls every task
that is ready, and no task blocks another: sends to unbounded channels do not wait, and both
locks are fair. Nothing is assumed of the clients: they may stay connected and silent.

Fairness is of the `select!` loop as a whole, not of each branch. One branch of the code is
always ready after a disconnection: `input_rx.recv()` then returns `None` at once and
`on_client_message` ignores it. That turn of the loop changes nothing and is a stutter here, so
weak fairness of the loop stands for the assumption that it does not choose this branch for
ever, which the random choice of `select!` among ready branches justifies. In the bounded model
the events waiting in `player_rx` run out; that a flood of them does not keep an actor from its
closed branch rests on the same random choice.

`JoinsAnsweredUnlessDropped` is about each JoinRequest under way: the number of answers a session
is owed for a room falls below what it is at the time. It excuses a session that ends, and a task
of the room that stops with a Join of the session in its channel (finding 4), and nothing else:
a Join whose room is gone when it is sent, or gone when the player hears that it has entered, has
to be answered by the player actor. That the number falls supposes that the client does not go
on asking for ever, as the bound on requests has it.

`Connection` assumes the same of the task of each connection, of an actor before its login and
at its end (that a logged-in actor ends once its handler is gone is `DisconnectionEndsSession`
of `PlayerActor`), and of `main` after the signal. Reading from a client is not fair, nor is
receiving by a client, nor the detection that it is lost. The liveness properties therefore
name what may hold a connection for ever: a client that is not lost and does not read; and what
may hold the shutdown of the gRPC server: such a client, also after its task has ended, or one
that simply stays while its actor runs (`ShutdownCompletes`). They
are stated as "what stays for ever so, stays so for this reason", since a task that is held up
now and then is no exception to anything. After the end of a TCP stream the loop is always ready
and changes nothing; that it also looks at its other branch is the random choice again.

## 4. What is proved

For all constants that satisfy the `ASSUME`s (ids and sessions are arbitrary sets that do not
contain `None`, nor is it an error code, capacities are naturals), with no bound on rooms, tasks, players or channels:

* `EntityRoomProofs`: `AddPlayer` and `RemovePlayer` keep a room a room with its id and config;
  an accepted `AddPlayer` adds one player, `RemovePlayer` adds none.
* `RoomActorProofs`: `RoomTypeCorrect`, `DirectoryAlwaysMatchesTasks`, `RoomsNeverSplit`,
  `CapacityAlwaysRespected`, `StoppedRoomsStayEmpty`. The inductive invariant is `RoomInv`: the
  type, the agreement of directory and tasks in both directions, that a spawned task has a room,
  capacity, and that a task past `running` has an empty room. The agreement is needed because
  removal is by id: only since an `emptied` task is the one its id leads to does removing the id
  remove the right entry, and only since a live task keeps its entry does the creation of a task
  find no other for the id.
* `RoomsRefinement`: `RoomActorsImplementRooms`. An id denotes the room of the task its entry
  leads to; spawning is `Create`, an accepted Join is `Enter`, a Leave that finds its player is
  `Exit`, `remove_room_from_channels` is `Close`, everything else is a stutter. `RoomInv` is
  used to identify the room of a handling task with the one its id denotes, and to have it empty
  at the removal.
* `LoginProofs`: `LoginTypeCorrect`, `RegisteredIdsAlwaysAnswerable`,
  `IdsSharedOnlyAfterRefusal`. `LoginInv` has to say who has inserted an id and not removed it
  (`Holds`: a session refused as `Unauthorized` included, until it unregisters), and that, until
  a refusal as `AlreadyLoggedIn` has removed the id (`Stolen`), its holder is alone and the id
  is registered (`HoldersAreAlone`). Without the second part another insertion could not be
  excluded.
* `PlayerActorProofs`: `PlayerActorTypeCorrect`, `PlayerActorsUseRoomActors` (`Spec =>
  RoomActorSpec`) and `PlayerActorsUseLogin` (`Spec => LoginSpec`): the code of the player
  actors is one of the environments the two modules allow, so all theorems above hold of the
  composition. The first two rest on `PlayerInv`: `RoomInv`, `LoginInv`, the types, and that an
  actor past its login has an id, which it needs to send a well-formed Leave or Join.
* `MembershipProofs`: `BeliefsMirrorRooms` (`JoinedRoomsMirrorMembership`),
  `DisconnectedLeaveKnownRooms` (`KnownRoomsAreLeft`), `OnlyMembersAlwaysHear`
  (`OnlyMembersHear`) and `RosterAlwaysAddsUp` (`RosterAddsUp`), in two layers.
  *`SignedInv`*: a Join carries the sender and the id of the session that has asked for it from
  the request into the room (`HandlersSign`, `JoinsAreSigned`, `PlayersAreSigned`), so that a
  session is in a room at most once, under its own id, also while it shares the id; and an actor
  holds its event channel exactly until it ends (`ChannelsListen`).
  *`MirrorInv`*: for each session that is logged in, of the events about itself that wait in its
  channel the last tells whether it is in the room (`LastTells`) and they alternate
  (`Alternate`), without which taking the first from the channel would leave nothing known of
  the rest; with none waiting, `joined_rooms` leads to the task it is a player of (`Knows`);
  and `LeavesAll`, `HearsInside` and `RosterKnown`, the three other properties for one session.
  What a step means for a session that did not take it is one of three things, which the lemmas
  `Handle...EventHeard` establish: it enters the room and hears its Join, it leaves and hears its
  Leave, or it stays what it was and hears nothing of itself (`Enters`, `Leaves`, `Stays`).
  That a player's handle leads to the very task it is a player of rests on
  `DirectoryMatchesTasks`: a task with a player is live, so the lookup that follows the Join
  finds it.
* `AnswersProofs`: `JoinsAlwaysAnsweredOnce` (`JoinsAnsweredOnce`) and `LeavesAlwaysAsked`
  (`NoUnaskedLeave`). Both count places. A Join of a session for a room is in the hand of its
  actor, in the channel of a task of the room, or, as its answer, in the channel of the session;
  `JoinBalance` sets the number of these places (`JoinCount`) against what is owed. The move from
  one place to the next is the one thing each lemma shows (`Follows`): a handler that takes a
  Join of the session tells it either of its own Join or of its own error, and of neither
  otherwise. `NoUnaskedLeave` by itself says only that a number is not negative; what keeps it so
  is `LeaveBalance`, which counts the Leaves of the session in the same three places. Of those in
  the channel of a task only the ones that may find the session there are counted (it is in the
  room, or a Join of its own waits before them): an earlier session with the id may have left
  its Leaves behind, and they are harmless just because the id was freed after them and every
  Join of the later session comes behind them. An actor on its way out has closed this account
  and sends Leaves nobody asked for; that they concern nobody else is where `NoTakeover` and
  `LoginInv` come in (`IdsDiffer`). The rest of `AnswerInv` is what a request needs to be counted
  in the right place: a looked-up handle leads to a task of the room it is for (`HandlesLead`),
  an actor signs its Leaves (`LeavesAreSigned`), a session hears only of its own errors
  (`ErrorsAreOwn`), a new task has an empty channel (`UnbornAreSilent`), and before its login a
  session is owed nothing (`NothingBeforeLogin`).
* `ConnectionProofs`: `ConnectionTypeCorrect`, `ConnectionsUseLogin` (`Spec => LoginSpec`),
  `OutputsAlwaysInOrder`, `EndAlwaysLosesNothing`. The inductive invariant `ConnectionInv` gives
  each output, wherever it is, the number its place determines (`Numbered`: received, on the
  wire, in the hand of the task, in the actor's channel, in this order), which moving an output
  from one place to the next keeps; it also says that a task holds its `actor::Player` until it
  ends, and what its end leaves behind (`DeliveredAtEnd`).

Only model-checked: liveness under fairness, which is out of the provers' reach. Every invariant
that a passing run checks is the subject of a theorem.

## 5. What is not modelled

* TLS: loading certificates and keys, and what a handshake exchanges. Only that it precedes the
  actor and how it may end is modelled; after it the stream is like any other.
* Framing, protobuf encoding, and the libraries below the streams: warp, tonic and the sockets
  appear as `client`, `wire` and the three server definitions. A socket that is closed with
  unread input may discard what was written to it last; "delivered" in `EndLosesNothing` ends
  at the socket.
* Command line and start-up, but for the choice of the server.
* Logging, and the contents of responses other than which request they answer.
* `Connection` and `PlayerActor` are not run together; the refinements of `Login` connect them.
* The locks appear as the atomicity of the steps that hold them. Memory is unbounded, as the
  channels between actors are.

## 6. Findings

Each is the shortest run TLC finds against a property that a comment, a message or the
documentation states.

1. `no_panic` — joining a full room ends the player actor: `RoomIsFull` reaches `unreachable!`
   (`player.rs:457`). Its id stays in `PLAYERS` and its other rooms keep the player.
2. `login_one_session` — a login refused with `AlreadyLoggedIn` unregisters the id of the
   session that is logged in (`player.rs:206`); the next login with the id succeeds beside it.
3. `no_zombie_member` — a client that disconnects right after its Join may be left in the room
   for ever: the clean-up goes by `joined_rooms`, which does not have the room until the actor
   has heard its own Join (`player.rs:65`).
4. `no_lost_join` — a Join sent to a room that has stopped but not yet dropped its receiver, or
   queued behind the Leave that empties the room, is neither served nor refused
   (`player.rs:252`).
5. `leaves_answered` — leaving an existing room one has not joined is never answered
   (`room.rs:123`), while leaving one that does not exist is.
6. `grpc_send` — a gRPC client that sends another message after its actor has ended, by a
   refused login for instance, panics the task of its connection, and the refusal may be lost
   with it (`grpc.rs:82`).
7. `tcp_end_of_stream` — a TCP client that closes its connection is not noticed until a write to
   it fails (`tcp.rs:134`). With nobody else in its rooms that is never: the id stays in use, the
   rooms keep the player, and the loop of the task spins.

Not a run, since it takes no more than reading: `config.auth.enable_bearer` is set from
`--enable-auth-bearer` (`main.rs:29`) and never read, so the option has no effect and a login
without the token is refused in any case (`player.rs:125-153`).

## 7. Plan

Done: the entities, `Rooms`, `RoomActor`, `Login`, `PlayerActor`, `Connection`, the runs above,
the theorems of section 4.

Next: a client's view, with the requests and responses of one session as an abstract protocol
that `PlayerActor` implements.
