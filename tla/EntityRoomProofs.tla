-------------------------- MODULE EntityRoomProofs --------------------------
(***************************************************************************)
(* What the methods of the room entity preserve, for rooms of any size.    *)
(***************************************************************************)
EXTENDS EntityRoom, FiniteSetTheorems, SequenceTheorems, TLAPS

\* A map of players is a function from finitely many ids to senders.
LEMMA PlayerMapDef ==
    ASSUME NEW players
    PROVE  players \in PlayerMap <=>
               /\ players \in [DOMAIN players -> Session]
               /\ DOMAIN players \subseteq PlayerId
               /\ IsFiniteSet(DOMAIN players)
BY DEF PlayerMap

\* Room::new is a room without players.
LEMMA NewRoomProperties ==
    ASSUME NEW r \in RoomId, NEW config \in RoomConfig
    PROVE  /\ NewRoom(r, config) \in Room
           /\ NewRoom(r, config).id = r
           /\ NewRoom(r, config).config = config
           /\ NumPlayers(NewRoom(r, config)) = 0
<1> DEFINE none == [p \in {} |-> None]
<1>1. DOMAIN none = {} /\ none \in [{} -> Session]
  OBVIOUS
<1>2. none \in PlayerMap
  BY <1>1, FS_EmptySet, PlayerMapDef
<1>3. NewRoom(r, config) = [id |-> r, config |-> config, players |-> none]
  BY DEF NewRoom
<1> QED
  BY <1>1, <1>2, <1>3, FS_EmptySet DEF Room, NumPlayers

\* num_players is a natural number, zero exactly for a room without players.
LEMMA NumPlayersType ==
    ASSUME NEW room \in Room
    PROVE  /\ NumPlayers(room) \in Nat
           /\ NumPlayers(room) = 0 <=> DOMAIN room.players = {}
<1>1. IsFiniteSet(DOMAIN room.players)
  BY PlayerMapDef DEF Room
<1> QED
  BY <1>1, FS_CardinalityType, FS_EmptySet DEF NumPlayers

\* A successful add_player adds one player and respects max_players.
LEMMA AddPlayerProperties ==
    ASSUME NEW room \in Room, NEW player \in Player, NEW config \in RoomConfig,
           AddPlayerResult(room, player, config) = "Ok"
    PROVE  /\ AddPlayer(room, player) \in Room
           /\ AddPlayer(room, player).id = room.id
           /\ AddPlayer(room, player).config = room.config
           /\ NumPlayers(AddPlayer(room, player)) = NumPlayers(room) + 1
           /\ NumPlayers(AddPlayer(room, player)) <= room.config
           /\ ~IsJoined(room, player.id)
<1> DEFINE ids == DOMAIN room.players
           after == [id \in ids \cup {player.id} |->
                        IF id = player.id THEN player.sender ELSE room.players[id]]
<1>1. AddPlayer(room, player) = [room EXCEPT !.players = after]
  BY DEF AddPlayer
<1>2. /\ room.players \in [ids -> Session]
      /\ ids \subseteq PlayerId
      /\ IsFiniteSet(ids)
  BY PlayerMapDef DEF Room
<1>3. player.id \in PlayerId /\ player.sender \in Session
  BY DEF Player
<1>4. DOMAIN after = ids \cup {player.id} /\ after \in [ids \cup {player.id} -> Session]
  BY <1>2, <1>3
<1>5. IsFiniteSet(ids \cup {player.id})
  BY <1>2, FS_AddElement
<1>6. after \in PlayerMap
  BY <1>2, <1>3, <1>4, <1>5, PlayerMapDef
<1>7. /\ AddPlayer(room, player) \in Room
      /\ AddPlayer(room, player).id = room.id
      /\ AddPlayer(room, player).config = room.config
      /\ AddPlayer(room, player).players = after
  BY <1>1, <1>6 DEF Room
<1>8. player.id \notin ids /\ ~(NumPlayers(room) >= room.config)
  BY DEF AddPlayerResult, IsJoined
<1>9. NumPlayers(AddPlayer(room, player)) = NumPlayers(room) + 1
  BY <1>2, <1>4, <1>7, <1>8, FS_AddElement DEF NumPlayers
<1>10. NumPlayers(room) \in Nat /\ room.config \in Nat
  BY NumPlayersType, RoomConfigAssumption DEF Room
<1> QED
  BY <1>7, <1>8, <1>9, <1>10 DEF IsJoined

\* remove_player adds nobody.
LEMMA RemovePlayerProperties ==
    ASSUME NEW room \in Room, NEW id \in PlayerId
    PROVE  /\ RemovePlayer(room, id) \in Room
           /\ RemovePlayer(room, id).id = room.id
           /\ RemovePlayer(room, id).config = room.config
           /\ NumPlayers(RemovePlayer(room, id)) <= NumPlayers(room)
<1> DEFINE ids == DOMAIN room.players
           after == [other \in ids \ {id} |-> room.players[other]]
<1>1. RemovePlayer(room, id) = [room EXCEPT !.players = after]
  BY DEF RemovePlayer
<1>2. /\ room.players \in [ids -> Session]
      /\ ids \subseteq PlayerId
      /\ IsFiniteSet(ids)
  BY PlayerMapDef DEF Room
<1>3. DOMAIN after = ids \ {id} /\ after \in [ids \ {id} -> Session]
  BY <1>2
<1>4. IsFiniteSet(ids \ {id}) /\ Cardinality(ids \ {id}) <= Cardinality(ids)
  BY <1>2, FS_Subset
<1>5. after \in PlayerMap
  BY <1>2, <1>3, <1>4, PlayerMapDef
<1>6. /\ RemovePlayer(room, id) \in Room
      /\ RemovePlayer(room, id).id = room.id
      /\ RemovePlayer(room, id).config = room.config
      /\ RemovePlayer(room, id).players = after
  BY <1>1, <1>5 DEF Room
<1> QED
  BY <1>3, <1>4, <1>6 DEF NumPlayers

\* The number of copies of an event that a broadcast or a list of sends puts into a
\* channel is a natural number.
LEMMA CountsAreNatural ==
    ASSUME NEW room \in Room
    PROVE  /\ BroadcastCount(room) \in [Session -> Nat]
           /\ \A targets \in Seq(PlayerId) : SendCount(room, targets) \in [Session -> Nat]
<1>1. ASSUME NEW s \in Session
      PROVE  Cardinality({id \in DOMAIN room.players : room.players[id] = s}) \in Nat
  <2>1. IsFiniteSet(DOMAIN room.players)
    BY PlayerMapDef DEF Room
  <2>2. IsFiniteSet({id \in DOMAIN room.players : room.players[id] = s})
    BY <2>1, FS_Subset
  <2> QED
    BY <2>2, FS_CardinalityType
<1>2. ASSUME NEW targets \in Seq(PlayerId), NEW s \in Session
      PROVE  Cardinality({k \in DOMAIN targets :
                 IsJoined(room, targets[k]) /\ room.players[targets[k]] = s}) \in Nat
  <2> DEFINE hits == {k \in DOMAIN targets :
                 IsJoined(room, targets[k]) /\ room.players[targets[k]] = s}
  <2>1. Len(targets) \in Int /\ DOMAIN targets = 1..Len(targets)
    OBVIOUS
  <2>2. IsFiniteSet(1..Len(targets))
    BY <2>1, FS_Interval
  <2>3. IsFiniteSet(hits)
    BY <2>1, <2>2, FS_Subset
  <2> QED
    BY <2>3, FS_CardinalityType
<1> QED
  BY <1>1, <1>2 DEF BroadcastCount, SendCount

\* The map after an insertion and after a removal.
LEMMA PlayersAfter ==
    ASSUME NEW room \in Room
    PROVE  /\ \A player : LET players == AddPlayer(room, player).players
                          IN  /\ DOMAIN players = DOMAIN room.players \cup {player.id}
                              /\ players[player.id] = player.sender
                              /\ \A id \in DOMAIN room.players :
                                     id # player.id => players[id] = room.players[id]
           /\ \A left : LET players == RemovePlayer(room, left).players
                        IN  /\ DOMAIN players = DOMAIN room.players \ {left}
                            /\ \A id \in DOMAIN players : players[id] = room.players[id]
<1>1. \A players : [room EXCEPT !.players = players].players = players
  BY DEF Room
<1>2. ASSUME NEW player
      PROVE  LET players == AddPlayer(room, player).players
             IN  /\ DOMAIN players = DOMAIN room.players \cup {player.id}
                 /\ players[player.id] = player.sender
                 /\ \A id \in DOMAIN room.players :
                        id # player.id => players[id] = room.players[id]
  <2>1. AddPlayer(room, player).players =
            [id \in DOMAIN room.players \cup {player.id} |->
                IF id = player.id THEN player.sender ELSE room.players[id]]
    BY <1>1 DEF AddPlayer
  <2> QED
    BY <2>1
<1>3. ASSUME NEW left
      PROVE  LET players == RemovePlayer(room, left).players
             IN  /\ DOMAIN players = DOMAIN room.players \ {left}
                 /\ \A id \in DOMAIN players : players[id] = room.players[id]
  <2>1. RemovePlayer(room, left).players =
            [id \in DOMAIN room.players \ {left} |-> room.players[id]]
    BY <1>1 DEF RemovePlayer
  <2> QED
    BY <2>1
<1> QED
  BY <1>2, <1>3, Zenon

=============================================================================
