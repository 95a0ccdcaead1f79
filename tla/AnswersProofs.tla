---------------------------- MODULE AnswersProofs ----------------------------
(***************************************************************************)
(* Requests and their answers, for any number of sessions, rooms, tasks    *)
(* and messages.  A Join is at its actor, in the channel of a room or in   *)
(* the channel of its session, and the places it may be at are counted     *)
(* against what the session is owed.  So are the Leaves, but of those in   *)
(* the channel of a room only the ones that may find the session there: an *)
(* earlier session may have left its own behind.                           *)
(***************************************************************************)
EXTENDS MembershipProofs

-----------------------------------------------------------------------------
(* The places.                                                             *)

Sends(s, r, type) ==
    handler[s].at = "send" /\ handler[s].roomId = r /\ handler[s].event.type = type

SendingOf(s, r, type) == {k \in {1} : Sends(s, r, type)}

Serves(i, r) == status[i] # "unborn" /\ room[i].id = r

IsJoinOf(s, event) == event.type = "Join" /\ event.player.sender = s

QueuedJoin(s, i, k) == k \in DOMAIN roomRx[i] /\ IsJoinOf(s, roomRx[i][k])

JoinsInRoom(s, r) == {p \in RoomTask \X Nat : Serves(p[1], r) /\ QueuedJoin(s, p[1], p[2])}

IsLeaveOf(s, event) == event.type = "Leave" /\ event.playerId = playerId[s]

\* A Leave that finds s in the room if everything before it in the channel succeeds.
QueuedLeave(s, i, k) ==
    /\ k \in DOMAIN roomRx[i] /\ IsLeaveOf(s, roomRx[i][k])
    /\ Member(s, i) \/ \E j \in DOMAIN roomRx[i] : j < k /\ QueuedJoin(s, i, j)

LeavesInRoom(s, r) == {p \in RoomTask \X Nat : Serves(p[1], r) /\ QueuedLeave(s, p[1], p[2])}

\* The news of these types about s and r, and where they wait in the channel of s.
News(s, r, types, event) ==
    event.type \in types /\ event.playerId = playerId[s] /\ event.roomId = r

Heard(s, r, types) == {k \in DOMAIN playerRx[s] : News(s, r, types, playerRx[s][k])}

JoinCount(s, r) ==
    Cardinality(SendingOf(s, r, "Join")) + Cardinality(JoinsInRoom(s, r))
        + Cardinality(Heard(s, r, {"Join", "JoinError"}))

LeaveCount(s, r) ==
    Cardinality(SendingOf(s, r, "Leave")) + Cardinality(LeavesInRoom(s, r))
        + Cardinality(Heard(s, r, {"Leave"}))

-----------------------------------------------------------------------------
(* The inductive invariant.                                                *)

NoneDropped(r) == \A i \in RoomTask : status[i] = "dropped" => room[i].id # r

JoinBalance(s, r) ==
    /\ IsFiniteSet(JoinsInRoom(s, r))
    /\ JoinCount(s, r) <= joinsOwed[s][r]
    /\ NoneDropped(r) => JoinCount(s, r) = joinsOwed[s][r]

LeaveBalance(s, r) ==
    /\ IsFiniteSet(LeavesInRoom(s, r))
    /\ NoTakeover =>
           /\ leavesOwed[s][r] >= 0
           /\ handler[s].at # "disconnect" => LeaveCount(s, r) <= leavesOwed[s][r]

\* Before its login a session has been refused nothing and is owed nothing.
NothingBeforeLogin ==
    \A s \in Session : pc[s] = "wait_login" =>
        /\ refusal[s] = None
        /\ \A r \in RoomId : joinsOwed[s][r] = 0 /\ leavesOwed[s][r] = 0

\* An actor that has ended has no rooms left to leave.
LeaversAreLoggedIn ==
    \A s \in Session : handler[s].at = "disconnect" =>
        LoggedIn(s) \/ \A r \in RoomId : joinedRooms[s][r] = None

\* A handle that an actor has looked up leads to a task of the room it is meant for.
HandlesLead ==
    \A s \in Session : handler[s].at = "send" => Serves(handler[s].roomTx, handler[s].roomId)

LeavesAreSigned ==
    \A s \in Session : handler[s].at = "send" /\ handler[s].event.type = "Leave" =>
        handler[s].event.playerId = playerId[s]

UnbornAreSilent == \A i \in RoomTask : status[i] = "unborn" => roomRx[i] = <<>>

ErrorsAreOwn ==
    \A s \in Session : \A k \in DOMAIN playerRx[s] :
        playerRx[s][k].type = "JoinError" => playerRx[s][k].playerId = playerId[s]

AnswerInv ==
    /\ SignedInv
    /\ NothingBeforeLogin
    /\ LeaversAreLoggedIn
    /\ HandlesLead
    /\ LeavesAreSigned
    /\ UnbornAreSilent
    /\ ErrorsAreOwn
    /\ \A s \in Session : LoggedIn(s) =>
           \A r \in RoomId : JoinBalance(s, r) /\ LeaveBalance(s, r)

-----------------------------------------------------------------------------
(* Counting.                                                               *)

\* The places of a sequence, once its head is gone.
LEMMA ShiftedCount ==
    ASSUME NEW S \in SUBSET (Nat \ {0}), IsFiniteSet(S), NEW R,
           \A k : k \in R <=> k \in Nat \ {0} /\ k + 1 \in S
    PROVE  /\ Cardinality(S) \in Nat /\ IsFiniteSet(R) /\ Cardinality(R) \in Nat
           /\ Cardinality(R) = Cardinality(S) - (IF 1 \in S THEN 1 ELSE 0)
<1> DEFINE f == [k \in R |-> k + 1]
           rest == S \ {1}
<1>1. f \in Injection(R, rest)
  BY DEF Injection, IsInjective
<1>2. f \in Surjection(R, rest)
  <2>1. ASSUME NEW l \in rest
        PROVE  \E k \in R : f[k] = l
    <3>1. l - 1 \in R /\ f[l - 1] = l
      OBVIOUS
    <3> QED
      BY <3>1
  <2>2. f \in [R -> rest]
    BY <1>1 DEF Injection
  <2> QED
    BY <2>1, <2>2 DEF Surjection
<1>3. /\ IsFiniteSet(rest) /\ Cardinality(S) \in Nat
      /\ Cardinality(rest) = IF 1 \in S THEN Cardinality(S) - 1 ELSE Cardinality(S)
  BY FS_RemoveElement, FS_CardinalityType
<1> HIDE DEF f, rest
<1>4. IsFiniteSet(R) /\ Cardinality(R) = Cardinality(rest)
  BY <1>1, <1>2, <1>3, FS_Injection
<1>5. Cardinality(R) \in Nat
  BY <1>4, FS_CardinalityType
<1> QED
  BY <1>3, <1>4, <1>5

\* The places of several sequences, once the head of the one of i is gone.
LEMMA ShiftedPairs ==
    ASSUME NEW T, NEW i \in T,
           NEW S \in SUBSET (T \X Nat), IsFiniteSet(S), NEW R \in SUBSET (T \X Nat),
           \A j \in T, k \in Nat : <<j, k>> \in R =>
               IF j = i THEN k # 0 /\ <<i, k + 1>> \in S ELSE <<j, k>> \in S
    PROVE  /\ Cardinality(S) \in Nat /\ IsFiniteSet(R) /\ Cardinality(R) \in Nat
           /\ Cardinality(R) <= Cardinality(S) - (IF <<i, 1>> \in S THEN 1 ELSE 0)
           /\ (\A j \in T, k \in Nat : <<j, k>> \in S =>
                   IF j = i THEN k # 0 /\ (k = 1 \/ <<i, k - 1>> \in R) ELSE <<j, k>> \in R)
              => Cardinality(R) = Cardinality(S) - (IF <<i, 1>> \in S THEN 1 ELSE 0)
<1> DEFINE f == [p \in R |-> IF p[1] = i THEN <<i, p[2] + 1>> ELSE p]
           rest == S \ {<<i, 1>>}
<1>1. f \in [R -> rest]
  <2>1. ASSUME NEW p \in R
        PROVE  (IF p[1] = i THEN <<i, p[2] + 1>> ELSE p) \in rest
    <3>1. PICK j \in T, k \in Nat : p = <<j, k>>
      OBVIOUS
    <3>2. CASE j = i
      BY <2>1, <3>1, <3>2
    <3>3. CASE j # i
      BY <2>1, <3>1, <3>3
    <3> QED
      BY <3>2, <3>3
  <2> QED
    BY <2>1
<1>2. f \in Injection(R, rest)
  <2>1. ASSUME NEW p \in R, NEW q \in R, f[p] = f[q]
        PROVE  p = q
    <3>1. PICK j \in T, k \in Nat : p = <<j, k>>
      OBVIOUS
    <3>2. PICK m \in T, n \in Nat : q = <<m, n>>
      OBVIOUS
    <3>3. /\ f[p] = IF j = i THEN <<i, k + 1>> ELSE <<j, k>>
          /\ f[q] = IF m = i THEN <<i, n + 1>> ELSE <<m, n>>
      BY <3>1, <3>2
    <3> HIDE DEF f
    <3>4. j = m /\ k = n
      <4>1. CASE j = i /\ m = i
        <5>1. <<i, k + 1>> = <<i, n + 1>>
          BY <2>1, <3>3, <4>1
        <5>2. k + 1 = n + 1
          BY <5>1
        <5> QED
          BY <4>1, <5>2
      <4>2. CASE j # i /\ m # i
        <5>1. <<j, k>> = <<m, n>>
          BY <2>1, <3>3, <4>2
        <5> QED
          BY <5>1
      <4>3. CASE j = i /\ m # i
        <5>1. <<i, k + 1>> = <<m, n>>
          BY <2>1, <3>3, <4>3
        <5>2. i = m
          BY <5>1
        <5> QED
          BY <4>3, <5>2
      <4>4. CASE j # i /\ m = i
        <5>1. <<j, k>> = <<i, n + 1>>
          BY <2>1, <3>3, <4>4
        <5>2. j = i
          BY <5>1
        <5> QED
          BY <4>4, <5>2
      <4> QED
        BY <4>1, <4>2, <4>3, <4>4
    <3> QED
      BY <3>1, <3>2, <3>4
  <2> QED
    BY <1>1, <2>1 DEF Injection, IsInjective
<1>3. /\ IsFiniteSet(rest) /\ Cardinality(S) \in Nat
      /\ Cardinality(rest) = Cardinality(S) - (IF <<i, 1>> \in S THEN 1 ELSE 0)
  BY FS_RemoveElement, FS_CardinalityType
<1>4. ASSUME \A j \in T, k \in Nat : <<j, k>> \in S =>
                 IF j = i THEN k # 0 /\ (k = 1 \/ <<i, k - 1>> \in R) ELSE <<j, k>> \in R
      PROVE  f \in Surjection(R, rest)
  <2>1. ASSUME NEW q \in rest
        PROVE  \E p \in R : f[p] = q
    <3>1. PICK j \in T, k \in Nat : q = <<j, k>>
      OBVIOUS
    <3>2. CASE j = i
      <4>1. k # 0 /\ k # 1 /\ <<i, k - 1>> \in R
        BY <1>4, <2>1, <3>1, <3>2
      <4>2. f[<<i, k - 1>>] = q
        BY <3>1, <3>2, <4>1
      <4> QED
        BY <4>1, <4>2
    <3>3. CASE j # i
      <4>1. q \in R
        BY <1>4, <2>1, <3>1, <3>3
      <4>2. f[q] = q
        BY <3>1, <3>3, <4>1
      <4> QED
        BY <4>1, <4>2
    <3> QED
      BY <3>2, <3>3
  <2> QED
    BY <1>1, <2>1 DEF Surjection
<1> HIDE DEF f, rest
<1>5. /\ IsFiniteSet(R) /\ Cardinality(R) <= Cardinality(rest)
      /\ f \in Surjection(R, rest) => Cardinality(R) = Cardinality(rest)
  BY <1>2, <1>3, FS_Injection
<1>6. Cardinality(R) \in Nat
  BY <1>5, FS_CardinalityType
<1> QED
  BY <1>3, <1>4, <1>5, <1>6

-----------------------------------------------------------------------------
(* How the counts follow the channels.                                     *)

LEMMA SendingCount ==
    ASSUME NEW s, NEW r, NEW type
    PROVE  /\ Cardinality(SendingOf(s, r, type)) = IF Sends(s, r, type) THEN 1 ELSE 0
           /\ Cardinality(SendingOf(s, r, type))' = IF Sends(s, r, type)' THEN 1 ELSE 0
<1>1. Cardinality({1}) = 1 /\ Cardinality({}) = 0
  BY FS_Singleton, FS_EmptySet
<1>2. SendingOf(s, r, type) = IF Sends(s, r, type) THEN {1} ELSE {}
  BY DEF SendingOf
<1>3. SendingOf(s, r, type)' = IF Sends(s, r, type)' THEN {1} ELSE {}
  BY DEF SendingOf
<1> QED
  BY <1>1, <1>2, <1>3

LEMMA HeardIsFinite ==
    ASSUME NEW s \in Session, NEW r, NEW types, playerRx[s] \in Seq(OutputEvent)
    PROVE  /\ Heard(s, r, types) \in SUBSET (Nat \ {0}) /\ IsFiniteSet(Heard(s, r, types))
           /\ Cardinality(Heard(s, r, types)) \in Nat
<1>1. Len(playerRx[s]) \in Nat /\ DOMAIN playerRx[s] = 1..Len(playerRx[s])
  BY LenProperties
<1>2. IsFiniteSet(1..Len(playerRx[s]))
  BY <1>1, FS_Interval
<1>3. Heard(s, r, types) \in SUBSET (1..Len(playerRx[s]))
  BY <1>1 DEF Heard
<1>4. Heard(s, r, types) \in SUBSET (Nat \ {0})
  BY <1>1, <1>3
<1> QED
  BY <1>2, <1>3, <1>4, FS_Subset, FS_CardinalityType

\* n copies of an event are put at the end.
LEMMA HeardExtended ==
    ASSUME NEW s \in Session, NEW r, NEW types, playerId'[s] = playerId[s],
           playerRx[s] \in Seq(OutputEvent), playerRx'[s] \in Seq(OutputEvent),
           NEW n \in Nat, NEW event, Extended(playerRx[s], playerRx'[s], n, event),
           n \in {0, 1} \/ ~News(s, r, types, event)
    PROVE  /\ Cardinality(Heard(s, r, types)) \in Nat
           /\ Cardinality(Heard(s, r, types))' = Cardinality(Heard(s, r, types))
                  + (IF n = 1 /\ News(s, r, types, event) THEN 1 ELSE 0)
<1>1. PICK N \in Nat :
          /\ DOMAIN playerRx[s] = 1..N /\ DOMAIN playerRx'[s] = 1..N + n
          /\ \A k \in 1..N : playerRx'[s][k] = playerRx[s][k]
          /\ \A k \in N + 1..N + n : playerRx'[s][k] = event
  BY LenProperties DEF Extended
<1>2. \A e : News(s, r, types, e)' <=> News(s, r, types, e)
  BY DEF News
<1>3. \A k : k \in Heard(s, r, types)' <=>
          \/ k \in Heard(s, r, types)
          \/ k \in N + 1..N + n /\ News(s, r, types, event)
  <2>1. ASSUME NEW k \in 1..N
        PROVE  k \in Heard(s, r, types)' <=> k \in Heard(s, r, types)
    BY <1>1, <1>2 DEF Heard
  <2>2. ASSUME NEW k \in N + 1..N + n
        PROVE  k \in Heard(s, r, types)' <=> News(s, r, types, event)
    BY <1>1, <1>2 DEF Heard
  <2>3. \A k : k \in Heard(s, r, types) => k \in 1..N
    BY <1>1 DEF Heard
  <2>4. \A k : k \in Heard(s, r, types)' => k \in 1..N \/ k \in N + 1..N + n
    BY <1>1 DEF Heard
  <2>5. \A k : ~(k \in 1..N /\ k \in N + 1..N + n)
    OBVIOUS
  <2> QED
    BY <2>1, <2>2, <2>3, <2>4, <2>5
<1>4. IsFiniteSet(Heard(s, r, types)) /\ Cardinality(Heard(s, r, types)) \in Nat
  BY HeardIsFinite
<1>5. CASE n = 1 /\ News(s, r, types, event)
  <2>1. Heard(s, r, types)' = Heard(s, r, types) \cup {N + 1}
    BY <1>3, <1>5
  <2>2. N + 1 \notin Heard(s, r, types)
    BY <1>1 DEF Heard
  <2>3. Cardinality(Heard(s, r, types) \cup {N + 1}) = Cardinality(Heard(s, r, types)) + 1
    BY <1>4, <2>2, FS_AddElement
  <2> QED
    BY <1>4, <1>5, <2>1, <2>3
<1>6. CASE ~(n = 1 /\ News(s, r, types, event))
  <2>1. Heard(s, r, types)' = Heard(s, r, types)
    <3>1. ~(\E k : k \in N + 1..N + n /\ News(s, r, types, event))
      <4>1. n = 0 \/ ~News(s, r, types, event)
        BY <1>6
      <4>2. N + 1..N + 0 = {}
        OBVIOUS
      <4> QED
        BY <4>1, <4>2
    <3> QED
      BY <1>3, <3>1
  <2> QED
    BY <1>4, <1>6, <2>1
<1> QED
  BY <1>5, <1>6

\* The head is taken.
LEMMA HeardTaken ==
    ASSUME NEW s \in Session, NEW r, NEW types, playerId'[s] = playerId[s],
           playerRx[s] \in Seq(OutputEvent), playerRx[s] # <<>>,
           playerRx'[s] = Tail(playerRx[s])
    PROVE  /\ Cardinality(Heard(s, r, types)) \in Nat /\ Cardinality(Heard(s, r, types))' \in Nat
           /\ Cardinality(Heard(s, r, types))' = Cardinality(Heard(s, r, types))
                  - (IF News(s, r, types, Head(playerRx[s])) THEN 1 ELSE 0)
<1>1. PICK N \in Nat :
          /\ DOMAIN playerRx[s] = 1..N /\ N # 0 /\ playerRx[s][1] = Head(playerRx[s])
          /\ DOMAIN playerRx'[s] = 1..N - 1
          /\ \A k \in 1..N - 1 : playerRx'[s][k] = playerRx[s][k + 1]
  BY TailShifts
<1>2. \A e : News(s, r, types, e)' <=> News(s, r, types, e)
  BY DEF News
<1>3. \A k : k \in Heard(s, r, types)' <=> k \in Nat \ {0} /\ k + 1 \in Heard(s, r, types)
  <2>1. ASSUME NEW k
        PROVE  k \in 1..N - 1 <=> k \in Nat \ {0} /\ k + 1 \in 1..N
    BY <1>1
  <2> QED
    BY <1>1, <1>2, <2>1 DEF Heard
<1>4. 1 \in Heard(s, r, types) <=> News(s, r, types, Head(playerRx[s]))
  BY <1>1 DEF Heard
<1> QED
  BY <1>3, <1>4, HeardIsFinite, ShiftedCount

LEMMA HeardSame ==
    ASSUME NEW s \in Session, NEW r, NEW types,
           playerId'[s] = playerId[s], playerRx'[s] = playerRx[s]
    PROVE  Heard(s, r, types)' = Heard(s, r, types)
BY DEF Heard, News

-----------------------------------------------------------------------------
(* How the counts follow the channels of the rooms.                        *)

LEMMA InRoomIsPairs ==
    ASSUME NEW s, NEW r, NEW i \in RoomTask, NEW k \in Nat
    PROVE  /\ JoinsInRoom(s, r) \in SUBSET (RoomTask \X Nat)
           /\ LeavesInRoom(s, r) \in SUBSET (RoomTask \X Nat)
           /\ JoinsInRoom(s, r)' \in SUBSET (RoomTask \X Nat)
           /\ LeavesInRoom(s, r)' \in SUBSET (RoomTask \X Nat)
           /\ <<i, k>> \in JoinsInRoom(s, r) <=> Serves(i, r) /\ QueuedJoin(s, i, k)
           /\ <<i, k>> \in LeavesInRoom(s, r) <=> Serves(i, r) /\ QueuedLeave(s, i, k)
           /\ <<i, k>> \in JoinsInRoom(s, r)' <=> Serves(i, r)' /\ QueuedJoin(s, i, k)'
           /\ <<i, k>> \in LeavesInRoom(s, r)' <=> Serves(i, r)' /\ QueuedLeave(s, i, k)'
BY DEF JoinsInRoom, LeavesInRoom

\* Some channels are emptied, the others stay what they are.
LEMMA PlacesShrink ==
    ASSUME NEW s \in Session, NEW r, playerId'[s] = playerId[s],
           IsFiniteSet(JoinsInRoom(s, r)), IsFiniteSet(LeavesInRoom(s, r)),
           \A j \in RoomTask :
               \/ roomRx'[j] = <<>>
               \/ /\ roomRx'[j] = roomRx[j]
                  /\ Serves(j, r)' <=> Serves(j, r)
                  /\ Member(s, j)' <=> Member(s, j)
    PROVE  /\ IsFiniteSet(JoinsInRoom(s, r))' /\ IsFiniteSet(LeavesInRoom(s, r))'
           /\ Cardinality(JoinsInRoom(s, r)) \in Nat /\ Cardinality(LeavesInRoom(s, r)) \in Nat
           /\ Cardinality(JoinsInRoom(s, r))' \in Nat /\ Cardinality(LeavesInRoom(s, r))' \in Nat
           /\ Cardinality(JoinsInRoom(s, r))' <= Cardinality(JoinsInRoom(s, r))
           /\ Cardinality(LeavesInRoom(s, r))' <= Cardinality(LeavesInRoom(s, r))
           /\ (\A j \in RoomTask : roomRx'[j] = roomRx[j] \/ ~Serves(j, r)) =>
                  Cardinality(JoinsInRoom(s, r))' = Cardinality(JoinsInRoom(s, r))
<1>1. DOMAIN <<>> = {}
  OBVIOUS
<1>2. \A e : IsLeaveOf(s, e)' <=> IsLeaveOf(s, e)
  BY DEF IsLeaveOf
<1>3. ASSUME NEW j \in RoomTask, NEW k \in Nat
      PROVE  /\ <<j, k>> \in JoinsInRoom(s, r)' => <<j, k>> \in JoinsInRoom(s, r)
             /\ <<j, k>> \in LeavesInRoom(s, r)' => <<j, k>> \in LeavesInRoom(s, r)
             /\ roomRx'[j] = roomRx[j] /\ <<j, k>> \in JoinsInRoom(s, r) =>
                    <<j, k>> \in JoinsInRoom(s, r)'
  <2>1. CASE roomRx'[j] = <<>>
    <3>1. ~QueuedJoin(s, j, k)' /\ ~QueuedLeave(s, j, k)'
      BY <1>1, <2>1 DEF QueuedJoin, QueuedLeave
    <3>2. roomRx'[j] = roomRx[j] => ~QueuedJoin(s, j, k)
      BY <1>1, <2>1 DEF QueuedJoin
    <3> QED
      BY <3>1, <3>2, InRoomIsPairs
  <2>2. CASE /\ roomRx'[j] = roomRx[j]
             /\ Serves(j, r)' <=> Serves(j, r)
             /\ Member(s, j)' <=> Member(s, j)
    <3>1. \A l : QueuedJoin(s, j, l)' <=> QueuedJoin(s, j, l)
      BY <2>2 DEF QueuedJoin
    <3>2. QueuedLeave(s, j, k)' <=> QueuedLeave(s, j, k)
      BY <1>2, <2>2, <3>1 DEF QueuedLeave
    <3> QED
      BY <2>2, <3>1, <3>2, InRoomIsPairs
  <2> QED
    BY <2>1, <2>2
<1>4. /\ JoinsInRoom(s, r)' \in SUBSET JoinsInRoom(s, r)
      /\ LeavesInRoom(s, r)' \in SUBSET LeavesInRoom(s, r)
  <2>1. ASSUME NEW p
        PROVE  /\ p \in JoinsInRoom(s, r)' => p \in JoinsInRoom(s, r)
               /\ p \in LeavesInRoom(s, r)' => p \in LeavesInRoom(s, r)
    <3>1. CASE p \in RoomTask \X Nat
      <4>1. PICK j \in RoomTask, k \in Nat : p = <<j, k>>
        BY <3>1
      <4> QED
        BY <1>3, <4>1
    <3>2. CASE p \notin RoomTask \X Nat
      BY <3>2 DEF JoinsInRoom, LeavesInRoom
    <3> QED
      BY <3>1, <3>2
  <2> QED
    BY <2>1
<1>5. ASSUME \A j \in RoomTask : roomRx'[j] = roomRx[j] \/ ~Serves(j, r)
      PROVE  JoinsInRoom(s, r)' = JoinsInRoom(s, r)
  <2>1. ASSUME NEW p \in JoinsInRoom(s, r)
        PROVE  p \in JoinsInRoom(s, r)'
    <3>1. p \in RoomTask \X Nat
      BY DEF JoinsInRoom
    <3>2. PICK j \in RoomTask, k \in Nat : p = <<j, k>>
      BY <3>1
    <3>3. Serves(j, r)
      BY <2>1, <3>2, InRoomIsPairs
    <3> QED
      BY <1>3, <1>5, <3>2, <3>3
  <2> QED
    BY <1>4, <2>1
<1> QED
  BY <1>4, <1>5, FS_Subset, FS_CardinalityType

\* An event is put at the end of the channel of task i.
LEMMA PlacesAppended ==
    ASSUME RoomTypeOK, NEW s \in Session, NEW r, playerId'[s] = playerId[s],
           IsFiniteSet(JoinsInRoom(s, r)), IsFiniteSet(LeavesInRoom(s, r)),
           NEW i \in RoomTask, NEW event \in InputEvent,
           roomRx' = [roomRx EXCEPT ![i] = Append(@, event)],
           room' = room, status' = status
    PROVE  /\ IsFiniteSet(JoinsInRoom(s, r))' /\ IsFiniteSet(LeavesInRoom(s, r))'
           /\ Cardinality(JoinsInRoom(s, r)) \in Nat /\ Cardinality(LeavesInRoom(s, r)) \in Nat
           /\ Cardinality(LeavesInRoom(s, r))' \in Nat
           /\ Cardinality(JoinsInRoom(s, r))' = Cardinality(JoinsInRoom(s, r))
                  + (IF Serves(i, r) /\ IsJoinOf(s, event) THEN 1 ELSE 0)
           /\ Cardinality(LeavesInRoom(s, r))' <= Cardinality(LeavesInRoom(s, r))
                  + (IF Serves(i, r) /\ IsLeaveOf(s, event) THEN 1 ELSE 0)
<1>1. PICK N \in Nat :
          /\ DOMAIN roomRx[i] = 1..N /\ DOMAIN roomRx'[i] = 1..N + 1
          /\ \A k \in 1..N : roomRx'[i][k] = roomRx[i][k]
          /\ roomRx'[i][N + 1] = event
  <2>1. roomRx[i] \in Seq(InputEvent) /\ roomRx'[i] = Append(roomRx[i], event)
    BY DEF RoomTypeOK
  <2>2. Append(roomRx[i], event) \in Seq(InputEvent)
        /\ Extended(roomRx[i], Append(roomRx[i], event), 1, event)
    BY <2>1, AppendExtends
  <2>3. /\ Len(roomRx[i]) \in Nat /\ DOMAIN roomRx[i] = 1..Len(roomRx[i])
        /\ DOMAIN roomRx'[i] = 1..Len(roomRx'[i])
    BY <2>1, <2>2, LenProperties
  <2>4. /\ Len(roomRx'[i]) = Len(roomRx[i]) + 1
        /\ \A k \in 1..Len(roomRx[i]) : roomRx'[i][k] = roomRx[i][k]
        /\ \A k \in Len(roomRx[i]) + 1..Len(roomRx[i]) + 1 : roomRx'[i][k] = event
    BY <2>1, <2>2 DEF Extended
  <2>5. Len(roomRx[i]) + 1 \in Len(roomRx[i]) + 1..Len(roomRx[i]) + 1
    BY <2>3
  <2> QED
    BY <2>3, <2>4, <2>5
<1>2. \A j \in RoomTask : j # i => roomRx'[j] = roomRx[j]
  BY DEF RoomTypeOK
<1>3. \A j \in RoomTask : /\ Serves(j, r)' <=> Serves(j, r)
                          /\ Member(s, j)' <=> Member(s, j)
  BY DEF Serves, Member, IsJoined
<1>4. \A e : IsLeaveOf(s, e)' <=> IsLeaveOf(s, e)
  BY DEF IsLeaveOf
<1>5. ASSUME NEW j \in RoomTask, NEW k \in Nat, j # i \/ k # N + 1
      PROVE  /\ QueuedJoin(s, j, k)' <=> QueuedJoin(s, j, k)
             /\ QueuedLeave(s, j, k)' <=> QueuedLeave(s, j, k)
  <2>1. CASE j # i
    <3>1. roomRx'[j] = roomRx[j]
      BY <1>2, <2>1
    <3>2. \A l : QueuedJoin(s, j, l)' <=> QueuedJoin(s, j, l)
      BY <3>1 DEF QueuedJoin
    <3> QED
      BY <1>3, <1>4, <3>1, <3>2 DEF QueuedLeave
  <2>2. CASE j = i /\ k # N + 1
    <3>1. k \in 1..N + 1 <=> k \in 1..N
      BY <2>2
    <3>2. \A l \in 1..N : QueuedJoin(s, i, l)' <=> QueuedJoin(s, i, l)
      BY <1>1 DEF QueuedJoin
    <3>3. k \in 1..N => \A l : l \in 1..N + 1 /\ l < k <=> l \in 1..N /\ l < k
      OBVIOUS
    <3>4. QueuedJoin(s, j, k)' <=> QueuedJoin(s, j, k)
      BY <1>1, <2>2, <3>1, <3>2 DEF QueuedJoin
    <3>5. QueuedLeave(s, j, k)' <=> QueuedLeave(s, j, k)
      BY <1>1, <1>3, <1>4, <2>2, <3>1, <3>2, <3>3 DEF QueuedLeave
    <3> QED
      BY <3>4, <3>5
  <2> QED
    BY <1>5, <2>1, <2>2
<1>6. /\ QueuedJoin(s, i, N + 1)' <=> IsJoinOf(s, event)
      /\ ~QueuedJoin(s, i, N + 1)
      /\ QueuedLeave(s, i, N + 1)' => IsLeaveOf(s, event)
  BY <1>1, <1>4 DEF QueuedJoin, QueuedLeave
<1>7. JoinsInRoom(s, r)' = IF Serves(i, r) /\ IsJoinOf(s, event)
                           THEN JoinsInRoom(s, r) \cup {<<i, N + 1>>} ELSE JoinsInRoom(s, r)
  <2>1. ASSUME NEW j \in RoomTask, NEW k \in Nat
        PROVE  <<j, k>> \in JoinsInRoom(s, r)' <=>
                   \/ <<j, k>> \in JoinsInRoom(s, r)
                   \/ j = i /\ k = N + 1 /\ Serves(i, r) /\ IsJoinOf(s, event)
    BY <1>3, <1>5, <1>6, InRoomIsPairs
  <2>2. ASSUME NEW p
        PROVE  p \in JoinsInRoom(s, r)' <=>
                   \/ p \in JoinsInRoom(s, r)
                   \/ p = <<i, N + 1>> /\ Serves(i, r) /\ IsJoinOf(s, event)
    <3>1. CASE p \in RoomTask \X Nat
      <4>1. PICK j \in RoomTask, k \in Nat : p = <<j, k>>
        BY <3>1
      <4>2. p = <<i, N + 1>> <=> j = i /\ k = N + 1
        BY <4>1
      <4> QED
        BY <2>1, <4>1, <4>2
    <3>2. CASE p \notin RoomTask \X Nat
      BY <3>2 DEF JoinsInRoom
    <3> QED
      BY <3>1, <3>2
  <2> QED
    BY <2>2
<1>8. LeavesInRoom(s, r)' \in SUBSET (IF Serves(i, r) /\ IsLeaveOf(s, event)
                              THEN LeavesInRoom(s, r) \cup {<<i, N + 1>>} ELSE LeavesInRoom(s, r))
  <2>1. ASSUME NEW j \in RoomTask, NEW k \in Nat, <<j, k>> \in LeavesInRoom(s, r)'
        PROVE  \/ <<j, k>> \in LeavesInRoom(s, r)
               \/ j = i /\ k = N + 1 /\ Serves(i, r) /\ IsLeaveOf(s, event)
    BY <1>3, <1>5, <1>6, <2>1, InRoomIsPairs
  <2>2. ASSUME NEW p \in LeavesInRoom(s, r)'
        PROVE  \/ p \in LeavesInRoom(s, r)
               \/ p = <<i, N + 1>> /\ Serves(i, r) /\ IsLeaveOf(s, event)
    <3>1. p \in RoomTask \X Nat
      BY DEF LeavesInRoom
    <3>2. PICK j \in RoomTask, k \in Nat : p = <<j, k>>
      BY <3>1
    <3> QED
      BY <2>1, <3>2
  <2> QED
    BY <2>2
<1>9. /\ Cardinality(JoinsInRoom(s, r)) \in Nat /\ Cardinality(LeavesInRoom(s, r)) \in Nat
      /\ IsFiniteSet(JoinsInRoom(s, r) \cup {<<i, N + 1>>})
      /\ Cardinality(JoinsInRoom(s, r) \cup {<<i, N + 1>>}) =
             IF <<i, N + 1>> \in JoinsInRoom(s, r) THEN Cardinality(JoinsInRoom(s, r))
                                                   ELSE Cardinality(JoinsInRoom(s, r)) + 1
      /\ IsFiniteSet(LeavesInRoom(s, r) \cup {<<i, N + 1>>})
      /\ Cardinality(LeavesInRoom(s, r) \cup {<<i, N + 1>>}) =
             IF <<i, N + 1>> \in LeavesInRoom(s, r) THEN Cardinality(LeavesInRoom(s, r))
                                                    ELSE Cardinality(LeavesInRoom(s, r)) + 1
  BY FS_AddElement, FS_CardinalityType
<1>10. <<i, N + 1>> \notin JoinsInRoom(s, r)
  <2>1. N + 1 \in Nat
    OBVIOUS
  <2> QED
    BY <1>6, <2>1, InRoomIsPairs
<1>11. /\ IsFiniteSet(JoinsInRoom(s, r))'
       /\ Cardinality(JoinsInRoom(s, r))' = Cardinality(JoinsInRoom(s, r))
              + (IF Serves(i, r) /\ IsJoinOf(s, event) THEN 1 ELSE 0)
  BY <1>7, <1>9, <1>10
<1>12. /\ IsFiniteSet(LeavesInRoom(s, r))' /\ Cardinality(LeavesInRoom(s, r))' \in Nat
       /\ Cardinality(LeavesInRoom(s, r))' <= Cardinality(LeavesInRoom(s, r))
              + (IF Serves(i, r) /\ IsLeaveOf(s, event) THEN 1 ELSE 0)
  <2>1. CASE Serves(i, r) /\ IsLeaveOf(s, event)
    <3>1. /\ IsFiniteSet(LeavesInRoom(s, r))' /\ Cardinality(LeavesInRoom(s, r))' \in Nat
          /\ Cardinality(LeavesInRoom(s, r))' <= Cardinality(LeavesInRoom(s, r) \cup {<<i, N + 1>>})
      BY <1>8, <1>9, <2>1, FS_Subset, FS_CardinalityType
    <3> QED
      BY <1>9, <2>1, <3>1
  <2>2. CASE ~(Serves(i, r) /\ IsLeaveOf(s, event))
    BY <1>8, <1>9, <2>2, FS_Subset, FS_CardinalityType
  <2> QED
    BY <2>1, <2>2
<1> QED
  BY <1>9, <1>11, <1>12

\* Task i has handled the head of its channel.
LEMMA PlacesShifted ==
    ASSUME SignedInv, NEW s \in Session, NEW r, playerId'[s] = playerId[s],
           IsFiniteSet(JoinsInRoom(s, r)), IsFiniteSet(LeavesInRoom(s, r)),
           NEW i \in RoomTask, HandlesOne(i), ~Member(s, i) /\ Member(s, i)' => Asks(s, i)
    PROVE  /\ IsFiniteSet(JoinsInRoom(s, r))' /\ IsFiniteSet(LeavesInRoom(s, r))'
           /\ Cardinality(JoinsInRoom(s, r)) \in Nat /\ Cardinality(LeavesInRoom(s, r)) \in Nat
           /\ Cardinality(LeavesInRoom(s, r))' \in Nat
           /\ Cardinality(JoinsInRoom(s, r))' = Cardinality(JoinsInRoom(s, r))
                  - (IF Serves(i, r) /\ Asks(s, i) THEN 1 ELSE 0)
           /\ Cardinality(LeavesInRoom(s, r))' <= Cardinality(LeavesInRoom(s, r))
                  - (IF Serves(i, r) /\ IsLeaveOf(s, Head(roomRx[i])) /\ Member(s, i) THEN 1 ELSE 0)
<1>1. roomRx[i] \in Seq(InputEvent) /\ roomRx'[i] = Tail(roomRx[i]) /\ roomRx[i] # <<>>
  BY DEF HandlesOne, SignedInv, PlayerInv, RoomInv, RoomTypeOK
<1>2. PICK N \in Nat :
          /\ DOMAIN roomRx[i] = 1..N /\ N # 0 /\ roomRx[i][1] = Head(roomRx[i])
          /\ DOMAIN roomRx'[i] = 1..N - 1
          /\ \A k \in 1..N - 1 : roomRx'[i][k] = roomRx[i][k + 1]
  BY <1>1, TailShifts
<1>3. \A j \in RoomTask : j # i => roomRx'[j] = roomRx[j]
  BY DEF HandlesOne, SignedInv, PlayerInv, RoomInv, RoomTypeOK
<1>4. \A j \in RoomTask : Serves(j, r)' <=> Serves(j, r)
  BY DEF Serves, HandlesOne
<1>5. \A e : IsLeaveOf(s, e)' <=> IsLeaveOf(s, e)
  BY DEF IsLeaveOf
<1>6. ASSUME NEW j \in RoomTask, j # i, NEW k \in Nat
      PROVE  /\ QueuedJoin(s, j, k)' <=> QueuedJoin(s, j, k)
             /\ QueuedLeave(s, j, k)' <=> QueuedLeave(s, j, k)
  <2>1. roomRx'[j] = roomRx[j] /\ room'[j] = room[j] /\ status'[j] = status[j]
    BY <1>3, <1>6 DEF HandlesOne
  <2>2. \A l : QueuedJoin(s, j, l)' <=> QueuedJoin(s, j, l)
    BY <2>1 DEF QueuedJoin
  <2>3. Member(s, j)' <=> Member(s, j)
    BY <2>1 DEF Member, IsJoined
  <2> QED
    BY <1>5, <2>1, <2>2, <2>3 DEF QueuedLeave
<1>7. ASSUME NEW k
      PROVE  k \in 1..N - 1 <=> k \in Nat /\ k # 0 /\ k + 1 \in 1..N
  BY <1>2
<1>8. ASSUME NEW k \in Nat
      PROVE  QueuedJoin(s, i, k)' <=> k # 0 /\ QueuedJoin(s, i, k + 1)
  BY <1>2, <1>7 DEF QueuedJoin
<1>9. QueuedJoin(s, i, 1) <=> Asks(s, i)
  BY <1>2 DEF QueuedJoin, Asks, IsJoinOf
<1>10. ASSUME NEW k \in Nat, QueuedLeave(s, i, k)'
       PROVE  k # 0 /\ QueuedLeave(s, i, k + 1)
  <2>1. k # 0 /\ k + 1 \in DOMAIN roomRx[i] /\ IsLeaveOf(s, roomRx[i][k + 1])
    BY <1>2, <1>5, <1>7, <1>10 DEF QueuedLeave
  <2>2. CASE Member(s, i)'
    <3>1. CASE Member(s, i)
      BY <2>1, <3>1 DEF QueuedLeave
    <3>2. CASE ~Member(s, i)
      <4>1. QueuedJoin(s, i, 1) /\ 1 < k + 1
        BY <1>9, <2>1, <2>2, <3>2
      <4> QED
        BY <2>1, <4>1 DEF QueuedLeave, QueuedJoin
    <3> QED
      BY <3>1, <3>2
  <2>3. ASSUME NEW j \in DOMAIN roomRx'[i], j < k, QueuedJoin(s, i, j)'
        PROVE  QueuedLeave(s, i, k + 1)
    <3>1. j \in Nat /\ j + 1 \in DOMAIN roomRx[i] /\ j + 1 < k + 1
      BY <1>2, <1>7, <2>3
    <3>2. QueuedJoin(s, i, j + 1)
      BY <1>8, <2>3, <3>1
    <3> QED
      BY <2>1, <3>1, <3>2 DEF QueuedLeave
  <2> QED
    BY <1>10, <2>1, <2>2, <2>3 DEF QueuedLeave
<1>11. QueuedLeave(s, i, 1) <=> IsLeaveOf(s, Head(roomRx[i])) /\ Member(s, i)
  BY <1>2 DEF QueuedLeave
<1>12. ASSUME NEW j \in RoomTask, NEW k \in Nat
       PROVE  /\ <<j, k>> \in JoinsInRoom(s, r)' =>
                     IF j = i THEN k # 0 /\ <<i, k + 1>> \in JoinsInRoom(s, r)
                              ELSE <<j, k>> \in JoinsInRoom(s, r)
              /\ <<j, k>> \in LeavesInRoom(s, r)' =>
                     IF j = i THEN k # 0 /\ <<i, k + 1>> \in LeavesInRoom(s, r)
                              ELSE <<j, k>> \in LeavesInRoom(s, r)
              /\ <<j, k>> \in JoinsInRoom(s, r) =>
                     IF j = i THEN k # 0 /\ (k = 1 \/ <<i, k - 1>> \in JoinsInRoom(s, r)')
                              ELSE <<j, k>> \in JoinsInRoom(s, r)'
  <2>1. CASE j # i
    BY <1>4, <1>6, <2>1, InRoomIsPairs
  <2>2. CASE j = i
    <3>1. k + 1 \in Nat
      OBVIOUS
    <3>2. /\ <<i, k>> \in JoinsInRoom(s, r)' => k # 0 /\ <<i, k + 1>> \in JoinsInRoom(s, r)
          /\ <<i, k>> \in LeavesInRoom(s, r)' => k # 0 /\ <<i, k + 1>> \in LeavesInRoom(s, r)
      BY <1>4, <1>8, <1>10, <3>1, InRoomIsPairs
    <3>3. ASSUME <<i, k>> \in JoinsInRoom(s, r), k # 1
          PROVE  k # 0 /\ <<i, k - 1>> \in JoinsInRoom(s, r)'
      <4>1. Serves(i, r) /\ QueuedJoin(s, i, k)
        BY <3>3, InRoomIsPairs
      <4>2. k # 0
        BY <1>2, <4>1 DEF QueuedJoin
      <4>3. k - 1 \in Nat /\ k - 1 # 0 /\ (k - 1) + 1 = k
        BY <3>3, <4>2
      <4>4. QueuedJoin(s, i, k - 1)'
        BY <1>8, <4>1, <4>3
      <4> QED
        BY <1>4, <4>1, <4>2, <4>3, <4>4, InRoomIsPairs
    <3>4. <<i, 0>> \notin JoinsInRoom(s, r)
      <4>1. ~QueuedJoin(s, i, 0)
        BY <1>2 DEF QueuedJoin
      <4> QED
        BY <4>1, InRoomIsPairs
    <3> QED
      BY <2>2, <3>2, <3>3, <3>4
  <2> QED
    BY <2>1, <2>2
<1>13. /\ <<i, 1>> \in JoinsInRoom(s, r) <=> Serves(i, r) /\ Asks(s, i)
       /\ <<i, 1>> \in LeavesInRoom(s, r) <=>
              Serves(i, r) /\ IsLeaveOf(s, Head(roomRx[i])) /\ Member(s, i)
  BY <1>9, <1>11, InRoomIsPairs
<1>14. /\ JoinsInRoom(s, r) \in SUBSET (RoomTask \X Nat)
       /\ LeavesInRoom(s, r) \in SUBSET (RoomTask \X Nat)
       /\ JoinsInRoom(s, r)' \in SUBSET (RoomTask \X Nat)
       /\ LeavesInRoom(s, r)' \in SUBSET (RoomTask \X Nat)
  BY DEF JoinsInRoom, LeavesInRoom
<1>15. /\ Cardinality(JoinsInRoom(s, r)) \in Nat /\ IsFiniteSet(JoinsInRoom(s, r))'
       /\ Cardinality(JoinsInRoom(s, r))' = Cardinality(JoinsInRoom(s, r))
              - (IF <<i, 1>> \in JoinsInRoom(s, r) THEN 1 ELSE 0)
  <2>1. PICK before, after : before = JoinsInRoom(s, r) /\ after = JoinsInRoom(s, r)'
    OBVIOUS
  <2>2. /\ before \in SUBSET (RoomTask \X Nat) /\ IsFiniteSet(before)
        /\ after \in SUBSET (RoomTask \X Nat)
        /\ \A j \in RoomTask, k \in Nat : <<j, k>> \in after =>
               IF j = i THEN k # 0 /\ <<i, k + 1>> \in before ELSE <<j, k>> \in before
    BY <1>12, <1>14, <2>1
  <2>3. \A j \in RoomTask, k \in Nat : <<j, k>> \in before =>
            IF j = i THEN k # 0 /\ (k = 1 \/ <<i, k - 1>> \in after) ELSE <<j, k>> \in after
    BY <1>12, <2>1
  <2>4. /\ Cardinality(before) \in Nat /\ IsFiniteSet(after)
        /\ Cardinality(after) = Cardinality(before) - (IF <<i, 1>> \in before THEN 1 ELSE 0)
    BY <2>2, <2>3, ShiftedPairs
  <2> QED
    BY <2>1, <2>4
<1>16. /\ Cardinality(LeavesInRoom(s, r)) \in Nat /\ IsFiniteSet(LeavesInRoom(s, r))'
       /\ Cardinality(LeavesInRoom(s, r))' \in Nat
       /\ Cardinality(LeavesInRoom(s, r))' <= Cardinality(LeavesInRoom(s, r))
              - (IF <<i, 1>> \in LeavesInRoom(s, r) THEN 1 ELSE 0)
  <2>1. PICK before, after : before = LeavesInRoom(s, r) /\ after = LeavesInRoom(s, r)'
    OBVIOUS
  <2>2. /\ before \in SUBSET (RoomTask \X Nat) /\ IsFiniteSet(before)
        /\ after \in SUBSET (RoomTask \X Nat)
        /\ \A j \in RoomTask, k \in Nat : <<j, k>> \in after =>
               IF j = i THEN k # 0 /\ <<i, k + 1>> \in before ELSE <<j, k>> \in before
    BY <1>12, <1>14, <2>1
  <2>3. /\ Cardinality(before) \in Nat /\ IsFiniteSet(after) /\ Cardinality(after) \in Nat
        /\ Cardinality(after) <= Cardinality(before) - (IF <<i, 1>> \in before THEN 1 ELSE 0)
    BY <2>2, ShiftedPairs
  <2> QED
    BY <2>1, <2>3
<1> QED
  BY <1>13, <1>15, <1>16

-----------------------------------------------------------------------------
(* How the balances follow the counts.                                     *)

\* What a session gets or sends, it is owed more or less.
Follows(s, r) ==
    /\ IsFiniteSet(JoinsInRoom(s, r))' /\ IsFiniteSet(LeavesInRoom(s, r))'
    /\ JoinCount(s, r) \in Nat /\ LeaveCount(s, r) \in Nat
    /\ JoinCount(s, r)' \in Nat /\ LeaveCount(s, r)' \in Nat
    /\ JoinCount(s, r)' - joinsOwed'[s][r] <= JoinCount(s, r) - joinsOwed[s][r]
    /\ NoneDropped(r)' =>
           JoinCount(s, r)' - joinsOwed'[s][r] = JoinCount(s, r) - joinsOwed[s][r]
    /\ IF handler'[s].at = "disconnect" THEN leavesOwed'[s][r] = leavesOwed[s][r]
       ELSE /\ handler[s].at # "disconnect"
            /\ NoTakeover' =>
                   LeaveCount(s, r)' - leavesOwed'[s][r] <= LeaveCount(s, r) - leavesOwed[s][r]

\* A task that has ended stays what it was.
LEMMA OnceDropped ==
    ASSUME SignedInv, [Next]_vars, NEW r, NoneDropped(r)'
    PROVE  NoneDropped(r)
<1> SUFFICES ASSUME NEW i \in RoomTask, status[i] = "dropped"
             PROVE  status'[i] = "dropped" /\ room'[i] = room[i]
  BY DEF NoneDropped
<1>1. /\ [RoomNext]_roomVars
      /\ status \in [RoomTask -> Status] /\ room \in [RoomTask -> Room \cup {None}]
  BY StepOfRooms DEF SignedInv, PlayerInv, RoomInv, RoomTypeOK
<1>2. ASSUME NEW q, NEW config, NEW j \in RoomTask, SpawnRoom(q, config, j)
      PROVE  status'[i] = "dropped" /\ room'[i] = room[i]
  BY <1>1, <1>2 DEF SpawnRoom
<1>3. ASSUME NEW j \in RoomTask, NEW after, status[j] = "running", StopIfEmpty(j, after)
      PROVE  status'[i] = "dropped" /\ room'[i] = room[i]
  BY <1>1, <1>3 DEF StopIfEmpty
<1>4. CASE room' = room /\ status' = status
  BY <1>4
<1>5. ASSUME NEW j \in RoomTask, RemoveRoomFromChannels(j) \/ DropRoom(j)
      PROVE  status'[i] = "dropped" /\ room'[i] = room[i]
  BY <1>1, <1>5 DEF RemoveRoomFromChannels, DropRoom
<1>6. ASSUME NEW j \in RoomTask,
             HandleJoinEvent(j) \/ HandleLeaveEvent(j) \/ HandleMessageEvent(j)
      PROVE  status[j] = "running" /\ \E after : StopIfEmpty(j, after)
  BY <1>6 DEF HandleJoinEvent, HandleLeaveEvent, HandleMessageEvent, AcceptJoin, RefuseJoin, Receives
<1>7. \/ room' = room /\ status' = status
      \/ \E q \in RoomId, config \in RoomConfig, j \in RoomTask : SpawnRoom(q, config, j)
      \/ \E j \in RoomTask : RoomStep(j)
  BY <1>1 DEF RoomNext, GetOrCreateRoomChannel, SendToRoom, PlayerReceives, PlayerStops, roomVars
<1> QED
  BY <1>2, <1>3, <1>4, <1>5, <1>6, <1>7 DEF RoomStep

\* So does a refusal.
LEMMA OnceRefused ==
    ASSUME SignedInv, NothingBeforeLogin, [Next]_vars, NoTakeover'
    PROVE  NoTakeover
<1>1. [LoginNext]_loginVars /\ LoginTypeOK
  BY StepOfLogins DEF SignedInv, PlayerInv, LoginInv
<1>2. ASSUME NEW u \in Session, NEW id, NEW code, RefuseLogin(u, id, code), pc[u] = "wait_login"
      PROVE  NoTakeover
  <2>1. refusal[u] # "AlreadyLoggedIn"
    BY <1>2, RefusalNoneAssumption DEF NothingBeforeLogin, ErrorCode
  <2> QED
    BY <1>1, <1>2, <2>1 DEF RefuseLogin, LoginTypeOK, NoTakeover
<1>3. CASE refusal' = refusal
  BY <1>3 DEF NoTakeover
<1>4. \/ refusal' = refusal
      \/ \E u \in Session : \E id, code : RefuseLogin(u, id, code) /\ pc[u] = "wait_login"
  <2>1. ASSUME NEW u \in Session, LoginRequest(u)
        PROVE  \/ refusal' = refusal
               \/ \E id, code : RefuseLogin(u, id, code) /\ pc[u] = "wait_login"
    BY <2>1 DEF LoginRequest, Admit, RefuseAlreadyLoggedIn, RefuseUnauthorized
  <2> QED
    BY <1>1, <2>1 DEF LoginNext, Disconnect, UnregisterRefused, GiveUpLogin, UnregisterPlayer,
       Panic, loginVars
<1> QED
  BY <1>2, <1>3, <1>4

LEMMA BalancesFollow ==
    ASSUME AnswerInv, [Next]_vars, NEW s \in Session, NEW r \in RoomId, LoggedIn(s),
           Follows(s, r)
    PROVE  JoinBalance(s, r)' /\ LeaveBalance(s, r)'
<1>1. /\ joinsOwed[s][r] \in Int /\ leavesOwed[s][r] \in Int
      /\ joinsOwed'[s][r] \in Int /\ leavesOwed'[s][r] \in Int
  BY NextPreservesSignedInv DEF AnswerInv, SignedInv, PlayerInv, PlayerTypeOK
<1>2. JoinBalance(s, r) /\ LeaveBalance(s, r)
  BY DEF AnswerInv
<1>3. (NoneDropped(r)' => NoneDropped(r)) /\ (NoTakeover' => NoTakeover)
  BY OnceDropped, OnceRefused DEF AnswerInv
<1>4. JoinBalance(s, r)'
  BY <1>1, <1>2, <1>3 DEF Follows, JoinBalance
<1>5. LeaveBalance(s, r)'
  BY <1>1, <1>2, <1>3 DEF Follows, LeaveBalance
<1> QED
  BY <1>4, <1>5

-----------------------------------------------------------------------------
(* The balances under the steps of the rooms and of other actors.          *)

\* The actor of s does nothing, and channels of rooms are emptied at most.
LEMMA PassiveFollows ==
    ASSUME AnswerInv, NEW s \in Session, NEW r \in RoomId, LoggedIn(s),
           playerId'[s] = playerId[s], handler'[s] = handler[s], playerRx'[s] = playerRx[s],
           joinsOwed'[s] = joinsOwed[s], leavesOwed'[s] = leavesOwed[s],
           \A j \in RoomTask :
               \/ roomRx'[j] = <<>>
               \/ /\ roomRx'[j] = roomRx[j]
                  /\ Serves(j, r)' <=> Serves(j, r)
                  /\ Member(s, j)' <=> Member(s, j),
           NoneDropped(r)' => \A j \in RoomTask : roomRx'[j] = roomRx[j] \/ ~Serves(j, r)
    PROVE  Follows(s, r)
<1>1. /\ playerRx[s] \in Seq(OutputEvent)
      /\ joinsOwed[s][r] \in Int /\ leavesOwed[s][r] \in Int
  BY DEF AnswerInv, SignedInv, PlayerInv, PlayerTypeOK, RoomInv, RoomTypeOK
<1>2. IsFiniteSet(JoinsInRoom(s, r)) /\ IsFiniteSet(LeavesInRoom(s, r))
  BY DEF AnswerInv, JoinBalance, LeaveBalance
<1>3. /\ IsFiniteSet(JoinsInRoom(s, r))' /\ IsFiniteSet(LeavesInRoom(s, r))'
      /\ Cardinality(JoinsInRoom(s, r)) \in Nat /\ Cardinality(LeavesInRoom(s, r)) \in Nat
      /\ Cardinality(JoinsInRoom(s, r))' \in Nat /\ Cardinality(LeavesInRoom(s, r))' \in Nat
      /\ Cardinality(JoinsInRoom(s, r))' <= Cardinality(JoinsInRoom(s, r))
      /\ Cardinality(LeavesInRoom(s, r))' <= Cardinality(LeavesInRoom(s, r))
      /\ NoneDropped(r)' => Cardinality(JoinsInRoom(s, r))' = Cardinality(JoinsInRoom(s, r))
  BY <1>2, PlacesShrink
<1>4. ASSUME NEW types
      PROVE  /\ Cardinality(Heard(s, r, types)) \in Nat
             /\ Cardinality(Heard(s, r, types))' = Cardinality(Heard(s, r, types))
  BY <1>1, HeardIsFinite, HeardSame
<1>5. ASSUME NEW type
      PROVE  /\ Cardinality(SendingOf(s, r, type)) \in Nat
             /\ Cardinality(SendingOf(s, r, type))' = Cardinality(SendingOf(s, r, type))
  <2>1. Sends(s, r, type)' <=> Sends(s, r, type)
    BY DEF Sends
  <2> QED
    BY <2>1, SendingCount
<1>6. /\ JoinCount(s, r) \in Nat /\ JoinCount(s, r)' \in Nat
      /\ JoinCount(s, r)' <= JoinCount(s, r)
      /\ NoneDropped(r)' => JoinCount(s, r)' = JoinCount(s, r)
  BY <1>3, <1>4, <1>5 DEF JoinCount
<1>7. /\ LeaveCount(s, r) \in Nat /\ LeaveCount(s, r)' \in Nat
      /\ LeaveCount(s, r)' <= LeaveCount(s, r)
  BY <1>3, <1>4, <1>5 DEF LeaveCount
<1>8. /\ JoinCount(s, r)' - joinsOwed'[s][r] <= JoinCount(s, r) - joinsOwed[s][r]
      /\ NoneDropped(r)' =>
             JoinCount(s, r)' - joinsOwed'[s][r] = JoinCount(s, r) - joinsOwed[s][r]
      /\ LeaveCount(s, r)' - leavesOwed'[s][r] <= LeaveCount(s, r) - leavesOwed[s][r]
  BY <1>1, <1>6, <1>7
<1> QED
  BY <1>3, <1>6, <1>7, <1>8 DEF Follows

\* A handler of task i: whatever it takes from its channel about s, s hears of.
LEMMA HandlerFollows ==
    ASSUME AnswerInv, NEW s \in Session, NEW r \in RoomId, LoggedIn(s),
           UNCHANGED <<loginVars, playerVars>>, playerRx'[s] \in Seq(OutputEvent),
           NEW i \in RoomTask, HandlesOne(i),
           \/ Enters(s, i)
           \/ Leaves(s, i) /\ IsLeaveOf(s, Head(roomRx[i]))
           \/ Stays(s, i)
    PROVE  Follows(s, r)
<1>1. /\ playerRx[s] \in Seq(OutputEvent) /\ playerId'[s] = playerId[s]
      /\ joinsOwed[s][r] \in Int /\ leavesOwed[s][r] \in Int
      /\ joinsOwed' = joinsOwed /\ leavesOwed' = leavesOwed /\ handler' = handler
  BY DEF AnswerInv, SignedInv, PlayerInv, PlayerTypeOK, RoomInv, RoomTypeOK, loginVars, playerVars
<1>2. IsFiniteSet(JoinsInRoom(s, r)) /\ IsFiniteSet(LeavesInRoom(s, r)) /\ SignedInv
  BY DEF AnswerInv, JoinBalance, LeaveBalance
<1>3. ~Member(s, i) /\ Member(s, i)' => Asks(s, i)
  BY DEF Enters, Leaves, Stays
<1>4. /\ IsFiniteSet(JoinsInRoom(s, r))' /\ IsFiniteSet(LeavesInRoom(s, r))'
      /\ Cardinality(JoinsInRoom(s, r)) \in Nat /\ Cardinality(LeavesInRoom(s, r)) \in Nat
      /\ Cardinality(LeavesInRoom(s, r))' \in Nat
      /\ Cardinality(JoinsInRoom(s, r))' = Cardinality(JoinsInRoom(s, r))
             - (IF Serves(i, r) /\ Asks(s, i) THEN 1 ELSE 0)
      /\ Cardinality(LeavesInRoom(s, r))' <= Cardinality(LeavesInRoom(s, r))
             - (IF Serves(i, r) /\ IsLeaveOf(s, Head(roomRx[i])) /\ Member(s, i) THEN 1 ELSE 0)
  BY <1>1, <1>2, <1>3, PlacesShifted
<1>5. Serves(i, r) <=> room[i].id = r
  BY DEF Serves, HandlesOne
<1>6. PICK event \in OutputEvent, n \in Nat :
          /\ Extended(playerRx[s], playerRx'[s], n, event)
          /\ n \in {0, 1} \/ ~News(s, r, {"Join", "JoinError"}, event)
          /\ n \in {0, 1} \/ ~News(s, r, {"Leave"}, event)
          /\ n = 1 /\ News(s, r, {"Join", "JoinError"}, event) <=> Serves(i, r) /\ Asks(s, i)
          /\ n = 1 /\ News(s, r, {"Leave"}, event) =>
                 Serves(i, r) /\ IsLeaveOf(s, Head(roomRx[i])) /\ Member(s, i)
  <2>1. CASE Enters(s, i)
    BY <1>5, <2>1 DEF Enters, HearsOwn, News
  <2>2. CASE Leaves(s, i) /\ IsLeaveOf(s, Head(roomRx[i]))
    BY <1>5, <2>2 DEF Leaves, HearsOwn, News
  <2>3. CASE Stays(s, i)
    <3>1. PICK event \in OutputEvent, n \in Nat :
              /\ ~Own(s, event) \/ n = 0
              /\ event.roomId = room[i].id
              /\ IF Asks(s, i)
                 THEN n = 1 /\ event.type = "JoinError" /\ event.playerId = playerId[s]
                 ELSE n = 0 \/ event.type # "JoinError"
              /\ Extended(playerRx[s], playerRx'[s], n, event)
      BY <2>3 DEF Stays
    <3>2. CASE Asks(s, i)
      BY <1>5, <3>1, <3>2 DEF News
    <3>3. CASE ~Asks(s, i)
      BY <3>1, <3>3 DEF News, Own
    <3> QED
      BY <3>2, <3>3
  <2> QED
    BY <2>1, <2>2, <2>3
<1>7. /\ Cardinality(Heard(s, r, {"Join", "JoinError"})) \in Nat
      /\ Cardinality(Heard(s, r, {"Join", "JoinError"}))'
             = Cardinality(Heard(s, r, {"Join", "JoinError"}))
                   + (IF Serves(i, r) /\ Asks(s, i) THEN 1 ELSE 0)
  BY <1>1, <1>6, HeardExtended
<1>8. /\ Cardinality(Heard(s, r, {"Leave"})) \in Nat
      /\ Cardinality(Heard(s, r, {"Leave"}))' = Cardinality(Heard(s, r, {"Leave"}))
             + (IF n = 1 /\ News(s, r, {"Leave"}, event) THEN 1 ELSE 0)
  BY <1>1, <1>6, HeardExtended
<1>9. ASSUME NEW type
      PROVE  /\ Cardinality(SendingOf(s, r, type)) \in Nat
             /\ Cardinality(SendingOf(s, r, type))' = Cardinality(SendingOf(s, r, type))
  <2>1. Sends(s, r, type)' <=> Sends(s, r, type)
    BY <1>1 DEF Sends
  <2> QED
    BY <2>1, SendingCount
<1>10. JoinCount(s, r) \in Nat /\ JoinCount(s, r)' = JoinCount(s, r)
  BY <1>4, <1>7, <1>9 DEF JoinCount
<1>11. LeaveCount(s, r) \in Nat /\ LeaveCount(s, r)' \in Nat /\ LeaveCount(s, r)' <= LeaveCount(s, r)
  BY <1>4, <1>6, <1>8, <1>9 DEF LeaveCount
<1> QED
  BY <1>1, <1>4, <1>10, <1>11 DEF Follows

LEMMA RoomTaskStepFollows ==
    ASSUME AnswerInv, [Next]_vars, NEW i \in RoomTask, RoomTaskStep(i),
           NEW s \in Session, NEW r \in RoomId, LoggedIn(s)
    PROVE  Follows(s, r)
<1>1. /\ UNCHANGED <<loginVars, playerVars>> /\ SignedInv
      /\ playerId'[s] = playerId[s] /\ playerRx'[s] \in Seq(OutputEvent)
      /\ roomRx \in [RoomTask -> Seq(InputEvent)] /\ status \in [RoomTask -> Status]
  BY NextPreservesSignedInv
  DEF RoomTaskStep, loginVars, AnswerInv, SignedInv, PlayerInv, RoomInv, RoomTypeOK
<1>2. CASE HandleJoinEvent(i)
  BY <1>1, <1>2, HandleJoinEventHandles, HandleJoinEventHeard, HandlerFollows
<1>3. CASE HandleLeaveEvent(i)
  <2>1. (Leaves(s, i) /\ playerId[s] = Head(roomRx[i]).playerId) \/ Stays(s, i)
    BY <1>1, <1>3, HandleLeaveEventHeard
  <2>2. Head(roomRx[i]).type = "Leave"
    BY <1>3 DEF HandleLeaveEvent, Receives
  <2>3. (Leaves(s, i) /\ IsLeaveOf(s, Head(roomRx[i]))) \/ Stays(s, i)
    BY <2>1, <2>2 DEF IsLeaveOf
  <2> QED
    BY <1>1, <1>3, <2>3, HandleLeaveEventHandles, HandlerFollows
<1>4. CASE HandleMessageEvent(i)
  BY <1>1, <1>4, HandleMessageEventHandles, HandleMessageEventHeard, HandlerFollows
<1>5. CASE RemoveRoomFromChannels(i) \/ DropRoom(i)
  <2>1. /\ room' = room /\ playerRx' = playerRx
        /\ \A j \in RoomTask : status'[j] = "unborn" <=> status[j] = "unborn"
        /\ \A j \in RoomTask : roomRx'[j] = roomRx[j] \/ roomRx'[j] = <<>>
        /\ \A j \in RoomTask : roomRx'[j] = roomRx[j] \/ status'[j] = "dropped"
    BY <1>1, <1>5 DEF RemoveRoomFromChannels, DropRoom
  <2>2. \A j \in RoomTask : /\ Serves(j, r)' <=> Serves(j, r)
                            /\ Member(s, j)' <=> Member(s, j)
    BY <1>1, <2>1 DEF Serves, Member, IsJoined
  <2>3. NoneDropped(r)' => \A j \in RoomTask : roomRx'[j] = roomRx[j] \/ ~Serves(j, r)
    BY <2>1 DEF NoneDropped, Serves
  <2>4. /\ handler'[s] = handler[s] /\ playerRx'[s] = playerRx[s]
        /\ joinsOwed'[s] = joinsOwed[s] /\ leavesOwed'[s] = leavesOwed[s]
    BY <1>1, <2>1 DEF playerVars
  <2> QED
    BY <1>1, <2>1, <2>2, <2>3, <2>4, PassiveFollows
<1> QED
  BY <1>2, <1>3, <1>4, <1>5 DEF RoomTaskStep, RoomStep

\* The actor of s does nothing, and the rooms stay what they are but for a new one.
Passive(s) ==
    /\ playerId'[s] = playerId[s] /\ playerRx'[s] = playerRx[s] /\ handler'[s] = handler[s]
    /\ joinsOwed'[s] = joinsOwed[s] /\ leavesOwed'[s] = leavesOwed[s]
    /\ roomRx' = roomRx
    /\ \/ room' = room /\ status' = status
       \/ \E r \in RoomId, config \in RoomConfig, i \in RoomTask : SpawnRoom(r, config, i)

\* A new room has an empty channel.
LEMMA NewRoomIsSilent ==
    ASSUME AnswerInv, NEW s \in Session, NEW r, playerId'[s] = playerId[s], roomRx' = roomRx,
           \/ room' = room /\ status' = status
           \/ \E q \in RoomId, config \in RoomConfig, i \in RoomTask : SpawnRoom(q, config, i),
           NEW j \in RoomTask
    PROVE  \/ roomRx'[j] = <<>>
           \/ /\ Serves(j, r)' <=> Serves(j, r)
              /\ Member(s, j)' <=> Member(s, j)
<1>1. CASE room' = room /\ status' = status
  BY <1>1 DEF Serves, Member, IsJoined
<1>2. ASSUME NEW q \in RoomId, NEW config \in RoomConfig, NEW i \in RoomTask, SpawnRoom(q, config, i)
      PROVE  \/ roomRx'[j] = <<>>
             \/ /\ Serves(j, r)' <=> Serves(j, r)
                /\ Member(s, j)' <=> Member(s, j)
  <2>1. roomRx'[i] = <<>>
    BY <1>2 DEF AnswerInv, UnbornAreSilent, SpawnRoom
  <2>2. j # i => room'[j] = room[j] /\ status'[j] = status[j]
    BY <1>2 DEF SpawnRoom, AnswerInv, SignedInv, PlayerInv, RoomInv, RoomTypeOK
  <2>3. CASE j # i
    BY <2>2, <2>3 DEF Serves, Member, IsJoined
  <2> QED
    BY <2>1, <2>3
<1> QED
  BY <1>1, <1>2

LEMMA PassiveKeeps ==
    ASSUME AnswerInv, NEW s \in Session, NEW r \in RoomId, LoggedIn(s), Passive(s)
    PROVE  Follows(s, r)
<1>1. \A j \in RoomTask :
          \/ roomRx'[j] = <<>>
          \/ /\ roomRx'[j] = roomRx[j]
             /\ Serves(j, r)' <=> Serves(j, r)
             /\ Member(s, j)' <=> Member(s, j)
  BY NewRoomIsSilent DEF Passive
<1>2. \A j \in RoomTask : roomRx'[j] = roomRx[j]
  BY DEF Passive
<1> QED
  BY <1>1, <1>2, PassiveFollows DEF Passive

\* Another actor logs in, receives a request or an event, or ends.
LEMMA OtherActorFollows ==
    ASSUME AnswerInv, NEW u \in Session, NEW s \in Session, u # s,
           \/ LogIn(u) \/ EndWithoutLogin(u) \/ OnRoomIsFull(u) \/ FinishSession(u)
           \/ OnOutputEvent(u) \/ OnClosed(u) \/ ClientMessage(u)
    PROVE  Passive(s)
<1>1. /\ handler \in [Session -> Handler]
      /\ joinedRooms \in [Session -> [RoomId -> RoomTask \cup {None}]]
      /\ joinsOwed \in [Session -> [RoomId -> Int]] /\ leavesOwed \in [Session -> [RoomId -> Int]]
      /\ playerRx \in [Session -> Seq(OutputEvent)]
      /\ LoginTypeOK
  BY DEF AnswerInv, SignedInv, PlayerInv, PlayerTypeOK, RoomInv, RoomTypeOK, LoginInv
<1>2. CASE LogIn(u)
  BY <1>1, <1>2 DEF Passive, LogIn, LoginRequest, Admit, RefuseAlreadyLoggedIn, RefuseUnauthorized,
     RefuseLogin, roomVars, playerVars, LoginTypeOK
<1>3. CASE EndWithoutLogin(u) \/ OnRoomIsFull(u) \/ FinishSession(u)
  BY <1>1, <1>3 DEF Passive, EndWithoutLogin, OnRoomIsFull, FinishSession, PlayerStops,
     UnregisterRefused, GiveUpLogin, Panic, UnregisterPlayer, playerVars
<1>4. CASE OnOutputEvent(u)
  BY <1>1, <1>4 DEF Passive, OnOutputEvent, PlayerReceives, OnOwnJoin, OnJoinError, OnOwnLeave,
     Notify, loginVars, Answers
<1>5. CASE OnClosed(u)
  BY <1>1, <1>5 DEF Passive, OnClosed, roomVars, loginVars
<1>6. ASSUME NEW q \in RoomId, NEW i \in RoomTask, NEW config \in RoomConfig,
             OnJoinRequest(u, q, config, i)
      PROVE  Passive(s)
  <2>1. /\ playerId'[s] = playerId[s] /\ playerRx'[s] = playerRx[s] /\ handler'[s] = handler[s]
        /\ joinsOwed'[s] = joinsOwed[s] /\ leavesOwed'[s] = leavesOwed[s]
        /\ roomRx' = roomRx
    BY <1>1, <1>6 DEF OnJoinRequest, GetOrCreateRoomChannel, SpawnRoom, GoesToSend,
       roomVars, loginVars
  <2>2. (room' = room /\ status' = status) \/ SpawnRoom(q, config, i)
    BY <1>6 DEF OnJoinRequest, GetOrCreateRoomChannel, roomVars
  <2> QED
    BY <2>1, <2>2 DEF Passive
<1>7. ASSUME NEW q \in RoomId, NEW i \in RoomTask,
             \/ OnLeaveRequest(u, q, i)
             \/ \E targets \in TargetIds, body \in Body : OnSendMessage(u, q, i, targets, body)
      PROVE  Passive(s)
  BY <1>1, <1>7 DEF Passive, OnLeaveRequest, OnSendMessage, GoesToSend, roomVars, loginVars
<1>8. ASSUME NEW q \in RoomId, OnLeaveRequestWithoutRoom(u, q)
      PROVE  Passive(s)
  BY <1>8 DEF Passive, OnLeaveRequestWithoutRoom, roomVars, loginVars
<1> QED
  BY <1>2, <1>3, <1>4, <1>5, <1>6, <1>7, <1>8 DEF ClientMessage

-----------------------------------------------------------------------------
(* The balances under the steps of the actor itself.                       *)

\* What stays of the counts when the rooms do what they did before.
RoomsStay == roomRx' = roomRx /\ room' = room /\ status' = status

LEMMA PlacesStay ==
    ASSUME AnswerInv, NEW s \in Session, NEW r \in RoomId, LoggedIn(s), playerId'[s] = playerId[s],
           \/ RoomsStay
           \/ /\ roomRx' = roomRx
              /\ \E q \in RoomId, config \in RoomConfig, i \in RoomTask : SpawnRoom(q, config, i)
    PROVE  /\ IsFiniteSet(JoinsInRoom(s, r))' /\ IsFiniteSet(LeavesInRoom(s, r))'
           /\ Cardinality(JoinsInRoom(s, r)) \in Nat /\ Cardinality(LeavesInRoom(s, r)) \in Nat
           /\ Cardinality(LeavesInRoom(s, r))' \in Nat
           /\ Cardinality(JoinsInRoom(s, r))' = Cardinality(JoinsInRoom(s, r))
           /\ Cardinality(LeavesInRoom(s, r))' <= Cardinality(LeavesInRoom(s, r))
<1>1. \A j \in RoomTask :
          \/ roomRx'[j] = <<>>
          \/ /\ roomRx'[j] = roomRx[j]
             /\ Serves(j, r)' <=> Serves(j, r)
             /\ Member(s, j)' <=> Member(s, j)
  BY NewRoomIsSilent DEF RoomsStay
<1>2. \A j \in RoomTask : roomRx'[j] = roomRx[j]
  BY DEF RoomsStay
<1>3. IsFiniteSet(JoinsInRoom(s, r)) /\ IsFiniteSet(LeavesInRoom(s, r))
  BY DEF AnswerInv, JoinBalance, LeaveBalance
<1> QED
  BY <1>1, <1>2, <1>3, PlacesShrink

\* An event is taken from the channel: it was counted if it is an answer.
LEMMA OnOutputEventFollows ==
    ASSUME AnswerInv, NEW s \in Session, NEW r \in RoomId, OnOutputEvent(s)
    PROVE  Follows(s, r)
<1> DEFINE event == Head(playerRx[s])
<1>1. /\ LoggedIn(s) /\ playerRx[s] # <<>> /\ RoomsStay
      /\ playerRx[s] \in Seq(OutputEvent) /\ playerRx'[s] = Tail(playerRx[s])
      /\ playerId' = playerId /\ handler' = handler /\ handler[s].at = "select"
  BY DEF OnOutputEvent, AtSelect, PlayerReceives, loginVars, RoomsStay,
     AnswerInv, SignedInv, PlayerInv, RoomInv, RoomTypeOK
<1>2. /\ joinsOwed \in [Session -> [RoomId -> Int]] /\ leavesOwed \in [Session -> [RoomId -> Int]]
      /\ event \in OutputEvent /\ event.roomId \in RoomId
  BY <1>1, HeadOfPlayerRx, OutputEventFields DEF AnswerInv, SignedInv, PlayerInv, PlayerTypeOK
<1>3. event.type = "JoinError" => event.playerId = playerId[s]
  <2>1. 1 \in DOMAIN playerRx[s] /\ playerRx[s][1] = event
    BY <1>1, TailShifts
  <2> QED
    BY <2>1 DEF AnswerInv, ErrorsAreOwn
<1> HIDE DEF event
<1>4. /\ joinsOwed'[s][r] = joinsOwed[s][r]
             - (IF News(s, r, {"Join", "JoinError"}, event) THEN 1 ELSE 0)
      /\ leavesOwed'[s][r] = leavesOwed[s][r] - (IF News(s, r, {"Leave"}, event) THEN 1 ELSE 0)
  <2>1. CASE OnOwnJoin(s, event)
    BY <1>2, <2>1 DEF OnOwnJoin, Own, News, Answers
  <2>2. CASE OnJoinError(s, event)
    BY <1>2, <1>3, <2>2 DEF OnJoinError, News, Answers
  <2>3. CASE OnOwnLeave(s, event)
    BY <1>2, <2>3 DEF OnOwnLeave, Own, News, Answers
  <2>4. CASE Notify(s, event)
    BY <1>2, <2>4 DEF Notify, Own, News
  <2> QED
    BY <2>1, <2>2, <2>3, <2>4 DEF OnOutputEvent, event
<1>5. ASSUME NEW types
      PROVE  /\ Cardinality(Heard(s, r, types)) \in Nat /\ Cardinality(Heard(s, r, types))' \in Nat
             /\ Cardinality(Heard(s, r, types))' = Cardinality(Heard(s, r, types))
                    - (IF News(s, r, types, event) THEN 1 ELSE 0)
  BY <1>1, HeardTaken DEF event
<1>6. ASSUME NEW type
      PROVE  /\ Cardinality(SendingOf(s, r, type)) = 0
             /\ Cardinality(SendingOf(s, r, type))' = 0
  BY <1>1, SendingCount DEF Sends
<1>7. /\ IsFiniteSet(JoinsInRoom(s, r))' /\ IsFiniteSet(LeavesInRoom(s, r))'
      /\ Cardinality(JoinsInRoom(s, r)) \in Nat /\ Cardinality(LeavesInRoom(s, r)) \in Nat
      /\ Cardinality(LeavesInRoom(s, r))' \in Nat
      /\ Cardinality(JoinsInRoom(s, r))' = Cardinality(JoinsInRoom(s, r))
      /\ Cardinality(LeavesInRoom(s, r))' <= Cardinality(LeavesInRoom(s, r))
  BY <1>1, PlacesStay
<1>8. /\ JoinCount(s, r) \in Nat /\ JoinCount(s, r)' \in Nat
      /\ JoinCount(s, r)' - joinsOwed'[s][r] = JoinCount(s, r) - joinsOwed[s][r]
  BY <1>2, <1>4, <1>5, <1>6, <1>7 DEF JoinCount
<1>9. /\ LeaveCount(s, r) \in Nat /\ LeaveCount(s, r)' \in Nat
      /\ LeaveCount(s, r)' - leavesOwed'[s][r] <= LeaveCount(s, r) - leavesOwed[s][r]
  BY <1>2, <1>4, <1>5, <1>6, <1>7 DEF LeaveCount
<1> QED
  <2>1. joinsOwed'[s][r] \in Int /\ joinsOwed[s][r] \in Int
    BY <1>2, <1>4
  <2> QED
    BY <1>1, <1>7, <1>8, <1>9, <2>1 DEF Follows

\* A request: what is owed from now on is about to be sent.
Requested(s, r) ==
    /\ handler'[s].at \in {"select", "send"}
    /\ joinsOwed'[s][r] = joinsOwed[s][r] + (IF Sends(s, r, "Join")' THEN 1 ELSE 0)
    /\ leavesOwed'[s][r] = leavesOwed[s][r] + (IF Sends(s, r, "Leave")' THEN 1 ELSE 0)

LEMMA ClientMessageFollows ==
    ASSUME AnswerInv, NEW s \in Session, NEW r \in RoomId, ClientMessage(s)
    PROVE  Follows(s, r)
<1>1. /\ joinsOwed \in [Session -> [RoomId -> Int]] /\ leavesOwed \in [Session -> [RoomId -> Int]]
      /\ handler \in [Session -> Handler] /\ playerRx[s] \in Seq(OutputEvent)
  BY DEF AnswerInv, SignedInv, PlayerInv, PlayerTypeOK, RoomInv, RoomTypeOK
<1>2. /\ LoggedIn(s) /\ handler[s].at = "select" /\ playerId' = playerId /\ playerRx' = playerRx
      /\ \/ RoomsStay
         \/ /\ roomRx' = roomRx
            /\ \E q \in RoomId, config \in RoomConfig, i \in RoomTask : SpawnRoom(q, config, i)
  <2>1. ReceivesRequest(s) /\ UNCHANGED loginVars
    BY Zenon DEF ClientMessage, OnJoinRequest, OnLeaveRequest, OnLeaveRequestWithoutRoom,
       OnSendMessage
  <2>2. \/ UNCHANGED roomVars
        \/ \E q \in RoomId, i \in RoomTask, config \in RoomConfig :
               GetOrCreateRoomChannel(q, config, i)
    BY Zenon DEF ClientMessage, OnJoinRequest, OnLeaveRequest, OnLeaveRequestWithoutRoom,
       OnSendMessage
  <2>3. \/ UNCHANGED roomVars
        \/ \E q \in RoomId, config \in RoomConfig, i \in RoomTask : SpawnRoom(q, config, i)
    BY <2>2 DEF GetOrCreateRoomChannel
  <2> QED
    BY <2>1, <2>3 DEF ReceivesRequest, AtSelect, SpawnRoom, RoomsStay, roomVars, loginVars
<1>3. Requested(s, r)
  <2>1. ASSUME NEW q \in RoomId, NEW i \in RoomTask, NEW event,
               GoesToSend(s, q, i, event)
        PROVE  /\ handler'[s].at = "send"
               /\ \A type : Sends(s, r, type)' <=> q = r /\ event.type = type
    BY <1>1, <2>1 DEF GoesToSend, Sends
  <2>2. ASSUME NEW q \in RoomId, NEW i \in RoomTask, NEW config \in RoomConfig,
               OnJoinRequest(s, q, config, i)
        PROVE  Requested(s, r)
    <3> DEFINE event == [type |-> "Join", config |-> config,
                         player |-> [id |-> playerId[s], sender |-> s]]
    <3>1. GoesToSend(s, q, i, event) /\ event.type = "Join"
      BY <2>2 DEF OnJoinRequest
    <3> HIDE DEF event
    <3>2. /\ handler'[s].at = "send" /\ ~Sends(s, r, "Leave")'
          /\ Sends(s, r, "Join")' <=> q = r
      BY <2>1, <3>1
    <3> QED
      BY <1>1, <2>2, <3>2 DEF Requested, OnJoinRequest
  <2>3. ASSUME NEW q \in RoomId, NEW i \in RoomTask, OnLeaveRequest(s, q, i)
        PROVE  Requested(s, r)
    <3> DEFINE event == [type |-> "Leave", playerId |-> playerId[s]]
    <3>1. GoesToSend(s, q, i, event) /\ event.type = "Leave"
      BY <2>3 DEF OnLeaveRequest
    <3> HIDE DEF event
    <3>2. /\ handler'[s].at = "send" /\ ~Sends(s, r, "Join")'
          /\ Sends(s, r, "Leave")' <=> q = r
      BY <2>1, <3>1
    <3> QED
      BY <1>1, <2>3, <3>2 DEF Requested, OnLeaveRequest
  <2>4. ASSUME NEW q \in RoomId, NEW i \in RoomTask, NEW targets, NEW body,
               OnSendMessage(s, q, i, targets, body)
        PROVE  Requested(s, r)
    <3> DEFINE event == [type |-> "Message", sender |-> playerId[s],
                         targets |-> targets, body |-> body]
    <3>1. GoesToSend(s, q, i, event) /\ event.type = "Message"
      BY <2>4 DEF OnSendMessage
    <3> HIDE DEF event
    <3>2. /\ handler'[s].at = "send" /\ ~Sends(s, r, "Join")' /\ ~Sends(s, r, "Leave")'
      BY <2>1, <3>1
    <3> QED
      BY <1>1, <2>4, <3>2 DEF Requested, OnSendMessage
  <2>5. ASSUME NEW q \in RoomId, OnLeaveRequestWithoutRoom(s, q)
        PROVE  Requested(s, r)
    <3>1. handler'[s].at = "select" /\ ~Sends(s, r, "Join")' /\ ~Sends(s, r, "Leave")'
      BY <1>2, <2>5 DEF OnLeaveRequestWithoutRoom, Sends
    <3> QED
      BY <1>1, <2>5, <3>1 DEF Requested, OnLeaveRequestWithoutRoom
  <2> QED
    BY <2>2, <2>3, <2>4, <2>5 DEF ClientMessage
<1>4. ASSUME NEW type
      PROVE  /\ Cardinality(SendingOf(s, r, type)) = 0
             /\ Cardinality(SendingOf(s, r, type))' = IF Sends(s, r, type)' THEN 1 ELSE 0
  BY <1>2, SendingCount DEF Sends
<1>5. ASSUME NEW types
      PROVE  /\ Cardinality(Heard(s, r, types)) \in Nat
             /\ Cardinality(Heard(s, r, types))' = Cardinality(Heard(s, r, types))
  BY <1>1, <1>2, HeardIsFinite, HeardSame
<1>6. /\ IsFiniteSet(JoinsInRoom(s, r))' /\ IsFiniteSet(LeavesInRoom(s, r))'
      /\ Cardinality(JoinsInRoom(s, r)) \in Nat /\ Cardinality(LeavesInRoom(s, r)) \in Nat
      /\ Cardinality(LeavesInRoom(s, r))' \in Nat
      /\ Cardinality(JoinsInRoom(s, r))' = Cardinality(JoinsInRoom(s, r))
      /\ Cardinality(LeavesInRoom(s, r))' <= Cardinality(LeavesInRoom(s, r))
  BY <1>2, PlacesStay
<1>7. /\ joinsOwed[s][r] \in Int /\ joinsOwed'[s][r] \in Int
      /\ JoinCount(s, r) \in Nat /\ JoinCount(s, r)' \in Nat
      /\ JoinCount(s, r)' - joinsOwed'[s][r] = JoinCount(s, r) - joinsOwed[s][r]
  <2>1. /\ Cardinality(SendingOf(s, r, "Join")) = 0
        /\ Cardinality(SendingOf(s, r, "Join"))' = IF Sends(s, r, "Join")' THEN 1 ELSE 0
        /\ Cardinality(Heard(s, r, {"Join", "JoinError"})) \in Nat
        /\ Cardinality(Heard(s, r, {"Join", "JoinError"}))' = Cardinality(Heard(s, r, {"Join", "JoinError"}))
    BY <1>4, <1>5
  <2>2. /\ joinsOwed[s][r] \in Int
        /\ joinsOwed'[s][r] = joinsOwed[s][r] + (IF Sends(s, r, "Join")' THEN 1 ELSE 0)
    BY <1>1, <1>3 DEF Requested
  <2> QED
    BY <1>6, <2>1, <2>2 DEF JoinCount
<1>8. /\ LeaveCount(s, r) \in Nat /\ LeaveCount(s, r)' \in Nat
      /\ LeaveCount(s, r)' - leavesOwed'[s][r] <= LeaveCount(s, r) - leavesOwed[s][r]
  <2>1. /\ Cardinality(SendingOf(s, r, "Leave")) = 0
        /\ Cardinality(SendingOf(s, r, "Leave"))' = IF Sends(s, r, "Leave")' THEN 1 ELSE 0
        /\ Cardinality(Heard(s, r, {"Leave"})) \in Nat
        /\ Cardinality(Heard(s, r, {"Leave"}))' = Cardinality(Heard(s, r, {"Leave"}))
    BY <1>4, <1>5
  <2>2. /\ leavesOwed[s][r] \in Int
        /\ leavesOwed'[s][r] = leavesOwed[s][r] + (IF Sends(s, r, "Leave")' THEN 1 ELSE 0)
    BY <1>1, <1>3 DEF Requested
  <2> QED
    BY <1>6, <2>1, <2>2 DEF LeaveCount
<1> QED
  BY <1>2, <1>3, <1>6, <1>7, <1>8 DEF Follows, Requested

\* The disconnection: what is owed by now stays owed.
LEMMA OnClosedFollows ==
    ASSUME AnswerInv, NEW s \in Session, NEW r \in RoomId, OnClosed(s)
    PROVE  Follows(s, r)
<1>1. /\ joinsOwed[s][r] \in Int /\ playerRx[s] \in Seq(OutputEvent)
      /\ handler \in [Session -> Handler]
  BY DEF AnswerInv, SignedInv, PlayerInv, PlayerTypeOK, RoomInv, RoomTypeOK
<1>2. /\ LoggedIn(s) /\ handler[s].at = "select" /\ handler'[s].at = "disconnect"
      /\ RoomsStay /\ playerId' = playerId /\ playerRx' = playerRx
      /\ joinsOwed' = joinsOwed /\ leavesOwed' = leavesOwed
  BY <1>1 DEF OnClosed, AtSelect, RoomsStay, roomVars, loginVars
<1>3. ASSUME NEW type
      PROVE  Cardinality(SendingOf(s, r, type)) = 0 /\ Cardinality(SendingOf(s, r, type))' = 0
  BY <1>2, SendingCount DEF Sends
<1>4. ASSUME NEW types
      PROVE  /\ Cardinality(Heard(s, r, types)) \in Nat
             /\ Cardinality(Heard(s, r, types))' = Cardinality(Heard(s, r, types))
  BY <1>1, <1>2, HeardIsFinite, HeardSame
<1>5. /\ IsFiniteSet(JoinsInRoom(s, r))' /\ IsFiniteSet(LeavesInRoom(s, r))'
      /\ Cardinality(JoinsInRoom(s, r)) \in Nat /\ Cardinality(LeavesInRoom(s, r)) \in Nat
      /\ Cardinality(LeavesInRoom(s, r))' \in Nat
      /\ Cardinality(JoinsInRoom(s, r))' = Cardinality(JoinsInRoom(s, r))
  BY <1>2, PlacesStay
<1>6. JoinCount(s, r) \in Nat /\ JoinCount(s, r)' = JoinCount(s, r)
  BY <1>3, <1>4, <1>5 DEF JoinCount
<1>7. LeaveCount(s, r) \in Nat /\ LeaveCount(s, r)' \in Nat
  BY <1>3, <1>4, <1>5 DEF LeaveCount
<1> QED
  BY <1>1, <1>2, <1>5, <1>6, <1>7 DEF Follows

\* A send by the actor itself: the event is in the channel of the room that the request
\* was about, or the answer is given.
LEMMA OwnSendFollows ==
    ASSUME AnswerInv, NEW s \in Session, NEW r \in RoomId, SendEvent(s)
    PROVE  Follows(s, r)
<1>1. PICK i \in RoomTask, event \in InputEvent, q \in RoomId :
          i = handler[s].roomTx /\ event = handler[s].event /\ q = handler[s].roomId
  BY EventOfSend DEF AnswerInv, SignedInv
<1>2. /\ LoggedIn(s) /\ handler[s].at = "send" /\ handler'[s].at = "select"
      /\ playerId' = playerId /\ playerRx' = playerRx /\ leavesOwed' = leavesOwed
      /\ joinsOwed \in [Session -> [RoomId -> Int]] /\ playerRx[s] \in Seq(OutputEvent)
      /\ RoomTypeOK
  BY DEF SendEvent, SendToRoom, roomVars, loginVars,
     AnswerInv, SignedInv, PlayerInv, PlayerTypeOK, RoomInv, RoomTypeOK
<1>3. /\ Serves(i, r) <=> q = r
      /\ IsJoinOf(s, event) <=> event.type = "Join"
  <2>1. Serves(i, q)
    BY <1>1, <1>2 DEF AnswerInv, HandlesLead
  <2>2. event.type = "Join" => event.player = [id |-> playerId[s], sender |-> s]
    BY <1>1, <1>2 DEF AnswerInv, SignedInv, HandlersSign
  <2> QED
    BY <2>1, <2>2 DEF Serves, IsJoinOf
<1>4. ASSUME NEW type
      PROVE  /\ Cardinality(SendingOf(s, r, type)) = IF q = r /\ event.type = type THEN 1 ELSE 0
             /\ Cardinality(SendingOf(s, r, type))' = 0
  BY <1>1, <1>2, SendingCount DEF Sends
<1>5. ASSUME NEW types
      PROVE  /\ Cardinality(Heard(s, r, types)) \in Nat
             /\ Cardinality(Heard(s, r, types))' = Cardinality(Heard(s, r, types))
  BY <1>2, HeardIsFinite, HeardSame
<1>6. CASE SendToRoom(i, event) /\ UNCHANGED joinsOwed
  <2>1. IsFiniteSet(JoinsInRoom(s, r)) /\ IsFiniteSet(LeavesInRoom(s, r))
    BY <1>2 DEF AnswerInv, JoinBalance, LeaveBalance
  <2>2. /\ roomRx' = [roomRx EXCEPT ![i] = Append(@, event)]
        /\ room' = room /\ status' = status
    BY <1>6 DEF SendToRoom
  <2>3. /\ IsFiniteSet(JoinsInRoom(s, r))' /\ IsFiniteSet(LeavesInRoom(s, r))'
        /\ Cardinality(JoinsInRoom(s, r)) \in Nat /\ Cardinality(LeavesInRoom(s, r)) \in Nat
        /\ Cardinality(LeavesInRoom(s, r))' \in Nat
        /\ Cardinality(JoinsInRoom(s, r))' = Cardinality(JoinsInRoom(s, r))
               + (IF Serves(i, r) /\ IsJoinOf(s, event) THEN 1 ELSE 0)
        /\ Cardinality(LeavesInRoom(s, r))' <= Cardinality(LeavesInRoom(s, r))
               + (IF Serves(i, r) /\ IsLeaveOf(s, event) THEN 1 ELSE 0)
    BY <1>2, <2>1, <2>2, PlacesAppended
  <2>4. JoinCount(s, r) \in Nat /\ JoinCount(s, r)' = JoinCount(s, r)
    BY <1>3, <1>4, <1>5, <2>3 DEF JoinCount
  <2>5. /\ LeaveCount(s, r) \in Nat /\ LeaveCount(s, r)' \in Nat
        /\ LeaveCount(s, r)' <= LeaveCount(s, r)
    <3>1. IsLeaveOf(s, event) => event.type = "Leave"
      BY DEF IsLeaveOf
    <3> QED
      BY <1>3, <1>4, <1>5, <2>3, <3>1 DEF LeaveCount
  <2>6. joinsOwed[s][r] \in Int /\ leavesOwed[s][r] \in Int
    BY DEF AnswerInv, SignedInv, PlayerInv, PlayerTypeOK
  <2> QED
    BY <1>2, <1>6, <2>3, <2>4, <2>5, <2>6 DEF Follows
<1>7. CASE /\ UNCHANGED roomVars
           /\ joinsOwed' = IF event.type = "Join" THEN Answers(joinsOwed, s, q) ELSE joinsOwed
  <2>1. joinsOwed'[s][r] = joinsOwed[s][r] - (IF q = r /\ event.type = "Join" THEN 1 ELSE 0)
    BY <1>2, <1>7 DEF Answers
  <2>2. RoomsStay
    BY <1>7 DEF RoomsStay, roomVars
  <2>3. /\ IsFiniteSet(JoinsInRoom(s, r))' /\ IsFiniteSet(LeavesInRoom(s, r))'
        /\ Cardinality(JoinsInRoom(s, r)) \in Nat /\ Cardinality(LeavesInRoom(s, r)) \in Nat
        /\ Cardinality(LeavesInRoom(s, r))' \in Nat
        /\ Cardinality(JoinsInRoom(s, r))' = Cardinality(JoinsInRoom(s, r))
        /\ Cardinality(LeavesInRoom(s, r))' <= Cardinality(LeavesInRoom(s, r))
    BY <1>2, <2>2, PlacesStay
  <2>4. /\ JoinCount(s, r) \in Nat /\ JoinCount(s, r)' \in Nat
        /\ JoinCount(s, r)' = JoinCount(s, r) - (IF q = r /\ event.type = "Join" THEN 1 ELSE 0)
    BY <1>4, <1>5, <2>3 DEF JoinCount
  <2>5. /\ LeaveCount(s, r) \in Nat /\ LeaveCount(s, r)' \in Nat
        /\ LeaveCount(s, r)' <= LeaveCount(s, r)
    BY <1>4, <1>5, <2>3 DEF LeaveCount
  <2>6. joinsOwed[s][r] \in Int /\ leavesOwed[s][r] \in Int
    BY DEF AnswerInv, SignedInv, PlayerInv, PlayerTypeOK
  <2> QED
    <3>1. JoinCount(s, r)' - joinsOwed'[s][r] = JoinCount(s, r) - joinsOwed[s][r]
      BY <2>1, <2>4, <2>6
    <3>2. joinsOwed'[s][r] \in Int
      BY <2>1, <2>6
    <3> QED
      BY <1>2, <2>3, <2>4, <2>5, <2>6, <3>1, <3>2 DEF Follows
<1> QED
  BY <1>1, <1>6, <1>7 DEF SendEvent

-----------------------------------------------------------------------------
(* Events that reach the channel of a room past what s is owed.            *)

\* As long as no id was taken over, sessions that are logged in have different ids.
LEMMA IdsDiffer ==
    ASSUME LoginInv, NoTakeover, NEW s \in Session, NEW u \in Session, u # s,
           LoggedIn(s), LoggedIn(u)
    PROVE  playerId[u] # playerId[s]
<1>1. playerId[s] \in PlayerId \cup {None} /\ ~Stolen(playerId[s])
  BY DEF LoginInv, LoginTypeOK, NoTakeover, Stolen
<1>2. Holds(s, playerId[s]) /\ (playerId[u] = playerId[s] => Holds(u, playerId[s]))
  BY DEF Holds, LoggedIn
<1> QED
  BY <1>1, <1>2 DEF LoginInv, HoldersAreAlone

\* An event that is no Join of s, and no Leave of s that counts, is sent.
LEMMA UncountedFollows ==
    ASSUME AnswerInv, NEW s \in Session, NEW r \in RoomId, LoggedIn(s),
           playerId'[s] = playerId[s], playerRx'[s] = playerRx[s], handler'[s] = handler[s],
           joinsOwed'[s] = joinsOwed[s], leavesOwed'[s] = leavesOwed[s],
           NEW i \in RoomTask, NEW event \in InputEvent, SendToRoom(i, event),
           ~IsJoinOf(s, event),
           NoTakeover' /\ handler[s].at # "disconnect" => ~IsLeaveOf(s, event)
    PROVE  Follows(s, r)
<1>1. /\ IsFiniteSet(JoinsInRoom(s, r)) /\ IsFiniteSet(LeavesInRoom(s, r))
      /\ RoomTypeOK /\ playerRx[s] \in Seq(OutputEvent)
      /\ joinsOwed[s][r] \in Int /\ leavesOwed[s][r] \in Int
  BY DEF AnswerInv, JoinBalance, LeaveBalance, SignedInv, PlayerInv, PlayerTypeOK, RoomInv,
     RoomTypeOK
<1>2. /\ IsFiniteSet(JoinsInRoom(s, r))' /\ IsFiniteSet(LeavesInRoom(s, r))'
      /\ Cardinality(JoinsInRoom(s, r)) \in Nat /\ Cardinality(LeavesInRoom(s, r)) \in Nat
      /\ Cardinality(LeavesInRoom(s, r))' \in Nat
      /\ Cardinality(JoinsInRoom(s, r))' = Cardinality(JoinsInRoom(s, r))
             + (IF Serves(i, r) /\ IsJoinOf(s, event) THEN 1 ELSE 0)
      /\ Cardinality(LeavesInRoom(s, r))' <= Cardinality(LeavesInRoom(s, r))
             + (IF Serves(i, r) /\ IsLeaveOf(s, event) THEN 1 ELSE 0)
  BY <1>1, PlacesAppended DEF SendToRoom
<1>3. ASSUME NEW types
      PROVE  /\ Cardinality(Heard(s, r, types)) \in Nat
             /\ Cardinality(Heard(s, r, types))' = Cardinality(Heard(s, r, types))
  BY <1>1, HeardIsFinite, HeardSame
<1>4. ASSUME NEW type
      PROVE  /\ Cardinality(SendingOf(s, r, type)) \in Nat
             /\ Cardinality(SendingOf(s, r, type))' = Cardinality(SendingOf(s, r, type))
  <2>1. Sends(s, r, type)' <=> Sends(s, r, type)
    BY DEF Sends
  <2> QED
    BY <2>1, SendingCount
<1>5. JoinCount(s, r) \in Nat /\ JoinCount(s, r)' = JoinCount(s, r)
  BY <1>2, <1>3, <1>4 DEF JoinCount
<1>6. /\ LeaveCount(s, r) \in Nat /\ LeaveCount(s, r)' \in Nat
      /\ NoTakeover' /\ handler[s].at # "disconnect" => LeaveCount(s, r)' <= LeaveCount(s, r)
  BY <1>2, <1>3, <1>4 DEF LeaveCount
<1> QED
  BY <1>1, <1>2, <1>5, <1>6 DEF Follows

\* Another actor sends what it was about to send.
LEMMA OtherSendFollows ==
    ASSUME AnswerInv, [Next]_vars, NEW u \in Session, SendEvent(u),
           NEW s \in Session, u # s, LoggedIn(s), NEW r \in RoomId
    PROVE  Follows(s, r)
<1>1. PICK i \in RoomTask, event \in InputEvent :
          i = handler[u].roomTx /\ event = handler[u].event
  BY EventOfSend DEF AnswerInv, SignedInv
<1>2. /\ LoggedIn(u) /\ handler[u].at = "send" /\ LoginInv
      /\ playerId' = playerId /\ playerRx' = playerRx /\ leavesOwed' = leavesOwed
      /\ handler'[s] = handler[s]
      /\ joinsOwed \in [Session -> [RoomId -> Int]]
  BY DEF SendEvent, SendToRoom, roomVars, loginVars,
     AnswerInv, SignedInv, PlayerInv, PlayerTypeOK
<1>3. joinsOwed'[s] = joinsOwed[s]
  BY <1>2 DEF SendEvent, Answers
<1>4. ~IsJoinOf(s, event)
  <2>1. event.type = "Join" => event.player = [id |-> playerId[u], sender |-> u]
    BY <1>1, <1>2 DEF AnswerInv, SignedInv, HandlersSign
  <2> QED
    BY <2>1 DEF IsJoinOf
<1>5. NoTakeover' => ~IsLeaveOf(s, event)
  <2>1. NoTakeover' => playerId[u] # playerId[s]
    BY <1>2, OnceRefused, IdsDiffer DEF AnswerInv
  <2> QED
    BY <1>1, <1>2, <2>1 DEF IsLeaveOf, AnswerInv, LeavesAreSigned
<1>6. CASE SendToRoom(i, event)
  BY <1>2, <1>3, <1>4, <1>5, <1>6, UncountedFollows
<1>7. CASE UNCHANGED roomVars
  <2>1. Passive(s)
    BY <1>2, <1>3, <1>7 DEF Passive, roomVars
  <2> QED
    BY <2>1, PassiveKeeps
<1> QED
  BY <1>1, <1>6, <1>7 DEF SendEvent

\* An actor leaves a room on its way out: its own balance of Leaves is closed by then,
\* and the one of another session is touched only if they share the id.
LEMMA LeaveOnDisconnectFollows ==
    ASSUME AnswerInv, [Next]_vars, NEW u \in Session, NEW q \in RoomId, LeaveOnDisconnect(u, q),
           NEW s \in Session, LoggedIn(s), NEW r \in RoomId
    PROVE  Follows(s, r)
<1> DEFINE event == [type |-> "Leave", playerId |-> playerId[u]]
<1>1. /\ handler[u].at = "disconnect" /\ joinedRooms[u][q] # None /\ joinedRooms[u][q] \in RoomTask
      /\ playerId[u] \in PlayerId /\ LoginInv /\ SignedInv
      /\ playerId' = playerId /\ playerRx' = playerRx /\ handler' = handler
      /\ joinsOwed' = joinsOwed /\ leavesOwed' = leavesOwed
  BY DEF LeaveOnDisconnect, SendToRoom, roomVars, loginVars,
     AnswerInv, SignedInv, PlayerInv, PlayerTypeOK, IdsAreKnown
<1>2. LoggedIn(u)
  BY <1>1 DEF AnswerInv, LeaversAreLoggedIn
<1>3. event \in InputEvent /\ event.type = "Leave" /\ event.playerId = playerId[u]
  BY <1>1 DEF InputEvent
<1>4. \/ SendToRoom(joinedRooms[u][q], event)
      \/ UNCHANGED roomVars
  BY DEF LeaveOnDisconnect
<1> HIDE DEF event
<1>5. ~IsJoinOf(s, event)
  BY <1>3 DEF IsJoinOf
<1>6. NoTakeover' /\ handler[s].at # "disconnect" => ~IsLeaveOf(s, event)
  <2>1. NoTakeover' /\ u # s => playerId[u] # playerId[s]
    BY <1>1, <1>2, OnceRefused, IdsDiffer DEF AnswerInv
  <2> QED
    BY <1>1, <1>3, <2>1 DEF IsLeaveOf
<1>7. CASE SendToRoom(joinedRooms[u][q], event)
  BY <1>1, <1>3, <1>5, <1>6, <1>7, UncountedFollows
<1>8. CASE UNCHANGED roomVars
  <2>1. Passive(s)
    BY <1>1, <1>8 DEF Passive, roomVars
  <2> QED
    BY <2>1, PassiveKeeps
<1> QED
  BY <1>4, <1>7, <1>8

-----------------------------------------------------------------------------
(* Logging in.                                                             *)

\* A session that has just been admitted is nowhere counted.
LEMMA LogInBalances ==
    ASSUME AnswerInv, [Next]_vars, NEW s \in Session, LogIn(s), LoggedIn(s)', NEW r \in RoomId
    PROVE  JoinBalance(s, r)' /\ LeaveBalance(s, r)'
<1>1. /\ pc[s] = "wait_login" /\ SignedInv
      /\ UNCHANGED <<roomVars, playerVars>>
  BY DEF LogIn, LoginRequest, Admit, RefuseAlreadyLoggedIn, RefuseUnauthorized, AnswerInv
<1>2. /\ joinsOwed'[s][r] = 0 /\ leavesOwed'[s][r] = 0 /\ playerRx'[s] = <<>>
      /\ handler'[s].at # "send"
  BY <1>1 DEF AnswerInv, NothingBeforeLogin, SignedInv, ChannelsListen, HandlersSign, LoggedIn,
     roomVars, playerVars
<1>3. ASSUME NEW j \in RoomTask
      PROVE  /\ \A k : ~QueuedJoin(s, j, k)'
             /\ ~Member(s, j)'
  <2>1. ASSUME NEW k, QueuedJoin(s, j, k)
        PROVE  FALSE
    BY <1>1, <2>1 DEF QueuedJoin, IsJoinOf, SignedInv, JoinsAreSigned, SignedBy, Admitted
  <2>2. \A k : QueuedJoin(s, j, k)' <=> QueuedJoin(s, j, k)
    BY <1>1 DEF QueuedJoin, roomVars
  <2>3. ASSUME Member(s, j)'
        PROVE  FALSE
    BY <1>1, <2>3 DEF Member, IsJoined, SignedInv, PlayersAreSigned, SignedBy, Admitted, roomVars
  <2> QED
    BY <2>1, <2>2, <2>3
<1>4. JoinsInRoom(s, r)' = {} /\ LeavesInRoom(s, r)' = {}
  <2>1. ASSUME NEW j \in RoomTask, NEW k \in Nat
        PROVE  <<j, k>> \notin JoinsInRoom(s, r)' /\ <<j, k>> \notin LeavesInRoom(s, r)'
    <3>1. ~QueuedLeave(s, j, k)'
      BY <1>3 DEF QueuedLeave
    <3> QED
      BY <1>3, <3>1, InRoomIsPairs
  <2>2. /\ JoinsInRoom(s, r)' \in SUBSET (RoomTask \X Nat)
        /\ LeavesInRoom(s, r)' \in SUBSET (RoomTask \X Nat)
    BY DEF JoinsInRoom, LeavesInRoom
  <2> QED
    BY <2>1, <2>2
<1>5. ASSUME NEW types
      PROVE  Heard(s, r, types)' = {}
  <2>1. DOMAIN playerRx'[s] = {}
    BY <1>2
  <2> QED
    BY <2>1 DEF Heard
<1>6. ASSUME NEW type
      PROVE  Cardinality(SendingOf(s, r, type))' = 0
  BY <1>2, SendingCount DEF Sends
<1>7. Cardinality({}) = 0 /\ IsFiniteSet({})
  BY FS_EmptySet
<1>8. JoinCount(s, r)' = 0
  BY <1>4, <1>5, <1>6, <1>7 DEF JoinCount
<1>9. LeaveCount(s, r)' = 0
  BY <1>4, <1>5, <1>6, <1>7 DEF LeaveCount
<1>10. JoinBalance(s, r)'
  BY <1>2, <1>4, <1>7, <1>8 DEF JoinBalance
<1>11. LeaveBalance(s, r)'
  BY <1>2, <1>4, <1>7, <1>9 DEF LeaveBalance
<1> QED
  BY <1>10, <1>11

-----------------------------------------------------------------------------
(* The other parts of the invariant.                                       *)

LEMMA NothingBeforeLoginStays ==
    ASSUME AnswerInv, [Next]_vars
    PROVE  NothingBeforeLogin'
<1> SUFFICES ASSUME NEW s \in Session, pc'[s] = "wait_login"
             PROVE  /\ refusal'[s] = None
                    /\ joinsOwed'[s] = joinsOwed[s] /\ leavesOwed'[s] = leavesOwed[s]
                    /\ pc[s] = "wait_login"
  BY DEF AnswerInv, NothingBeforeLogin
<1>1. [LoginNext]_loginVars /\ LoginTypeOK
  BY StepOfLogins DEF AnswerInv, SignedInv, PlayerInv, LoginInv
<1>2. pc[s] = "wait_login" /\ refusal'[s] = refusal[s]
  <2>1. CASE UNCHANGED loginVars
    BY <2>1 DEF loginVars
  <2>2. ASSUME NEW u \in Session, LoginRequest(u)
        PROVE  pc[s] = "wait_login" /\ refusal'[s] = refusal[s]
    BY <1>1, <2>2 DEF LoginRequest, Admit, RefuseAlreadyLoggedIn, RefuseUnauthorized, RefuseLogin,
       LoginTypeOK
  <2>3. ASSUME NEW u \in Session,
               \/ Disconnect(u) \/ UnregisterRefused(u) \/ GiveUpLogin(u)
               \/ UnregisterPlayer(u) \/ Panic(u)
        PROVE  pc[s] = "wait_login" /\ refusal'[s] = refusal[s]
    BY <1>1, <2>3 DEF Disconnect, UnregisterRefused, GiveUpLogin, UnregisterPlayer, Panic,
       LoginTypeOK
  <2> QED
    BY <1>1, <2>1, <2>2, <2>3 DEF LoginNext
<1>3. joinsOwed'[s] = joinsOwed[s] /\ leavesOwed'[s] = leavesOwed[s]
  <2>1. /\ joinsOwed \in [Session -> [RoomId -> Int]] /\ leavesOwed \in [Session -> [RoomId -> Int]]
        /\ ~LoggedIn(s)
    BY <1>2 DEF AnswerInv, SignedInv, PlayerInv, PlayerTypeOK, LoggedIn
  <2>2. CASE UNCHANGED <<joinsOwed, leavesOwed>>
    BY <2>2
  <2>3. ASSUME NEW u \in Session, ClientMessage(u)
        PROVE  joinsOwed'[s] = joinsOwed[s] /\ leavesOwed'[s] = leavesOwed[s]
    <3>1. LoggedIn(u)
      BY <2>3 DEF ClientMessage, OnJoinRequest, OnLeaveRequest, OnSendMessage,
         OnLeaveRequestWithoutRoom, ReceivesRequest, AtSelect
    <3> QED
      BY <2>1, <2>3, <3>1, OtherActorFollows DEF Passive
  <2>4. ASSUME NEW u \in Session, OnOutputEvent(u)
        PROVE  joinsOwed'[s] = joinsOwed[s] /\ leavesOwed'[s] = leavesOwed[s]
    <3>1. LoggedIn(u)
      BY <2>4 DEF OnOutputEvent, AtSelect
    <3> QED
      BY <2>1, <2>4, <3>1, OtherActorFollows DEF Passive
  <2>5. ASSUME NEW u \in Session, SendEvent(u)
        PROVE  joinsOwed'[s] = joinsOwed[s] /\ leavesOwed'[s] = leavesOwed[s]
    BY <2>1, <2>5 DEF SendEvent, Answers
  <2> QED
    BY <2>2, <2>3, <2>4, <2>5
    DEF Next, RoomTaskStep, ClientStep, PlayerTaskStep, LogIn, Drop, EndWithoutLogin, OnRoomIsFull,
        OnClosed, LeaveOnDisconnect, FinishSession, playerVars, vars
<1> QED
  BY <1>2, <1>3 DEF AnswerInv, NothingBeforeLogin

LEMMA LeaversStayLoggedIn ==
    ASSUME AnswerInv, [Next]_vars
    PROVE  LeaversAreLoggedIn'
<1>1. /\ handler \in [Session -> Handler] /\ LeaversAreLoggedIn
      /\ joinedRooms \in [Session -> [RoomId -> RoomTask \cup {None}]]
      /\ pc \in [Session -> {"wait_login", "login_error", "logged_in", "finished", "panicked"}]
  BY DEF AnswerInv, SignedInv, PlayerInv, PlayerTypeOK, LoginInv, LoginTypeOK
<1>2. CASE UNCHANGED <<handler, joinedRooms, pc>>
  BY <1>1, <1>2 DEF LeaversAreLoggedIn, LoggedIn
<1>3. ASSUME NEW u \in Session, LogIn(u) \/ EndWithoutLogin(u) \/ OnRoomIsFull(u) \/ FinishSession(u)
      PROVE  LeaversAreLoggedIn'
  <2>1. /\ UNCHANGED <<handler, joinedRooms>>
        /\ \A s \in Session : s # u => pc'[s] = pc[s]
        /\ \/ pc[u] # "logged_in"
           \/ handler[u].at # "disconnect"
           \/ \A r \in RoomId : joinedRooms[u][r] = None
    BY <1>1, <1>3
    DEF LogIn, LoginRequest, Admit, RefuseAlreadyLoggedIn, RefuseUnauthorized, RefuseLogin,
        EndWithoutLogin, UnregisterRefused, GiveUpLogin, OnRoomIsFull, AtSelect, Panic,
        FinishSession, UnregisterPlayer, playerVars
  <2> QED
    BY <1>1, <2>1 DEF LeaversAreLoggedIn, LoggedIn
<1>4. ASSUME NEW u \in Session, LoggedIn(u), pc' = pc,
             \A s \in Session : s # u => handler'[s] = handler[s] /\ joinedRooms'[s] = joinedRooms[s]
      PROVE  LeaversAreLoggedIn'
  BY <1>1, <1>4 DEF LeaversAreLoggedIn, LoggedIn
<1>5. ASSUME NEW u \in Session, SendEvent(u) \/ OnOutputEvent(u) \/ OnClosed(u)
      PROVE  LeaversAreLoggedIn'
  BY <1>1, <1>4, <1>5 DEF SendEvent, OnOutputEvent, OnClosed, AtSelect, OnOwnJoin, OnJoinError,
     OnOwnLeave, Notify, loginVars
<1>6. ASSUME NEW u \in Session, ClientMessage(u)
      PROVE  LeaversAreLoggedIn'
  <2>1. LoggedIn(u) /\ pc' = pc /\ joinedRooms' = joinedRooms
    BY <1>6 DEF ClientMessage, OnJoinRequest, OnLeaveRequest, OnSendMessage,
       OnLeaveRequestWithoutRoom, ReceivesRequest, AtSelect, loginVars
  <2> QED
    BY <1>4, <1>6, <2>1, OtherActorFollows DEF Passive
<1>7. ASSUME NEW u \in Session, NEW r \in RoomId, LeaveOnDisconnect(u, r)
      PROVE  LeaversAreLoggedIn'
  BY <1>1, <1>7 DEF LeaveOnDisconnect, LeaversAreLoggedIn, LoggedIn, loginVars
<1>8. ASSUME \/ \E i \in RoomTask : RoomTaskStep(i)
             \/ \E u \in Session : Drop(u)
             \/ UNCHANGED vars
      PROVE  UNCHANGED <<handler, joinedRooms, pc>>
  BY <1>8 DEF RoomTaskStep, Drop, Disconnect, vars, loginVars, playerVars
<1> QED
  BY <1>2, <1>3, <1>5, <1>6, <1>7, <1>8 DEF Next, ClientStep, PlayerTaskStep

\* A task is born once and keeps its room id.
LEMMA ServesLasts ==
    ASSUME SignedInv, [Next]_vars, NEW i \in RoomTask, NEW r, Serves(i, r)
    PROVE  Serves(i, r)'
<1>1. /\ [RoomNext]_roomVars
      /\ status \in [RoomTask -> Status] /\ room \in [RoomTask -> Room \cup {None}]
      /\ roomRx \in [RoomTask -> Seq(InputEvent)]
  BY StepOfRooms DEF SignedInv, PlayerInv, RoomInv, RoomTypeOK
<1>2. ASSUME NEW q, NEW config, NEW j \in RoomTask, SpawnRoom(q, config, j)
      PROVE  Serves(i, r)'
  BY <1>1, <1>2 DEF SpawnRoom, Serves
<1>3. ASSUME NEW j \in RoomTask,
             HandleJoinEvent(j) \/ HandleLeaveEvent(j) \/ HandleMessageEvent(j)
      PROVE  Serves(i, r)'
  <2>1. HandlesOne(j)
    BY <1>3, HandleJoinEventHandles, HandleLeaveEventHandles, HandleMessageEventHandles
  <2> QED
    BY <2>1 DEF HandlesOne, Serves
<1>4. CASE room' = room /\ status' = status
  BY <1>4 DEF Serves
<1>5. ASSUME NEW j \in RoomTask, RemoveRoomFromChannels(j) \/ DropRoom(j)
      PROVE  Serves(i, r)'
  BY <1>1, <1>5 DEF RemoveRoomFromChannels, DropRoom, Serves
<1>6. \/ room' = room /\ status' = status
      \/ \E q \in RoomId, config \in RoomConfig, j \in RoomTask : SpawnRoom(q, config, j)
      \/ \E j \in RoomTask : RoomStep(j)
  BY <1>1 DEF RoomNext, GetOrCreateRoomChannel, SendToRoom, PlayerReceives, PlayerStops, roomVars
<1> QED
  BY <1>2, <1>3, <1>4, <1>5, <1>6 DEF RoomStep

LEMMA UnbornStaySilent ==
    ASSUME AnswerInv, [Next]_vars
    PROVE  UnbornAreSilent'
<1>1. /\ [RoomNext]_roomVars /\ SignedInv
      /\ status \in [RoomTask -> Status] /\ roomRx \in [RoomTask -> Seq(InputEvent)]
  BY StepOfRooms DEF AnswerInv, SignedInv, PlayerInv, RoomInv, RoomTypeOK
<1> SUFFICES ASSUME NEW i \in RoomTask, status'[i] = "unborn"
             PROVE  status[i] = "unborn" /\ roomRx'[i] = roomRx[i]
  BY DEF AnswerInv, UnbornAreSilent
<1>2. ASSUME NEW q, NEW config, NEW j \in RoomTask, SpawnRoom(q, config, j)
      PROVE  status[i] = "unborn" /\ roomRx'[i] = roomRx[i]
  BY <1>1, <1>2 DEF SpawnRoom
<1>3. ASSUME NEW j \in RoomTask,
             HandleJoinEvent(j) \/ HandleLeaveEvent(j) \/ HandleMessageEvent(j)
      PROVE  status[i] = "unborn" /\ roomRx'[i] = roomRx[i]
  <2>1. HandlesOne(j)
    BY <1>1, <1>3, HandleJoinEventHandles, HandleLeaveEventHandles, HandleMessageEventHandles
  <2> QED
    BY <1>1, <2>1 DEF HandlesOne
<1>4. ASSUME NEW j \in RoomTask, RemoveRoomFromChannels(j) \/ DropRoom(j)
      PROVE  status[i] = "unborn" /\ roomRx'[i] = roomRx[i]
  BY <1>1, <1>4 DEF RemoveRoomFromChannels, DropRoom
<1>5. ASSUME NEW j \in RoomTask, NEW event, SendToRoom(j, event)
      PROVE  status[i] = "unborn" /\ roomRx'[i] = roomRx[i]
  BY <1>1, <1>5 DEF SendToRoom, CanSend
<1>6. CASE status' = status /\ roomRx' = roomRx
  BY <1>6
<1>7. \/ status' = status /\ roomRx' = roomRx
      \/ \E q \in RoomId, config \in RoomConfig, j \in RoomTask : SpawnRoom(q, config, j)
      \/ \E j \in RoomTask, event \in InputEvent : SendToRoom(j, event)
      \/ \E j \in RoomTask : RoomStep(j)
  BY <1>1 DEF RoomNext, GetOrCreateRoomChannel, PlayerReceives, PlayerStops, roomVars
<1> QED
  BY <1>2, <1>3, <1>4, <1>5, <1>6, <1>7 DEF RoomStep

\* The handle an actor is about to use leads to a task of the room it has looked up, and
\* what it is about to send bears its id.
LEMMA HandlersKeepLeading ==
    ASSUME AnswerInv, [Next]_vars
    PROVE  HandlesLead' /\ LeavesAreSigned'
<1>1. /\ SignedInv /\ LoginInv /\ [LoginNext]_loginVars
      /\ handler \in [Session -> Handler]
      /\ room \in [RoomTask -> Room \cup {None}] /\ status \in [RoomTask -> Status]
  BY StepOfLogins
  DEF AnswerInv, SignedInv, PlayerInv, PlayerTypeOK, RoomInv, RoomTypeOK
<1> SUFFICES ASSUME NEW s \in Session, handler'[s].at = "send"
             PROVE  /\ Serves(handler[s].roomTx, handler[s].roomId)'
                    /\ handler'[s].event.type = "Leave" =>
                           handler'[s].event.playerId = playerId'[s]
  BY DEF HandlesLead, LeavesAreSigned
<1>2. CASE handler'[s] = handler[s]
  <2>1. /\ Serves(handler[s].roomTx, handler[s].roomId)
        /\ handler[s].event.type = "Leave" => handler[s].event.playerId = playerId[s]
        /\ LoggedIn(s) /\ handler[s].roomTx \in RoomTask
    BY <1>1, <1>2, HandlerFields DEF AnswerInv, HandlesLead, LeavesAreSigned, SignedInv, HandlersSign
  <2>2. playerId'[s] = playerId[s]
    BY <1>1, <2>1, SignaturesLast DEF Admitted, LoggedIn
  <2>3. PICK i \in RoomTask, r \in RoomId : i = handler[s].roomTx /\ r = handler[s].roomId
    BY <1>1, <1>2, <2>1, HandlerFields
  <2>4. Serves(i, r)'
    BY <1>1, <2>1, <2>3, ServesLasts
  <2>5. Serves(handler[s].roomTx, handler[s].roomId)'
    BY <1>2, <2>3, <2>4 DEF Serves
  <2> QED
    BY <1>2, <2>1, <2>2, <2>5
<1>3. ASSUME NEW r \in RoomId, NEW i \in RoomTask, NEW event,
             GoesToSend(s, r, i, event), Serves(i, r)', playerId' = playerId,
             event.type = "Leave" => event.playerId = playerId[s]
      PROVE  /\ Serves(handler[s].roomTx, handler[s].roomId)'
             /\ handler'[s].event.type = "Leave" => handler'[s].event.playerId = playerId'[s]
  <2>1. handler'[s] = [at |-> "send", roomId |-> r, roomTx |-> i, event |-> event]
    BY <1>1, <1>3 DEF GoesToSend
  <2>2. handler'[s].roomTx = i /\ handler'[s].roomId = r /\ handler'[s].event = event
    BY <2>1
  <2> QED
    BY <1>3, <2>2 DEF Serves
<1>4. ASSUME NEW r \in RoomId, NEW i \in RoomTask, GetRoomChannel(r, i), UNCHANGED roomVars
      PROVE  Serves(i, r)'
  <2>1. Live(i) /\ room[i].id = r
    BY <1>1, <1>4 DEF SignedInv, PlayerInv, RoomInv, DirectoryMatchesTasks, GetRoomChannel
  <2> QED
    BY <1>4, <2>1 DEF Live, Serves, roomVars
<1>5. ASSUME NEW r \in RoomId, NEW config \in RoomConfig, NEW i \in RoomTask,
             OnJoinRequest(s, r, config, i)
      PROVE  /\ Serves(handler[s].roomTx, handler[s].roomId)'
             /\ handler'[s].event.type = "Leave" => handler'[s].event.playerId = playerId'[s]
  <2>1. Serves(i, r)'
    <3>1. CASE SpawnRoom(r, config, i)
      BY <1>1, <3>1 DEF SpawnRoom, NewRoom, Serves
    <3> QED
      BY <1>4, <1>5, <3>1 DEF OnJoinRequest, GetOrCreateRoomChannel
  <2> QED
    BY <1>3, <1>5, <2>1 DEF OnJoinRequest, loginVars
<1>6. ASSUME NEW r \in RoomId, NEW i \in RoomTask, OnLeaveRequest(s, r, i)
      PROVE  /\ Serves(handler[s].roomTx, handler[s].roomId)'
             /\ handler'[s].event.type = "Leave" => handler'[s].event.playerId = playerId'[s]
  BY <1>3, <1>4, <1>6 DEF OnLeaveRequest, loginVars
<1>7. ASSUME NEW r \in RoomId, NEW i \in RoomTask, NEW targets, NEW body,
             OnSendMessage(s, r, i, targets, body)
      PROVE  /\ Serves(handler[s].roomTx, handler[s].roomId)'
             /\ handler'[s].event.type = "Leave" => handler'[s].event.playerId = playerId'[s]
  BY <1>3, <1>4, <1>7 DEF OnSendMessage, loginVars
<1>8. ASSUME NEW r \in RoomId, OnLeaveRequestWithoutRoom(s, r)
      PROVE  handler'[s] = handler[s]
  BY <1>8 DEF OnLeaveRequestWithoutRoom
<1>9. ClientMessage(s) \/ handler'[s] = handler[s]
  <2>1. ASSUME NEW u \in Session, ClientMessage(u), u # s
        PROVE  handler'[s] = handler[s]
    BY <2>1, OtherActorFollows DEF Passive
  <2>2. ASSUME NEW u \in Session, SendEvent(u) \/ OnClosed(u)
        PROVE  handler'[s] = handler[s]
    BY <1>1, <2>2 DEF SendEvent, OnClosed
  <2> QED
    BY <2>1, <2>2
    DEF Next, RoomTaskStep, ClientStep, PlayerTaskStep, LogIn, Drop, EndWithoutLogin, OnRoomIsFull,
        OnOutputEvent, LeaveOnDisconnect, FinishSession, playerVars, vars
<1> QED
  BY <1>2, <1>5, <1>6, <1>7, <1>8, <1>9 DEF ClientMessage

\* A session hears only of its own refused Joins.
LEMMA ErrorsStayOwn ==
    ASSUME AnswerInv, [Next]_vars
    PROVE  ErrorsAreOwn'
<1>1. /\ SignedInv /\ LoginInv /\ [LoginNext]_loginVars /\ SignedInv'
      /\ playerRx \in [Session -> Seq(OutputEvent)] /\ playerRx' \in [Session -> Seq(OutputEvent)]
      /\ status \in [RoomTask -> Status]
  BY StepOfLogins, NextPreservesSignedInv
  DEF AnswerInv, SignedInv, PlayerInv, RoomInv, RoomTypeOK
<1> SUFFICES ASSUME NEW s \in Session, LoggedIn(s)', NEW k \in DOMAIN playerRx'[s],
                    playerRx'[s][k].type = "JoinError"
             PROVE  playerRx'[s][k].playerId = playerId'[s]
  <2>1. ASSUME NEW s \in Session, ~LoggedIn(s)'
        PROVE  DOMAIN playerRx'[s] = {}
    <3>1. playerRx'[s] = <<>>
      BY <1>1, <2>1 DEF SignedInv, ChannelsListen
    <3> QED
      BY <3>1
  <2> QED
    BY <2>1 DEF ErrorsAreOwn
<1>2. ASSUME LoggedIn(s)
      PROVE  /\ playerId'[s] = playerId[s]
             /\ \A l \in DOMAIN playerRx[s] :
                    playerRx[s][l].type = "JoinError" => playerRx[s][l].playerId = playerId[s]
  BY <1>1, <1>2, SignaturesLast DEF Admitted, LoggedIn, AnswerInv, ErrorsAreOwn
<1>3. CASE playerRx'[s] = playerRx[s]
  <2>1. CASE LoggedIn(s)
    BY <1>2, <1>3, <2>1
  <2>2. CASE ~LoggedIn(s)
    <3>1. playerRx'[s] = <<>>
      BY <1>1, <1>3, <2>2 DEF SignedInv, ChannelsListen
    <3> QED
      BY <3>1
  <2> QED
    BY <2>1, <2>2
<1>4. CASE playerRx'[s] = <<>>
  BY <1>4
<1>5. CASE OnOutputEvent(s)
  <2>1. LoggedIn(s) /\ playerRx[s] # <<>> /\ playerRx'[s] = Tail(playerRx[s])
    BY <1>1, <1>5 DEF OnOutputEvent, AtSelect, PlayerReceives
  <2>2. /\ Len(playerRx[s]) \in Nat /\ DOMAIN playerRx[s] = 1..Len(playerRx[s])
        /\ DOMAIN playerRx'[s] = 1..Len(playerRx[s]) - 1
        /\ \A l \in 1..Len(playerRx[s]) - 1 : playerRx'[s][l] = playerRx[s][l + 1]
    BY <1>1, <2>1, TailShifts
  <2>3. k + 1 \in DOMAIN playerRx[s] /\ playerRx'[s][k] = playerRx[s][k + 1]
    BY <2>2
  <2> QED
    BY <1>2, <2>1, <2>3
<1>6. ASSUME LoggedIn(s), NEW event, NEW n \in Nat, Extended(playerRx[s], playerRx'[s], n, event),
             n = 0 \/ event.type # "JoinError" \/ event.playerId = playerId[s]
      PROVE  playerRx'[s][k].playerId = playerId'[s]
  <2>1. /\ Len(playerRx[s]) \in Nat /\ DOMAIN playerRx[s] = 1..Len(playerRx[s])
        /\ DOMAIN playerRx'[s] = 1..Len(playerRx'[s]) /\ Len(playerRx'[s]) \in Nat
    BY <1>1, LenProperties
  <2>2. CASE k \in 1..Len(playerRx[s])
    BY <1>2, <1>6, <2>1, <2>2 DEF Extended
  <2>3. CASE k \notin 1..Len(playerRx[s])
    <3>1. k \in Len(playerRx[s]) + 1..Len(playerRx[s]) + n /\ n # 0
      BY <1>6, <2>1, <2>3 DEF Extended
    <3>2. playerRx'[s][k] = event
      BY <1>6, <3>1 DEF Extended
    <3> QED
      BY <1>2, <1>6, <3>1, <3>2
  <2> QED
    BY <2>2, <2>3
<1>7. ASSUME NEW i \in RoomTask, RoomTaskStep(i)
      PROVE  playerRx'[s][k].playerId = playerId'[s]
  <2>1. LoggedIn(s) /\ UNCHANGED loginVars
    BY <1>7 DEF RoomTaskStep, loginVars, LoggedIn
  <2>2. CASE RemoveRoomFromChannels(i) \/ DropRoom(i)
    BY <1>3, <2>2 DEF RemoveRoomFromChannels, DropRoom
  <2>3. CASE HandleJoinEvent(i) \/ HandleLeaveEvent(i) \/ HandleMessageEvent(i)
    <3>1. Enters(s, i) \/ Leaves(s, i) \/ Stays(s, i)
      BY <1>1, <2>1, <2>3, HandleJoinEventHeard, HandleLeaveEventHeard, HandleMessageEventHeard
    <3>2. \E event, n : /\ n \in Nat /\ Extended(playerRx[s], playerRx'[s], n, event)
                        /\ n = 0 \/ event.type # "JoinError" \/ event.playerId = playerId[s]
      <4>1. CASE Enters(s, i)
        BY <4>1 DEF Enters, HearsOwn
      <4>2. CASE Leaves(s, i)
        BY <4>2 DEF Leaves, HearsOwn
      <4>3. CASE Stays(s, i)
        BY <4>3 DEF Stays
      <4> QED
        BY <3>1, <4>1, <4>2, <4>3
    <3> QED
      BY <1>6, <2>1, <3>2
  <2> QED
    BY <1>7, <2>2, <2>3 DEF RoomTaskStep, RoomStep
<1>8. \/ playerRx'[s] = playerRx[s]
      \/ playerRx'[s] = <<>>
      \/ OnOutputEvent(s)
      \/ \E i \in RoomTask : RoomTaskStep(i)
  <2>1. ASSUME NEW u \in Session, (PlayerReceives(u) /\ u # s) \/ PlayerStops(u)
        PROVE  playerRx'[s] = playerRx[s] \/ playerRx'[s] = <<>>
    BY <1>1, <2>1 DEF PlayerReceives, PlayerStops
  <2>2. ASSUME NEW u \in Session, ClientMessage(u)
        PROVE  playerRx' = playerRx
    <3>1. UNCHANGED roomVars \/ \E r \in RoomId, config \in RoomConfig, i \in RoomTask :
                                    GetOrCreateRoomChannel(r, config, i)
      BY <2>2, Zenon DEF ClientMessage, OnJoinRequest, OnLeaveRequest, OnLeaveRequestWithoutRoom,
         OnSendMessage
    <3> QED
      BY <3>1 DEF GetOrCreateRoomChannel, SpawnRoom, roomVars
  <2>3. ASSUME NEW u \in Session, SendEvent(u)
        PROVE  playerRx' = playerRx
    BY <2>3 DEF SendEvent, SendToRoom, roomVars
  <2>4. ASSUME NEW u \in Session, NEW r \in RoomId, LeaveOnDisconnect(u, r)
        PROVE  playerRx' = playerRx
    BY <2>4 DEF LeaveOnDisconnect, SendToRoom, roomVars
  <2>5. ASSUME \/ \E u \in Session : LogIn(u) \/ Drop(u) \/ OnClosed(u)
               \/ UNCHANGED vars
        PROVE  playerRx' = playerRx
    BY <2>5 DEF LogIn, Drop, OnClosed, vars, roomVars
  <2> QED
    BY <2>1, <2>2, <2>3, <2>4, <2>5
    DEF Next, ClientStep, PlayerTaskStep, EndWithoutLogin, OnRoomIsFull, OnOutputEvent, FinishSession
<1> QED
  BY <1>3, <1>4, <1>5, <1>7, <1>8

-----------------------------------------------------------------------------
(* The inductive invariant, and what follows from it.                      *)

LEMMA InitImpliesAnswerInv == Init => AnswerInv
<1> SUFFICES ASSUME Init PROVE AnswerInv
  OBVIOUS
<1>1. SignedInv
  BY InitImpliesSignedInv
<1>2. /\ \A s \in Session : ~LoggedIn(s) /\ handler[s].at = "select"
      /\ \A s \in Session : DOMAIN playerRx[s] = {} /\ refusal[s] = None
      /\ \A s \in Session : \A r \in RoomId : joinsOwed[s][r] = 0 /\ leavesOwed[s][r] = 0
      /\ \A i \in RoomTask : roomRx[i] = <<>>
  BY DEF Init, RoomInit, LoginInit, PlayerInit, LoggedIn
<1> QED
  BY <1>1, <1>2 DEF AnswerInv, NothingBeforeLogin, LeaversAreLoggedIn, HandlesLead,
     LeavesAreSigned, UnbornAreSilent, ErrorsAreOwn

LEMMA NextPreservesAnswerInv == AnswerInv /\ [Next]_vars => AnswerInv'
<1> SUFFICES ASSUME AnswerInv, [Next]_vars PROVE AnswerInv'
  OBVIOUS
<1>1. /\ LoginInv /\ LoginTypeOK /\ SignedInv'
  BY NextPreservesSignedInv DEF AnswerInv, SignedInv, PlayerInv, LoginInv
<1>2. ASSUME NEW s \in Session, LoggedIn(s)', NEW r \in RoomId
      PROVE  JoinBalance(s, r)' /\ LeaveBalance(s, r)'
  <2>1. CASE LogIn(s)
    BY <1>2, <2>1, LogInBalances
  <2>2. ASSUME Follows(s, r), LoggedIn(s)
        PROVE  JoinBalance(s, r)' /\ LeaveBalance(s, r)'
    BY <2>2, BalancesFollow
  <2>3. ASSUME NEW i \in RoomTask, RoomTaskStep(i)
        PROVE  Follows(s, r) /\ LoggedIn(s)
    <3>1. LoggedIn(s)
      BY <1>2, <2>3 DEF RoomTaskStep, loginVars, LoggedIn
    <3> QED
      BY <2>3, <3>1, RoomTaskStepFollows
  <2>4. CASE (\E u \in Session : Drop(u)) \/ UNCHANGED vars
    <3>1. /\ LoggedIn(s) /\ playerId' = playerId
          /\ UNCHANGED <<roomVars, playerVars>>
      BY <1>2, <2>4 DEF Drop, Disconnect, LoggedIn, vars, loginVars
    <3>2. Passive(s)
      BY <3>1 DEF Passive, roomVars, playerVars
    <3> QED
      BY <2>2, <3>1, <3>2, PassiveKeeps
  <2>5. ASSUME NEW u \in Session, u # s, LogIn(u)
        PROVE  Follows(s, r) /\ LoggedIn(s)
    <3>1. LoggedIn(s)
      BY <1>1, <1>2, <2>5 DEF LogIn, LoginRequest, Admit, RefuseAlreadyLoggedIn,
         RefuseUnauthorized, RefuseLogin, LoggedIn, LoginTypeOK
    <3> QED
      BY <2>5, <3>1, OtherActorFollows, PassiveKeeps
  <2>6. ASSUME NEW u \in Session, EndWithoutLogin(u) \/ OnRoomIsFull(u) \/ FinishSession(u)
        PROVE  Follows(s, r) /\ LoggedIn(s)
    <3>1. u # s /\ LoggedIn(s)
      BY <1>1, <1>2, <2>6 DEF EndWithoutLogin, OnRoomIsFull, FinishSession, UnregisterRefused,
         GiveUpLogin, Panic, UnregisterPlayer, LoggedIn, LoginTypeOK
    <3> QED
      BY <2>6, <3>1, OtherActorFollows, PassiveKeeps
  <2>7. ASSUME NEW u \in Session, ClientMessage(u)
        PROVE  Follows(s, r) /\ LoggedIn(s)
    <3>1. LoggedIn(s)
      BY <1>2, <2>7 DEF ClientMessage, OnJoinRequest, OnLeaveRequest, OnLeaveRequestWithoutRoom,
         OnSendMessage, loginVars, LoggedIn
    <3> QED
      BY <2>7, <3>1, ClientMessageFollows, OtherActorFollows, PassiveKeeps
  <2>8. ASSUME NEW u \in Session,
               \/ SendEvent(u) \/ OnOutputEvent(u) \/ OnClosed(u)
               \/ \E q \in RoomId : LeaveOnDisconnect(u, q)
        PROVE  Follows(s, r) /\ LoggedIn(s)
    <3>1. LoggedIn(s)
      BY <1>2, <2>8 DEF SendEvent, OnOutputEvent, OnClosed, LeaveOnDisconnect, loginVars, LoggedIn
    <3>2. CASE SendEvent(u)
      BY <3>1, <3>2, OwnSendFollows, OtherSendFollows
    <3>3. CASE OnOutputEvent(u) \/ OnClosed(u)
      BY <3>1, <3>3, OnOutputEventFollows, OnClosedFollows, OtherActorFollows, PassiveKeeps
    <3>4. CASE \E q \in RoomId : LeaveOnDisconnect(u, q)
      BY <3>1, <3>4, LeaveOnDisconnectFollows
    <3> QED
      BY <2>8, <3>1, <3>2, <3>3, <3>4
  <2> QED
    BY <2>1, <2>2, <2>3, <2>4, <2>5, <2>6, <2>7, <2>8 DEF Next, ClientStep, PlayerTaskStep
<1>3. /\ NothingBeforeLogin' /\ LeaversAreLoggedIn' /\ HandlesLead' /\ LeavesAreSigned'
      /\ UnbornAreSilent' /\ ErrorsAreOwn'
  BY NothingBeforeLoginStays, LeaversStayLoggedIn, HandlersKeepLeading, UnbornStaySilent,
     ErrorsStayOwn
<1> QED
  BY <1>1, <1>2, <1>3 DEF AnswerInv

\* The Joins in flight are those counted by place.
LEMMA FlightIsCounted ==
    ASSUME AnswerInv, NEW s \in Session, NEW r \in RoomId
    PROVE  JoinsInFlight(s, r) = JoinCount(s, r)
<1> DEFINE sending == {k \in {1} : /\ handler[s].at = "send" /\ handler[s].roomId = r
                                   /\ handler[s].event.type = "Join"}
           serving == {i \in RoomTask : status[i] # "unborn" /\ room[i].id = r}
           queued(i) == {k \in DOMAIN roomRx[i] : /\ roomRx[i][k].type = "Join"
                                                  /\ roomRx[i][k].player.sender = s}
           inRoom == UNION {{i} \X queued(i) : i \in serving}
           answered == {k \in DOMAIN playerRx[s] :
                           LET event == playerRx[s][k]
                           IN  /\ event.type \in {"Join", "JoinError"}
                               /\ event.playerId = playerId[s] /\ event.roomId = r}
<1>1. sending = SendingOf(s, r, "Join")
  BY DEF SendingOf, Sends
<1>2. answered = Heard(s, r, {"Join", "JoinError"})
  BY DEF Heard, News
<1>3. inRoom = JoinsInRoom(s, r)
  <2>1. ASSUME NEW i \in RoomTask
        PROVE  queued(i) \in SUBSET Nat /\ \A k : k \in queued(i) <=> QueuedJoin(s, i, k)
    <3>1. DOMAIN roomRx[i] = 1..Len(roomRx[i]) /\ Len(roomRx[i]) \in Nat
      BY LenProperties DEF AnswerInv, SignedInv, PlayerInv, RoomInv, RoomTypeOK
    <3> QED
      BY <3>1 DEF QueuedJoin, IsJoinOf
  <2>2. \A i : i \in serving <=> i \in RoomTask /\ Serves(i, r)
    BY DEF Serves
  <2> HIDE DEF queued, serving
  <2>3. ASSUME NEW p \in inRoom
        PROVE  p \in JoinsInRoom(s, r)
    <3>1. PICK i \in serving : p \in {i} \X queued(i)
      OBVIOUS
    <3>2. PICK k \in queued(i) : p = <<i, k>>
      BY <3>1
    <3> QED
      BY <2>1, <2>2, <3>1, <3>2, InRoomIsPairs
  <2>4. ASSUME NEW p \in JoinsInRoom(s, r)
        PROVE  p \in inRoom
    <3>1. PICK i \in RoomTask, k \in Nat : p = <<i, k>>
      BY DEF JoinsInRoom
    <3>2. Serves(i, r) /\ QueuedJoin(s, i, k)
      BY <3>1, InRoomIsPairs
    <3>3. i \in serving /\ p \in {i} \X queued(i)
      BY <2>1, <2>2, <3>1, <3>2
    <3> QED
      BY <3>3
  <2> QED
    BY <2>3, <2>4
<1>4. JoinsInFlight(s, r) = Cardinality(sending) + Cardinality(inRoom) + Cardinality(answered)
  BY DEF JoinsInFlight
<1> QED
  BY <1>1, <1>2, <1>3, <1>4 DEF JoinCount

\* What every session is owed and the events that account for it stay together in every
\* reachable state.
THEOREM AnswerInvInvariant == Spec => []AnswerInv
<1> QED
  BY InitImpliesAnswerInv, NextPreservesAnswerInv, PTL DEF Spec

\* No JoinRequest is ever answered twice or without being asked, and none is lost as long
\* as no task of its room has been dropped: whatever becomes of the room between the
\* lookup and the send, and of the Join between its room and its session.
THEOREM JoinsAlwaysAnsweredOnce == Spec => []JoinsAnsweredOnce
<1>1. AnswerInv => JoinsAnsweredOnce
  BY FlightIsCounted DEF AnswerInv, JoinsAnsweredOnce, JoinBalance, NoneDropped
<1> QED
  BY <1>1, AnswerInvInvariant, PTL

\* As long as no id is taken from its session, a session is told that it has left a room
\* only if it has asked to: no Leave that an earlier session with its id left behind finds
\* it there.
THEOREM LeavesAlwaysAsked == Spec => []NoUnaskedLeave
<1>1. AnswerInv => NoUnaskedLeave
  BY DEF AnswerInv, NoUnaskedLeave, LeaveBalance
<1> QED
  BY <1>1, AnswerInvInvariant, PTL

=============================================================================
