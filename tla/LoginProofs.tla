----------------------------- MODULE LoginProofs -----------------------------
(***************************************************************************)
(* Safety of the logins, for any number of ids and sessions.               *)
(*                                                                         *)
(* LoginInv is the inductive invariant.  That ids are not shared is not    *)
(* inductive by itself: it has to say who will remove an id (its holders,  *)
(* a session refused as Unauthorized included) and that, until a session   *)
(* refused as AlreadyLoggedIn has removed it, the holder of an id is alone *)
(* and the id is registered.                                               *)
(***************************************************************************)
EXTENDS Login, TLAPS

\* The session has inserted the id into PLAYERS and has not removed it.
Holds(s, id) ==
    /\ playerId[s] = id
    /\ \/ pc[s] \in {"logged_in", "panicked"}
       \/ pc[s] = "login_error" /\ refusal[s] = "Unauthorized"

\* A session refused as AlreadyLoggedIn has unregistered the id.
Stolen(id) ==
    \E u \in Session : pc[u] = "finished" /\ playerId[u] = id /\ refusal[u] = "AlreadyLoggedIn"

RefusalsAreErrors == \A s \in Session : pc[s] = "login_error" => refusal[s] \in ErrorCode

\* None included: nobody holds it, since it is never registered.
HoldersAreAlone ==
    \A id \in PlayerId \cup {None} : ~Stolen(id) =>
        \A s \in Session : Holds(s, id) =>
            id \in PLAYERS /\ \A t \in Session : Holds(t, id) => t = s

LoginInv ==
    /\ LoginTypeOK
    /\ RegisteredIdsAreAnswerable
    /\ RefusalsAreErrors
    /\ HoldersAreAlone

-----------------------------------------------------------------------------
(* One lemma for each action.                                              *)

\* Sessions that keep their state hold and have stolen what they did before.
LEMMA OthersKeep ==
    ASSUME NEW s \in Session,
           \A t \in Session : t # s =>
               pc'[t] = pc[t] /\ playerId'[t] = playerId[t] /\ refusal'[t] = refusal[t]
    PROVE  /\ \A t \in Session : \A id : t # s => (Holds(t, id)' <=> Holds(t, id))
           /\ \A id : Stolen(id) /\ pc[s] # "finished" => Stolen(id)'
BY DEF Holds, Stolen

LEMMA AdmitPreserves ==
    ASSUME LoginInv, NEW s \in Session, NEW id \in PlayerId, NEW auth, Admit(s, id, auth)
    PROVE  LoginInv'
<1>1. /\ pc[s] = "wait_login" /\ pc'[s] = "logged_in" /\ playerId'[s] = id
      /\ id \notin PLAYERS /\ PLAYERS' = PLAYERS \cup {id}
      /\ \A t \in Session : t # s =>
             pc'[t] = pc[t] /\ playerId'[t] = playerId[t] /\ refusal'[t] = refusal[t]
  BY DEF Admit, LoginInv, LoginTypeOK
<1>2. LoginTypeOK'
  BY DEF Admit, LoginInv, LoginTypeOK, ErrorCode
<1>3. RegisteredIdsAreAnswerable'
  BY <1>1 DEF LoginInv, LoginTypeOK, RegisteredIdsAreAnswerable, Answerable
<1>4. RefusalsAreErrors'
  BY <1>1 DEF LoginInv, RefusalsAreErrors, ErrorCode
<1>5. HoldersAreAlone'
  <2>1. /\ \A t \in Session : \A name : t # s => (Holds(t, name)' <=> Holds(t, name))
        /\ \A name : Stolen(name) => Stolen(name)'
    BY <1>1, OthersKeep
  <2>2. \A name : Holds(s, name)' => name = id
    BY <1>1 DEF Holds
  <2> QED
    BY <1>1, <2>1, <2>2 DEF LoginInv, LoginTypeOK, HoldersAreAlone
<1> QED
  BY <1>2, <1>3, <1>4, <1>5 DEF LoginInv

LEMMA RefuseAlreadyLoggedInPreserves ==
    ASSUME LoginInv, NEW s \in Session, NEW id \in PlayerId, RefuseAlreadyLoggedIn(s, id)
    PROVE  LoginInv'
<1>1. /\ pc[s] = "wait_login" /\ pc'[s] = "login_error" /\ playerId'[s] = id
      /\ refusal'[s] = "AlreadyLoggedIn" /\ PLAYERS' = PLAYERS
      /\ \A t \in Session : t # s =>
             pc'[t] = pc[t] /\ playerId'[t] = playerId[t] /\ refusal'[t] = refusal[t]
  BY DEF RefuseAlreadyLoggedIn, RefuseLogin, LoginInv, LoginTypeOK
<1>2. LoginTypeOK'
  BY DEF RefuseAlreadyLoggedIn, RefuseLogin, LoginInv, LoginTypeOK, ErrorCode
<1>3. RegisteredIdsAreAnswerable'
  BY <1>1 DEF LoginInv, LoginTypeOK, RegisteredIdsAreAnswerable, Answerable
<1>4. RefusalsAreErrors'
  BY <1>1 DEF LoginInv, RefusalsAreErrors, ErrorCode
<1>5. HoldersAreAlone'
  <2>1. /\ \A t \in Session : \A name : t # s => (Holds(t, name)' <=> Holds(t, name))
        /\ \A name : Stolen(name) => Stolen(name)'
    BY <1>1, OthersKeep
  <2>2. \A name : ~Holds(s, name)'
    BY <1>1 DEF Holds
  <2> QED
    BY <1>1, <2>1, <2>2 DEF LoginInv, LoginTypeOK, HoldersAreAlone
<1> QED
  BY <1>2, <1>3, <1>4, <1>5 DEF LoginInv

LEMMA RefuseUnauthorizedPreserves ==
    ASSUME LoginInv, NEW s \in Session, NEW id \in PlayerId, NEW auth, RefuseUnauthorized(s, id, auth)
    PROVE  LoginInv'
<1>1. /\ pc[s] = "wait_login" /\ pc'[s] = "login_error" /\ playerId'[s] = id
      /\ refusal'[s] = "Unauthorized"
      /\ id \notin PLAYERS /\ PLAYERS' = PLAYERS \cup {id}
      /\ \A t \in Session : t # s =>
             pc'[t] = pc[t] /\ playerId'[t] = playerId[t] /\ refusal'[t] = refusal[t]
  BY DEF RefuseUnauthorized, RefuseLogin, LoginInv, LoginTypeOK
<1>2. LoginTypeOK'
  BY DEF RefuseUnauthorized, RefuseLogin, LoginInv, LoginTypeOK, ErrorCode
<1>3. RegisteredIdsAreAnswerable'
  BY <1>1 DEF LoginInv, LoginTypeOK, RegisteredIdsAreAnswerable, Answerable
<1>4. RefusalsAreErrors'
  BY <1>1 DEF LoginInv, RefusalsAreErrors, ErrorCode
<1>5. HoldersAreAlone'
  <2>1. /\ \A t \in Session : \A name : t # s => (Holds(t, name)' <=> Holds(t, name))
        /\ \A name : Stolen(name) => Stolen(name)'
    BY <1>1, OthersKeep
  <2>2. \A name : Holds(s, name)' => name = id
    BY <1>1 DEF Holds
  <2> QED
    BY <1>1, <2>1, <2>2 DEF LoginInv, LoginTypeOK, HoldersAreAlone
<1> QED
  BY <1>2, <1>3, <1>4, <1>5 DEF LoginInv

LEMMA UnregisterRefusedPreserves ==
    ASSUME LoginInv, NEW s \in Session, UnregisterRefused(s)
    PROVE  LoginInv'
<1>1. /\ pc[s] = "login_error" /\ pc'[s] = "finished" /\ playerId'[s] = playerId[s]
      /\ refusal'[s] = refusal[s] /\ PLAYERS' = PLAYERS \ {playerId[s]}
      /\ \A t \in Session : t # s =>
             pc'[t] = pc[t] /\ playerId'[t] = playerId[t] /\ refusal'[t] = refusal[t]
  BY DEF UnregisterRefused, LoginInv, LoginTypeOK
<1>2. LoginTypeOK'
  BY DEF UnregisterRefused, LoginInv, LoginTypeOK, ErrorCode
<1>3. RegisteredIdsAreAnswerable'
  BY <1>1 DEF LoginInv, LoginTypeOK, RegisteredIdsAreAnswerable, Answerable
<1>4. RefusalsAreErrors'
  BY <1>1 DEF LoginInv, RefusalsAreErrors, ErrorCode
<1>5. HoldersAreAlone'
  <2>1. ASSUME NEW name \in PlayerId \cup {None}, ~Stolen(name)',
               NEW t \in Session, Holds(t, name)'
        PROVE  name \in PLAYERS' /\ \A u \in Session : Holds(u, name)' => u = t
    <3>1. \A u \in Session : Holds(u, name)' => u # s /\ Holds(u, name)
      BY <1>1 DEF Holds
    <3>2. ~Stolen(name)
      BY <1>1, <2>1 DEF Stolen
    <3>3. name \in PLAYERS /\ \A u \in Session : Holds(u, name) => u = t
      BY <2>1, <3>1, <3>2 DEF LoginInv, HoldersAreAlone
    <3>4. ASSUME name = playerId[s]
          PROVE  Holds(s, name)
      BY <1>1, <2>1, <3>4 DEF Holds, Stolen, LoginInv, RefusalsAreErrors, ErrorCode
    <3>5. name # playerId[s]
      BY <2>1, <3>1, <3>3, <3>4
    <3> QED
      BY <1>1, <3>1, <3>3, <3>5
  <2> QED
    BY <2>1 DEF HoldersAreAlone
<1> QED
  BY <1>2, <1>3, <1>4, <1>5 DEF LoginInv

LEMMA GiveUpLoginPreserves ==
    ASSUME LoginInv, NEW s \in Session, GiveUpLogin(s)
    PROVE  LoginInv'
<1>1. /\ pc[s] = "wait_login" /\ pc'[s] = "finished" /\ PLAYERS' = PLAYERS
      /\ \A t \in Session : t # s =>
             pc'[t] = pc[t] /\ playerId'[t] = playerId[t] /\ refusal'[t] = refusal[t]
  BY DEF GiveUpLogin, LoginInv, LoginTypeOK
<1>2. LoginTypeOK'
  BY DEF GiveUpLogin, LoginInv, LoginTypeOK, ErrorCode
<1>3. RegisteredIdsAreAnswerable'
  BY <1>1 DEF LoginInv, LoginTypeOK, RegisteredIdsAreAnswerable, Answerable
<1>4. RefusalsAreErrors'
  BY <1>1 DEF LoginInv, RefusalsAreErrors, ErrorCode
<1>5. HoldersAreAlone'
  <2>1. /\ \A t \in Session : \A name : t # s => (Holds(t, name)' <=> Holds(t, name))
        /\ \A name : Stolen(name) => Stolen(name)'
    BY <1>1, OthersKeep
  <2>2. \A name : ~Holds(s, name)'
    BY <1>1 DEF Holds
  <2> QED
    BY <1>1, <2>1, <2>2 DEF LoginInv, LoginTypeOK, HoldersAreAlone
<1> QED
  BY <1>2, <1>3, <1>4, <1>5 DEF LoginInv

LEMMA UnregisterPlayerPreserves ==
    ASSUME LoginInv, NEW s \in Session, UnregisterPlayer(s)
    PROVE  LoginInv'
<1>1. /\ pc[s] = "logged_in" /\ pc'[s] = "finished" /\ PLAYERS' = PLAYERS \ {playerId[s]}
      /\ \A t \in Session : t # s =>
             pc'[t] = pc[t] /\ playerId'[t] = playerId[t] /\ refusal'[t] = refusal[t]
  BY DEF UnregisterPlayer, LoginInv, LoginTypeOK
<1>2. LoginTypeOK'
  BY DEF UnregisterPlayer, LoginInv, LoginTypeOK, ErrorCode
<1>3. RegisteredIdsAreAnswerable'
  BY <1>1 DEF LoginInv, LoginTypeOK, RegisteredIdsAreAnswerable, Answerable
<1>4. RefusalsAreErrors'
  BY <1>1 DEF LoginInv, RefusalsAreErrors, ErrorCode
<1>5. HoldersAreAlone'
  <2>1. ASSUME NEW name \in PlayerId \cup {None}, ~Stolen(name)',
               NEW t \in Session, Holds(t, name)'
        PROVE  name \in PLAYERS' /\ \A u \in Session : Holds(u, name)' => u = t
    <3>1. \A u \in Session : Holds(u, name)' => u # s /\ Holds(u, name)
      BY <1>1 DEF Holds
    <3>2. ~Stolen(name)
      BY <1>1, <2>1 DEF Stolen
    <3>3. name \in PLAYERS /\ \A u \in Session : Holds(u, name) => u = t
      BY <2>1, <3>1, <3>2 DEF LoginInv, HoldersAreAlone
    <3>4. ASSUME name = playerId[s]
          PROVE  Holds(s, name)
      BY <1>1, <3>4 DEF Holds
    <3>5. name # playerId[s]
      BY <2>1, <3>1, <3>3, <3>4
    <3> QED
      BY <1>1, <3>1, <3>3, <3>5
  <2> QED
    BY <2>1 DEF HoldersAreAlone
<1> QED
  BY <1>2, <1>3, <1>4, <1>5 DEF LoginInv

LEMMA PanicPreserves ==
    ASSUME LoginInv, NEW s \in Session, Panic(s)
    PROVE  LoginInv'
<1>1. /\ pc[s] = "logged_in" /\ pc'[s] = "panicked" /\ playerId'[s] = playerId[s]
      /\ PLAYERS' = PLAYERS
      /\ \A t \in Session : t # s =>
             pc'[t] = pc[t] /\ playerId'[t] = playerId[t] /\ refusal'[t] = refusal[t]
  BY DEF Panic, LoginInv, LoginTypeOK
<1>2. LoginTypeOK'
  BY DEF Panic, LoginInv, LoginTypeOK, ErrorCode
<1>3. RegisteredIdsAreAnswerable'
  BY <1>1 DEF LoginInv, LoginTypeOK, RegisteredIdsAreAnswerable, Answerable
<1>4. RefusalsAreErrors'
  BY <1>1 DEF LoginInv, RefusalsAreErrors, ErrorCode
<1>5. HoldersAreAlone'
  <2>1. /\ \A t \in Session : \A name : t # s => (Holds(t, name)' <=> Holds(t, name))
        /\ \A name : Stolen(name) => Stolen(name)'
    BY <1>1, OthersKeep
  <2>2. \A name : Holds(s, name)' => Holds(s, name)
    BY <1>1 DEF Holds
  <2> QED
    BY <1>1, <2>1, <2>2 DEF LoginInv, LoginTypeOK, HoldersAreAlone
<1> QED
  BY <1>2, <1>3, <1>4, <1>5 DEF LoginInv

\* A step that changes none of PLAYERS, pc, playerId and refusal.
LEMMA LoginInvFrame ==
    ASSUME LoginInv, UNCHANGED <<PLAYERS, pc, playerId, refusal>>,
           connected' \in [Session -> BOOLEAN]
    PROVE  LoginInv'
<1>1. LoginTypeOK'
  BY DEF LoginInv, LoginTypeOK
<1>2. RegisteredIdsAreAnswerable' /\ RefusalsAreErrors'
  BY DEF LoginInv, RegisteredIdsAreAnswerable, RefusalsAreErrors, Answerable
<1>3. HoldersAreAlone'
  BY DEF LoginInv, HoldersAreAlone, Holds, Stolen
<1> QED
  BY <1>1, <1>2, <1>3 DEF LoginInv

-----------------------------------------------------------------------------
(* The theorems.                                                           *)

LEMMA LoginInitImpliesLoginInv == LoginInit => LoginInv
BY DEF LoginInit, LoginInv, LoginTypeOK, RegisteredIdsAreAnswerable, RefusalsAreErrors,
       HoldersAreAlone, Holds

LEMMA LoginNextPreservesLoginInv == LoginInv /\ [LoginNext]_loginVars => LoginInv'
<1> SUFFICES ASSUME LoginInv, [LoginNext]_loginVars PROVE LoginInv'
  OBVIOUS
<1>1. ASSUME NEW s \in Session, Disconnect(s)
      PROVE  LoginInv'
  <2>1. connected' \in [Session -> BOOLEAN]
    BY <1>1 DEF Disconnect, LoginInv, LoginTypeOK
  <2> QED
    BY <1>1, <2>1, LoginInvFrame DEF Disconnect
<1>2. ASSUME NEW s \in Session, LoginRequest(s)
      PROVE  LoginInv'
  BY <1>2, AdmitPreserves, RefuseAlreadyLoggedInPreserves, RefuseUnauthorizedPreserves
  DEF LoginRequest
<1>3. ASSUME NEW s \in Session,
             UnregisterRefused(s) \/ GiveUpLogin(s) \/ UnregisterPlayer(s) \/ Panic(s)
      PROVE  LoginInv'
  BY <1>3, UnregisterRefusedPreserves, GiveUpLoginPreserves, UnregisterPlayerPreserves,
     PanicPreserves
<1>4. CASE UNCHANGED loginVars
  BY <1>4, LoginInvFrame DEF loginVars, LoginInv, LoginTypeOK
<1> QED
  BY <1>1, <1>2, <1>3, <1>4 DEF LoginNext

THEOREM LoginInvInvariant == LoginSpec => []LoginInv
BY LoginInitImpliesLoginInv, LoginNextPreservesLoginInv, PTL DEF LoginSpec

\* The state of the logins always has its type.
THEOREM LoginTypeCorrect == LoginSpec => []LoginTypeOK
<1>1. LoginInv => LoginTypeOK
  BY DEF LoginInv
<1> QED
  BY <1>1, LoginInvInvariant, PTL

\* No id is left registered by sessions that are over, in any order of logins,
\* refusals and disconnections of any number of sessions.
THEOREM RegisteredIdsAlwaysAnswerable == LoginSpec => []RegisteredIdsAreAnswerable
<1>1. LoginInv => RegisteredIdsAreAnswerable
  BY DEF LoginInv
<1> QED
  BY <1>1, LoginInvInvariant, PTL

\* However many logins race for an id, two sessions share it only after a refusal as
\* AlreadyLoggedIn has unregistered it.
THEOREM IdsSharedOnlyAfterRefusal == LoginSpec => []SharedIdNeedsRefusal
<1>1. LoginInv => SharedIdNeedsRefusal
  <2> SUFFICES ASSUME LoginInv, NEW s \in Session, NEW t \in Session,
                      s # t, LoggedIn(s), LoggedIn(t), playerId[s] = playerId[t]
               PROVE  Stolen(playerId[s])
    BY DEF SharedIdNeedsRefusal, Stolen
  <2>1. playerId[s] \in PlayerId \cup {None}
    BY DEF LoginInv, LoginTypeOK
  <2>2. Holds(s, playerId[s]) /\ Holds(t, playerId[s])
    BY DEF LoggedIn, Holds
  <2> QED
    BY <2>1, <2>2 DEF LoginInv, HoldersAreAlone
<1> QED
  BY <1>1, LoginInvInvariant, PTL

=============================================================================
