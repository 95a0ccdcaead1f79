------------------------------- MODULE Login -------------------------------
(***************************************************************************)
(* Logging in (src/src/actor/player.rs): the PLAYERS set of ids in use and *)
(* the part of every player actor that reads and writes it, wait_login,    *)
(* send_login_error and the unregister_player that ends a session.         *)
(*                                                                         *)
(* A session is one connection and its player actor.  What an actor does   *)
(* between login and its end is left to the environment here: it may panic *)
(* and, once its connection is gone, it unregisters.  Module PlayerActor   *)
(* says when.                                                              *)
(***************************************************************************)
EXTENDS EntityPlayer

VARIABLES
    PLAYERS,    \* the ids registered as logged in
    connected,  \* whether the connection holds its end of the actor's channels
    pc,         \* where the player actor is
    playerId,   \* the id in the LoginRequest the actor has processed, or None
    refusal     \* the error code of a refused login, or None

loginVars == <<PLAYERS, connected, pc, playerId, refusal>>

ErrorCode == {"AlreadyLoggedIn", "Unauthorized"}

ASSUME RefusalNoneAssumption == None \notin ErrorCode

\* The auth_config of a LoginRequest: the bearer token of the server, another one, none.
AuthConfig == {"bearer", "wrong_bearer", "no_auth"}

LoginTypeOK ==
    /\ PLAYERS \subseteq PlayerId
    /\ connected \in [Session -> BOOLEAN]
    /\ pc \in [Session -> {"wait_login", "login_error", "logged_in", "finished", "panicked"}]
    /\ playerId \in [Session -> PlayerId \cup {None}]
    /\ refusal \in [Session -> ErrorCode \cup {None}]

LoginInit ==
    /\ PLAYERS = {}
    /\ connected = [s \in Session |-> TRUE]
    /\ pc = [s \in Session |-> "wait_login"]
    /\ playerId = [s \in Session |-> None]
    /\ refusal = [s \in Session |-> None]

-----------------------------------------------------------------------------

\* The connection handler drops its actor::Player, for whatever reason.
Disconnect(s) ==
    /\ connected[s]
    /\ connected' = [connected EXCEPT ![s] = FALSE]
    /\ UNCHANGED <<PLAYERS, pc, playerId, refusal>>

\* Variant: the id is registered only once the login has been found valid, by a
\* separate access to PLAYERS, so that the insertion no longer decides the race.
AdmitWithoutTest(s, id, auth) ==
    /\ pc[s] = "wait_login"
    /\ auth = "bearer"
    /\ PLAYERS' = PLAYERS \cup {id}
    /\ pc' = [pc EXCEPT ![s] = "logged_in"]
    /\ playerId' = [playerId EXCEPT ![s] = id]
    /\ UNCHANGED <<connected, refusal>>

\* register_player inserts the id, and the token is the server's.
Admit(s, id, auth) ==
    /\ pc[s] = "wait_login"
    /\ id \notin PLAYERS
    /\ auth = "bearer"
    /\ PLAYERS' = PLAYERS \cup {id}
    /\ pc' = [pc EXCEPT ![s] = "logged_in"]
    /\ playerId' = [playerId EXCEPT ![s] = id]
    /\ UNCHANGED <<connected, refusal>>

\* Variant: the refusal carries the code of a success.
RefuseWithoutCode(s, id, code) ==
    /\ pc' = [pc EXCEPT ![s] = "login_error"]
    /\ playerId' = [playerId EXCEPT ![s] = id]
    /\ refusal' = [refusal EXCEPT ![s] = "None"]
    /\ UNCHANGED connected

\* The first half of send_login_error: the error is sent, and the id that
\* unregister_player is about to remove is the one of the request.
RefuseLogin(s, id, code) ==
    /\ pc' = [pc EXCEPT ![s] = "login_error"]
    /\ playerId' = [playerId EXCEPT ![s] = id]
    /\ refusal' = [refusal EXCEPT ![s] = code]
    /\ UNCHANGED connected

\* The id was registered already.
RefuseAlreadyLoggedIn(s, id) ==
    /\ pc[s] = "wait_login"
    /\ id \in PLAYERS
    /\ RefuseLogin(s, id, "AlreadyLoggedIn")
    /\ UNCHANGED PLAYERS

\* The id was free and is registered by now; the token is wrong or missing.  The
\* code never reads config.auth.enable_bearer, so the token is asked for in any case.
RefuseUnauthorized(s, id, auth) ==
    /\ pc[s] = "wait_login"
    /\ id \notin PLAYERS
    /\ auth # "bearer"
    /\ PLAYERS' = PLAYERS \cup {id}
    /\ RefuseLogin(s, id, "Unauthorized")

\* Variant: the error path forgets the id it has registered.
KeepRefusedRegistered(s) ==
    /\ pc[s] = "login_error"
    /\ pc' = [pc EXCEPT ![s] = "finished"]
    /\ UNCHANGED <<PLAYERS, connected, playerId, refusal>>

\* The second half of send_login_error, for either code, and the end of the actor.
UnregisterRefused(s) ==
    /\ pc[s] = "login_error"
    /\ PLAYERS' = PLAYERS \ {playerId[s]}
    /\ pc' = [pc EXCEPT ![s] = "finished"]
    /\ UNCHANGED <<connected, playerId, refusal>>

\* wait_login returns None: a message other than a LoginRequest arrived, or the
\* input channel is closed and empty.
GiveUpLogin(s) ==
    /\ pc[s] = "wait_login"
    /\ pc' = [pc EXCEPT ![s] = "finished"]
    /\ UNCHANGED <<PLAYERS, connected, playerId, refusal>>

\* The end of an actor that was logged in, once it has seen the disconnection.
UnregisterPlayer(s) ==
    /\ pc[s] = "logged_in"
    /\ ~connected[s]
    /\ PLAYERS' = PLAYERS \ {playerId[s]}
    /\ pc' = [pc EXCEPT ![s] = "finished"]
    /\ UNCHANGED <<connected, playerId, refusal>>

\* The task of a logged-in actor unwinds: nothing unregisters its id.
Panic(s) ==
    /\ pc[s] = "logged_in"
    /\ pc' = [pc EXCEPT ![s] = "panicked"]
    /\ UNCHANGED <<PLAYERS, connected, playerId, refusal>>

LoginRequest(s) ==
    \E id \in PlayerId, auth \in AuthConfig :
        \/ Admit(s, id, auth)
        \/ RefuseAlreadyLoggedIn(s, id)
        \/ RefuseUnauthorized(s, id, auth)

LoginNext ==
    \E s \in Session :
        \/ Disconnect(s)
        \/ LoginRequest(s)
        \/ UnregisterRefused(s)
        \/ GiveUpLogin(s)
        \/ UnregisterPlayer(s)
        \/ Panic(s)

LoginSpec == LoginInit /\ [][LoginNext]_loginVars

-----------------------------------------------------------------------------
(* Properties.                                                             *)

\* The sessions that answer for a registered id: they hold it or will remove it.
Answerable(s) == pc[s] \in {"logged_in", "panicked", "login_error"}

\* No id stays registered once every session that used it is over: whatever the
\* order of logins, refusals and disconnections, a registered id belongs to a
\* session that still has it, has yet to remove it, or has panicked.
RegisteredIdsAreAnswerable ==
    \A id \in PLAYERS : \E s \in Session : playerId[s] = id /\ Answerable(s)

LoggedIn(s) == pc[s] = "logged_in"

\* register_player tests and inserts in one critical section, so two logins racing
\* for one id are not both admitted: two sessions share an id only after a third
\* one has been refused it with AlreadyLoggedIn and has unregistered it.
SharedIdNeedsRefusal ==
    \A s, t \in Session : s # t /\ LoggedIn(s) /\ LoggedIn(t) /\ playerId[s] = playerId[t] =>
        \E u \in Session : /\ pc[u] = "finished"
                           /\ playerId[u] = playerId[s]
                           /\ refusal[u] = "AlreadyLoggedIn"

\* "Already logged in": at most one session at a time is logged in with an id.
OneSessionPerPlayerId ==
    \A s, t \in Session : LoggedIn(s) /\ LoggedIn(t) /\ playerId[s] = playerId[t] => s = t

=============================================================================
