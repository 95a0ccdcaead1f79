---------------------------- MODULE EntityPlayer ----------------------------
(***************************************************************************)
(* The player entity (src/src/entity/player.rs) and the names all modules  *)
(* share.  A player is its id and the sending end of its player actor's    *)
(* event channel.  Every player actor creates one such channel, so the     *)
(* channel is identified by the session (the connection) it belongs to.    *)
(***************************************************************************)

CONSTANTS
    PlayerId,    \* the player ids clients log in with
    Session,     \* the connections, each with its own player actor
    None         \* Rust's Option::None, whatever the Option holds

ASSUME PlayerNoneAssumption == None \notin PlayerId /\ None \notin Session

Player == [id : PlayerId, sender : Session]

=============================================================================
