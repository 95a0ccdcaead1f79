------------------------------ MODULE MCLogin ------------------------------
(* Symmetry for checking Login alone.                                       *)
EXTENDS Login, TLC

Symmetry == Permutations(Session) \cup Permutations(PlayerId)

=============================================================================
