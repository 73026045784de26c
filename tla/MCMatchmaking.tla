--------------------------- MODULE MCMatchmaking ---------------------------
(* Small instances of Matchmaking for TLC. *)
EXTENDS Matchmaking, TLC

\* Requests of clients that are not prompt differ in nothing but their name.
Symmetry == Permutations(Request)
=============================================================================
