-------------------------- MODULE MCRuntimeControl --------------------------
(* Small instances of RuntimeControl for TLC. *)
EXTENDS RuntimeControl, TLC

\* Members of these sets are interchangeable in every definition and safety property.
Symmetry ==
  Permutations(Process) \cup Permutations(Connection) \cup Permutations(Operator)
    \cup Permutations(Room) \cup Permutations(User)
=============================================================================
