------------------------------ MODULE MCCombat ------------------------------
(* Small instances of Combat for TLC. *)
EXTENDS Combat, TLC

\* One spell of one point; two spells of different length.
UniformBook == <<1>>
MixedBook == <<1, 2>>

\* Human players are interchangeable in every definition and safety property.
Symmetry == Permutations(Human)
=============================================================================
