------------------------------ MODULE MCLists ------------------------------
(* Instances of Lists for TLC. *)
EXTENDS Lists, TLC

ValueSymmetry == Permutations(Value)
=============================================================================
