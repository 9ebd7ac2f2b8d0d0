---------------------------- MODULE MCCoSwitch ----------------------------
(* Instances of CoSwitch for TLC. *)
EXTENDS CoSwitch, TLC

\* The co-expressions other than &main are interchangeable.
CoexprSymmetry == Permutations(Coexpr \ {Main})
=============================================================================
