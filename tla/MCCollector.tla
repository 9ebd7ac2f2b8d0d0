---------------------------- MODULE MCCollector ----------------------------
(* Instances of Collector for TLC. *)
EXTENDS Collector

\* A block without pointers, one with two, and one with one.
ThreeBlocks == <<1, 3, 2>>
TwoBlocks == <<1, 2>>
OneBlock == <<2>>
=============================================================================
