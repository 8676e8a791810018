---------------------------- MODULE MCGlueSockets ----------------------------
(* Instances of GlueSockets for TLC: cells and slots are model values, and *)
(* interchangeable where no liveness is checked.                           *)
EXTENDS GlueSockets, TLC

Symmetry == Permutations(Cells) \cup Permutations(Slots)

==============================================================================
