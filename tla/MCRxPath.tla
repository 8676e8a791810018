------------------------------ MODULE MCRxPath ------------------------------
(* Model-checking instance of RxPath. *)
EXTENDS RxPath, TLC

\* The sockets of a selector are interchangeable in every safety property.
Symmetry == Permutations(Socks)
=============================================================================
