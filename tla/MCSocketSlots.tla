--------------------------- MODULE MCSocketSlots ---------------------------
(* Model-checking instance of SocketSlots.                                 *)
EXTENDS SocketSlots, TLC

\* Processes and kernel sockets are interchangeable in every safety property.
Symmetry == Permutations(Apps \ Mortals) \cup Permutations(Sockets)
=============================================================================
