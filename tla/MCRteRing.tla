----------------------------- MODULE MCRteRing ------------------------------
(* Model-checking instance of RteRing.                                     *)
EXTENDS RteRing, TLC
=============================================================================
