---------------------------- MODULE MCShadowRead ----------------------------
(* Model-checking instance of ShadowRead. *)
EXTENDS ShadowRead
=============================================================================
