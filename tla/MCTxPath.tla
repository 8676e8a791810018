------------------------------ MODULE MCTxPath ------------------------------
(* Model-checking instance of TxPath. *)
EXTENDS TxPath
=============================================================================
