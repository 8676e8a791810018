------------------------------ MODULE MCTxSpace ------------------------------
(* Model-checking instance of TxSpace. *)
EXTENDS TxSpace, TLC
=============================================================================
