------------------------------ MODULE MCTxWait ------------------------------
(***************************************************************************)
(* TxWait for TLC: a chain of eight blocks, reorganisations of up to two,  *)
(* three confirmations and six turns, so that the transaction can be       *)
(* mined, moved, confirmed in time, or run out of time at every stage.     *)
(***************************************************************************)
EXTENDS TxWait
=============================================================================
