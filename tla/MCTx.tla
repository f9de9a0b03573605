-------------------------------- MODULE MCTx --------------------------------
(* Tx for TLC: two values that may be committed again and again, so that a *)
(* version is told from another by its tick and not by its value.          *)
EXTENDS Tx
=============================================================================
