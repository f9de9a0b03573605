----------------------------- MODULE MCMergePath -----------------------------
(* MergePath needs no constants: it covers every pool size there is. *)
EXTENDS MergePath
=============================================================================
