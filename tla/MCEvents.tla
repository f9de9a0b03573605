------------------------------ MODULE MCEvents ------------------------------
(* Events for TLC: two flags, so that flags accumulate, and three posters, *)
(* so that one can post while another is on its way to wake the owner and  *)
(* the owner is woken by a third.                                          *)
EXTENDS Events
=============================================================================
