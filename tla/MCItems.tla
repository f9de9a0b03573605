------------------------------ MODULE MCItems ------------------------------
(* Items for TLC: a string of one unit and one of two, so that the strings *)
(* and the offsets outgrow their blocks at different times.                *)
EXTENDS Items, TLC

CONSTANTS u1, u2, u3, w1, w2

MCTexts == {<<u1>>, <<u2, u3>>}
MCWorkers == {w1, w2}
MCSymmetry == Permutations(MCWorkers)
=============================================================================
