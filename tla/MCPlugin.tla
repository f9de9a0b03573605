------------------------------ MODULE MCPlugin ------------------------------
(* Plugin for TLC: two lines, which an early end may cut into three; the   *)
(* query foo ranks all items but the first, in reverse.                    *)
EXTENDS Plugin

CONSTANT foo

MCOutput == <<"a", "nl", "b", "c">>
MCQueries == [id : 1..MaxInputs, text : Texts]
MCRanked == [n \in 0..MaxItems |-> [t \in Texts |->
               [i \in 1..(IF n = 0 THEN 0 ELSE n - 1) |-> n + 1 - i]]]
=============================================================================
