----------------------------- MODULE MCTermApp -----------------------------
(* TermApp for TLC: two lines, the second without its newline; a query of  *)
(* one letter ranks them in reverse, a longer one matches the first only.  *)
EXTENDS TermApp

MCInput == <<"a", "b", "nl", "c">>
MCQueries == 1..MaxKeys
MCRanked ==
  [n \in 0..MaxItems |-> [q \in Queries |->
     IF q = 1 THEN [i \in 1..n |-> n + 1 - i]
     ELSE [i \in 1..Least(n, 1) |-> i]]]
=============================================================================
