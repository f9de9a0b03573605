------------------------------ MODULE MCSearch ------------------------------
(* Search for TLC, in four parts: plain needles against items of two       *)
(* letters; lines with operators and several terms against short items;    *)
(* the same lines, and needles of more than kMatchMaxLen characters,       *)
(* against items up to one character too long; and several items for a few *)
(* lines, two of which have means that are not whole.                      *)
EXTENDS Search

CONSTANTS w1, w2

Small(s) == \A i \in DOMAIN s : s[i] \in {"a", "b"}

(* An item of 'a's and then 'b's, one of 'c's with one more letter before  *)
(* and one or two behind, and what was read of them.                       *)
Blocks(t) ==
  \E i \in 0..Len(t) : t = [k \in DOMAIN t |-> IF k <= i THEN "a" ELSE "b"]
Padded(t) ==
  LET from == SelectInSeq(t, LAMBDA c : c = "b")
      last == IF from = 0 THEN Len(t) ELSE from - 1
  IN /\ t[1] \in {"a", "c"}
     /\ \A k \in 2..last : t[k] = "c"
     /\ SubSeq(t, last + 1, Len(t)) \in {<<>>, <<"b">>, <<"b", "A">>}

(* A needle longer than kMatchMaxLen, alone and with another. *)
LongNeedle == [k \in 1..kMatchMaxLen + 1 |-> IF k <= kMatchMaxLen THEN "a" ELSE "b"]
LongLines == {LongNeedle, LongNeedle \o <<" ", "b">>}

(* Means of eleven and of two scores: 140 / 11 - 12 and 140 / 11 - 13 are  *)
(* a point apart and both less than a point from zero.                     *)
ElevenTerms == [k \in 1..21 |-> IF k = 1 THEN "a" ELSE IF k % 2 = 0 THEN " " ELSE "b"]
MeanLines == {ElevenTerms, <<"a", " ", "a", "b">>}

MCMayType(l) ==
  \/ Small(l) /\ Len(l) <= 7
  \/ Len(l) <= 3
  \/ Len(l) = 4 /\ l[1] # " " /\ l[2] = " "
  \/ \E long \in LongLines \union MeanLines : IsPrefix(l, long)

WholeLines == {<<"a">>, <<"b">>, <<"a", " ", "b">>}

MCMayRead(l, before, t) ==
  /\ Len(t) <= kMatchMaxLen + 1
  /\ IF l \in MeanLines /\ Padded(t) THEN before <= 1
     ELSE IF before > 0 THEN before <= 2 /\ l \in WholeLines /\ Len(t) <= 2
     ELSE IF Blocks(t) THEN Len(l) <= 4 \/ l \in LongLines
     ELSE /\ "c" \notin Range(t)
          /\ \/ Len(t) <= 3 /\ Len(l) <= 7
             \/ Small(l) /\ Len(l) \in 2..4 /\ Len(t) <= 5
             \/ Small(l) /\ Small(t) /\ Len(t) <= 7 /\ Len(l) <= 7
=============================================================================
