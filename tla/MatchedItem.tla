---------------------------- MODULE MatchedItem ----------------------------
(***************************************************************************)
(* A matched item packed into one number (src/fzx/matched_item.hpp), and   *)
(* the merging of sorted lists of them (src/fzx/worker.cpp).               *)
(***************************************************************************)
EXTENDS Query

CONSTANTS
  IndexBits,  \* the low bits, 32 in the code
  ScoreBits   \* the high bits, 32 in the code

ASSUME MatchedItemAssumption == IndexBits \in Nat /\ ScoreBits \in Nat \ {0}

kMin == -(2^(ScoreBits - 1))
kMax == 2^(ScoreBits - 1) - 1

(* static_cast<int32_t>: towards zero. *)
Truncated(q) ==
  IF q.num >= 0 THEN q.num \div q.den ELSE -((-q.num) \div q.den)

(* Mistake: the packed number is compared without its sign. *)
Pack_Unsigned(index, score) ==
  LET hi == IF score.num = kScoreMin THEN kMax
            ELSE IF score.num = kScoreMax THEN kMin
            ELSE -Truncated(score)
  IN (hi % 2^ScoreBits) * 2^IndexBits + (index % 2^IndexBits)

Pack(index, score) ==
  LET hi == IF score.num = kScoreMin THEN kMax
            ELSE IF score.num = kScoreMax THEN kMin
            ELSE -Truncated(score)
  IN hi * 2^IndexBits + (index % 2^IndexBits)

IndexOf(item) == item % 2^IndexBits

ScoreOf(item) ==
  LET v == item \div 2^IndexBits
  IN IF v = kMax THEN kScoreMin ELSE IF v = kMin THEN kScoreMax ELSE -v

(* Mistake: what is left of the second list is forgotten. *)
RECURSIVE Merge2_DropTail(_, _)
Merge2_DropTail(a, b) ==
  IF a = <<>> THEN <<>>
  ELSE IF b = <<>> THEN a
  ELSE IF Head(a) < Head(b) THEN <<Head(a)>> \o Merge2_DropTail(Tail(a), b)
  ELSE <<Head(b)>> \o Merge2_DropTail(a, Tail(b))

RECURSIVE Merge2(_, _)
Merge2(a, b) ==
  IF a = <<>> THEN b
  ELSE IF b = <<>> THEN a
  ELSE IF Head(a) < Head(b) THEN <<Head(a)>> \o Merge2(Tail(a), b)
  ELSE <<Head(b)>> \o Merge2(a, Tail(b))
=============================================================================
