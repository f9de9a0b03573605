------------------------------- MODULE Score -------------------------------
(***************************************************************************)
(* How well a string matches a fuzzy term: src/fzx/score.cpp.  The same    *)
(* number is computed by a table (score, matchPositions), by a loop for    *)
(* terms of one character (score1), and in registers for terms of up to 16 *)
(* (scoreSSE, scoreNeon).                                                  *)
(*                                                                         *)
(* Scores are whole numbers.  kScoreMin, minus infinity, is a number below *)
(* all of them that Plus leaves as it is; kScoreMax is above all of them.  *)
(***************************************************************************)
EXTENDS Match

CONSTANTS
  kMatchMaxLen,  \* the longest string that gets a score, 1024 in the code
  Lanes          \* numbers in a register, 4 in the code

ASSUME ScoreAssumption == kMatchMaxLen \in Nat /\ Lanes \in Nat \ {0}

kScoreGapLeading == -1
kScoreGapTrailing == -1
kScoreGapInner == -2
kScoreMatchConsecutive == 200
kScoreMatchSlash == 180
kScoreMatchWord == 160
kScoreMatchCapital == 140
kScoreMatchDot == 120
kScoreMin == -1000000
kScoreMax == 1000000

Plus(a, b) == IF kScoreMin \in {a, b} THEN kScoreMin ELSE a + b
Larger(a, b) == IF a > b THEN a ELSE b

(* kBonusStates[kBonusIndex[ch]][last] *)
Bonus(ch, last) ==
  IF ch \in {"/", "-", "_", " ", "."} THEN 0
  ELSE CASE ch \in DOMAIN Capitals /\ last \in {Capitals[c] : c \in DOMAIN Capitals} ->
              kScoreMatchCapital
         [] last = "/" -> kScoreMatchSlash
         [] last \in {"-", "_", " "} -> kScoreMatchWord
         [] last = "." -> kScoreMatchDot
         [] OTHER -> 0

(* precomputeBonus; a string begins as after a slash. *)
BonusAt(haystack, i) ==
  Bonus(haystack[i], IF i = 1 THEN "/" ELSE haystack[i - 1])
-----------------------------------------------------------------------------
(* MatchStruct::matchRow: the row of D, the best score that ends with a    *)
(* match at a place, and of M, the best score up to that place.            *)
MatchRow(needle, haystack, row, last) ==
  LET gap == IF row = Len(needle) THEN kScoreGapTrailing ELSE kScoreGapInner
      match(i) ==
        IF ToLower(needle[row]) # ToLower(haystack[i]) THEN kScoreMin
        ELSE IF row = 1 THEN (i - 1) * kScoreGapLeading + BonusAt(haystack, i)
        ELSE IF i = 1 THEN kScoreMin
        ELSE Larger(Plus(last.m[i - 1], BonusAt(haystack, i)),
                    Plus(last.d[i - 1], kScoreMatchConsecutive))
      RECURSIVE cells(_)
      cells(i) ==
        IF i = 0 THEN [d |-> <<>>, m |-> <<>>]
        ELSE LET prev == cells(i - 1)
                 prevScore == IF i = 1 THEN kScoreMin ELSE prev.m[i - 1]
             IN [d |-> Append(prev.d, match(i)),
                 m |-> Append(prev.m, Larger(match(i), Plus(prevScore, gap)))]
  IN cells(Len(haystack))

RECURSIVE Rows(_, _, _)
Rows(needle, haystack, n) ==
  IF n = 0 THEN <<>>
  ELSE LET above == Rows(needle, haystack, n - 1)
           last == IF n = 1 THEN [d |-> <<>>, m |-> <<>>] ELSE above[n - 1]
       IN Append(above, MatchRow(needle, haystack, n, last))

Table(needle, haystack) == Rows(needle, haystack, Len(needle))

(* Mistake: equal lengths are looked at before unreasonable ones. *)
Guarded_EqualFirst(needle, haystack, value) ==
  IF needle = <<>> THEN kScoreMin
  ELSE IF Len(needle) = Len(haystack) THEN kScoreMax
  ELSE IF Len(haystack) > kMatchMaxLen \/ Len(needle) > Len(haystack)
  THEN kScoreMin
  ELSE value

(* The early returns, the same in every form, in their order. *)
Guarded(needle, haystack, value) ==
  IF needle = <<>> THEN kScoreMin
  ELSE IF Len(haystack) > kMatchMaxLen \/ Len(needle) > Len(haystack)
  THEN kScoreMin
  ELSE IF Len(needle) = Len(haystack) THEN kScoreMax
  ELSE value

TableScore(needle, haystack) ==
  Guarded(needle, haystack,
          Table(needle, haystack)[Len(needle)].m[Len(haystack)])

(* Mistake: a place may be taken twice. *)
MatchPositions_Stay(needle, haystack) ==
  LET t == Table(needle, haystack)
      RECURSIVE back(_, _)
      back(i, j) ==
        LET hits == {k \in 1..j : t[i].d[k] # kScoreMin}
            k == Max(hits)
        IN IF i = 0 \/ hits = {} THEN {} ELSE {k} \union back(i - 1, k)
  IN IF Len(haystack) > kMatchMaxLen \/ Len(needle) > Len(haystack) THEN {}
     ELSE IF Len(needle) = Len(haystack) THEN DOMAIN haystack
     ELSE back(Len(needle), Len(haystack))

(* matchPositions: from the last row and place backwards; a place that was *)
(* scored as consecutive requires the one before it.                       *)
MatchPositions(needle, haystack) ==
  LET t == Table(needle, haystack)
      RECURSIVE back(_, _, _)
      back(i, j, required) ==
        LET hits == {k \in 1..j : /\ t[i].d[k] # kScoreMin
                                  /\ required \/ t[i].d[k] = t[i].m[k]}
            k == Max(hits)
            next == /\ i > 1 /\ k > 1
                    /\ t[i].m[k] =
                         Plus(t[i - 1].d[k - 1], kScoreMatchConsecutive)
        IN IF i = 0 \/ hits = {} THEN {} ELSE {k} \union back(i - 1, k - 1, next)
  IN IF needle = <<>> \/ Len(haystack) > kMatchMaxLen
        \/ Len(needle) > Len(haystack) THEN {}
     ELSE IF Len(needle) = Len(haystack) THEN DOMAIN haystack
     ELSE back(Len(needle), Len(haystack), FALSE)
-----------------------------------------------------------------------------
(* One turn of the loop of score1, the place i of a longer string. *)
Score1Step(needle, haystack, i, score) ==
  LET here == (i - 1) * kScoreGapLeading + BonusAt(haystack, i)
      passed == IF i = 1 THEN score ELSE Plus(score, kScoreGapTrailing)
  IN IF ToLower(needle[1]) = ToLower(haystack[i]) THEN Larger(passed, here)
     ELSE passed

(* scoreSSE<N>, for N = Lanes * registers: the needle's characters, and    *)
(* the numbers D and M of each, side by side in registers.                 *)
Registers(needle) == 1..(Len(needle) + Lanes - 1) \div Lanes
Register(e(_, _), needle) ==
  [r \in Registers(needle) |-> [l \in 1..Lanes |-> e(r, l)]]

(* kGapTable, read from the place where its kScoreGapTrailing falls on the *)
(* needle's last character; all other registers hold kScoreGapInner.       *)
GapTable == [i \in 0..2 * Lanes - 2 |->
  IF i \in {Lanes - 2, 2 * Lanes - 2} THEN kScoreGapTrailing ELSE kScoreGapInner]
Gap(needle, r, l) ==
  IF r < Max(Registers(needle)) THEN kScoreGapInner
  ELSE GapTable[Lanes - 1 - (Len(needle) % Lanes) + l - 1]

EmptyLanes(needle) ==
  LET least(r, l) == kScoreMin
  IN [d |-> Register(least, needle), m |-> Register(least, needle), g |-> 0]


(* One turn of the loop of scoreSSE: each register is rotated by one lane, *)
(* and its first lane comes from the register before it, or is a leading   *)
(* gap.                                                                    *)
LanesStep(needle, haystack, i, regs) ==
  LET b == BonusAt(haystack, i)
      char(r, l) == LET n == (r - 1) * Lanes + l
                    IN IF n > Len(needle) THEN Zero ELSE ToLower(needle[n])
      sum(r, l) == Larger(Plus(regs.m[r][l], b),
                          Plus(regs.d[r][l], kScoreMatchConsecutive))
      rotated(r, l) == sum(r, IF l = 1 THEN Lanes ELSE l - 1)
      s(r, l) == IF l > 1 THEN rotated(r, l)
                 ELSE IF r > 1 THEN rotated(r - 1, 1) ELSE regs.g + b
      d(r, l) == IF char(r, l) = ToLower(haystack[i]) THEN s(r, l) ELSE kScoreMin
      m(r, l) == Larger(d(r, l), Plus(regs.m[r][l], Gap(needle, r, l)))
  IN [d |-> Register(d, needle), m |-> Register(m, needle),
      g |-> regs.g + kScoreGapLeading]

(* extractv(m, (needle.size() + 3) & 0b11) of the last register. *)
LanesResult(needle, regs) ==
  regs.m[Max(Registers(needle))][((Len(needle) + Lanes - 1) % Lanes) + 1]
=============================================================================
