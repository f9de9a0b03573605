------------------------------- MODULE Search -------------------------------
(***************************************************************************)
(* A search, without the threads: a line is typed and parsed, items arrive *)
(* character by character, each is matched and scored by some worker, and  *)
(* the workers' lists are sorted and merged.  The loops that go through an *)
(* item once (score1, scoreSSE) are steps of the specification: after each *)
(* character, what was read so far could be a whole item.                  *)
(***************************************************************************)
EXTENDS MatchedItem, SequencesExt

CONSTANTS
  LineChars,     \* the characters of a line
  ItemChars,     \* the characters of an item
  Workers,
  MaxRegisters,  \* registers of the largest scoreSSE<N>, 4 in the code
  MayType(_),    \* bound: the lines that are typed
  MayRead(_, _, _)  \* bound: a line, the items before, an item's text

ASSUME SearchAssumption == MaxRegisters \in Nat \ {0}

VARIABLES
  line,   \* the line typed
  query,  \* the terms of the line
  text,   \* what was read of the current item
  loops,  \* for each scored term, where its loop is
  past,   \* the items before: whether they matched, and their scores
  found   \* found[w]: the matched items of a worker, Results::mItems

vars == <<line, query, text, loops, past, found>>

Needle(k) == query[k].text

FirstTurn(q) == [k \in Scored(q) |->
  IF Len(q[k].text) = 1 THEN kScoreMin ELSE EmptyLanes(q[k].text)]

Init ==
  /\ line = <<>> /\ query = <<>> /\ text = <<>> /\ loops = <<>> /\ past = <<>>
  /\ found = [w \in Workers |-> <<>>]

(* Query::score chooses the form by the size of the term. *)
ScoreOfTerm(k) ==
  LET n == Needle(k)
  IN IF Len(n) = 1 THEN Guarded(n, text, loops[k])
     ELSE IF Len(n) <= Lanes * MaxRegisters
     THEN Guarded(n, text, LanesResult(n, loops[k]))
     ELSE TableScore(n, text)

ScoreNow ==
  QueryScore(query, [k \in Scored(query) |-> ScoreOfTerm(k)])

Type(c) ==
  /\ past = <<>> /\ text = <<>>
  /\ line' = Append(line, c) /\ MayType(line')
  /\ query' = Parse(line')
  /\ loops' = FirstTurn(query')
  /\ UNCHANGED <<text, past, found>>

Read(c) ==
  /\ query # <<>>
  /\ text' = Append(text, c) /\ MayRead(line, Len(past), text')
  /\ loops' = [k \in Scored(query) |->
       IF Len(Needle(k)) = 1
       THEN Score1Step(Needle(k), text', Len(text'), loops[k])
       ELSE LanesStep(Needle(k), text', Len(text'), loops[k])]
  /\ UNCHANGED <<line, query, past, found>>

Take(w) ==
  /\ text # <<>>
  /\ IF QueryMatches(query, text)
     THEN found' = [found EXCEPT ![w] = Append(@, Pack(Len(past), ScoreNow))]
     ELSE UNCHANGED found
  /\ past' = Append(past, [matches |-> QueryMatches(query, text),
                           score |-> ScoreNow])
  /\ text' = <<>>
  /\ loops' = FirstTurn(query)
  /\ UNCHANGED <<line, query>>

Next ==
  \/ \E c \in LineChars : Type(c)
  \/ \E c \in ItemChars : Read(c)
  \/ \E w \in Workers : Take(w)

Spec == Init /\ [][Next]_vars
-----------------------------------------------------------------------------
(* An alignment: the places of an item a needle's characters are matched   *)
(* with.                                                                   *)
Spells(places, needle, s) ==
  /\ Cardinality(places) = Len(needle)
  /\ \A p \in places :
       ToLower(s[p]) = ToLower(needle[Cardinality({q \in places : q <= p})])

(* All of them, from the places of the last character backwards. *)
RECURSIVE Alignments(_, _)
Alignments(needle, s) ==
  IF needle = <<>> THEN {{}}
  ELSE UNION {{P \union {p} :
                P \in Alignments(Front(needle), SubSeq(s, 1, p - 1))} :
              p \in {i \in DOMAIN s : ToLower(s[i]) = ToLower(Last(needle))}}

(* What an alignment is worth: gaps before, between and after, a bonus for *)
(* where a character stands or for following the one before.               *)
Worth(places, s) ==
  LET before(p) == {q \in places : q < p}
      gap(p) == p - Max(before(p)) - 1
      at(p) == IF before(p) = {}
               THEN (p - 1) * kScoreGapLeading + BonusAt(s, p)
               ELSE IF gap(p) = 0
               THEN Larger(kScoreMatchConsecutive, BonusAt(s, p))
               ELSE gap(p) * kScoreGapInner + BonusAt(s, p)
  IN MapThenSumSet(at, places) + (Len(s) - Max(places)) * kScoreGapTrailing

Matched == query # <<>> /\ text # <<>> /\ QueryMatches(query, text)

(* The match in chunks of a register's width finds a needle, across any    *)
(* number of chunks and up to the padding, exactly when its characters are *)
(* there in order, ignoring case; so does the plain one, but for needles   *)
(* with capitals.                                                          *)
FuzzyIsSubsequence ==
  \A k \in DOMAIN query :
    LET n == Needle(k)
        found1 == Alignments(n, text) # {}
    IN text # <<>> =>
         /\ FuzzySSE(n, text) <=> found1
         /\ (\A i \in DOMAIN n : n[i] \notin DOMAIN Capitals) =>
              (FuzzyNaive(n, text) <=> found1)


(* The score of an item that matches is a number: no term gives plus and   *)
(* another minus infinity.  It is minus infinity only for an item beyond   *)
(* kMatchMaxLen, which so is ranked below all others.                      *)
LongItemsLast ==
  Matched =>
    /\ ScoreNow.den # 0
    /\ ScoreNow.num = kScoreMin <=>
         Scored(query) # {} /\ Len(text) > kMatchMaxLen

(* What is highlighted in an item that matches: for each fuzzy term an     *)
(* alignment of it, for the others the text itself, and nothing outside    *)
(* the item.                                                               *)
PositionsSpellQuery ==
  Matched =>
    /\ QueryPositions(query, text) \subseteq DOMAIN text
    /\ \A k \in DOMAIN query :
         LET P == TermPositions(query[k], text)
         IN ~query[k].not =>
              \/ Spells(P, Needle(k), text)
              \/ (query[k].type = "fuzzy" /\ Len(text) > kMatchMaxLen)

(* The comment in matchPositions: "backtrace to find the positions of      *)
(* optimal matching".                                                      *)
PositionsAreOptimal ==
  Matched =>
    \A k \in Scored(query) :
      LET n == Needle(k)
      IN Len(n) < Len(text) /\ Len(text) <= kMatchMaxLen =>
           Worth(MatchPositions(n, text), text) = TableScore(n, text)
-----------------------------------------------------------------------------
(* What worker 0 publishes: every list sorted, and merged one by one. *)
Sorted(s) == SortSeq(s, <)
MergedResults == FoldLeft(Merge2, <<>>, [i \in 1..Cardinality(Workers) |->
                   Sorted(found[SetToSeq(Workers)[i]])])

(* However the items were shared out, the merged list has each item that   *)
(* matched once, in the order that the comment of MatchedItem gives: by    *)
(* falling score, and by index where scores are equal.                     *)
ResultsRanked ==
  LET r == MergedResults
      hits == {i \in DOMAIN past : past[i].matches}
  IN /\ Len(r) = Cardinality(hits)
     /\ {IndexOf(r[i]) + 1 : i \in DOMAIN r} = hits
     /\ \A i \in 1..Len(r) - 1 :
          LET a == ScoreOf(r[i])
              b == ScoreOf(r[i + 1])
          IN a > b \/ (a = b /\ IndexOf(r[i]) < IndexOf(r[i + 1]))

(* Packing cuts a mean towards zero and does no more: an item that is      *)
(* better by a point or more comes first, unless both scores are less than *)
(* a point from zero, where all of them become 0.  So the sign of a score, *)
(* the infinities and the index in the low bits never upset the order.     *)
RankingIsMonotone ==
  LET r == MergedResults
      score(i) == past[IndexOf(r[i]) + 1].score
      nearZero(q) == -q.den < q.num /\ q.num < q.den
  IN \A i, j \in DOMAIN r :
       LET a == score(i)
           b == score(j)
       IN i < j => \/ b.num * a.den < a.num * b.den + a.den * b.den
                   \/ nearZero(a) /\ nearZero(b)
=============================================================================
