------------------------------- MODULE Query -------------------------------
(***************************************************************************)
(* The query: src/fzx/query.cpp.  A line of words, each a term of its own; *)
(* an item matches when it matches every term, and its score is the mean   *)
(* of the scores of its fuzzy terms.                                       *)
(***************************************************************************)
EXTENDS Score

(* parseSubstr, of one word: no term when nothing is left of it. *)
ParseWord(word) ==
  LET not == word[1] = "!"
      ss == IF not THEN Tail(word) ELSE word
      n == Len(ss)
      term(type, from, to) ==
        IF from > to THEN <<>>
        ELSE <<[type |-> type, not |-> not, text |-> SubSeq(ss, from, to)]>>
  IN IF n = 0 THEN <<>>
     ELSE IF ss[1] = "'" THEN term("substr", 2, n)
     ELSE IF ss[1] = "^" /\ ss[n] = "$" THEN term("exact", 2, n - 1)
     ELSE IF ss[1] = "^" THEN term("begin", 2, n)
     ELSE IF ss[n] = "$" THEN term("end", 1, n - 1)
     ELSE term("fuzzy", 1, n)

RECURSIVE Parse(_)
Parse(line) ==
  LET space == Min({i \in DOMAIN line : line[i] = " "} \union {Len(line) + 1})
      word == SubSeq(line, 1, space - 1)
  IN IF line = <<>> THEN <<>>
     ELSE (IF word = <<>> THEN <<>> ELSE ParseWord(word))
          \o Parse(SubSeq(line, space + 1, Len(line)))

TermMatches(term, s) ==
  CASE term.type = "fuzzy"  -> FuzzySSE(term.text, s)
    [] term.type = "substr" -> MatchSubstr(term.text, s)
    [] term.type = "begin"  -> MatchBegin(term.text, s)
    [] term.type = "end"    -> MatchEnd(term.text, s)
    [] term.type = "exact"  -> MatchExact(term.text, s)

QueryMatches(query, s) ==
  \A k \in DOMAIN query : TermMatches(query[k], s) # query[k].not

(* The terms that are scored. *)
Scored(query) ==
  {k \in DOMAIN query : query[k].type = "fuzzy" /\ ~query[k].not}

(* Query::score, from the scores of the scored terms: a fraction, or one   *)
(* of the infinities, or not a number when both are added.                 *)
QueryScore(query, scoreOf) ==
  LET scores == {scoreOf[k] : k \in Scored(query)}
      sum == MapThenSumSet(LAMBDA k : scoreOf[k], Scored(query))
  IN IF Scored(query) = {} THEN [num |-> 0, den |-> 1]
     ELSE IF {kScoreMin, kScoreMax} \subseteq scores THEN [num |-> 0, den |-> 0]
     ELSE IF kScoreMin \in scores THEN [num |-> kScoreMin, den |-> 1]
     ELSE IF kScoreMax \in scores THEN [num |-> kScoreMax, den |-> 1]
     ELSE [num |-> sum, den |-> Cardinality(Scored(query))]

(* Query::matchPositions of one term, for a string that matches. *)
TermPositions(term, s) ==
  LET n == Len(term.text)
      start == MatchSubstrIndex(term.text, s)
  IN IF term.not THEN {}
     ELSE CASE term.type = "fuzzy"  -> MatchPositions(term.text, s)
            [] term.type = "substr" -> start + 1..start + n
            [] term.type = "begin"  -> 1..n
            [] term.type = "end"    -> Len(s) - n + 1..Len(s)
            [] term.type = "exact"  -> DOMAIN s

QueryPositions(query, s) ==
  UNION {TermPositions(query[k], s) : k \in DOMAIN query}
=============================================================================
