------------------------------- MODULE Match -------------------------------
(***************************************************************************)
(* Whether a string matches a term of a query: src/fzx/match.cpp.  A       *)
(* string is a sequence of characters; a character is itself, and capitals *)
(* have a lower case (src/fzx/strings.hpp).                                *)
(***************************************************************************)
EXTENDS Integers, Sequences, FiniteSets, FiniteSetsExt

CONSTANT Width  \* bytes of a register: kAlign, 16 in the code

ASSUME MatchAssumption == Width \in Nat \ {0}

Capitals == [A |-> "a", B |-> "b"]
ToLower(c) == IF c \in DOMAIN Capitals THEN Capitals[c] ELSE c
Zero == "nul"  \* what items are padded with

(* matchFuzzyNaive, used where there is no SSE: the needle's character     *)
(* itself or its upper case, so that a capital matches only itself.        *)
RECURSIVE FuzzyNaive(_, _)
FuzzyNaive(needle, haystack) ==
  \/ needle = <<>>
  \/ LET found == {i \in DOMAIN haystack :
                     \/ haystack[i] = Head(needle)
                     \/ /\ haystack[i] \in DOMAIN Capitals
                        /\ ToLower(haystack[i]) = Head(needle)}
     IN /\ found # {}
        /\ FuzzyNaive(Tail(needle), SubSeq(haystack, Min(found) + 1, Len(haystack)))

(* Mistake: the mask of one chunk is used for the next. *)
FuzzySSE_KeepPos(needle, haystack) ==
  LET padded == ((Len(haystack) + Width - 1) \div Width) * Width
      byte(i) == IF i <= Len(haystack) THEN ToLower(haystack[i]) ELSE Zero
      RECURSIVE loop(_, _, _)
      loop(chunk, pos, n) ==
        LET mask == {p \in pos..Width - 1 :
                       byte(chunk + p + 1) = ToLower(needle[n])}
            next == IF mask = {} THEN 0 ELSE (Min(mask) + 1) % Width
            k == IF mask = {} THEN n ELSE n + 1
        IN IF k > Len(needle) THEN TRUE
           ELSE IF next # 0 THEN loop(chunk, next, k)
           ELSE chunk + Width < padded /\ loop(chunk + Width, pos, k)
  IN needle = <<>> \/ (padded > 0 /\ loop(0, 0, 1))

(* matchFuzzySSE: the positions of the needle's nth character in a chunk   *)
(* of Width bytes are found at once, those before pos are masked out.      *)
FuzzySSE(needle, haystack) ==
  LET padded == ((Len(haystack) + Width - 1) \div Width) * Width
      byte(i) == IF i <= Len(haystack) THEN ToLower(haystack[i]) ELSE Zero
      RECURSIVE loop(_, _, _)
      loop(chunk, pos, n) ==
        LET mask == {p \in pos..Width - 1 :
                       byte(chunk + p + 1) = ToLower(needle[n])}
            next == IF mask = {} THEN 0 ELSE (Min(mask) + 1) % Width
            k == IF mask = {} THEN n ELSE n + 1
        IN IF k > Len(needle) THEN TRUE
           ELSE IF next # 0 THEN loop(chunk, next, k)
           ELSE chunk + Width < padded /\ loop(chunk + Width, 0, k)
  IN needle = <<>> \/ (padded > 0 /\ loop(0, 0, 1))

(* The needle is found at a place of the haystack, ignoring case. *)
At(needle, haystack, start) ==
  /\ start + Len(needle) <= Len(haystack)
  /\ \A i \in DOMAIN needle :
       ToLower(needle[i]) = ToLower(haystack[start + i])

MatchBegin(needle, haystack) == At(needle, haystack, 0)

MatchEnd(needle, haystack) ==
  /\ Len(needle) <= Len(haystack)
  /\ At(needle, haystack, Len(haystack) - Len(needle))

MatchExact(needle, haystack) ==
  Len(needle) = Len(haystack) /\ At(needle, haystack, 0)

MatchSubstr(needle, haystack) ==
  \E i \in 0..Len(haystack) - Len(needle) : At(needle, haystack, i)

(* matchSubstrIndex: the first place, or -1. *)
MatchSubstrIndex(needle, haystack) ==
  LET found == {i \in 0..Len(haystack) - Len(needle) : At(needle, haystack, i)}
  IN IF found = {} THEN -1 ELSE Min(found)
=============================================================================
