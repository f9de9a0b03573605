---------------------------- MODULE LineScanner ----------------------------
(* fzx::LineScanner (helper/line_scanner.hpp): cuts the chunks of a stream *)
(* into lines.  buf is mBuf, the part of a line that earlier chunks held;  *)
(* empty lines are dropped.                                                *)
EXTENDS Integers, Sequences, FiniteSets

CONSTANT NL     \* the character that ends a line

(* A finite set of numbers in their order: the k-th of them is the one     *)
(* that is greater than k - 1 others.                                      *)
Sorted(S) ==
  [k \in 1..Cardinality(S) |->
     CHOOSE i \in S : Cardinality({j \in S : j <= i}) = k]

Newlines(text) == Sorted({i \in DOMAIN text : text[i] = NL})

(* What stands before each newline of the chunk, and after the last.       *)
Segments(chunk) ==
  LET nl == <<0>> \o Newlines(chunk)
  IN [k \in 1..Len(Newlines(chunk)) |-> SubSeq(chunk, nl[k] + 1, nl[k + 1] - 1)]

Rest(chunk) ==
  LET nl == <<0>> \o Newlines(chunk)
  IN SubSeq(chunk, nl[Len(nl)] + 1, Len(chunk))

Push(st, line) == [buf |-> <<>>, lines |-> Append(st.lines, line)]

(* The buffer is not empty after an empty segment: the line is forgotten.  *)
FeedSegment_DropBuffer(st, segment) ==
  IF segment = <<>> THEN st ELSE Push(st, st.buf \o segment)

FeedSegment(st, segment) ==
  CASE segment = <<>> /\ st.buf = <<>> -> st
    [] segment = <<>> /\ st.buf # <<>> -> Push(st, st.buf)
    [] segment # <<>> /\ st.buf = <<>> -> Push(st, segment)
    [] OTHER                           -> Push(st, st.buf \o segment)

(* The turns of the loop that find a newline. *)
FeedSegments(buf, segments) ==
  LET fed[n \in 0..Len(segments)] ==
        IF n = 0 THEN [buf |-> buf, lines |-> <<>>]
        ELSE FeedSegment(fed[n - 1], segments[n])
  IN fed[Len(segments)]

(* feed(): the lines pushed and the new buffer. *)
Feed(buf, chunk) ==
  LET st == FeedSegments(buf, Segments(chunk))
  IN [buf |-> st.buf \o Rest(chunk), lines |-> st.lines]

(* finalize(): the last line may lack its newline. *)
Finalize(buf) == IF buf = <<>> THEN <<>> ELSE <<buf>>

(* What is meant: the lines of a text that is also cut after some of its   *)
(* positions, without the empty ones.  The k-th line is between the k-th   *)
(* place where one starts and the k-th place where one ends.               *)
LineStarts(text, cuts) ==
  {i \in DOMAIN text : text[i] # NL /\ (i = 1 \/ text[i - 1] = NL \/ i - 1 \in cuts)}

LineEnds(text, cuts) ==
  {i \in DOMAIN text :
     text[i] # NL /\ (i = Len(text) \/ text[i + 1] = NL \/ i \in cuts)}

Lines(text, cuts) ==
  LET starts == Sorted(LineStarts(text, cuts))
      ends == Sorted(LineEnds(text, cuts))
  IN [k \in DOMAIN starts |-> SubSeq(text, starts[k], ends[k])]
=============================================================================
