-------------------------- MODULE LineScannerProofs --------------------------
(***************************************************************************)
(* What LineScanner makes of a text: the items and the unfinished line     *)
(* after any chunk are the lines of what was read.  A chunk is read as its *)
(* characters are, one after the other; so the lemmas say first what one   *)
(* more character does to each definition.  The theorems about TermApp and *)
(* Plugin, which both read lines, rest on these.                           *)
(***************************************************************************)
EXTENDS LineScanner, FiniteSetTheorems, SequenceTheorems, WellFoundedInduction,
        TLAPS

-----------------------------------------------------------------------------
(* Numbers                                                                 *)

LEMMA LeastNumber ==
  ASSUME NEW S \in SUBSET Nat, S # {}
  PROVE  \E m \in S : \A k \in S : m <= k
<1> DEFINE R == {p \in Nat \X Nat : p[1] < p[2]}
<1>1. IsWellFoundedOn(R, Nat)
  BY NatLessThanWellFounded DEF OpToRel
<1> HIDE DEF R
<1>2. PICK m \in S : \A k \in S : <<k, m>> \notin R
  BY <1>1, WFMin
<1>3. ASSUME NEW k \in S PROVE ~(k < m)
  <2>1. <<k, m>> \in Nat \X Nat /\ <<k, m>>[1] = k /\ <<k, m>>[2] = m
    BY <1>3
  <2> QED
    BY <1>2, <1>3, <2>1 DEF R
<1> QED
  BY <1>3

(* A number greater than those of S comes last. *)
LEMMA SortedAdd ==
  ASSUME NEW n \in Nat, NEW S \in SUBSET (1..n), NEW m \in Nat, n < m
  PROVE  /\ Cardinality(S) \in Nat
         /\ Cardinality(S \union {m}) = Cardinality(S) + 1
         /\ Sorted(S \union {m}) = Append(Sorted(S), m)
<1> DEFINE T == S \union {m}
           Upto(X, i) == {j \in X : j <= i}
<1>1. IsFiniteSet(S) /\ Cardinality(S) \in Nat
  <2>1. IsFiniteSet(1..n)
    BY FS_Interval
  <2> QED
    BY <2>1, FS_Subset, FS_CardinalityType
<1>2. Cardinality(T) = Cardinality(S) + 1
  <2>1. m \notin S
    OBVIOUS
  <2> QED
    BY <1>1, <2>1, FS_AddElement
<1>3. \A i \in S : Upto(T, i) = Upto(S, i)
  <2>1. \A i \in S : ~(m <= i)
    OBVIOUS
  <2> QED
    BY <2>1
<1>4. Upto(T, m) = T
  <2>1. \A i \in T : i <= m
    OBVIOUS
  <2> QED
    BY <2>1
<1>5. \A i \in S : Cardinality(Upto(S, i)) \in Nat /\ Cardinality(Upto(S, i)) <= Cardinality(S)
  <2> SUFFICES ASSUME NEW i \in S
               PROVE  Cardinality(Upto(S, i)) \in Nat /\ Cardinality(Upto(S, i)) <= Cardinality(S)
    OBVIOUS
  <2>1. Upto(S, i) \in SUBSET S
    OBVIOUS
  <2> HIDE DEF Upto
  <2> QED
    BY <1>1, <2>1, FS_Subset, FS_CardinalityType
<1>6. ASSUME NEW k \in 1..Cardinality(S)
      PROVE  (CHOOSE i \in T : Cardinality(Upto(T, i)) = k)
               = (CHOOSE i \in S : Cardinality(Upto(S, i)) = k)
  <2>1. \A i : i \in T /\ Cardinality(Upto(T, i)) = k
                 <=> i \in S /\ Cardinality(Upto(S, i)) = k
    <3>1. Cardinality(Upto(T, m)) # k
      BY <1>1, <1>2, <1>4
    <3>2. \A i : i \in T <=> i \in S \/ i = m
      OBVIOUS
    <3>3. m \notin S
      OBVIOUS
    <3> HIDE DEF T, Upto
    <3> QED
      BY <1>3, <3>1, <3>2, <3>3, Zenon
  <2> HIDE DEF T, Upto
  <2> QED
    BY <2>1, Zenon
<1>7. (CHOOSE i \in T : Cardinality(Upto(T, i)) = Cardinality(T)) = m
  <2>1. \A i \in T : Cardinality(Upto(T, i)) = Cardinality(T) <=> i = m
    <3> HIDE DEF Upto
    <3> QED
      BY <1>1, <1>2, <1>3, <1>4, <1>5
  <2> HIDE DEF Upto
  <2> QED
    BY <2>1
<1> DEFINE V == {Sorted(S)[k] : k \in 1..Cardinality(S)} \union {m}
<1>8. /\ Sorted(S) = [k \in 1..Cardinality(S) |->
                        CHOOSE i \in S : Cardinality(Upto(S, i)) = k]
      /\ Sorted(T) = [k \in 1..Cardinality(S) + 1 |->
                        CHOOSE i \in T : Cardinality(Upto(T, i)) = k]
  BY <1>2 DEF Sorted
<1>9. \A k \in 1..Cardinality(S) : Sorted(S)[k] \in V
  OBVIOUS
<1>10. m \in V
  OBVIOUS
<1> HIDE DEF T, Upto, V
<1>11. Sorted(S) \in Seq(V) /\ Len(Sorted(S)) = Cardinality(S)
  <2>1. Sorted(S) \in [1..Cardinality(S) -> V]
    BY <1>8, <1>9
  <2> QED
    BY <1>1, <2>1
<1>12. /\ Sorted(T) \in Seq(V) /\ Len(Sorted(T)) = Cardinality(S) + 1
       /\ Sorted(T)[Cardinality(S) + 1] = m
       /\ \A k \in 1..Cardinality(S) : Sorted(T)[k] = Sorted(S)[k]
  <2>2. \A k \in 1..Cardinality(S) : Sorted(T)[k] = Sorted(S)[k]
    BY <1>1, <1>6, <1>8
  <2>3. Sorted(T)[Cardinality(S) + 1] = m
    BY <1>1, <1>2, <1>7, <1>8
  <2>4. Sorted(T) \in [1..Cardinality(S) + 1 -> V]
    <3>1. \A k \in 1..Cardinality(S) + 1 : k \in 1..Cardinality(S) \/ k = Cardinality(S) + 1
      BY <1>1
    <3> QED
      BY <1>8, <1>9, <1>10, <2>2, <2>3, <3>1
  <2> QED
    BY <1>1, <2>2, <2>3, <2>4
<1>13. /\ Append(Sorted(S), m) \in Seq(V)
       /\ Len(Append(Sorted(S), m)) = Cardinality(S) + 1
       /\ Append(Sorted(S), m)[Cardinality(S) + 1] = m
       /\ \A k \in 1..Cardinality(S) : Append(Sorted(S), m)[k] = Sorted(S)[k]
  BY <1>10, <1>11, AppendProperties
<1>14. Sorted(T) = Append(Sorted(S), m)
  BY <1>1, <1>12, <1>13, SeqEqual
<1> QED
  BY <1>1, <1>2, <1>14 DEF T

LEMMA SortedType ==
  ASSUME NEW n \in Nat, NEW S \in SUBSET (1..n)
  PROVE  /\ Sorted(S) \in Seq(S)
         /\ Cardinality(S) \in Nat /\ Len(Sorted(S)) = Cardinality(S)
<1> DEFINE Bad == {k \in Nat : \E X \in SUBSET (1..k) : Sorted(X) \notin Seq(X)}
<1>1. Bad = {}
  <2> SUFFICES ASSUME Bad # {} PROVE FALSE
    OBVIOUS
  <2>1. PICK b \in Bad : \A k \in Bad : b <= k
    <3> HIDE DEF Bad
    <3>1. Bad \in SUBSET Nat
      BY DEF Bad
    <3> QED
      BY <3>1, LeastNumber
  <2>2. PICK X \in SUBSET (1..b) : Sorted(X) \notin Seq(X)
    OBVIOUS
  <2>3. CASE b = 0
    <3>1. X = {}
      BY <2>3
    <3>2. Sorted(X) = <<>>
      <4>1. Cardinality({}) = 0
        BY FS_EmptySet
      <4>2. Sorted({}) = [k \in 1..0 |-> CHOOSE i \in {} : Cardinality({j \in {} : j <= i}) = k]
        BY <4>1 DEF Sorted
      <4> QED
        BY <3>1, <4>2
    <3> QED
      BY <2>2, <3>2
  <2>4. CASE b # 0
    <3> DEFINE Y == X \ {b}
    <3>1. b - 1 \in Nat /\ Y \in SUBSET (1..b - 1) /\ b - 1 < b
      BY <2>4
    <3>2. Sorted(Y) \in Seq(Y)
      <4>1. b - 1 \notin Bad
        BY <2>1, <3>1, SMTT(30)
      <4> HIDE DEF Y
      <4> QED
        BY <3>1, <4>1
    <3>3. CASE b \notin X
      BY <2>2, <3>2, <3>3
    <3>4. CASE b \in X
      <4>1. X = Y \union {b} /\ Y \subseteq X
        BY <3>4
      <4> HIDE DEF Y
      <4>2. Sorted(X) = Append(Sorted(Y), b)
        BY <3>1, <4>1, SortedAdd
      <4>3. Sorted(Y) \in Seq(X)
        BY <3>2, <4>1, SeqMonotonic
      <4> QED
        BY <2>2, <3>4, <4>2, <4>3, AppendProperties
    <3> QED
      BY <3>3, <3>4
  <2> QED
    BY <2>3, <2>4
<1>2. Sorted(S) \in Seq(S)
  BY <1>1
<1>3. Cardinality(S) \in Nat
  <2>1. IsFiniteSet(1..n)
    BY FS_Interval
  <2> QED
    BY <2>1, FS_Subset, FS_CardinalityType
<1>4. Len(Sorted(S)) = Cardinality(S)
  BY <1>3 DEF Sorted
<1> QED
  BY <1>2, <1>3, <1>4

-----------------------------------------------------------------------------
(* The loop of feed()                                                      *)

Fed(f, line, segments) ==
  f = [n \in 0..Len(segments) |->
         IF n = 0 THEN [buf |-> line, lines |-> <<>>]
         ELSE FeedSegment(f[n - 1], segments[n])]

LEMMA FedExists ==
  ASSUME NEW line, NEW T, NEW segments \in Seq(T)
  PROVE  \E f : Fed(f, line, segments)
<1> DEFINE base == [buf |-> line, lines |-> <<>>]
           UpTo(f, m) == f = [n \in 0..m |-> IF n = 0 THEN base
                                            ELSE FeedSegment(f[n - 1], segments[n])]
           Bad == {m \in Nat : ~\E f : UpTo(f, m)}
<1> HIDE DEF base
<1>1. Bad = {}
  <2> SUFFICES ASSUME Bad # {} PROVE FALSE
    OBVIOUS
  <2>1. PICK b \in Bad : \A k \in Bad : b <= k
    <3> HIDE DEF Bad
    <3>1. Bad \in SUBSET Nat
      BY DEF Bad
    <3> QED
      BY <3>1, LeastNumber
  <2>2. b # 0
    <3> DEFINE f0 == [n \in 0..0 |-> base]
    <3>1. UpTo(f0, 0)
      <4>1. f0 = [n \in 0..0 |-> IF n = 0 THEN base
                                ELSE FeedSegment(f0[n - 1], segments[n])]
        <5>1. \A n \in 0..0 : n = 0 /\ f0[n] = base
          OBVIOUS
        <5> HIDE DEF f0
        <5> DEFINE g0 == [n \in 0..0 |-> IF n = 0 THEN base
                                        ELSE FeedSegment(f0[n - 1], segments[n])]
        <5>2. \A n \in 0..0 : g0[n] = base
          BY <5>1
        <5>3. f0 = [n \in 0..0 |-> base]
          BY DEF f0
        <5>4. g0 = [n \in 0..0 |-> g0[n]]
          OBVIOUS
        <5> HIDE DEF g0
        <5> QED
          BY <5>2, <5>3, <5>4 DEF g0
      <4> QED
        BY <4>1
    <3> QED
      BY <3>1
  <2>3. b - 1 \in Nat /\ b - 1 \notin Bad
    <3>1. b \in Nat
      OBVIOUS
    <3> HIDE DEF Bad
    <3> QED
      BY <2>1, <2>2, <3>1
  <2>4. PICK f : UpTo(f, b - 1)
    BY <2>3
  <2> DEFINE g == [n \in 0..b |-> IF n = b THEN FeedSegment(f[b - 1], segments[b])
                                  ELSE f[n]]
  <2>5. \A n \in 0..b - 1 : g[n] = f[n]
    BY <2>2
  <2>6. ASSUME NEW n \in 0..b
        PROVE  g[n] = IF n = 0 THEN base ELSE FeedSegment(g[n - 1], segments[n])
    <3>1. CASE n = b
      BY <2>2, <2>5, <3>1
    <3>2. CASE n # b
      <4>1. n \in 0..b - 1 /\ (n # 0 => n - 1 \in 0..b - 1)
        BY <2>2, <3>2
      <4> HIDE DEF g
      <4> QED
        BY <2>4, <2>5, <4>1
    <3> QED
      BY <3>1, <3>2
  <2>7. UpTo(g, b)
    <3>1. g = [n \in 0..b |-> g[n]]
      OBVIOUS
    <3> HIDE DEF g
    <3> QED
      BY <2>6, <3>1
  <2> QED
    BY <2>1, <2>7
<1>2. Len(segments) \in Nat
  OBVIOUS
<1>3. \E f : UpTo(f, Len(segments))
  BY <1>1, <1>2
<1> QED
  BY <1>3 DEF Fed, base

LEMMA FeedSegmentsIsFed ==
  ASSUME NEW line, NEW T, NEW segments \in Seq(T)
  PROVE  \E f : Fed(f, line, segments) /\ FeedSegments(line, segments) = f[Len(segments)]
<1> DEFINE f == CHOOSE f : Fed(f, line, segments)
<1>1. FeedSegments(line, segments) = f[Len(segments)]
  BY DEF FeedSegments, Fed
<1>2. Fed(f, line, segments)
  BY FedExists
<1> QED
  BY <1>1, <1>2

(* Before the first segment nothing is pushed, and one more segment is one *)
(* more turn of the loop.                                                  *)
LEMMA FeedSegmentsNone ==
  ASSUME NEW line
  PROVE  FeedSegments(line, <<>>) = [buf |-> line, lines |-> <<>>]
<1>1. <<>> \in Seq({}) /\ Len(<<>>) = 0
  OBVIOUS
<1>2. PICK f : Fed(f, line, <<>>) /\ FeedSegments(line, <<>>) = f[0]
  BY <1>1, FeedSegmentsIsFed
<1>3. f = [n \in 0..0 |-> IF n = 0 THEN [buf |-> line, lines |-> <<>>]
                          ELSE FeedSegment(f[n - 1], <<>>[n])]
  BY <1>1, <1>2 DEF Fed
<1> DEFINE base == [buf |-> line, lines |-> <<>>]
<1>4. f[0] = base
  <2> HIDE DEF base
  <2> QED
    BY <1>3 DEF base
<1> QED
  BY <1>2, <1>4

LEMMA FeedSegmentsAppend ==
  ASSUME NEW line, NEW T, NEW segments \in Seq(T), NEW segment \in T
  PROVE  FeedSegments(line, Append(segments, segment))
           = FeedSegment(FeedSegments(line, segments), segment)
<1> DEFINE more == Append(segments, segment)
           m == Len(segments)
<1>1. /\ more \in Seq(T) /\ m \in Nat /\ Len(more) = m + 1
      /\ more[m + 1] = segment
      /\ \A n \in 1..m : more[n] = segments[n]
  BY AppendProperties
<1> HIDE DEF more, m
<1>2. PICK f : Fed(f, line, segments) /\ FeedSegments(line, segments) = f[m]
  BY FeedSegmentsIsFed DEF m
<1>3. PICK g : Fed(g, line, more) /\ FeedSegments(line, more) = g[m + 1]
  BY <1>1, FeedSegmentsIsFed
<1> DEFINE base == [buf |-> line, lines |-> <<>>]
<1>4. \A n \in 0..m : f[n] = IF n = 0 THEN base ELSE FeedSegment(f[n - 1], segments[n])
  <2> HIDE DEF base
  <2> QED
    BY <1>2 DEF Fed, m, base
<1>5. \A n \in 0..m + 1 : g[n] = IF n = 0 THEN base ELSE FeedSegment(g[n - 1], more[n])
  <2> HIDE DEF base
  <2> QED
    BY <1>1, <1>3 DEF Fed, base
<1> HIDE DEF base
<1> DEFINE Bad == {n \in 0..m : f[n] # g[n]}
<1>6. Bad = {}
  <2> SUFFICES ASSUME Bad # {} PROVE FALSE
    OBVIOUS
  <2>1. Bad \in SUBSET Nat
    BY <1>1
  <2>2. PICK b \in Bad : \A k \in Bad : b <= k
    <3> HIDE DEF Bad
    <3> QED
      BY <2>1, LeastNumber
  <2>3. b # 0
    <3>1. 0 \in 0..m /\ 0 \in 0..m + 1
      BY <1>1
    <3> QED
      BY <1>4, <1>5, <3>1
  <2>4. b \in 1..m /\ b \in 0..m /\ b \in 0..m + 1 /\ b - 1 \in 0..m /\ ~(b <= b - 1)
    BY <1>1, <2>3
  <2>5. f[b - 1] = g[b - 1]
    BY <2>2, <2>4
  <2>6. f[b] = g[b]
    BY <1>1, <1>4, <1>5, <2>3, <2>4, <2>5
  <2> QED
    BY <2>6
<1>7. f[m] = g[m]
  BY <1>1, <1>6
<1>8. g[m + 1] = FeedSegment(g[m], segment)
  <2>1. m + 1 \in 0..m + 1 /\ m + 1 # 0 /\ m + 1 - 1 = m
    BY <1>1
  <2> QED
    BY <1>1, <1>5, <2>1
<1> QED
  BY <1>2, <1>3, <1>7, <1>8 DEF more

-----------------------------------------------------------------------------
(* A text that grows by one character                                      *)

LEMMA SubSeqAppend ==
  ASSUME NEW C, NEW text \in Seq(C), NEW c \in C,
         NEW from \in 1..Len(text) + 1
  PROVE  /\ \A to \in Int : to <= Len(text) =>
              SubSeq(Append(text, c), from, to) = SubSeq(text, from, to)
         /\ SubSeq(Append(text, c), from, Len(text) + 1)
              = Append(SubSeq(text, from, Len(text)), c)
<1> DEFINE more == Append(text, c)
           n == Len(text)
<1>1. /\ more \in Seq(C) /\ n \in Nat /\ Len(more) = n + 1
      /\ more[n + 1] = c /\ \A i \in 1..n : more[i] = text[i]
  BY AppendProperties
<1>2. \A i \in 1..n : text[i] \in C
  OBVIOUS
<1>3. from \in Int /\ n + 1 \in Int /\ 1 <= from /\ from <= n + 1
  BY <1>1
<1> HIDE DEF more, n
<1>4. ASSUME NEW to \in Int, to <= n
      PROVE  SubSeq(more, from, to) = SubSeq(text, from, to)
  <2>1. \A i \in from..to : i \in 1..n /\ more[i] = text[i] /\ text[i] \in C
    BY <1>1, <1>2, <1>3, <1>4
  <2>2. /\ SubSeq(text, from, to) \in Seq(C)
        /\ Len(SubSeq(text, from, to)) = IF from <= to THEN to - from + 1 ELSE 0
        /\ \A i \in 1..to - from + 1 : SubSeq(text, from, to)[i] = text[from + i - 1]
    BY <1>3, <1>4, <2>1, SubSeqProperties
  <2>3. /\ SubSeq(more, from, to) \in Seq(C)
        /\ Len(SubSeq(more, from, to)) = IF from <= to THEN to - from + 1 ELSE 0
        /\ \A i \in 1..to - from + 1 : SubSeq(more, from, to)[i] = more[from + i - 1]
    BY <1>3, <1>4, <2>1, SubSeqProperties
  <2>4. \A i \in 1..to - from + 1 : from + i - 1 \in from..to
    BY <1>3, <1>4
  <2>5. \A i \in 1..Len(SubSeq(more, from, to)) :
          SubSeq(more, from, to)[i] = SubSeq(text, from, to)[i]
    BY <1>3, <1>4, <2>1, <2>2, <2>3, <2>4
  <2> QED
    BY <2>2, <2>3, <2>5, SeqEqual
<1>5. SubSeq(more, from, n + 1) = Append(SubSeq(text, from, n), c)
  <2> DEFINE a == SubSeq(more, from, n + 1)
             b == SubSeq(text, from, n)
  <2>1. \A i \in from..n : i \in 1..n /\ text[i] \in C
    BY <1>1, <1>2, <1>3
  <2>2. \A i \in from..n + 1 : more[i] \in C
    BY <1>1, <1>2, <1>3
  <2>3. b \in Seq(C) /\ Len(b) = n - from + 1
        /\ \A i \in 1..n - from + 1 : b[i] = text[from + i - 1]
    BY <1>1, <1>3, <2>1, SubSeqProperties
  <2>4. a \in Seq(C) /\ Len(a) = n - from + 2
        /\ \A i \in 1..n - from + 2 : a[i] = more[from + i - 1]
    BY <1>1, <1>3, <2>2, SubSeqProperties
  <2> HIDE DEF a, b
  <2>5. /\ Append(b, c) \in Seq(C) /\ Len(Append(b, c)) = n - from + 2
        /\ Append(b, c)[n - from + 2] = c
        /\ \A i \in 1..n - from + 1 : Append(b, c)[i] = b[i]
    <3>1. n - from + 1 \in Nat /\ n - from + 1 + 1 = n - from + 2
      BY <1>1, <1>3
    <3>2. /\ Append(b, c) \in Seq(C) /\ Len(Append(b, c)) = Len(b) + 1
          /\ \A i \in 1..Len(b) : Append(b, c)[i] = b[i]
          /\ Append(b, c)[Len(b) + 1] = c
      <4>1. b \in Seq(C)
        BY <2>3
      <4> QED
        BY <4>1
    <3> QED
      BY <2>3, <3>1, <3>2
  <2>6. ASSUME NEW i \in 1..n - from + 2
        PROVE  a[i] = Append(b, c)[i]
    <3>1. CASE i = n - from + 2
      BY <1>1, <1>3, <2>4, <2>5, <3>1
    <3>2. CASE i # n - from + 2
      BY <1>1, <1>3, <2>3, <2>4, <2>5, <3>2
    <3> QED
      BY <3>1, <3>2
  <2>7. a = Append(b, c)
    BY <2>4, <2>5, <2>6, SeqEqual
  <2> QED
    BY <2>7 DEF a, b
<1> QED
  BY <1>4, <1>5 DEF more, n

(* The newlines of a text, and the beginnings of what is between them.     *)
LEMMA NewlinesAppend ==
  ASSUME NEW C, NEW text \in Seq(C), NEW c \in C
  PROVE  Newlines(Append(text, c)) =
           IF c = NL THEN Append(Newlines(text), Len(text) + 1) ELSE Newlines(text)
<1> DEFINE more == Append(text, c)
           n == Len(text)
           S == {i \in 1..n : text[i] = NL}
           T == {i \in 1..n + 1 : more[i] = NL}
<1>1. /\ more \in Seq(C) /\ n \in Nat /\ Len(more) = n + 1
      /\ more[n + 1] = c /\ \A i \in 1..n : more[i] = text[i]
  BY AppendProperties
<1>2. Newlines(text) = Sorted(S) /\ Newlines(more) = Sorted(T)
  <2>1. DOMAIN text = 1..n /\ DOMAIN more = 1..n + 1
    BY <1>1
  <2> QED
    BY <2>1 DEF Newlines
<1>3. T = IF c = NL THEN S \union {n + 1} ELSE S
  <2> HIDE DEF more
  <2>1. \A i : i \in 1..n + 1 <=> i \in 1..n \/ i = n + 1
    BY <1>1
  <2> QED
    BY <1>1, <2>1
<1>4. S \in SUBSET (1..n)
  OBVIOUS
<1> HIDE DEF more, n, S, T
<1>5. Sorted(S \union {n + 1}) = Append(Sorted(S), n + 1)
  <2>1. n + 1 \in Nat /\ n < n + 1
    BY <1>1
  <2> QED
    BY <1>1, <1>4, <2>1, SortedAdd
<1> QED
  BY <1>2, <1>3, <1>5 DEF more, n

LEMMA SegmentsType ==
  ASSUME NEW C, NEW text \in Seq(C)
  PROVE  /\ Newlines(text) \in Seq(1..Len(text))
         /\ <<0>> \o Newlines(text) \in Seq(0..Len(text))
         /\ Len(<<0>> \o Newlines(text)) = Len(Newlines(text)) + 1
         /\ Segments(text) \in Seq(Seq(C))
         /\ Len(Segments(text)) = Len(Newlines(text))
         /\ Rest(text) \in Seq(C)
<1> DEFINE n == Len(text)
           nls == Newlines(text)
           nl == <<0>> \o nls
           m == Len(nls)
<1>1. n \in Nat
  OBVIOUS
<1>2. nls \in Seq(1..n)
  <2> DEFINE S == {i \in 1..n : text[i] = NL}
  <2>1. nls = Sorted(S)
    <3>1. DOMAIN text = 1..n
      OBVIOUS
    <3> QED
      BY <3>1 DEF Newlines
  <2>2. S \in SUBSET (1..n)
    OBVIOUS
  <2> HIDE DEF S, nls
  <2> QED
    BY <1>1, <2>1, <2>2, SortedType, SeqMonotonic
<1> HIDE DEF nls
<1>3. m \in Nat /\ nl \in Seq(0..n) /\ Len(nl) = m + 1
  <2>1. nls \in Seq(0..n)
    <3>1. 1..n \subseteq 0..n
      OBVIOUS
    <3> QED
      BY <1>2, <3>1, SeqMonotonic
  <2>2. <<0>> \in Seq(0..n) /\ Len(<<0>>) = 1
    BY <1>1
  <2> QED
    BY <2>1, <2>2, ConcatProperties
<1>4. \A i \in 1..n : text[i] \in C
  OBVIOUS
<1> HIDE DEF nl, n, m
<1>5. \A k \in 1..m + 1 : nl[k] \in Nat /\ nl[k] <= n
  BY <1>1, <1>3
<1>6. ASSUME NEW k \in 1..m
      PROVE  SubSeq(text, nl[k] + 1, nl[k + 1] - 1) \in Seq(C)
  <2>1. k \in 1..m + 1 /\ k + 1 \in 1..m + 1
    BY <1>3
  <2>2. /\ nl[k] + 1 \in Int /\ nl[k + 1] - 1 \in Int
        /\ \A i \in nl[k] + 1..nl[k + 1] - 1 : i \in 1..n
    BY <1>1, <1>5, <2>1
  <2> QED
    BY <1>4, <2>2, SubSeqProperties
<1>7. Segments(text) = [k \in 1..m |-> SubSeq(text, nl[k] + 1, nl[k + 1] - 1)]
  BY DEF Segments, nl, nls, m
<1>8. Rest(text) \in Seq(C)
  <2>1. m + 1 \in 1..m + 1
    BY <1>3
  <2>2. nl[m + 1] + 1 \in Int /\ n \in Int /\ \A i \in nl[m + 1] + 1..n : i \in 1..n
    BY <1>1, <1>5, <2>1
  <2>3. SubSeq(text, nl[m + 1] + 1, n) \in Seq(C)
    BY <1>4, <2>2, SubSeqProperties
  <2>4. Rest(text) = SubSeq(text, nl[Len(nl)] + 1, n)
    BY DEF Rest, nl, nls, n
  <2> QED
    BY <1>3, <2>3, <2>4
<1>9. Segments(text) \in Seq(Seq(C)) /\ Len(Segments(text)) = m
  <2>1. Segments(text) \in [1..m -> Seq(C)]
    BY <1>6, <1>7
  <2> QED
    BY <1>3, <2>1
<1> QED
  BY <1>2, <1>3, <1>8, <1>9 DEF nl, nls, n, m

LEMMA SegmentsAppend ==
  ASSUME NEW C, NEW text \in Seq(C), NEW c \in C
  PROVE  /\ c # NL => /\ Segments(Append(text, c)) = Segments(text)
                      /\ Rest(Append(text, c)) = Append(Rest(text), c)
         /\ c = NL => /\ Segments(Append(text, c)) = Append(Segments(text), Rest(text))
                      /\ Rest(Append(text, c)) = <<>>
<1> DEFINE more == Append(text, c)
           n == Len(text)
           nls == Newlines(text)
           nl == <<0>> \o nls
           m == Len(nls)
           mls == Newlines(more)
           ml == <<0>> \o mls
<1>1. /\ more \in Seq(C) /\ n \in Nat /\ Len(more) = n + 1
      /\ more[n + 1] = c /\ \A i \in 1..n : more[i] = text[i]
  BY AppendProperties
<1>2. /\ nls \in Seq(1..n) /\ nl \in Seq(0..n) /\ m \in Nat /\ Len(nl) = m + 1
      /\ Segments(text) \in Seq(Seq(C)) /\ Len(Segments(text)) = m
      /\ Rest(text) \in Seq(C)
  <2>1. nls \in Seq(1..n)
    BY SegmentsType
  <2> QED
    BY <2>1, SegmentsType, SMTT(30)
<1>3. /\ Segments(text) = [k \in 1..m |-> SubSeq(text, nl[k] + 1, nl[k + 1] - 1)]
      /\ Rest(text) = SubSeq(text, nl[m + 1] + 1, n)
  BY <1>2 DEF Segments, Rest
<1>4. /\ Segments(more) = [k \in 1..Len(mls) |-> SubSeq(more, ml[k] + 1, ml[k + 1] - 1)]
      /\ Rest(more) = SubSeq(more, ml[Len(ml)] + 1, n + 1)
  BY <1>1 DEF Segments, Rest
<1>5. mls = IF c = NL THEN Append(nls, n + 1) ELSE nls
  BY NewlinesAppend
<1>6. \A k \in 1..m + 1 : nl[k] \in Nat /\ nl[k] <= n /\ nl[k] + 1 \in 1..n + 1
  <2> HIDE DEF more, nls, nl, n, m
  <2>1. \A k \in 1..m + 1 : nl[k] \in 0..n
    <3>1. nl \in Seq(0..n) /\ Len(nl) = m + 1
      BY <1>2
    <3> QED
      BY <3>1, ElementOfSeq
  <2> QED
    BY <1>1, <2>1
<1> HIDE DEF nl, mls
<1>7. \A k \in 1..m : SubSeq(more, nl[k] + 1, nl[k + 1] - 1)
                        = SubSeq(text, nl[k] + 1, nl[k + 1] - 1)
  <2> SUFFICES ASSUME NEW k \in 1..m
               PROVE  SubSeq(more, nl[k] + 1, nl[k + 1] - 1)
                        = SubSeq(text, nl[k] + 1, nl[k + 1] - 1)
    OBVIOUS
  <2>1. k \in 1..m + 1 /\ k + 1 \in 1..m + 1
    BY <1>2
  <2>2. nl[k] + 1 \in 1..n + 1 /\ nl[k + 1] - 1 \in Int /\ nl[k + 1] - 1 <= n
    <3> HIDE DEF n
    <3> QED
      BY <1>1, <1>6, <2>1, SMTT(30)
  <2> QED
    BY <2>2, SubSeqAppend
<1>8. m + 1 \in 1..m + 1 /\ nl[m + 1] + 1 \in 1..n + 1
  BY <1>2, <1>6
<1>9. SubSeq(more, nl[m + 1] + 1, n) = Rest(text)
  <2>1. n \in Int /\ n <= n
    BY <1>1
  <2> QED
    BY <1>3, <1>8, <2>1, SubSeqAppend
<1>10. SubSeq(more, nl[m + 1] + 1, n + 1) = Append(Rest(text), c)
  BY <1>3, <1>8, SubSeqAppend
<1>11. CASE c # NL
  <2>1. mls = nls /\ ml = nl
    BY <1>5, <1>11 DEF nl
  <2>2. Segments(more) = Segments(text)
    <3> HIDE DEF more, nls, m, ml
    <3>1. Segments(more) = [k \in 1..m |-> SubSeq(more, nl[k] + 1, nl[k + 1] - 1)]
      BY <1>4, <2>1 DEF m
    <3> QED
      BY <1>3, <1>7, <3>1
  <2>3. Rest(more) = Append(Rest(text), c)
    BY <1>2, <1>4, <1>10, <2>1
  <2> QED
    BY <1>11, <2>2, <2>3
<1>12. CASE c = NL
  <2>1. /\ mls \in Seq(1..n + 1) /\ Len(mls) = m + 1
        /\ mls[m + 1] = n + 1 /\ \A k \in 1..m : mls[k] = nls[k]
    <3>1. nls \in Seq(1..n + 1)
      <4>1. 1..n \subseteq 1..n + 1
        BY <1>1
      <4> HIDE DEF nls
      <4> QED
        BY <1>2, <4>1, SeqMonotonic
    <3>2. n + 1 \in 1..n + 1
      BY <1>1
    <3> HIDE DEF nls, n
    <3> QED
      BY <1>5, <1>12, <3>1, <3>2, AppendProperties
  <2>2. /\ Len(ml) = m + 2 /\ ml[m + 2] = n + 1
        /\ \A k \in 1..m + 1 : ml[k] = nl[k]
    <3>1. \A k \in 1..m + 1 : nl[k] = IF k = 1 THEN 0 ELSE nls[k - 1]
      <4> HIDE DEF nls
      <4> QED
        BY <1>2 DEF nl
    <3>2. Len(ml) = m + 2 /\ \A k \in 1..m + 2 : ml[k] = IF k = 1 THEN 0 ELSE mls[k - 1]
      <4> HIDE DEF nls, m
      <4> QED
        BY <1>2, <2>1
    <3>3. m + 2 \in 1..m + 2 /\ m + 2 # 1 /\ m + 2 - 1 = m + 1
      BY <1>2
    <3>4. \A k \in 1..m + 1 : k \in 1..m + 2 /\ (k # 1 => k - 1 \in 1..m)
      BY <1>2
    <3>5. mls[m + 1] = n + 1 /\ \A k \in 1..m : mls[k] = nls[k]
      BY <2>1
    <3>6. m \in Nat
      BY <1>2
    <3> HIDE DEF nls, n, m, ml
    <3>7. ml[m + 2] = n + 1
      BY <3>2, <3>3, <3>5, <3>6
    <3>8. \A k \in 1..m + 1 : ml[k] = nl[k]
      BY <3>1, <3>2, <3>4, <3>5
    <3> QED
      BY <3>2, <3>7, <3>8
  <2>3. Segments(more) = Append(Segments(text), Rest(text))
    <3> DEFINE a == Append(Segments(text), Rest(text))
    <3>1. /\ a \in Seq(Seq(C)) /\ Len(a) = m + 1 /\ a[m + 1] = Rest(text)
          /\ \A k \in 1..m : a[k] = Segments(text)[k]
      BY <1>2, AppendProperties
    <3> HIDE DEF a, nls, m, ml
    <3>2. /\ Segments(more) \in Seq(Seq(C))
          /\ Segments(more) = [k \in 1..m + 1 |-> SubSeq(more, ml[k] + 1, ml[k + 1] - 1)]
      <4>1. Segments(more) \in Seq(Seq(C))
        BY <1>1, SegmentsType
      <4> QED
        BY <1>4, <2>1, <4>1 DEF m
    <3>3. Len(Segments(more)) = m + 1
      BY <1>2, <3>2
    <3>4. ASSUME NEW k \in 1..m + 1 PROVE Segments(more)[k] = a[k]
      <4>1. CASE k = m + 1
        <5>1. ml[k] = nl[m + 1] /\ ml[k + 1] - 1 = n
          BY <1>1, <1>2, <2>2, <4>1
        <5> HIDE DEF n, more
        <5> QED
          BY <1>9, <3>1, <3>2, <4>1, <5>1
      <4>2. CASE k # m + 1
        <5>1. k \in 1..m /\ k + 1 \in 1..m + 1
          BY <1>2, <4>2
        <5>2. ml[k] = nl[k] /\ ml[k + 1] = nl[k + 1]
          BY <2>2, <5>1
        <5>3. Segments(text)[k] = SubSeq(text, nl[k] + 1, nl[k + 1] - 1)
          BY <1>3, <5>1
        <5>4. Segments(more)[k] = SubSeq(more, nl[k] + 1, nl[k + 1] - 1)
          BY <3>2, <5>2
        <5> HIDE DEF n, more
        <5> QED
          BY <1>7, <3>1, <5>1, <5>3, <5>4
      <4> QED
        BY <4>1, <4>2
    <3>5. Segments(more) = a
      BY <1>2, <3>1, <3>2, <3>3, <3>4, SeqEqual
    <3> QED
      BY <3>5 DEF a
  <2>4. Rest(more) = <<>>
    <3>1. Rest(more) = SubSeq(more, n + 2, n + 1)
      BY <1>1, <1>4, <2>2
    <3>2. \A i \in n + 2..n + 1 : more[i] \in C
      BY <1>1
    <3>3. n + 2 \in Int /\ n + 1 \in Int /\ ~(n + 2 <= n + 1)
      BY <1>1
    <3> HIDE DEF more, n
    <3>4. SubSeq(more, n + 2, n + 1) \in Seq(C) /\ Len(SubSeq(more, n + 2, n + 1)) = 0
      BY <3>2, <3>3, SubSeqProperties
    <3> QED
      BY <3>1, <3>4
  <2> QED
    BY <1>12, <2>3, <2>4
<1> QED
  BY <1>11, <1>12

-----------------------------------------------------------------------------
(* The line scanner, one character at a time                               *)

LEMMA FeedSegmentsType ==
  ASSUME NEW C, NEW line \in Seq(C), NEW segments \in Seq(Seq(C))
  PROVE  FeedSegments(line, segments) \in [buf : Seq(C), lines : Seq(Seq(C))]
<1> DEFINE Type == [buf : Seq(C), lines : Seq(Seq(C))]
           m == Len(segments)
<1>1. PICK f : Fed(f, line, segments) /\ FeedSegments(line, segments) = f[m]
  BY FeedSegmentsIsFed
<1> DEFINE base == [buf |-> line, lines |-> <<>>]
<1>2. base \in Type
  OBVIOUS
<1>3. ASSUME NEW st \in Type, NEW segment \in Seq(C)
      PROVE  FeedSegment(st, segment) \in Type
  <2>1. st.buf \in Seq(C) /\ st.lines \in Seq(Seq(C)) /\ st.buf \o segment \in Seq(C)
    BY ConcatProperties
  <2>2. \A l \in Seq(C) : Push(st, l) \in Type
    BY <2>1, AppendProperties DEF Push
  <2> HIDE DEF Type
  <2> QED
    BY <2>1, <2>2 DEF FeedSegment
<1>4. \A n \in 0..m : f[n] = IF n = 0 THEN base ELSE FeedSegment(f[n - 1], segments[n])
  <2> HIDE DEF base
  <2> QED
    BY <1>1 DEF Fed, base
<1>5. m \in Nat /\ \A n \in 1..m : segments[n] \in Seq(C)
  OBVIOUS
<1> DEFINE Bad == {n \in 0..m : f[n] \notin Type}
<1>6. Bad = {}
  <2> SUFFICES ASSUME Bad # {} PROVE FALSE
    OBVIOUS
  <2> HIDE DEF base, Type, m
  <2>1. Bad \in SUBSET Nat
    BY <1>5
  <2>2. PICK b \in Bad : \A k \in Bad : b <= k
    <3> HIDE DEF Bad
    <3> QED
      BY <2>1, LeastNumber
  <2>3. b # 0
    <3>1. 0 \in 0..m
      BY <1>5
    <3> QED
      BY <1>2, <1>4, <3>1
  <2>4. b \in 1..m /\ b \in 0..m /\ b - 1 \in 0..m /\ ~(b <= b - 1)
    BY <1>5, <2>3
  <2>5. f[b - 1] \in Type
    BY <2>2, <2>4
  <2>6. f[b] = FeedSegment(f[b - 1], segments[b])
    BY <1>4, <2>3, <2>4
  <2>7. f[b] \in Type
    BY <1>3, <1>5, <2>4, <2>5, <2>6
  <2> QED
    BY <2>7
<1>7. f[m] \in Type
  BY <1>5, <1>6
<1> QED
  BY <1>1, <1>7

(* feed() is as good as feeding the characters one by one.                 *)
LEMMA FeedNothing ==
  ASSUME NEW C, NEW line \in Seq(C)
  PROVE  Feed(line, <<>>) = [buf |-> line, lines |-> <<>>]
<1>1. <<>> \in Seq(C) /\ Len(<<>>) = 0
  OBVIOUS
<1>2. /\ Newlines(<<>>) \in Seq(1..0) /\ Segments(<<>>) \in Seq(Seq(C))
      /\ Len(Segments(<<>>)) = Len(Newlines(<<>>)) /\ Rest(<<>>) \in Seq(C)
  BY <1>1, SegmentsType
<1>3. Len(Newlines(<<>>)) = 0 /\ Newlines(<<>>) = <<>>
  BY <1>2
<1>4. Segments(<<>>) = <<>>
  BY <1>2, <1>3
<1>5. Rest(<<>>) = <<>>
  <2>1. <<0>> \o <<>> = <<0>> /\ Len(<<0>>) = 1 /\ <<0>>[1] = 0
    OBVIOUS
  <2>2. Rest(<<>>) = SubSeq(<<>>, 1, 0)
    BY <1>1, <1>3, <2>1 DEF Rest
  <2> QED
    BY <2>2
<1>6. FeedSegments(line, <<>>) = [buf |-> line, lines |-> <<>>]
  BY FeedSegmentsNone
<1>7. line \o <<>> = line
  OBVIOUS
<1> QED
  BY <1>4, <1>5, <1>6, <1>7 DEF Feed

(* One character: it is appended to the line, or it ends it. *)
FeedChar(fed, c) ==
  IF c = NL THEN [buf |-> <<>>, lines |-> fed.lines \o Finalize(fed.buf)]
  ELSE [buf |-> Append(fed.buf, c), lines |-> fed.lines]

LEMMA FeedAppend ==
  ASSUME NEW C, NEW line \in Seq(C), NEW text \in Seq(C), NEW c \in C
  PROVE  /\ Feed(line, text) \in [buf : Seq(C), lines : Seq(Seq(C))]
         /\ Feed(line, Append(text, c)) = FeedChar(Feed(line, text), c)
<1> DEFINE st == FeedSegments(line, Segments(text))
           more == Append(text, c)
<1>1. Segments(text) \in Seq(Seq(C)) /\ Rest(text) \in Seq(C)
  BY SegmentsType
<1>2. st.buf \in Seq(C) /\ st.lines \in Seq(Seq(C))
      /\ st = [buf |-> st.buf, lines |-> st.lines]
  <2>1. st \in [buf : Seq(C), lines : Seq(Seq(C))]
    BY <1>1, FeedSegmentsType
  <2> HIDE DEF st
  <2> QED
    BY <2>1
<1>3. Feed(line, text) = [buf |-> st.buf \o Rest(text), lines |-> st.lines]
  BY DEF Feed
<1> HIDE DEF st
<1>4. st.buf \o Rest(text) \in Seq(C)
  BY <1>1, <1>2, ConcatProperties
<1>5. Feed(line, text) \in [buf : Seq(C), lines : Seq(Seq(C))]
  BY <1>2, <1>3, <1>4
<1>6. CASE c # NL
  <2>1. Segments(more) = Segments(text) /\ Rest(more) = Append(Rest(text), c)
    BY <1>6, SegmentsAppend
  <2>2. st.buf \o Append(Rest(text), c) = Append(st.buf \o Rest(text), c)
    BY <1>1, <1>2
  <2>3. Feed(line, more) = [buf |-> Append(st.buf \o Rest(text), c), lines |-> st.lines]
    BY <2>1, <2>2 DEF Feed, st
  <2> QED
    BY <1>3, <1>5, <1>6, <2>3 DEF FeedChar
<1>7. CASE c = NL
  <2>1. Segments(more) = Append(Segments(text), Rest(text)) /\ Rest(more) = <<>>
    BY <1>7, SegmentsAppend
  <2>2. FeedSegments(line, Segments(more)) = FeedSegment(st, Rest(text))
    BY <1>1, <2>1, FeedSegmentsAppend DEF st
  <2>3. FeedSegment(st, Rest(text))
          = [buf |-> <<>>, lines |-> st.lines \o Finalize(st.buf \o Rest(text))]
    <3>1. CASE Rest(text) = <<>> /\ st.buf = <<>>
      <4>1. st.buf \o Rest(text) = <<>> /\ st.lines \o <<>> = st.lines
        BY <1>2, <3>1
      <4>2. FeedSegment(st, Rest(text)) = st
        BY <3>1 DEF FeedSegment
      <4> QED
        BY <1>2, <3>1, <4>1, <4>2 DEF Finalize
    <3>2. CASE Rest(text) # <<>> \/ st.buf # <<>>
      <4> DEFINE l == st.buf \o Rest(text)
      <4>1. l # <<>> /\ (Rest(text) = <<>> => l = st.buf)
            /\ (st.buf = <<>> => l = Rest(text))
        BY <1>1, <1>2, <3>2, SMTT(30)
      <4>2. FeedSegment(st, Rest(text)) = Push(st, l)
        <5> HIDE DEF l
        <5>1. st.buf \o Rest(text) = l
          BY DEF l
        <5> QED
          BY <3>2, <4>1, <5>1 DEF FeedSegment
      <4>3. Append(st.lines, l) = st.lines \o <<l>>
        BY <1>2, <1>4, AppendIsConcat
      <4> QED
        BY <4>1, <4>2, <4>3 DEF Push, Finalize
    <3> QED
      BY <3>1, <3>2
  <2>4. Feed(line, more) = [buf |-> <<>> \o <<>>,
                            lines |-> st.lines \o Finalize(st.buf \o Rest(text))]
    BY <2>1, <2>2, <2>3 DEF Feed
  <2>5. <<>> \o <<>> = <<>>
    OBVIOUS
  <2> QED
    BY <1>3, <1>5, <1>7, <2>4, <2>5 DEF FeedChar
<1> QED
  BY <1>6, <1>7

-----------------------------------------------------------------------------
(* The lines of a text, one character more                                 *)

LinesOf(text, S, E) ==
  [k \in 1..Cardinality(S) |-> SubSeq(text, Sorted(S)[k], Sorted(E)[k])]

LEMMA LinesAreLinesOf ==
  ASSUME NEW C, NEW text \in Seq(C), NEW cuts0
  PROVE  /\ LineStarts(text, cuts0) \in SUBSET (1..Len(text))
         /\ LineEnds(text, cuts0) \in SUBSET (1..Len(text))
         /\ Lines(text, cuts0)
              = LinesOf(text, LineStarts(text, cuts0), LineEnds(text, cuts0))
<1> DEFINE S == LineStarts(text, cuts0)
<1>1. Len(text) \in Nat /\ DOMAIN text = 1..Len(text)
  OBVIOUS
<1>2. S \in SUBSET (1..Len(text)) /\ LineEnds(text, cuts0) \in SUBSET (1..Len(text))
  BY <1>1 DEF LineStarts, LineEnds
<1>3. DOMAIN Sorted(S) = 1..Cardinality(S)
  BY DEF Sorted
<1> QED
  BY <1>2, <1>3 DEF Lines, LinesOf

LEMMA PlacesFacts ==
  ASSUME NEW n \in Nat, NEW S \in SUBSET (1..n)
  PROVE  /\ Cardinality(S) \in Nat
         /\ \A k \in 1..Cardinality(S) : Sorted(S)[k] \in 1..n
<1>1. Sorted(S) \in Seq(S) /\ Cardinality(S) \in Nat /\ Len(Sorted(S)) = Cardinality(S)
  BY SortedType
<1>2. \A k \in 1..Cardinality(S) : Sorted(S)[k] \in S
  BY <1>1, ElementOfSeq
<1> QED
  BY <1>1, <1>2

LEMMA LinesOfType ==
  ASSUME NEW C, NEW text \in Seq(C), NEW S \in SUBSET (1..Len(text)),
         NEW E \in SUBSET (1..Len(text)), Cardinality(S) = Cardinality(E)
  PROVE  /\ Cardinality(S) \in Nat
         /\ LinesOf(text, S, E) \in Seq(Seq(C))
         /\ Len(LinesOf(text, S, E)) = Cardinality(S)
<1> DEFINE m == Cardinality(S)
           n == Len(text)
<1>1. n \in Nat /\ \A i \in 1..n : text[i] \in C
  OBVIOUS
<1> HIDE DEF n
<1>2. m \in Nat /\ \A k \in 1..m : Sorted(S)[k] \in 1..n /\ Sorted(E)[k] \in 1..n
  BY <1>1, PlacesFacts DEF n
<1> HIDE DEF m
<1>3. ASSUME NEW k \in 1..m
      PROVE  SubSeq(text, Sorted(S)[k], Sorted(E)[k]) \in Seq(C)
  <2>1. /\ Sorted(S)[k] \in Int /\ Sorted(E)[k] \in Int
        /\ \A i \in Sorted(S)[k]..Sorted(E)[k] : i \in 1..n
    BY <1>1, <1>2
  <2> QED
    BY <1>1, <2>1, SubSeqProperties
<1>4. LinesOf(text, S, E) \in [1..m -> Seq(C)]
  BY <1>3 DEF LinesOf, m
<1>5. LinesOf(text, S, E) \in Seq(Seq(C)) /\ Len(LinesOf(text, S, E)) = m
  BY <1>2, <1>4
<1> QED
  BY <1>2, <1>5 DEF m

(* A character that is in no line changes none. *)
LEMMA LinesOfSame ==
  ASSUME NEW C, NEW text \in Seq(C), NEW c \in C, NEW S \in SUBSET (1..Len(text)),
         NEW E \in SUBSET (1..Len(text)), Cardinality(S) = Cardinality(E)
  PROVE  \A k \in 1..Cardinality(S) :
           SubSeq(Append(text, c), Sorted(S)[k], Sorted(E)[k])
             = SubSeq(text, Sorted(S)[k], Sorted(E)[k])
<1> SUFFICES ASSUME NEW k \in 1..Cardinality(S)
             PROVE  SubSeq(Append(text, c), Sorted(S)[k], Sorted(E)[k])
                      = SubSeq(text, Sorted(S)[k], Sorted(E)[k])
  OBVIOUS
<1> DEFINE n == Len(text)
<1>1. n \in Nat
  OBVIOUS
<1>2. Sorted(S)[k] \in 1..n /\ Sorted(E)[k] \in 1..n
  BY <1>1, PlacesFacts
<1>3. Sorted(S)[k] \in 1..n + 1 /\ Sorted(E)[k] \in Int /\ Sorted(E)[k] <= n
  <2> HIDE DEF n
  <2> QED
    BY <1>1, <1>2
<1> QED
  BY <1>3, SubSeqAppend

(* One that is a line of its own is one more. *)
LEMMA LinesOfAdd ==
  ASSUME NEW C, NEW text \in Seq(C), NEW c \in C, NEW S \in SUBSET (1..Len(text)),
         NEW E \in SUBSET (1..Len(text)), Cardinality(S) = Cardinality(E)
  PROVE  LET last == {Len(text) + 1} IN
         /\ Cardinality(S \union last) = Cardinality(E \union last)
         /\ LinesOf(Append(text, c), S \union last, E \union last)
              = Append(LinesOf(text, S, E), <<c>>)
<1> DEFINE n == Len(text)
           m == Cardinality(S)
           more == Append(text, c)
           T == S \union {n + 1}
           F == E \union {n + 1}
           ls == LinesOf(more, T, F)
           as == Append(LinesOf(text, S, E), <<c>>)
<1>1. n \in Nat /\ n + 1 \in Nat /\ n < n + 1
  OBVIOUS
<1>2. /\ m \in Nat /\ Cardinality(T) = m + 1 /\ Cardinality(F) = m + 1
      /\ Sorted(T) = Append(Sorted(S), n + 1) /\ Sorted(F) = Append(Sorted(E), n + 1)
  BY <1>1, SortedAdd, ZenonT(60)
<1>3. /\ Sorted(S) \in Seq(Nat) /\ Len(Sorted(S)) = m
      /\ Sorted(E) \in Seq(Nat) /\ Len(Sorted(E)) = m
  <2>1. S \subseteq Nat /\ E \subseteq Nat
    OBVIOUS
  <2> QED
    BY <1>1, <2>1, SortedType, SeqMonotonic
<1>4. /\ Sorted(T)[m + 1] = n + 1 /\ Sorted(F)[m + 1] = n + 1
      /\ \A k \in 1..m : Sorted(T)[k] = Sorted(S)[k] /\ Sorted(F)[k] = Sorted(E)[k]
  <2> HIDE DEF n, m, T, F
  <2> QED
    BY <1>1, <1>2, <1>3, AppendProperties
<1>5. /\ more \in Seq(C) /\ Len(more) = n + 1
      /\ T \in SUBSET (1..n + 1) /\ F \in SUBSET (1..n + 1)
  <2>1. more \in Seq(C) /\ Len(more) = n + 1
    BY AppendProperties
  <2>2. 1..n \subseteq 1..n + 1 /\ n + 1 \in 1..n + 1
    BY <1>1
  <2> QED
    BY <2>1, <2>2
<1>6. ls \in Seq(Seq(C)) /\ Len(ls) = m + 1
  BY <1>2, <1>5, LinesOfType, ZenonT(60)
<1>7. /\ as \in Seq(Seq(C)) /\ Len(as) = m + 1 /\ as[m + 1] = <<c>>
      /\ \A k \in 1..m : as[k] = LinesOf(text, S, E)[k]
  <2>1. LinesOf(text, S, E) \in Seq(Seq(C)) /\ Len(LinesOf(text, S, E)) = m
    BY LinesOfType
  <2>2. <<c>> \in Seq(C)
    OBVIOUS
  <2> QED
    BY <2>1, <2>2, AppendProperties
<1>8. ls[m + 1] = <<c>>
  <2>1. ls[m + 1] = SubSeq(more, n + 1, n + 1)
    <3>1. m + 1 \in 1..m + 1
      BY <1>2
    <3> HIDE DEF n, m, T, F, more
    <3> QED
      BY <1>2, <1>4, <3>1 DEF LinesOf
  <2>2. SubSeq(more, n + 1, n + 1) = Append(SubSeq(text, n + 1, n), c)
    <3>1. n + 1 \in 1..n + 1
      BY <1>1
    <3> QED
      BY <3>1, SubSeqAppend
  <2>3. SubSeq(text, n + 1, n) = <<>>
    <3>1. \A i \in n + 1..n : text[i] \in C
      BY <1>1
    <3>2. n + 1 \in Int /\ n \in Int /\ ~(n + 1 <= n)
      BY <1>1
    <3>3. SubSeq(text, n + 1, n) \in Seq(C) /\ Len(SubSeq(text, n + 1, n)) = 0
      BY <3>1, <3>2, SubSeqProperties
    <3> QED
      BY <3>3
  <2>4. Append(<<>>, c) = <<c>>
    OBVIOUS
  <2> HIDE DEF ls
  <2> QED
    BY <2>1, <2>2, <2>3, <2>4
<1>9. ASSUME NEW k \in 1..m PROVE ls[k] = as[k]
  <2>1. ls[k] = SubSeq(more, Sorted(T)[k], Sorted(F)[k])
    <3>1. k \in 1..m + 1
      BY <1>2
    <3> HIDE DEF n, m, T, F, more
    <3> QED
      BY <1>2, <3>1 DEF LinesOf
  <2>2. LinesOf(text, S, E)[k] = SubSeq(text, Sorted(S)[k], Sorted(E)[k])
    BY DEF LinesOf
  <2>3. SubSeq(more, Sorted(S)[k], Sorted(E)[k]) = SubSeq(text, Sorted(S)[k], Sorted(E)[k])
    BY LinesOfSame
  <2> HIDE DEF ls, as, T, F, more
  <2> QED
    BY <1>4, <1>7, <2>1, <2>2, <2>3
<1>10. \A k \in 1..m + 1 : ls[k] = as[k]
  <2>1. \A k \in 1..m + 1 : k \in 1..m \/ k = m + 1
    BY <1>2
  <2> HIDE DEF ls, as, m
  <2> QED
    BY <1>7, <1>8, <1>9, <2>1
<1>11. ls = as
  <2> HIDE DEF ls, as, m
  <2> QED
    BY <1>6, <1>7, <1>10, SeqEqual
<1> QED
  BY <1>2, <1>11

LEMMA ConcatOne ==
  ASSUME NEW T, NEW seq \in Seq(T), NEW e \in T
  PROVE  /\ seq \o <<e>> \in Seq(T)
         /\ Len(seq \o <<e>>) = Len(seq) + 1
         /\ (seq \o <<e>>)[Len(seq) + 1] = e
         /\ \A k \in 1..Len(seq) : (seq \o <<e>>)[k] = seq[k]
<1>1. seq \o <<e>> = Append(seq, e)
  BY AppendIsConcat
<1>2. /\ Append(seq, e) \in Seq(T) /\ Len(Append(seq, e)) = Len(seq) + 1
      /\ \A k \in 1..Len(seq) : Append(seq, e)[k] = seq[k]
      /\ Append(seq, e)[Len(seq) + 1] = e
  BY AppendProperties
<1> QED
  BY <1>1, <1>2

(* The text ends with a line, of which its are those before it. *)
EndsWith(C, text, S, E, its, line) ==
  /\ text \in Seq(C) /\ Len(text) # 0
  /\ S \in SUBSET (1..Len(text)) /\ E \in SUBSET (1..Len(text) - 1)
  /\ Cardinality(S) = Cardinality(E \union {Len(text)})
  /\ its \in Seq(Seq(C)) /\ line \in Seq(C)
  /\ its \o <<line>> = LinesOf(text, S, E \union {Len(text)})

(* A character that goes on with the last line is appended to it. *)
LEMMA LinesOfExtend ==
  ASSUME NEW C, NEW c \in C, NEW text, NEW S, NEW E, NEW its, NEW line,
         EndsWith(C, text, S, E, its, line)
  PROVE  EndsWith(C, Append(text, c), S, E, its, Append(line, c))
<1> SUFFICES ASSUME S \in SUBSET (1..Len(text)), E \in SUBSET (1..Len(text) - 1),
                    text \in Seq(C), Len(text) # 0,
                    Cardinality(S) = Cardinality(E \union {Len(text)}),
                    its \in Seq(Seq(C)), line \in Seq(C),
                    its \o <<line>> = LinesOf(text, S, E \union {Len(text)})
             PROVE  EndsWith(C, Append(text, c), S, E, its, Append(line, c))
  BY DEF EndsWith
<1> DEFINE n == Len(text)
           m == Cardinality(E)
           more == Append(text, c)
           D == E \union {n}
           F == E \union {n + 1}
           old == LinesOf(text, S, D)
           ls == LinesOf(more, S, F)
           as == its \o <<Append(line, c)>>
<1>1. n \in Nat /\ n - 1 \in Nat /\ n - 1 < n /\ n + 1 \in Nat /\ n - 1 < n + 1
  OBVIOUS
<1>2. /\ m \in Nat /\ Cardinality(D) = m + 1 /\ Cardinality(F) = m + 1
      /\ Sorted(D) = Append(Sorted(E), n) /\ Sorted(F) = Append(Sorted(E), n + 1)
  BY <1>1, SortedAdd, ZenonT(60)
<1>3. Cardinality(S) = m + 1
  BY <1>2
<1>4. /\ D \in SUBSET (1..n) /\ S \in SUBSET (1..n + 1) /\ F \in SUBSET (1..n + 1)
  <2>1. 1..n \subseteq 1..n + 1 /\ 1..n - 1 \subseteq 1..n /\ n \in 1..n
        /\ n + 1 \in 1..n + 1
    BY <1>1
  <2> QED
    BY <2>1
<1>5. /\ Sorted(D)[m + 1] = n /\ Sorted(F)[m + 1] = n + 1
      /\ \A k \in 1..m : Sorted(F)[k] = Sorted(D)[k]
  <2>1. Sorted(E) \in Seq(Nat) /\ Len(Sorted(E)) = m
    <3>1. E \subseteq Nat
      OBVIOUS
    <3> QED
      BY <1>1, <3>1, SortedType, SeqMonotonic
  <2>2. n \in Nat /\ n + 1 \in Nat
    BY <1>1
  <2> HIDE DEF n, m, D, F
  <2>3. ASSUME NEW last \in Nat
        PROVE  /\ Append(Sorted(E), last)[m + 1] = last
               /\ \A k \in 1..m : Append(Sorted(E), last)[k] = Sorted(E)[k]
    BY <2>1, AppendProperties
  <2> QED
    BY <1>2, <2>2, <2>3
<1>6. more \in Seq(C) /\ Len(more) = n + 1
  BY AppendProperties
<1>7. ls \in Seq(Seq(C)) /\ Len(ls) = m + 1
  <2>1. Cardinality(S) = Cardinality(F)
    BY <1>2, <1>3
  <2>2. S \in SUBSET (1..Len(more)) /\ F \in SUBSET (1..Len(more))
    BY <1>4, <1>6
  <2> HIDE DEF n, m, F, more
  <2>3. more \in Seq(C)
    BY <1>6
  <2> QED
    BY <1>3, <2>1, <2>2, <2>3, LinesOfType, SMTT(30)
<1>8. old \in Seq(Seq(C)) /\ Len(old) = m + 1
  <2>1. Cardinality(S) = Cardinality(D)
    OBVIOUS
  <2> HIDE DEF m, D
  <2> QED
    BY <1>3, <1>4, <2>1, LinesOfType, SMTT(30)
<1>9. old = its \o <<line>>
  OBVIOUS
<1> HIDE DEF old
<1>10. Len(its) = m /\ old[m + 1] = line /\ \A k \in 1..m : old[k] = its[k]
  <2>1. /\ Len(its \o <<line>>) = Len(its) + 1 /\ Len(its) \in Nat
        /\ (its \o <<line>>)[Len(its) + 1] = line
        /\ \A k \in 1..Len(its) : (its \o <<line>>)[k] = its[k]
    BY ConcatOne
  <2>2. Len(its) = m
    <3> HIDE DEF m
    <3> QED
      BY <1>2, <1>8, <1>9, <2>1
  <2> QED
    BY <1>9, <2>1, <2>2
<1>11. /\ as \in Seq(Seq(C)) /\ Len(as) = m + 1 /\ as[m + 1] = Append(line, c)
       /\ \A k \in 1..m : as[k] = its[k]
  <2>1. Append(line, c) \in Seq(C)
    BY AppendProperties
  <2> QED
    BY <1>10, <2>1, ConcatOne
<1>12. Sorted(S)[m + 1] \in 1..n /\ m + 1 \in 1..m + 1
  <2>1. m + 1 \in 1..m + 1
    BY <1>2
  <2> QED
    BY <1>1, <1>3, <2>1, PlacesFacts
<1>13. ls[m + 1] = as[m + 1]
  <2>1. ls[m + 1] = SubSeq(more, Sorted(S)[m + 1], n + 1)
    <3> HIDE DEF n, m, F, more
    <3> QED
      BY <1>3, <1>5, <1>12 DEF LinesOf
  <2>2. line = SubSeq(text, Sorted(S)[m + 1], n)
    <3> HIDE DEF n, m, D
    <3> QED
      BY <1>3, <1>5, <1>10, <1>12 DEF LinesOf, old
  <2>3. Sorted(S)[m + 1] \in 1..n + 1
    <3> HIDE DEF n, m
    <3> QED
      BY <1>1, <1>12
  <2>4. SubSeq(more, Sorted(S)[m + 1], n + 1) = Append(line, c)
    BY <2>2, <2>3, SubSeqAppend
  <2> HIDE DEF ls, as, more
  <2> QED
    BY <1>11, <2>1, <2>4
<1>14. ASSUME NEW k \in 1..m PROVE ls[k] = as[k]
  <2>1. k \in 1..m + 1
    BY <1>2
  <2>2. ls[k] = SubSeq(more, Sorted(S)[k], Sorted(D)[k])
    <3> HIDE DEF n, m, D, F, more
    <3> QED
      BY <1>3, <1>5, <2>1 DEF LinesOf
  <2>3. old[k] = SubSeq(text, Sorted(S)[k], Sorted(D)[k])
    <3> HIDE DEF m, D
    <3> QED
      BY <1>3, <2>1 DEF LinesOf, old
  <2>4. SubSeq(more, Sorted(S)[k], Sorted(D)[k]) = SubSeq(text, Sorted(S)[k], Sorted(D)[k])
    <3>1. Cardinality(S) = Cardinality(D) /\ k \in 1..Cardinality(S)
      BY <1>3, <2>1
    <3> HIDE DEF D
    <3> QED
      BY <1>4, <3>1, LinesOfSame
  <2> HIDE DEF ls, as, more, D, m
  <2> QED
    BY <1>10, <1>11, <2>2, <2>3, <2>4
<1>15. ls = as
  <2>1. \A k \in 1..m + 1 : k \in 1..m \/ k = m + 1
    BY <1>2
  <2> HIDE DEF ls, as, m
  <2>2. \A k \in 1..m + 1 : ls[k] = as[k]
    BY <1>13, <1>14, <2>1
  <2> QED
    BY <1>7, <1>11, <2>2, SeqEqual
<1>16. /\ more \in Seq(C) /\ Len(more) = n + 1 /\ Append(line, c) \in Seq(C)
  BY AppendProperties
<1>17. /\ Len(more) # 0 /\ S \in SUBSET (1..Len(more)) /\ E \in SUBSET (1..Len(more) - 1)
  <2>1. n + 1 # 0 /\ E \in SUBSET (1..(n + 1) - 1)
    <3>1. E \in SUBSET (1..n - 1)
      OBVIOUS
    <3> HIDE DEF n
    <3> QED
      BY <1>1, <3>1
  <2> HIDE DEF more, n
  <2> QED
    BY <1>4, <1>16, <2>1
<1>18. Cardinality(S) = Cardinality(E \union {Len(more)})
       /\ its \o <<Append(line, c)>> = LinesOf(more, S, E \union {Len(more)})
  BY <1>2, <1>3, <1>15, <1>16
<1> HIDE DEF more
<1>19. EndsWith(C, more, S, E, its, Append(line, c))
  BY <1>16, <1>17, <1>18 DEF EndsWith
<1> QED
  BY <1>19 DEF more

-----------------------------------------------------------------------------
(* Reading                                                                 *)

(* The text ends in the middle of a line. *)
Open(text, cuts0) ==
  Len(text) # 0 /\ text[Len(text)] # NL /\ Len(text) \notin cuts0

(* The items and the unfinished line are what was read of a text. *)
HasRead(its, line, text, cuts0) ==
  /\ Cardinality(LineStarts(text, cuts0)) = Cardinality(LineEnds(text, cuts0))
  /\ line # <<>> <=> Open(text, cuts0)
  /\ its \o Finalize(line) = Lines(text, cuts0)

LEMMA FinalizeType ==
  ASSUME NEW C, NEW its \in Seq(Seq(C)), NEW line \in Seq(C)
  PROVE  its \o Finalize(line) \in Seq(Seq(C))
<1>1. Finalize(line) \in Seq(Seq(C))
  BY DEF Finalize
<1> QED
  BY <1>1, ConcatProperties

LEMMA ReadNothing == HasRead(<<>>, <<>>, <<>>, {})
<1>1. LineStarts(<<>>, {}) = {} /\ LineEnds(<<>>, {}) = {}
  BY DEF LineStarts, LineEnds
<1>2. Cardinality({}) = 0
  BY FS_EmptySet
<1>3. <<>> \in Seq({}) /\ Len(<<>>) = 0
  OBVIOUS
<1>4. Lines(<<>>, {}) = LinesOf(<<>>, {}, {})
  BY <1>1, <1>3, LinesAreLinesOf
<1>5. LinesOf(<<>>, {}, {}) = <<>>
  BY <1>2 DEF LinesOf
<1>6. <<>> \o Finalize(<<>>) = <<>>
  BY DEF Finalize
<1> QED
  BY <1>1, <1>3, <1>4, <1>5, <1>6 DEF HasRead, Open

(* Where lines start and end, when the text has one more character. *)
LEMMA PlacesAppend ==
  ASSUME NEW C, NEW text \in Seq(C), NEW c \in C, NEW cuts0
  PROVE  LET n == Len(text)
             more == Append(text, c)
             last == {n + 1}
             S == LineStarts(text, cuts0)
             E == LineEnds(text, cuts0)
         IN /\ c = NL => /\ LineStarts(more, cuts0) = S
                         /\ LineEnds(more, cuts0) = E
            /\ c # NL /\ ~Open(text, cuts0)
                 => /\ LineStarts(more, cuts0) = S \union last
                    /\ LineEnds(more, cuts0) = E \union last
            /\ c # NL /\ Open(text, cuts0)
                 => /\ LineStarts(more, cuts0) = S
                    /\ n \in E
                    /\ LineEnds(more, cuts0) = (E \ {n}) \union last
<1> DEFINE n == Len(text)
           more == Append(text, c)
           S == LineStarts(text, cuts0)
           E == LineEnds(text, cuts0)
<1>1. /\ n \in Nat /\ Len(more) = n + 1 /\ more[n + 1] = c
      /\ \A i \in 1..n : more[i] = text[i]
      /\ DOMAIN text = 1..n /\ DOMAIN more = 1..n + 1
  BY AppendProperties
<1>2. /\ S = {i \in 1..n : text[i] # NL
                /\ (i = 1 \/ text[i - 1] = NL \/ i - 1 \in cuts0)}
      /\ E = {i \in 1..n : text[i] # NL
                /\ (i = n \/ text[i + 1] = NL \/ i \in cuts0)}
  BY <1>1 DEF LineStarts, LineEnds
<1>3. /\ LineStarts(more, cuts0) =
           {i \in 1..n + 1 : more[i] # NL
                /\ (i = 1 \/ more[i - 1] = NL \/ i - 1 \in cuts0)}
      /\ LineEnds(more, cuts0) =
           {i \in 1..n + 1 : more[i] # NL
                /\ (i = n + 1 \/ more[i + 1] = NL \/ i \in cuts0)}
  BY <1>1 DEF LineStarts, LineEnds
<1>4. Open(text, cuts0) <=> n # 0 /\ text[n] # NL /\ n \notin cuts0
  BY DEF Open
<1> HIDE DEF n, more, S, E
<1>5. \A i : i \in 1..n + 1 <=> i \in 1..n \/ i = n + 1
  BY <1>1
<1>6. n + 1 \notin 1..n /\ n + 1 - 1 = n
  BY <1>1
(* The characters before the new one. *)
<1>7. ASSUME NEW i \in 1..n
      PROVE  /\ i \in LineStarts(more, cuts0) <=> i \in S
             /\ i # n => (i \in LineEnds(more, cuts0) <=> i \in E)
             /\ i = n => (i \in LineEnds(more, cuts0)
                            <=> text[n] # NL /\ (c = NL \/ n \in cuts0))
             /\ i = n => (i \in E <=> text[n] # NL)
  <2>1. i \in 1..n + 1 /\ more[i] = text[i]
    BY <1>1, <1>5
  <2>2. i # 1 => i - 1 \in 1..n
    BY <1>1
  <2>3. i # n => i + 1 \in 1..n
    BY <1>1
  <2>4. i \in LineStarts(more, cuts0) <=> i \in S
    BY <1>1, <1>2, <1>3, <2>1, <2>2
  <2>5. i # n + 1
    BY <1>6
  <2>6. i # n => (i \in LineEnds(more, cuts0) <=> i \in E)
    BY <1>1, <1>2, <1>3, <2>1, <2>3, <2>5
  <2>7. i = n => (i \in LineEnds(more, cuts0)
                            <=> text[n] # NL /\ (c = NL \/ n \in cuts0))
    BY <1>1, <1>3, <2>1, <2>5
  <2>8. i = n => (i \in E <=> text[n] # NL)
    BY <1>2
  <2> QED
    BY <2>4, <2>6, <2>7, <2>8
(* The new one. *)
<1>8. /\ n + 1 \in LineStarts(more, cuts0)
           <=> c # NL /\ (n = 0 \/ text[n] = NL \/ n \in cuts0)
      /\ n + 1 \in LineEnds(more, cuts0) <=> c # NL
  <2>1. n + 1 = 1 <=> n = 0
    BY <1>1
  <2>2. n # 0 => more[n] = text[n]
    BY <1>1
  <2>3. n + 1 \in 1..n + 1
    BY <1>1
  <2>4. n + 1 \in LineStarts(more, cuts0)
          <=> c # NL /\ (n = 0 \/ more[n] = NL \/ n \in cuts0)
    BY <1>1, <1>3, <1>6, <2>1, <2>3
  <2>5. n + 1 \in LineEnds(more, cuts0) <=> c # NL
    BY <1>1, <1>3, <2>3
  <2> QED
    BY <2>2, <2>4, <2>5
<1>9. /\ S \subseteq 1..n /\ E \subseteq 1..n
      /\ LineStarts(more, cuts0) \subseteq 1..n + 1
      /\ LineEnds(more, cuts0) \subseteq 1..n + 1
  BY <1>2, <1>3
<1>10. CASE c = NL
  <2>1. LineStarts(more, cuts0) = S
    BY <1>5, <1>6, <1>7, <1>8, <1>9, <1>10
  <2>2. LineEnds(more, cuts0) = E
    BY <1>5, <1>6, <1>7, <1>8, <1>9, <1>10
  <2> QED
    BY <1>10, <2>1, <2>2 DEF n, more, S, E
<1>11. CASE c # NL /\ ~Open(text, cuts0)
  <2>1. LineStarts(more, cuts0) = S \union {n + 1}
    <3>1. n + 1 \in LineStarts(more, cuts0)
      BY <1>4, <1>8, <1>11
    <3> QED
      BY <1>5, <1>6, <1>7, <1>9, <3>1
  <2>2. LineEnds(more, cuts0) = E \union {n + 1}
    <3>1. n + 1 \in LineEnds(more, cuts0)
      BY <1>8, <1>11
    <3>2. \A i \in 1..n : i \in LineEnds(more, cuts0) <=> i \in E
      BY <1>4, <1>6, <1>7, <1>11
    <3> QED
      BY <1>5, <1>9, <3>1, <3>2
  <2> QED
    BY <1>11, <2>1, <2>2 DEF n, more, S, E
<1>12. CASE c # NL /\ Open(text, cuts0)
  <2>1. LineStarts(more, cuts0) = S
    BY <1>4, <1>5, <1>6, <1>7, <1>8, <1>9, <1>12
  <2>2. n \in 1..n /\ n \in E
    BY <1>1, <1>4, <1>7, <1>12
  <2>3. LineEnds(more, cuts0) = (E \ {n}) \union {n + 1}
    BY <1>4, <1>5, <1>6, <1>7, <1>8, <1>9, <1>12
  <2> QED
    BY <1>12, <2>1, <2>2, <2>3 DEF n, more, S, E
<1> QED
  BY <1>10, <1>11, <1>12

(* Without a last line there are the items. *)
LEMMA NoLine ==
  ASSUME NEW T, NEW its \in Seq(T)
  PROVE  its \o Finalize(<<>>) = its
<1>1. Finalize(<<>>) = <<>>
  BY DEF Finalize
<1> QED
  BY <1>1

LEMMA ReadChar ==
  ASSUME NEW C, NEW text \in Seq(C), NEW c \in C,
         NEW cuts0 \in SUBSET (0..Len(text)),
         NEW its \in Seq(Seq(C)), NEW line \in Seq(C),
         HasRead(its, line, text, cuts0)
  PROVE  /\ c = NL => HasRead(its \o Finalize(line), <<>>, Append(text, c), cuts0)
         /\ c # NL => HasRead(its, Append(line, c), Append(text, c), cuts0)
<1> DEFINE n == Len(text)
           more == Append(text, c)
           last == {n + 1}
           S == LineStarts(text, cuts0)
           E == LineEnds(text, cuts0)
<1>1. n \in Nat /\ Len(more) = n + 1 /\ more[n + 1] = c /\ more \in Seq(C)
  BY AppendProperties
<1>2. /\ S \in SUBSET (1..n) /\ E \in SUBSET (1..n)
      /\ Lines(text, cuts0) = LinesOf(text, S, E)
  BY LinesAreLinesOf
<1>3. Lines(more, cuts0) = LinesOf(more, LineStarts(more, cuts0), LineEnds(more, cuts0))
  BY <1>1, LinesAreLinesOf
<1>4. /\ Cardinality(S) = Cardinality(E)
      /\ line # <<>> <=> Open(text, cuts0)
      /\ its \o Finalize(line) = LinesOf(text, S, E)
  BY <1>2 DEF HasRead
<1>5. its \o Finalize(line) \in Seq(Seq(C))
  BY FinalizeType
<1>6. n + 1 \notin cuts0
  <2>1. cuts0 \in SUBSET (0..n)
    OBVIOUS
  <2> HIDE DEF n
  <2> QED
    BY <1>1, <2>1
<1>7. CASE c = NL
  <2>1. LineStarts(more, cuts0) = S /\ LineEnds(more, cuts0) = E
    BY <1>7, PlacesAppend
  <2>2. LinesOf(more, S, E) = LinesOf(text, S, E)
    <3>1. \A k \in 1..Cardinality(S) :
            SubSeq(more, Sorted(S)[k], Sorted(E)[k]) = SubSeq(text, Sorted(S)[k], Sorted(E)[k])
      BY <1>2, <1>4, LinesOfSame
    <3> HIDE DEF more, S, E
    <3> QED
      BY <3>1 DEF LinesOf
  <2>3. ~Open(more, cuts0)
    BY <1>1, <1>7 DEF Open
  <2>4. (its \o Finalize(line)) \o Finalize(<<>>) = its \o Finalize(line)
    BY <1>5, NoLine
  <2>5. (its \o Finalize(line)) \o Finalize(<<>>) = Lines(more, cuts0)
    BY <1>3, <1>4, <2>1, <2>2, <2>4
  <2> HIDE DEF more, S, E
  <2>6. HasRead(its \o Finalize(line), <<>>, more, cuts0)
    BY <1>4, <2>1, <2>3, <2>5 DEF HasRead
  <2> QED
    BY <1>7, <2>6 DEF more
<1>8. ASSUME c # NL
      PROVE  /\ Open(more, cuts0)
             /\ Append(line, c) # <<>>
             /\ its \o Finalize(Append(line, c)) = its \o <<Append(line, c)>>
  <2>1. Append(line, c) # <<>>
    BY AppendProperties
  <2>2. Open(more, cuts0)
    <3> HIDE DEF more, n
    <3> QED
      BY <1>1, <1>6, <1>8 DEF Open
  <2>3. Finalize(Append(line, c)) = <<Append(line, c)>>
    BY <2>1 DEF Finalize
  <2> QED
    BY <2>1, <2>2, <2>3
<1>9. CASE c # NL /\ ~Open(text, cuts0)
  <2>1. LineStarts(more, cuts0) = S \union last /\ LineEnds(more, cuts0) = E \union last
    BY <1>9, PlacesAppend
  <2>2. /\ Cardinality(S \union last) = Cardinality(E \union last)
        /\ LinesOf(more, S \union last, E \union last) = Append(LinesOf(text, S, E), <<c>>)
    BY <1>2, <1>4, LinesOfAdd
  <2>3. line = <<>> /\ its = LinesOf(text, S, E)
    <3>1. line = <<>>
      BY <1>4, <1>9
    <3>2. its \o Finalize(<<>>) = its
      BY NoLine
    <3> QED
      BY <1>4, <3>1, <3>2
  <2>4. its \o <<Append(line, c)>> = Append(its, <<c>>)
    <3>1. Append(<<>>, c) = <<c>>
      OBVIOUS
    <3>2. <<c>> \in Seq(C)
      OBVIOUS
    <3>3. its \o <<<<c>>>> = Append(its, <<c>>)
      BY <3>2, AppendIsConcat
    <3> QED
      BY <2>3, <3>1, <3>3
  <2>5. its \o Finalize(Append(line, c)) = Lines(more, cuts0)
    BY <1>3, <1>8, <1>9, <2>1, <2>2, <2>3, <2>4
  <2> HIDE DEF more, S, E, last
  <2>6. HasRead(its, Append(line, c), more, cuts0)
    BY <1>8, <1>9, <2>1, <2>2, <2>5 DEF HasRead
  <2> QED
    BY <1>9, <2>6 DEF more
<1>10. CASE c # NL /\ Open(text, cuts0)
  <2> DEFINE E0 == E \ {n}
  <2>1. LineStarts(more, cuts0) = S /\ n \in E /\ LineEnds(more, cuts0) = E0 \union last
    BY <1>10, PlacesAppend
  <2>2. n # 0 /\ E0 \in SUBSET (1..n - 1) /\ E0 \union {n} = E
    <3> HIDE DEF n, E, S
    <3> QED
      BY <1>1, <1>2, <2>1
  <2>3. line # <<>> /\ its \o <<line>> = LinesOf(text, S, E0 \union {n})
    <3>1. line # <<>>
      BY <1>4, <1>10
    <3>2. Finalize(line) = <<line>>
      BY <3>1 DEF Finalize
    <3> QED
      BY <1>4, <2>2, <3>1, <3>2
  <2> HIDE DEF E0
  <2>4. Cardinality(S) = Cardinality(E0 \union {n})
    BY <1>4, <2>2
  <2>5. /\ Cardinality(S) = Cardinality(E0 \union last)
        /\ its \o <<Append(line, c)>> = LinesOf(more, S, E0 \union last)
    <3>1. /\ S \in SUBSET (1..Len(text)) /\ E0 \in SUBSET (1..Len(text) - 1)
          /\ Len(text) # 0
      BY <1>2, <2>2
    <3>2. /\ Cardinality(S) = Cardinality(E0 \union {Len(text)})
          /\ its \o <<line>> = LinesOf(text, S, E0 \union {Len(text)})
      BY <2>3, <2>4
    <3> HIDE DEF S, E, n, last, more
    <3>3. EndsWith(C, text, S, E0, its, line)
      BY <3>1, <3>2 DEF EndsWith
    <3>4. EndsWith(C, more, S, E0, its, Append(line, c))
      BY <3>3, LinesOfExtend DEF more
    <3>5. Cardinality(S) = Cardinality(E0 \union {Len(more)})
          /\ its \o <<Append(line, c)>> = LinesOf(more, S, E0 \union {Len(more)})
      BY <3>4 DEF EndsWith
    <3>6. {Len(more)} = last
      BY <1>1 DEF last
    <3> QED
      BY <3>5, <3>6
  <2>6. its \o Finalize(Append(line, c)) = Lines(more, cuts0)
    BY <1>3, <1>8, <1>10, <2>1, <2>5
  <2> HIDE DEF more, S, E, last
  <2>7. HasRead(its, Append(line, c), more, cuts0)
    BY <1>8, <1>10, <2>1, <2>5, <2>6 DEF HasRead
  <2> QED
    BY <1>10, <2>7 DEF more
<1> QED
  BY <1>7, <1>9, <1>10

(* A scan that ends there cuts the line that is being read. *)
LEMMA ReadCut ==
  ASSUME NEW C, NEW text \in Seq(C), NEW cuts0 \in SUBSET (0..Len(text)),
         NEW its \in Seq(Seq(C)), NEW line \in Seq(C),
         HasRead(its, line, text, cuts0)
  PROVE  HasRead(its \o Finalize(line), <<>>, text, cuts0 \union {Len(text)})
<1> DEFINE n == Len(text)
           more == cuts0 \union {n}
<1>1. n \in Nat /\ DOMAIN text = 1..n
  OBVIOUS
<1> HIDE DEF n
<1>2. LineStarts(text, more) = LineStarts(text, cuts0)
  <2>1. \A i \in 1..n : i - 1 \in more <=> i - 1 \in cuts0
    BY <1>1
  <2> HIDE DEF more
  <2> QED
    BY <1>1, <2>1 DEF LineStarts
<1>3. LineEnds(text, more) = LineEnds(text, cuts0)
  BY <1>1 DEF LineEnds, n
<1>4. Lines(text, more) = Lines(text, cuts0)
  BY <1>2, <1>3 DEF Lines
<1>5. its \o Finalize(line) \in Seq(Seq(C))
  BY FinalizeType
<1>6. (its \o Finalize(line)) \o Finalize(<<>>) = its \o Finalize(line)
  BY <1>5, NoLine
<1>7. ~Open(text, more)
  BY DEF Open, n
<1> QED
  BY <1>2, <1>3, <1>4, <1>6, <1>7 DEF HasRead, n

(* A part of a text, up to one character more. *)
LEMMA SubSeqLast ==
  ASSUME NEW C, NEW all \in Seq(C), NEW m \in 1..Len(all), NEW n \in m..Len(all)
  PROVE  /\ SubSeq(all, m, n - 1) \in Seq(C)
         /\ Len(SubSeq(all, m, n - 1)) = n - m
         /\ all[n] \in C
         /\ SubSeq(all, m, n) = Append(SubSeq(all, m, n - 1), all[n])
<1>1. /\ Len(all) \in Nat /\ m \in Int /\ n - 1 \in Int /\ n \in 1..Len(all) /\ m <= n
      /\ \A i \in m..n - 1 : i \in 1..Len(all)
  OBVIOUS
<1>2. \A i \in 1..Len(all) : all[i] \in C
  OBVIOUS
<1>3. /\ SubSeq(all, m, n - 1) \in Seq(C)
      /\ Len(SubSeq(all, m, n - 1)) = IF m <= n - 1 THEN (n - 1) - m + 1 ELSE 0
  BY <1>1, <1>2, SubSeqProperties
<1>4. Len(SubSeq(all, m, n - 1)) = n - m
  BY <1>1, <1>3
<1>5. SubSeq(all, m, n) = SubSeq(all, m, n - 1) \o <<all[n]>>
  BY SubSeqRecursiveSecond
<1>6. all[n] \in C
  BY <1>1, <1>2
<1>7. Append(SubSeq(all, m, n - 1), all[n]) = SubSeq(all, m, n - 1) \o <<all[n]>>
  BY <1>3, <1>6, AppendIsConcat
<1> QED
  BY <1>3, <1>4, <1>5, <1>6, <1>7

(* The items with the lines pushed, which one character may end. *)
With(its, fed) == its \o fed.lines

Typed(T, its, fed) ==
  its \in Seq(T) /\ fed.lines \in Seq(T) /\ Finalize(fed.buf) \in Seq(T)

LEMMA WithChar ==
  ASSUME NEW T, NEW its, NEW fed, NEW c, Typed(T, its, fed)
  PROVE  /\ c = NL => /\ With(its, FeedChar(fed, c)) = With(its, fed) \o Finalize(fed.buf)
                      /\ FeedChar(fed, c).buf = <<>>
         /\ c # NL => /\ With(its, FeedChar(fed, c)) = With(its, fed)
                      /\ FeedChar(fed, c).buf = Append(fed.buf, c)
<1> DEFINE lines == fed.lines
           last == Finalize(fed.buf)
           longer == Append(fed.buf, c)
<1>1. (its \o lines) \o last = its \o (lines \o last)
  <2>1. its \in Seq(T) /\ lines \in Seq(T) /\ last \in Seq(T)
    BY DEF Typed
  <2> HIDE DEF lines, last
  <2> QED
    BY <2>1, ConcatAssociative
<1>2. FeedChar(fed, c) = IF c = NL THEN [buf |-> <<>>, lines |-> lines \o last]
                         ELSE [buf |-> longer, lines |-> lines]
  BY DEF FeedChar
<1>3. With(its, fed) = its \o lines
  BY DEF With
<1> DEFINE pushed == lines \o last
<1> HIDE DEF longer, pushed
<1>4. CASE c = NL
  <2>1. FeedChar(fed, c) = [buf |-> <<>>, lines |-> pushed]
    BY <1>2, <1>4 DEF pushed
  <2>2. FeedChar(fed, c).buf = <<>> /\ With(its, FeedChar(fed, c)) = its \o pushed
    BY <2>1 DEF With
  <2> QED
    BY <1>1, <1>3, <1>4, <2>2 DEF pushed
<1>5. CASE c # NL
  <2> HIDE DEF lines
  <2>1. FeedChar(fed, c) = [buf |-> longer, lines |-> lines]
    BY <1>2, <1>5
  <2>2. FeedChar(fed, c).buf = longer /\ With(its, FeedChar(fed, c)) = its \o lines
    BY <2>1 DEF With
  <2> QED
    BY <1>3, <1>5, <2>2 DEF longer
<1> QED
  BY <1>4, <1>5

(* A chunk is read as its characters are, one after the other. *)
LEMMA FeedRead ==
  ASSUME NEW C, NEW all \in Seq(C), NEW from \in 0..Len(all),
         NEW cuts0 \in SUBSET (0..from),
         NEW its \in Seq(Seq(C)), NEW line \in Seq(C),
         HasRead(its, line, SubSeq(all, 1, from), cuts0)
  PROVE  \A to \in from..Len(all) :
           LET fed == Feed(line, SubSeq(all, from + 1, to))
           IN /\ fed \in [buf : Seq(C), lines : Seq(Seq(C))]
              /\ HasRead(its \o fed.lines, fed.buf, SubSeq(all, 1, to), cuts0)
<1> DEFINE fed(to) == Feed(line, SubSeq(all, from + 1, to))
           Good(to) == /\ fed(to) \in [buf : Seq(C), lines : Seq(Seq(C))]
                       /\ HasRead(its \o fed(to).lines, fed(to).buf,
                                  SubSeq(all, 1, to), cuts0)
           Bad == {to \in from..Len(all) : ~Good(to)}
<1>1. Len(all) \in Nat /\ from \in Nat /\ from <= Len(all)
  OBVIOUS
<1>2. Good(from)
  <2>1. SubSeq(all, from + 1, from) = <<>>
    BY <1>1, SubSeqEmpty
  <2>2. Feed(line, <<>>) = [buf |-> line, lines |-> <<>>]
    BY FeedNothing
  <2>3. /\ fed(from) = [buf |-> line, lines |-> <<>>]
        /\ fed(from).lines = <<>> /\ fed(from).buf = line
    <3>1. fed(from) = [buf |-> line, lines |-> <<>>]
      BY <2>1, <2>2
    <3> HIDE DEF fed
    <3> QED
      BY <3>1
  <2>4. its \o <<>> = its
    BY ConcatEmptySeq
  <2>5. <<>> \in Seq(Seq(C))
    OBVIOUS
  <2>6. fed(from) \in [buf : Seq(C), lines : Seq(Seq(C))]
    <3> HIDE DEF fed
    <3> QED
      BY <2>3, <2>5
  <2>7. its \o fed(from).lines = its
    BY <2>3, <2>4
  <2> HIDE DEF fed
  <2>8. HasRead(its \o fed(from).lines, fed(from).buf, SubSeq(all, 1, from), cuts0)
    BY <2>3, <2>7, Zenon
  <2> QED
    BY <2>6, <2>8
<1>3. ASSUME NEW to \in from..Len(all), to # from, Good(to - 1)
      PROVE  Good(to)
  <2> DEFINE c == all[to]
             text == SubSeq(all, from + 1, to - 1)
             whole == SubSeq(all, 1, to - 1)
             old == fed(to - 1)
  <2>1. /\ from + 1 \in 1..Len(all) /\ to \in from + 1..Len(all)
        /\ 1 \in 1..Len(all) /\ to \in 1..Len(all)
    BY <1>1, <1>3
  <2>2. /\ text \in Seq(C) /\ c \in C
        /\ SubSeq(all, from + 1, to) = Append(text, c)
    BY <2>1, SubSeqLast
  <2>3. /\ whole \in Seq(C) /\ Len(whole) = to - 1
        /\ SubSeq(all, 1, to) = Append(whole, c)
    BY <2>1, SubSeqLast
  <2>4. cuts0 \in SUBSET (0..Len(whole))
    <3>1. 0..from \subseteq 0..to - 1
      BY <1>1, <2>1
    <3> HIDE DEF whole
    <3> QED
      BY <2>3, <3>1
  <2>5. /\ fed(to) \in [buf : Seq(C), lines : Seq(Seq(C))]
    <3>1. Append(text, c) \in Seq(C)
      BY <2>2, AppendProperties
    <3> HIDE DEF text, c
    <3>2. Feed(line, Append(text, c)) \in [buf : Seq(C), lines : Seq(Seq(C))]
      BY <2>2, <3>1, FeedAppend
    <3> QED
      BY <2>2, <3>2
  <2>6. fed(to) = FeedChar(old, c)
    <3> HIDE DEF c, text
    <3>1. Feed(line, Append(text, c)) = FeedChar(Feed(line, text), c)
      BY <2>2, FeedAppend
    <3>2. fed(to) = Feed(line, Append(text, c)) /\ old = Feed(line, text)
      BY <2>2 DEF text
    <3> QED
      BY <3>1, <3>2
  <2>7. /\ old \in [buf : Seq(C), lines : Seq(Seq(C))]
        /\ HasRead(With(its, old), old.buf, whole, cuts0)
    BY <1>3 DEF With
  <2>8. old.buf \in Seq(C) /\ old.lines \in Seq(Seq(C))
    <3> HIDE DEF fed
    <3> QED
      BY <2>7
  <2> HIDE DEF old, whole, text, c
  <2>9. With(its, old) \in Seq(Seq(C))
    BY <2>8, ConcatProperties, Zenon DEF With
  <2>10. /\ c = NL => HasRead(With(its, old) \o Finalize(old.buf), <<>>,
                              Append(whole, c), cuts0)
         /\ c # NL => HasRead(With(its, old), Append(old.buf, c),
                              Append(whole, c), cuts0)
    BY <2>2, <2>3, <2>4, <2>7, <2>8, <2>9, ReadChar, Zenon
  <2>11. /\ c = NL => /\ With(its, FeedChar(old, c)) = With(its, old) \o Finalize(old.buf)
                      /\ FeedChar(old, c).buf = <<>>
         /\ c # NL => /\ With(its, FeedChar(old, c)) = With(its, old)
                      /\ FeedChar(old, c).buf = Append(old.buf, c)
    <3>1. Finalize(old.buf) \in Seq(Seq(C))
      BY <2>8 DEF Finalize
    <3>2. Typed(Seq(C), its, old)
      BY <2>8, <3>1 DEF Typed
    <3>3. c = NL => With(its, FeedChar(old, c)) = With(its, old) \o Finalize(old.buf)
      BY <3>2, WithChar
    <3>4. c = NL => FeedChar(old, c).buf = <<>>
      BY <3>2, WithChar
    <3>5. c # NL => With(its, FeedChar(old, c)) = With(its, old)
      BY <3>2, WithChar
    <3>6. ASSUME c # NL
          PROVE  FeedChar(old, c).buf = Append(old.buf, c)
      <4> DEFINE longer == Append(old.buf, c)
      <4>1. FeedChar(old, c) = [buf |-> longer, lines |-> old.lines]
        BY <3>6 DEF FeedChar
      <4> HIDE DEF longer
      <4>2. FeedChar(old, c).buf = longer
        BY <4>1
      <4> QED
        BY <4>2 DEF longer
    <3> QED
      BY <3>3, <3>4, <3>5, <3>6
  <2>12. HasRead(With(its, FeedChar(old, c)), FeedChar(old, c).buf, Append(whole, c), cuts0)
    BY <2>10, <2>11, Zenon
  <2>13. HasRead(its \o fed(to).lines, fed(to).buf, SubSeq(all, 1, to), cuts0)
    BY <2>3, <2>6, <2>12 DEF With
  <2> HIDE DEF fed
  <2> QED
    BY <2>5, <2>13
<1> HIDE DEF Good
<1>4. Bad = {}
  <2> SUFFICES ASSUME Bad # {}
               PROVE  FALSE
    OBVIOUS
  <2>1. Bad \in SUBSET Nat
    BY <1>1
  <2>2. PICK to \in Bad : \A k \in Bad : to <= k
    <3> HIDE DEF Bad
    <3> QED
      BY <2>1, LeastNumber
  <2>3. to # from /\ to \in from..Len(all) /\ ~Good(to)
    BY <1>2, <2>2
  <2>4. to - 1 \in from..Len(all) /\ to - 1 < to
    BY <1>1, <2>3
  <2>5. to - 1 \notin Bad
    <3> HIDE DEF Bad
    <3> QED
      BY <1>1, <2>2, <2>3, <2>4
  <2>6. Good(to - 1)
    BY <2>4, <2>5
  <2> QED
    BY <1>3, <2>3, <2>6
<1>5. \A to \in from..Len(all) : Good(to)
  BY <1>4
<1> QED
  BY <1>5 DEF Good

-----------------------------------------------------------------------------
(* What is still to come                                                   *)

BeginningOf(line, whole) ==
  /\ Len(line) <= Len(whole)
  /\ \A i \in 1..Len(line) : line[i] = whole[i]

(* The first of what was pushed, or what is in the buffer if nothing was,  *)
(* begins as the line.                                                     *)
Starts(line, fed) ==
  IF fed.lines = <<>> THEN BeginningOf(line, fed.buf)
  ELSE BeginningOf(line, fed.lines[1])

LEMMA StartsChar ==
  ASSUME NEW C, NEW line \in Seq(C), line # <<>>, NEW c \in C,
         NEW fed \in [buf : Seq(C), lines : Seq(Seq(C))], Starts(line, fed)
  PROVE  Starts(line, FeedChar(fed, c))
<1> DEFINE lines == fed.lines
           b == fed.buf
           longer == Append(b, c)
<1>1. lines \in Seq(Seq(C)) /\ b \in Seq(C)
  OBVIOUS
<1>2. /\ longer \in Seq(C) /\ Len(longer) = Len(b) + 1
      /\ \A i \in 1..Len(b) : longer[i] = b[i]
  BY <1>1, AppendProperties
<1>3. FeedChar(fed, c) = IF c = NL THEN [buf |-> <<>>, lines |-> lines \o Finalize(b)]
                         ELSE [buf |-> longer, lines |-> lines]
  BY DEF FeedChar
<1>4. Starts(line, fed) <=> IF lines = <<>> THEN BeginningOf(line, b)
                            ELSE BeginningOf(line, lines[1])
  BY DEF Starts
<1> HIDE DEF longer, lines, b
<1>5. CASE lines = <<>>
  <2>1. BeginningOf(line, b)
    BY <1>4, <1>5
  <2>2. b # <<>>
    <3>1. Len(line) # 0 /\ Len(line) \in Nat
      BY EmptySeq
    <3> QED
      BY <1>1, <2>1, <3>1 DEF BeginningOf
  <2>3. CASE c = NL
    <3>1. lines \o Finalize(b) = <<b>>
      BY <1>1, <1>5, <2>2 DEF Finalize
    <3>2. FeedChar(fed, c) = [buf |-> <<>>, lines |-> <<b>>]
      BY <1>3, <2>3, <3>1
    <3>3. <<b>> # <<>> /\ <<b>>[1] = b
      OBVIOUS
    <3>4. FeedChar(fed, c).lines = <<b>>
      BY <3>2
    <3> QED
      BY <2>1, <3>3, <3>4 DEF Starts
  <2>4. CASE c # NL
    <3>1. FeedChar(fed, c) = [buf |-> longer, lines |-> <<>>]
      BY <1>3, <1>5, <2>4
    <3>2. BeginningOf(line, longer)
      <4>1. /\ Len(line) \in Nat /\ Len(b) \in Nat /\ Len(line) <= Len(b)
            /\ \A i \in 1..Len(line) : line[i] = b[i]
        BY <1>1, <2>1 DEF BeginningOf
      <4>2. Len(line) <= Len(longer) /\ \A i \in 1..Len(line) : i \in 1..Len(b)
        BY <1>2, <4>1
      <4> QED
        BY <1>2, <4>1, <4>2 DEF BeginningOf
    <3>3. FeedChar(fed, c).lines = <<>> /\ FeedChar(fed, c).buf = longer
      BY <3>1
    <3> QED
      BY <3>2, <3>3 DEF Starts
  <2> QED
    BY <2>3, <2>4
<1>6. CASE lines # <<>>
  <2>1. BeginningOf(line, lines[1]) /\ Len(lines) \in Nat /\ Len(lines) # 0
    BY <1>1, <1>4, <1>6, EmptySeq
  <2>2. CASE c = NL
    <3> DEFINE more == lines \o Finalize(b)
    <3>1. Finalize(b) \in Seq(Seq(C))
      BY <1>1 DEF Finalize
    <3>2. more # <<>> /\ more[1] = lines[1]
      <4>1. Len(more) = Len(lines) + Len(Finalize(b)) /\ Len(Finalize(b)) \in Nat
        BY <1>1, <3>1, ConcatProperties
      <4>2. more[1] = lines[1]
        BY <1>1, <2>1, <3>1, ConcatProperties
      <4> QED
        BY <2>1, <4>1, <4>2
    <3> HIDE DEF more
    <3>3. FeedChar(fed, c) = [buf |-> <<>>, lines |-> more]
      BY <1>3, <2>2 DEF more
    <3>4. FeedChar(fed, c).lines = more
      BY <3>3
    <3> QED
      BY <2>1, <3>2, <3>4 DEF Starts
  <2>3. CASE c # NL
    <3>1. FeedChar(fed, c).lines = lines
      BY <1>3, <2>3
    <3> QED
      BY <1>6, <2>1, <3>1 DEF Starts
  <2> QED
    BY <2>2, <2>3
<1> QED
  BY <1>5, <1>6

(* An unfinished line is the beginning of the next line pushed.            *)
LEMMA FeedStarts ==
  ASSUME NEW C, NEW line \in Seq(C), line # <<>>, NEW text \in Seq(C)
  PROVE  Starts(line, Feed(line, text))
<1> DEFINE fed(n) == Feed(line, SubSeq(text, 1, n))
           Bad == {n \in 0..Len(text) : ~Starts(line, fed(n))}
<1>1. Len(text) \in Nat
  OBVIOUS
<1>2. Starts(line, fed(0))
  <2>1. SubSeq(text, 1, 0) = <<>>
    BY SubSeqEmpty
  <2>2. fed(0) = [buf |-> line, lines |-> <<>>]
    BY <2>1, FeedNothing
  <2>3. fed(0).lines = <<>> /\ fed(0).buf = line
    <3> HIDE DEF fed
    <3> QED
      BY <2>2
  <2>4. BeginningOf(line, line)
    BY DEF BeginningOf
  <2> HIDE DEF fed
  <2> QED
    BY <2>3, <2>4 DEF Starts
<1>3. ASSUME NEW n \in 1..Len(text), Starts(line, fed(n - 1))
      PROVE  Starts(line, fed(n))
  <2> DEFINE part == SubSeq(text, 1, n - 1)
             c == text[n]
  <2>1. part \in Seq(C) /\ c \in C /\ SubSeq(text, 1, n) = Append(part, c)
    BY <1>1, <1>3, SubSeqLast
  <2>2. Starts(line, Feed(line, part))
    BY <1>3
  <2>3. fed(n) = Feed(line, Append(part, c))
    BY <2>1
  <2> HIDE DEF part, c, fed
  <2>4. /\ Feed(line, part) \in [buf : Seq(C), lines : Seq(Seq(C))]
        /\ Feed(line, Append(part, c)) = FeedChar(Feed(line, part), c)
    BY <2>1, FeedAppend
  <2>5. Starts(line, FeedChar(Feed(line, part), c))
    BY <2>1, <2>2, <2>4, StartsChar
  <2> QED
    BY <2>3, <2>4, <2>5
<1>4. Bad = {}
  <2> SUFFICES ASSUME Bad # {}
               PROVE  FALSE
    OBVIOUS
  <2>1. Bad \in SUBSET Nat
    BY <1>1
  <2>2. PICK n \in Bad : \A k \in Bad : n <= k
    <3> HIDE DEF Bad
    <3> QED
      BY <2>1, LeastNumber
  <2> HIDE DEF fed
  <2>3. n \in 1..Len(text) /\ ~Starts(line, fed(n))
    BY <1>1, <1>2, <2>2
  <2>4. n - 1 \in 0..Len(text) /\ n - 1 < n /\ n \in Nat
    BY <1>1, <2>3
  <2>5. n - 1 \notin Bad
    <3> HIDE DEF Bad
    <3> QED
      BY <1>1, <2>2, <2>4
  <2> QED
    BY <1>3, <2>3, <2>4, <2>5
<1>5. Len(text) \notin Bad /\ Len(text) \in 0..Len(text)
  BY <1>1, <1>4
<1>6. SubSeq(text, 1, Len(text)) = text
  BY SubSeqFull
<1> QED
  BY <1>5, <1>6

(* The items are the first lines, and what is unfinished begins the next.  *)
LinesSoFar(its, line, lines) ==
  /\ Len(its) + Len(Finalize(line)) <= Len(lines)
  /\ \A k \in 1..Len(its) : its[k] = lines[k]
  /\ line # <<>> => BeginningOf(line, lines[Len(its) + 1])

(* What was read of the beginning of a text are the first lines of all of  *)
(* the text.                                                               *)
LEMMA ReadSoFar ==
  ASSUME NEW C, NEW all \in Seq(C), NEW from \in 0..Len(all),
         NEW its \in Seq(Seq(C)), NEW line \in Seq(C),
         HasRead(its, line, SubSeq(all, 1, from), {})
  PROVE  Lines(all, {}) \in Seq(Seq(C)) /\ LinesSoFar(its, line, Lines(all, {}))
<1> DEFINE chunk == SubSeq(all, from + 1, Len(all))
           fed == Feed(line, chunk)
           rest == fed.lines \o Finalize(fed.buf)
<1>1. /\ Len(all) \in Nat /\ from \in Nat /\ from <= Len(all)
      /\ {} \in SUBSET (0..from) /\ Len(all) \in from..Len(all)
  OBVIOUS
<1>2. SubSeq(all, 1, Len(all)) = all
  BY SubSeqFull
<1>3. /\ fed \in [buf : Seq(C), lines : Seq(Seq(C))]
      /\ HasRead(its \o fed.lines, fed.buf, all, {})
  <2>1. \A to \in from..Len(all) :
          LET new == Feed(line, SubSeq(all, from + 1, to))
          IN /\ new \in [buf : Seq(C), lines : Seq(Seq(C))]
             /\ HasRead(its \o new.lines, new.buf, SubSeq(all, 1, to), {})
    BY <1>1, FeedRead
  <2> QED
    BY <1>1, <1>2, <2>1
<1>4. chunk \in Seq(C)
  <2>1. /\ from + 1 \in Int /\ Len(all) \in Int
        /\ \A i \in from + 1..Len(all) : i \in 1..Len(all)
        /\ \A i \in 1..Len(all) : all[i] \in C
    BY <1>1
  <2> QED
    BY <2>1, SubSeqProperties
<1>5. line # <<>> => Starts(line, fed)
  <2> HIDE DEF chunk
  <2> QED
    BY <1>4, FeedStarts
<1> HIDE DEF fed, chunk
<1>6. /\ fed.lines \in Seq(Seq(C)) /\ fed.buf \in Seq(C)
      /\ Finalize(fed.buf) \in Seq(Seq(C))
  BY <1>3 DEF Finalize
<1>7. (its \o fed.lines) \o Finalize(fed.buf) = its \o rest /\ rest \in Seq(Seq(C))
  <2> DEFINE a == fed.lines
             b == Finalize(fed.buf)
  <2>1. a \in Seq(Seq(C)) /\ b \in Seq(Seq(C))
    BY <1>6
  <2> HIDE DEF a, b
  <2>2. (its \o a) \o b = its \o (a \o b) /\ a \o b \in Seq(Seq(C))
    <3>1. (its \o a) \o b = its \o (a \o b)
      <4> DEFINE T == Seq(C)
      <4>1. its \in Seq(T) /\ a \in Seq(T) /\ b \in Seq(T)
        BY <2>1
      <4> HIDE DEF T
      <4> QED
        BY <4>1, ConcatAssociative
    <3>2. a \o b \in Seq(Seq(C))
      BY <2>1, ConcatProperties
    <3> QED
      BY <3>1, <3>2
  <2> QED
    BY <2>2 DEF a, b
<1>8. Lines(all, {}) = its \o rest
  BY <1>3, <1>7 DEF HasRead
<1>9. line # <<>> => Len(rest) # 0 /\ BeginningOf(line, rest[1])
  <2> SUFFICES ASSUME line # <<>>
               PROVE  Len(rest) # 0 /\ BeginningOf(line, rest[1])
    OBVIOUS
  <2> DEFINE a == fed.lines
             b == fed.buf
  <2>1. /\ a \in Seq(Seq(C)) /\ b \in Seq(C) /\ Finalize(b) \in Seq(Seq(C))
        /\ IF a = <<>> THEN BeginningOf(line, b) ELSE BeginningOf(line, a[1])
    BY <1>5, <1>6 DEF Starts
  <2> HIDE DEF a, b
  <2>2. CASE a = <<>>
    <3>1. Len(line) # 0 /\ Len(line) \in Nat
      BY EmptySeq
    <3>2. b # <<>>
      BY <2>1, <2>2, <3>1 DEF BeginningOf
    <3>3. a \o Finalize(b) = <<b>>
      BY <2>1, <2>2, <3>2 DEF Finalize
    <3>4. Len(<<b>>) # 0 /\ <<b>>[1] = b
      OBVIOUS
    <3>5. rest = <<b>>
      BY <3>3 DEF a, b
    <3> QED
      BY <2>1, <2>2, <3>4, <3>5
  <2>3. CASE a # <<>>
    <3>1. Len(a) \in Nat /\ Len(a) # 0
      BY <2>1, <2>3, EmptySeq
    <3>2. Len(a \o Finalize(b)) # 0 /\ (a \o Finalize(b))[1] = a[1]
      BY <2>1, <3>1, ConcatProperties
    <3>3. rest = a \o Finalize(b)
      BY DEF a, b
    <3> HIDE DEF rest
    <3> QED
      BY <2>1, <2>3, <3>2, <3>3
  <2> QED
    BY <2>2, <2>3
<1> HIDE DEF rest
<1>10. /\ Len(its) \in Nat /\ Len(rest) \in Nat /\ Len(its \o rest) = Len(its) + Len(rest)
       /\ \A k \in 1..Len(its) : (its \o rest)[k] = its[k]
       /\ Len(rest) # 0 => (its \o rest)[Len(its) + 1] = rest[1]
  BY <1>7, ConcatProperties
<1>11. Len(Finalize(line)) = IF line = <<>> THEN 0 ELSE 1
  BY DEF Finalize
<1>12. its \o rest \in Seq(Seq(C))
  BY <1>7, ConcatProperties
<1> DEFINE lines == its \o rest
<1>13. /\ Len(its) + Len(Finalize(line)) <= Len(lines)
       /\ \A k \in 1..Len(its) : its[k] = lines[k]
  BY <1>9, <1>10, <1>11
<1>14. line # <<>> => BeginningOf(line, lines[Len(its) + 1])
  BY <1>9, <1>10
<1> HIDE DEF lines
<1>15. LinesSoFar(its, line, lines)
  BY <1>13, <1>14 DEF LinesSoFar
<1> QED
  BY <1>8, <1>12, <1>15 DEF lines

(* The lines that one more reading yields, some of which are pushed, and   *)
(* then a beginning of the next: of the line that was unfinished before,   *)
(* of the first that is pushed, or of the one that is unfinished after it. *)
LEMMA LinesLeft ==
  ASSUME NEW C, NEW its \in Seq(Seq(C)), NEW more \in Seq(Seq(C)), NEW before, NEW after,
         NEW lines, LinesSoFar(its, before, lines), LinesSoFar(its \o more, after, lines),
         NEW n \in 0..Len(more), NEW left, Len(lines) \in Nat,
         \/ left = <<>>
         \/ n = 0 /\ left = before
         \/ n = 0 /\ more # <<>> /\ left = more[1]
         \/ n = Len(more) /\ left = after
  PROVE  /\ its \o SubSeq(more, 1, n) \in Seq(Seq(C))
         /\ LinesSoFar(its \o SubSeq(more, 1, n), left, lines)
<1> DEFINE p == SubSeq(more, 1, n)
           q == its \o p
           r == its \o more
<1> DEFINE a == Len(its)
           m == Len(more)
           u == Len(lines)
<1>1. a \in Nat /\ m \in Nat /\ u \in Nat /\ n \in Nat /\ n <= m
  OBVIOUS
<1>2. /\ p \in Seq(Seq(C)) /\ Len(p) = n
      /\ \A k \in 1..n : p[k] = more[k]
  <2>1. /\ 1 \in Int /\ n \in Int /\ \A i \in 1..n : i \in 1..Len(more)
        /\ \A i \in 1..Len(more) : more[i] \in Seq(C)
    BY <1>1
  <2>2. /\ p \in Seq(Seq(C)) /\ Len(p) = IF 1 <= n THEN n - 1 + 1 ELSE 0
        /\ \A k \in 1..n - 1 + 1 : p[k] = more[1 + k - 1]
    BY <2>1, SubSeqProperties
  <2> HIDE DEF p
  <2> QED
    BY <1>1, <2>2
<1> HIDE DEF p
<1>3. /\ q \in Seq(Seq(C)) /\ Len(q) = a + n
      /\ \A k \in 1..a + n : q[k] = IF k <= a THEN its[k] ELSE p[k - a]
  <2>1. /\ q \in Seq(Seq(C)) /\ Len(q) = Len(its) + Len(p)
        /\ \A k \in 1..Len(its) + Len(p) :
             q[k] = IF k <= Len(its) THEN its[k] ELSE p[k - Len(its)]
    BY <1>2, ConcatProperties
  <2> HIDE DEF q
  <2> QED
    BY <1>2, <2>1
<1>4. /\ Len(r) = a + m
      /\ \A k \in 1..a + m : r[k] = IF k <= a THEN its[k] ELSE more[k - a]
  BY ConcatProperties
<1>5. /\ Len(r) + Len(Finalize(after)) <= u
      /\ \A k \in 1..Len(r) : r[k] = lines[k]
      /\ after # <<>> => BeginningOf(after, lines[Len(r) + 1])
      /\ a + Len(Finalize(before)) <= u
      /\ before # <<>> => BeginningOf(before, lines[a + 1])
  BY DEF LinesSoFar
<1>6. \A line : Len(Finalize(line)) = IF line = <<>> THEN 0 ELSE 1
  BY DEF Finalize
<1>7. more # <<>> => m # 0 /\ more[1] \in Seq(C) /\ Len(more[1]) \in Nat
  <2>1. more # <<>> => m # 0
    BY EmptySeq
  <2>2. m # 0 => more[1] \in Seq(C)
    OBVIOUS
  <2>3. \A line \in Seq(C) : Len(line) \in Nat
    OBVIOUS
  <2> QED
    BY <2>1, <2>2, <2>3
<1> HIDE DEF q, r, a, m, u
<1>8. \A k \in 1..a + n : q[k] = lines[k]
  <2> SUFFICES ASSUME NEW k \in 1..a + n
               PROVE  q[k] = lines[k]
    OBVIOUS
  <2>1. k \in 1..a + m /\ k \in 1..Len(r)
    BY <1>1, <1>4
  <2>2. r[k] = lines[k]
    BY <1>5, <2>1
  <2>3. CASE k <= a
    <3>1. q[k] = its[k] /\ r[k] = its[k]
      BY <1>3, <1>4, <2>1, <2>3
    <3> QED
      BY <2>2, <3>1
  <2>4. CASE ~(k <= a)
    <3>1. k - a \in 1..n
      BY <1>1, <2>4
    <3>2. q[k] = p[k - a] /\ r[k] = more[k - a]
      BY <1>3, <1>4, <2>1, <2>4
    <3> QED
      BY <1>2, <2>2, <3>1, <3>2
  <2> QED
    BY <2>3, <2>4
<1>9. Len(Finalize(before)) \in Nat /\ Len(Finalize(after)) \in Nat
  BY <1>6
<1>10. (a + n) + Len(Finalize(left)) <= u
  <2>1. CASE left = <<>>
    BY <1>1, <1>4, <1>5, <1>6, <1>9, <2>1
  <2>2. CASE n = 0 /\ left = before
    BY <1>1, <1>5, <2>2
  <2>3. CASE n = 0 /\ more # <<>> /\ left = more[1]
    <3>1. Len(Finalize(left)) \in {0, 1} /\ m # 0
      BY <1>6, <1>7, <2>3
    <3>2. (a + m) + Len(Finalize(after)) <= u
      BY <1>4, <1>5
    <3>3. n = 0
      BY <2>3
    <3>4. \A x \in {0, 1} : \A y \in Nat : (a + m) + y <= u => (a + n) + x <= u
      BY <1>1, <3>1, <3>3
    <3> QED
      BY <1>9, <3>1, <3>2, <3>4
  <2>4. CASE n = Len(more) /\ left = after
    BY <1>4, <1>5, <2>4 DEF m
  <2> QED
    BY <2>1, <2>2, <2>3, <2>4
<1>11. left # <<>> => BeginningOf(left, lines[(a + n) + 1])
  <2>1. CASE n = 0 /\ left = before
    <3>1. (a + n) + 1 = a + 1
      BY <1>1, <2>1
    <3> QED
      BY <1>5, <2>1, <3>1
  <2>2. CASE n = 0 /\ more # <<>> /\ left = more[1]
    <3>1. /\ a + 1 \in 1..a + m /\ ~(a + 1 <= a) /\ (a + 1) - a = 1
          /\ (a + n) + 1 = a + 1
      BY <1>1, <1>7, <2>2
    <3>2. r[a + 1] = more[1]
      BY <1>4, <3>1
    <3>3. lines[(a + n) + 1] = left
      BY <1>4, <1>5, <2>2, <3>1, <3>2
    <3> QED
      BY <1>7, <2>2, <3>3 DEF BeginningOf
  <2>3. CASE n = Len(more) /\ left = after
    BY <1>4, <1>5, <2>3 DEF m
  <2> QED
    BY <2>1, <2>2, <2>3
<1>12. LinesSoFar(q, left, lines)
  BY <1>3, <1>8, <1>10, <1>11 DEF LinesSoFar, u
<1> QED
  BY <1>3, <1>12 DEF q, p
=============================================================================
