---------------------------- MODULE PluginProofs ----------------------------
(***************************************************************************)
(* Proof that the items of module Plugin are the lines of the output, for  *)
(* any output and however it is cut into chunks.                           *)
(***************************************************************************)
EXTENDS Plugin, LineScannerProofs

Chars == {Output[k] : k \in DOMAIN Output}

(* What was read so far, and where scan_end() has cut it. *)
ScanInv ==
  /\ consumed \in 0..Len(Output)
  /\ cuts \in SUBSET (0..consumed)
  /\ items \in Seq(Seq(Chars)) /\ buf \in Seq(Chars)
  /\ HasRead(items, buf, SubSeq(Output, 1, consumed), cuts)

LEMMA OutputType ==
  /\ Output \in Seq(Chars) /\ Len(Output) \in Nat
  /\ \A n \in 0..Len(Output) : /\ SubSeq(Output, 1, n) \in Seq(Chars)
                               /\ Len(SubSeq(Output, 1, n)) = n
<1>1. Output \in Seq(Chars)
  BY PluginAssumption DEF Chars
<1>2. Len(Output) \in Nat /\ \A i \in 1..Len(Output) : Output[i] \in Chars
  BY <1>1
<1>3. ASSUME NEW n \in 0..Len(Output)
      PROVE  SubSeq(Output, 1, n) \in Seq(Chars) /\ Len(SubSeq(Output, 1, n)) = n
  <2>1. n \in Int /\ 1 \in Int /\ \A i \in 1..n : i \in 1..Len(Output)
    BY <1>2
  <2>2. /\ SubSeq(Output, 1, n) \in Seq(Chars)
        /\ Len(SubSeq(Output, 1, n)) = IF 1 <= n THEN n - 1 + 1 ELSE 0
    BY <1>2, <2>1, SubSeqProperties
  <2> QED
    BY <1>2, <2>2
<1> QED
  BY <1>1, <1>2, <1>3

LEMMA ScanInit == Init => ScanInv
<1> SUFFICES ASSUME Init
             PROVE  ScanInv
  OBVIOUS
<1>1. consumed = 0 /\ buf = <<>> /\ items = <<>> /\ cuts = {}
  BY DEF Init
<1>2. SubSeq(Output, 1, 0) = <<>>
  BY SubSeqEmpty
<1>3. 0 \in 0..Len(Output) /\ {} \in SUBSET (0..0)
  BY OutputType
<1>4. <<>> \in Seq(Seq(Chars)) /\ <<>> \in Seq(Chars)
  OBVIOUS
<1> QED
  BY <1>1, <1>2, <1>3, <1>4, ReadNothing DEF ScanInv

(* scan_feed(). *)
LEMMA OnDataReads == ScanInv /\ OnData => ScanInv'
<1> SUFFICES ASSUME ScanInv, OnData
             PROVE  ScanInv'
  OBVIOUS
<1>1. PICK upto \in consumed + 1..Len(Output) :
        LET fed == Feed(buf, SubSeq(Output, consumed + 1, upto))
        IN items' = items \o fed.lines /\ buf' = fed.buf /\ consumed' = upto
  BY DEF OnData
<1>2. cuts' = cuts
  BY DEF OnData
<1> DEFINE fed == Feed(buf, SubSeq(Output, consumed + 1, upto))
<1>3. /\ consumed \in 0..Len(Output) /\ cuts \in SUBSET (0..consumed)
      /\ items \in Seq(Seq(Chars)) /\ buf \in Seq(Chars)
      /\ HasRead(items, buf, SubSeq(Output, 1, consumed), cuts)
  BY DEF ScanInv
<1>4. /\ upto \in consumed..Len(Output) /\ upto \in 0..Len(Output)
      /\ 0..consumed \subseteq 0..upto
  BY <1>1, <1>3, OutputType
<1>5. /\ fed \in [buf : Seq(Chars), lines : Seq(Seq(Chars))]
      /\ HasRead(items \o fed.lines, fed.buf, SubSeq(Output, 1, upto), cuts)
  BY <1>3, <1>4, OutputType, FeedRead
<1>6. items' = items \o fed.lines /\ buf' = fed.buf /\ consumed' = upto
  BY <1>1
<1> HIDE DEF fed
<1>7. fed.buf \in Seq(Chars) /\ fed.lines \in Seq(Seq(Chars))
  BY <1>5
<1>8. items \o fed.lines \in Seq(Seq(Chars))
  BY <1>3, <1>7, ConcatProperties
<1>9. cuts \in SUBSET (0..upto)
  BY <1>3, <1>4
<1>10. /\ consumed' \in 0..Len(Output) /\ cuts' \in SUBSET (0..consumed')
       /\ items' \in Seq(Seq(Chars)) /\ buf' \in Seq(Chars)
  BY <1>2, <1>4, <1>6, <1>7, <1>8, <1>9
<1>11. HasRead(items', buf', SubSeq(Output, 1, consumed'), cuts')
  BY <1>2, <1>5, <1>6
<1> QED
  BY <1>10, <1>11 DEF ScanInv, HasRead

(* scan_end(), of the read callback and of the exit callback. *)
LEMMA ScanEndCuts ==
  ScanInv /\ ScanEnd /\ consumed' = consumed => ScanInv'
<1> SUFFICES ASSUME ScanInv, ScanEnd, consumed' = consumed
             PROVE  ScanInv'
  OBVIOUS
<1> DEFINE text == SubSeq(Output, 1, consumed)
<1>1. items' = items \o Finalize(buf) /\ buf' = <<>> /\ cuts' = cuts \union {consumed}
  BY DEF ScanEnd
<1>2. /\ consumed \in 0..Len(Output) /\ cuts \in SUBSET (0..consumed)
      /\ items \in Seq(Seq(Chars)) /\ buf \in Seq(Chars)
      /\ HasRead(items, buf, text, cuts)
  BY DEF ScanInv
<1>3. text \in Seq(Chars) /\ Len(text) = consumed
  BY <1>2, OutputType
<1>4. items \o Finalize(buf) \in Seq(Seq(Chars)) /\ <<>> \in Seq(Chars)
  BY <1>2, FinalizeType
<1> HIDE DEF text
<1>5. HasRead(items \o Finalize(buf), <<>>, text, cuts \union {consumed})
  BY <1>2, <1>3, ReadCut
<1>6. HasRead(items', buf', text, cuts')
  BY <1>1, <1>5
<1>7. cuts' \in SUBSET (0..consumed)
  BY <1>1, <1>2, OutputType
<1>8. /\ consumed' \in 0..Len(Output) /\ cuts' \in SUBSET (0..consumed')
      /\ items' \in Seq(Seq(Chars)) /\ buf' \in Seq(Chars)
  BY <1>1, <1>2, <1>4, <1>7
<1>9. HasRead(items', buf', SubSeq(Output, 1, consumed'), cuts')
  BY <1>6 DEF text
<1> QED
  BY <1>8, <1>9 DEF ScanInv, HasRead

LEMMA ScanStays == ScanInv /\ UNCHANGED <<consumed, buf, items, cuts>> => ScanInv'
BY DEF ScanInv, HasRead

LEMMA ScanNext == ScanInv /\ [Next]_vars => ScanInv'
<1> SUFFICES ASSUME ScanInv, [Next]_vars
             PROVE  ScanInv'
  OBVIOUS
<1>1. CASE OnData
  BY <1>1, OnDataReads
<1>2. CASE OnDataEnd
  BY <1>2, ScanEndCuts DEF OnDataEnd
<1>3. CASE OnExit
  <2>1. CASE alive
    BY <1>3, <2>1, ScanEndCuts DEF OnExit
  <2>2. CASE ~alive
    BY <1>3, <2>2, ScanStays DEF OnExit
  <2> QED
    BY <2>1, <2>2
<1>4. CASE OnDataGone
  BY <1>4, ScanStays DEF OnDataGone
<1>5. CASE OnPoll \/ Publish \/ End
  BY <1>5, ScanStays DEF OnPoll, Publish, End, scanVars
<1>6. CASE RedrawDisplay \/ RedrawPromptLater \/ TimerFires
  BY <1>6, ScanStays DEF RedrawDisplay, RedrawPromptLater, TimerFires, scanVars
<1>7. CASE DestroyLater
  BY <1>7, ScanStays DEF DestroyLater, Destroy, scanVars
<1>8. CASE Enter \/ Quit
  BY <1>8, ScanStays DEF Enter, Quit, Destroy, scanVars
<1>9. CASE CloseWindow
  BY <1>9, ScanStays DEF CloseWindow, scanVars
<1>10. ASSUME NEW text \in Texts \union {NoQuery}, TextChanged(text)
       PROVE  ScanInv'
  BY <1>10, ScanStays DEF TextChanged, scanVars
<1>11. ASSUME NEW at \in 0..MaxItems, Scroll(at)
       PROVE  ScanInv'
  BY <1>11, ScanStays DEF Scroll, scanVars
<1>12. ASSUME NEW to \in Heights, Resize(to)
       PROVE  ScanInv'
  BY <1>12, ScanStays DEF Resize, scanVars
<1>13. ASSUME NEW by \in {-1, 1}, MoveCursor(by)
       PROVE  ScanInv'
  BY <1>13, ScanStays DEF MoveCursor, scanVars
<1>14. CASE UNCHANGED vars
  BY <1>14, ScanStays DEF vars, scanVars
<1> QED
  BY <1>1, <1>2, <1>3, <1>4, <1>5, <1>6, <1>7, <1>8, <1>9, <1>10, <1>11, <1>12,
     <1>13, <1>14 DEF Next, World, Drawing, Child, Scheduled, User

(* scan_feed() and scan_end() (lua/fzx.cpp): for any output, cut into any  *)
(* chunks, and whichever of the end of the output and the exit of the      *)
(* child comes first, the items are the lines of what was read.            *)
THEOREM ItemsAreLines == Spec => []ItemsAreOutput
<1>1. ScanInv => ItemsAreOutput
  <2> SUFFICES ASSUME ScanInv
               PROVE  ItemsAreOutput
    OBVIOUS
  <2>1. consumed \in 0..Len(Output) /\ cuts \in SUBSET (0..consumed)
    BY DEF ScanInv
  <2>2. cuts \in SUBSET (0..Len(Output))
    BY <2>1, OutputType
  <2>3. OutputLines[consumed][cuts] = Lines(SubSeq(Output, 1, consumed), cuts)
    BY <2>1, <2>2 DEF OutputLines
  <2>4. items \o Finalize(buf) = Lines(SubSeq(Output, 1, consumed), cuts)
    BY DEF ScanInv, HasRead
  <2> QED
    BY <2>3, <2>4 DEF ItemsAreOutput
<1> QED
  BY <1>1, ScanInit, ScanNext, PTL DEF Spec
=============================================================================
