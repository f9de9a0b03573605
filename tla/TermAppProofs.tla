--------------------------- MODULE TermAppProofs ---------------------------
(***************************************************************************)
(* Proofs about module TermApp, for any input, keys, answers, height of    *)
(* the terminal and size of the buffer: the items are the lines of the     *)
(* input; whenever the loop is about to wait, the terminal shows what the  *)
(* program would act on; and Enter takes what is shown.                    *)
(***************************************************************************)
EXTENDS TermApp, LineScannerProofs

LEMMA AfterIsHandler ==
  \A place, ready :
    /\ After(place, ready) \in {"tty", "input", "wakeup", "top"}
    /\ After(place, ready) = "tty" => place = "blocked" /\ "tty" \in ready
    /\ After(place, ready) = "input" => place \in {"blocked", "tty"} /\ "input" \in ready
    /\ After(place, ready) = "wakeup" => place # "wakeup" /\ "wakeup" \in ready
BY DEF After

-----------------------------------------------------------------------------
(* The input                                                               *)

Chars == {Input[k] : k \in DOMAIN Input}

(* The input is handled only if pselect() said that there is some.         *)
TurnInv ==
  /\ pc = "input" => "input" \in turn
  /\ pc = "wakeup" => "wakeup" \in turn
  /\ pc \in {"tty", "input"} /\ "input" \in turn => isOpen /\ HasInput

(* What was read is the beginning of what was written, and while the input *)
(* is open the items and the unfinished line are what was read.            *)
ReadInv ==
  /\ written \in 0..Len(Input) /\ consumed \in 0..written
  /\ ended => written = Len(Input)
  /\ bufferSize \in Nat /\ (isOpen => bufferSize # 0)
  /\ items \in Seq(Seq(Chars)) /\ buf \in Seq(Chars)
  /\ isOpen => ~oom /\ HasRead(items, buf, SubSeq(Input, 1, consumed), {})
  /\ ItemsAreInput

LEMMA InputType ==
  /\ Input \in Seq(Chars) /\ Len(Input) \in Nat
  /\ InputLines \in Seq(Seq(Chars)) /\ Len(InputLines) \in Nat
<1>1. Input \in Seq(Chars)
  BY TermAppAssumption DEF Chars
<1>2. Len(Input) \in Nat /\ 0 \in 0..Len(Input)
  BY <1>1
<1>3. SubSeq(Input, 1, 0) = <<>>
  BY SubSeqEmpty
<1>4. <<>> \in Seq(Seq(Chars)) /\ <<>> \in Seq(Chars)
  OBVIOUS
<1>5. HasRead(<<>>, <<>>, SubSeq(Input, 1, 0), {})
  BY <1>3, ReadNothing
<1>6. InputLines \in Seq(Seq(Chars))
  BY <1>1, <1>2, <1>4, <1>5, ReadSoFar DEF InputLines
<1>7. Len(InputLines) \in Nat
  BY <1>6
<1> QED
  BY <1>1, <1>2, <1>6, <1>7

LEMMA BeginningIsPrefix ==
  ASSUME NEW C, NEW line \in Seq(C), NEW whole \in Seq(C), BeginningOf(line, whole)
  PROVE  IsPrefix(line, whole)
<1> DEFINE n == Len(line)
           s == SubSeq(line, 1, n)
           t == SubSeq(whole, 1, n)
<1>1. /\ n \in Nat /\ Len(whole) \in Nat /\ n <= Len(whole)
      /\ \A i \in 1..n : line[i] = whole[i]
  BY DEF BeginningOf
<1>2. s = [i \in 1..n |-> line[i]] /\ t = [i \in 1..n |-> whole[i]]
  BY <1>1
<1>3. s = t
  <2> HIDE DEF s, t, n
  <2> QED
    BY <1>1, <1>2
<1> QED
  BY <1>1, <1>3 DEF IsPrefix

(* The items, and after a failed allocation a beginning of the next line,  *)
(* are as many lines of the input.                                         *)
LEMMA PushedAreInput ==
  ASSUME NEW its \in Seq(Seq(Chars)), NEW left \in Seq(Chars),
         LinesSoFar(its, left, InputLines)
  PROVE  /\ its \o Finalize(left) \in Seq(Seq(Chars))
         /\ Len(its \o Finalize(left)) <= Len(InputLines)
         /\ \A k \in DOMAIN (its \o Finalize(left)) :
              IF k = Len(its \o Finalize(left))
              THEN IsPrefix((its \o Finalize(left))[k], InputLines[k])
              ELSE (its \o Finalize(left))[k] = InputLines[k]
         /\ Len(its) <= Len(InputLines)
         /\ \A k \in DOMAIN its : its[k] = InputLines[k]
<1> DEFINE all == its \o Finalize(left)
<1>1. Finalize(left) = IF left = <<>> THEN <<>> ELSE <<left>>
  BY DEF Finalize
<1>2. /\ Len(its) \in Nat /\ Len(Finalize(left)) = (IF left = <<>> THEN 0 ELSE 1)
      /\ left # <<>> => Finalize(left)[1] = left
  BY <1>1
<1>3. all \in Seq(Seq(Chars))
  BY FinalizeType
<1>4. /\ Len(all) = Len(its) + Len(Finalize(left)) /\ DOMAIN all = 1..Len(all)
      /\ \A k \in 1..Len(its) : all[k] = its[k]
      /\ left # <<>> => all[Len(its) + 1] = left
  <2>1. CASE left = <<>>
    <3>1. all = its
      BY <1>1, <2>1
    <3> HIDE DEF all
    <3> QED
      BY <1>2, <2>1, <3>1
  <2>2. CASE left # <<>>
    <3>1. all = Append(its, left)
      BY <1>1, <2>2
    <3> HIDE DEF all
    <3> QED
      BY <1>2, <2>2, <3>1, AppendProperties
  <2> QED
    BY <2>1, <2>2
<1>5. /\ Len(its) + Len(Finalize(left)) <= Len(InputLines)
      /\ \A k \in 1..Len(its) : its[k] = InputLines[k]
      /\ left # <<>> => BeginningOf(left, InputLines[Len(its) + 1])
  BY DEF LinesSoFar
<1>6. \A k \in 1..Len(InputLines) : InputLines[k] \in Seq(Chars)
  BY InputType
<1> HIDE DEF all
<1>7. ASSUME NEW k \in 1..Len(all)
      PROVE  /\ IsPrefix(all[k], InputLines[k])
             /\ k # Len(all) => all[k] = InputLines[k]
  <2>1. k \in 1..Len(InputLines)
    BY <1>2, <1>4, <1>5, InputType
  <2>2. CASE k <= Len(its)
    <3>1. all[k] = InputLines[k]
      BY <1>2, <1>4, <1>5, <2>2
    <3>2. BeginningOf(InputLines[k], InputLines[k])
      BY <1>6, <2>1 DEF BeginningOf
    <3> QED
      BY <1>6, <2>1, <3>1, <3>2, BeginningIsPrefix
  <2>3. CASE ~(k <= Len(its))
    <3>1. left # <<>> /\ k = Len(its) + 1 /\ k = Len(all)
      BY <1>2, <1>4, <2>3
    <3> QED
      BY <1>4, <1>5, <1>6, <2>1, <3>1, BeginningIsPrefix
  <2> QED
    BY <2>2, <2>3
<1>8. Len(its) <= Len(InputLines) /\ DOMAIN its = 1..Len(its)
  BY <1>2, <1>5, InputType
<1> QED
  BY <1>3, <1>4, <1>5, <1>7, <1>8 DEF all

(* While the input is open the items are the first lines, all whole.       *)
LEMMA OpenMeansSoFar ==
  ASSUME NEW from \in 0..Len(Input), NEW its \in Seq(Seq(Chars)),
         NEW line \in Seq(Chars), HasRead(its, line, SubSeq(Input, 1, from), {})
  PROVE  LinesSoFar(its, line, InputLines)
BY InputType, ReadSoFar DEF InputLines

-----------------------------------------------------------------------------
(* The keys                                                                *)

LEMMA KeysNext == keys \in Seq(Keys) /\ [Next]_vars => keys' \in Seq(Keys)
<1> SUFFICES ASSUME keys \in Seq(Keys), [Next]_vars
             PROVE  keys' \in Seq(Keys)
  OBVIOUS
<1>1. CASE keys' = keys
  BY <1>1
<1>2. CASE keys # <<>> /\ keys' = Tail(keys)
  BY <1>2, HeadTailProperties
<1>3. CASE \E key \in Keys : keys' = Append(keys, key)
  BY <1>3, AppendProperties
<1> QED
  BY <1>1, <1>2, <1>3
     DEF Next, Loop, Fault, User, Write, Type, QuitSignal, ResizeSignal,
     Publish, CheckSignals, Select, Interrupted, Select_Returns, Exit,
     ReadKey, EndOfKeys, InputUnchanged, ReadInput, EndInput, ReadEnd,
     ReadFails, OutOfMemory, Wakeup, ttyVars, vars

(* Every key that can be typed is one that processTTY() knows.             *)
LEMMA KeyIsHandled ==
  ASSUME keys \in Seq(Keys), ReadKey
  PROVE  \/ Edit(mLine + 1) \/ Edit(IF mLine = 0 THEN 0 ELSE mLine - 1) \/ Edit(0)
         \/ MoveTo(mCursor + 1) \/ MoveTo(IF mCursor = 0 THEN 0 ELSE mCursor - 1)
         \/ Toggle \/ Quit("ExitSuccess") \/ Quit("ExitFailure")
<1>1. HandleKey(Head(keys)) /\ Head(keys) \in Keys
  BY HeadTailProperties DEF ReadKey
<1>2. Head(keys) \in {"printable", "backspace", "ctrl-u", "ctrl-p", "ctrl-n", "tab",
                      "enter", "escape"}
  BY <1>1, TermAppAssumption
<1> HIDE DEF Edit, MoveTo, Toggle, Quit
<1> QED
  BY <1>1, <1>2 DEF HandleKey

LEMMA ReadInit == Init => ReadInv /\ TurnInv
<1> SUFFICES ASSUME Init
             PROVE  ReadInv /\ TurnInv
  OBVIOUS
<1>1. /\ written = 0 /\ ended = FALSE /\ consumed = 0 /\ bufferSize = InitialBuffer
      /\ items = <<>> /\ buf = <<>> /\ oom = FALSE /\ isOpen = TRUE /\ pc = "top"
  BY DEF Init
<1>2. SubSeq(Input, 1, 0) = <<>>
  BY SubSeqEmpty
<1>3. HasRead(<<>>, <<>>, SubSeq(Input, 1, 0), {})
  BY <1>2, ReadNothing
<1>4. <<>> \in Seq(Seq(Chars)) /\ <<>> \in Seq(Chars) /\ Len(<<>>) = 0
      /\ DOMAIN <<>> = {}
  OBVIOUS
<1>5. ItemsAreInput
  BY <1>1, <1>4, InputType DEF ItemsAreInput
<1>6. InitialBuffer \in Nat /\ InitialBuffer # 0
  BY TermAppAssumption
<1> QED
  BY <1>1, <1>3, <1>4, <1>5, <1>6, InputType DEF ReadInv, TurnInv

(* pselect() is returned from with what is ready, and until its handler    *)
(* has run the input stays open and there is something to be read.         *)
LEMMA TurnNext == TurnInv /\ ReadInv /\ keys \in Seq(Keys) /\ [Next]_vars => TurnInv'
<1> SUFFICES ASSUME TurnInv, ReadInv, keys \in Seq(Keys), [Next]_vars
             PROVE  TurnInv'
  OBVIOUS
<1> USE DEF TurnInv, HasInput
<1>1. CASE Write
  <2>1. written \in Int /\ written' \in Int /\ written' >= written /\ ~ended
        /\ consumed \in Int
    BY <1>1, InputType DEF Write, ReadInv
  <2> QED
    BY <1>1, <2>1 DEF Write, loopVars, inputVars
<1>2. CASE UNCHANGED <<turn, isOpen, consumed, pipeVars>> /\ pc' \notin {"tty", "input", "wakeup"}
  BY <1>2
<1>3. CASE UNCHANGED <<turn, isOpen, consumed, pipeVars, pc>>
  BY <1>3 DEF pipeVars
<1>4. CASE Publish \/ (\E key \in Keys : Type(key)) \/ QuitSignal \/ ResizeSignal
           \/ UNCHANGED vars
  <2>1. UNCHANGED <<turn, isOpen, consumed, pipeVars>>
        /\ (pc' = pc \/ pc' \notin {"tty", "input", "wakeup"})
    BY <1>4 DEF Publish, Type, QuitSignal, ResizeSignal, Interrupt, vars, loopVars,
       inputVars
  <2> QED
    BY <1>2, <1>3, <2>1
<1>5. CASE CheckSignals \/ Select \/ Interrupted \/ Exit
  <2>1. pc' \notin {"tty", "input", "wakeup"}
    BY <1>5 DEF CheckSignals, Select, Interrupted, Exit, ProcessSignals
  <2> QED
    BY <2>1
<1>6. CASE Select_Returns
  <2>1. turn' = Ready /\ pc' = After("blocked", Ready)
        /\ UNCHANGED <<isOpen, consumed, written, ended>>
    BY <1>6 DEF Select_Returns, inputVars, pipeVars
  <2>2. "input" \in Ready => isOpen /\ HasInput
    BY DEF Ready
  <2> QED
    BY <2>1, <2>2, AfterIsHandler
<1>7. CASE ReadKey \/ EndOfKeys
  <2>1. /\ pc = "tty" /\ UNCHANGED <<turn, isOpen, consumed, written, ended>>
        /\ pc' = pc \/ pc' = After("tty", turn)
    <3>1. CASE EndOfKeys
      BY <3>1 DEF EndOfKeys, inputVars, pipeVars
    <3>2. CASE ReadKey
      <4>1. pc = "tty" /\ UNCHANGED <<turn, isOpen, consumed, written, ended>>
        BY <3>2 DEF ReadKey, inputVars, pipeVars
      <4> QED
        BY <3>2, <4>1, KeyIsHandled DEF Edit, MoveTo, Toggle, Quit
    <3> QED
      BY <1>7, <3>1, <3>2
  <2> QED
    BY <2>1, AfterIsHandler
<1>8. CASE ReadInput \/ ReadEnd \/ ReadFails \/ OutOfMemory
  <2>1. turn' = turn /\ pc' = After("input", turn)
    BY <1>8 DEF ReadInput, ReadEnd, ReadFails, OutOfMemory, EndInput, InputUnchanged
  <2> QED
    BY <2>1, AfterIsHandler
<1>9. CASE Wakeup
  <2>1. turn' = turn /\ pc' = After("wakeup", turn)
    BY <1>9 DEF Wakeup
  <2> QED
    BY <2>1, AfterIsHandler
<1> QED
  BY <1>1, <1>4, <1>5, <1>6, <1>7, <1>8, <1>9 DEF Next, Loop, Fault, User

(* Where the read that is under way ends.                                  *)
Upto == Least(written, consumed + bufferSize)

LEMMA ChunkFacts ==
  ASSUME ReadInv, isOpen
  PROVE  /\ Upto \in consumed..Len(Input) /\ consumed \in 0..Len(Input)
         /\ Upto <= written /\ Chunk = SubSeq(Input, consumed + 1, Upto)
         /\ Len(Chunk) = Upto - consumed
         /\ Chunk = <<>> => consumed = written
<1>1. /\ written \in 0..Len(Input) /\ consumed \in 0..written /\ Len(Input) \in Nat
      /\ bufferSize \in Nat /\ bufferSize # 0
  BY InputType DEF ReadInv
<1>2. Upto \in consumed..written /\ (Upto = consumed => consumed = written)
  BY <1>1 DEF Upto, Least
<1>3. /\ Upto \in consumed..Len(Input) /\ consumed \in 0..Len(Input) /\ Upto <= written
      /\ Upto \in Int /\ consumed + 1 \in Int
      /\ \A i \in consumed + 1..Upto : i \in 1..Len(Input)
  BY <1>1, <1>2
<1>4. Chunk = SubSeq(Input, consumed + 1, Upto)
  BY DEF Chunk, Upto
<1>5. \A i \in 1..Len(Input) : Input[i] \in Chars
  BY InputType
<1> HIDE DEF Upto
<1>6. Len(Chunk) = IF consumed + 1 <= Upto THEN Upto - (consumed + 1) + 1 ELSE 0
  BY <1>3, <1>4, <1>5, SubSeqProperties
<1>7. Len(Chunk) = Upto - consumed
  BY <1>1, <1>3, <1>6
<1>8. Chunk = <<>> => Len(Chunk) = 0
  OBVIOUS
<1>9. Chunk = <<>> => consumed = written
  BY <1>1, <1>2, <1>3, <1>7, <1>8
<1> QED
  BY <1>3, <1>4, <1>7, <1>9

(* What a read yields.                                                     *)
LEMMA ChunkRead ==
  ASSUME ReadInv, isOpen
  PROVE  LET fed == Feed(buf, Chunk)
         IN /\ fed.lines \in Seq(Seq(Chars)) /\ fed.buf \in Seq(Chars)
            /\ items \o fed.lines \in Seq(Seq(Chars))
            /\ HasRead(items \o fed.lines, fed.buf, SubSeq(Input, 1, Upto), {})
<1> DEFINE fed == Feed(buf, Chunk)
<1>1. /\ Upto \in consumed..Len(Input) /\ consumed \in 0..Len(Input)
      /\ Chunk = SubSeq(Input, consumed + 1, Upto)
  BY ChunkFacts
<1>2. /\ items \in Seq(Seq(Chars)) /\ buf \in Seq(Chars)
      /\ HasRead(items, buf, SubSeq(Input, 1, consumed), {})
  BY DEF ReadInv
<1>3. {} \in SUBSET (0..consumed) /\ Input \in Seq(Chars)
  BY InputType
<1>4. \A to \in consumed..Len(Input) :
        LET new == Feed(buf, SubSeq(Input, consumed + 1, to))
        IN /\ new \in [buf : Seq(Chars), lines : Seq(Seq(Chars))]
           /\ HasRead(items \o new.lines, new.buf, SubSeq(Input, 1, to), {})
  BY <1>1, <1>2, <1>3, FeedRead
<1>5. /\ fed \in [buf : Seq(Chars), lines : Seq(Seq(Chars))]
      /\ HasRead(items \o fed.lines, fed.buf, SubSeq(Input, 1, Upto), {})
  BY <1>1, <1>4
<1> HIDE DEF fed
<1>6. fed.lines \in Seq(Seq(Chars)) /\ fed.buf \in Seq(Chars)
  BY <1>5
<1>7. items \o fed.lines \in Seq(Seq(Chars))
  BY <1>2, <1>6, ConcatProperties
<1> QED
  BY <1>5, <1>6, <1>7 DEF fed

LEMMA ReadStays ==
  ASSUME ReadInv, UNCHANGED inputVars, written' \in written..Len(Input),
         ended' => written' = Len(Input)
  PROVE  ReadInv'
<1>1. /\ UNCHANGED <<consumed, isOpen, bufferSize, buf, items, oom>>
      /\ consumed \in 0..written /\ written \in 0..Len(Input) /\ Len(Input) \in Nat
  BY InputType DEF inputVars, ReadInv
<1>2. written' \in 0..Len(Input) /\ consumed' \in 0..written'
  BY <1>1
<1>3. /\ items' \in Seq(Seq(Chars)) /\ buf' \in Seq(Chars)
      /\ bufferSize' \in Nat /\ (isOpen' => bufferSize' # 0)
      /\ isOpen' => ~oom' /\ HasRead(items', buf', SubSeq(Input, 1, consumed'), {})
  BY <1>1 DEF ReadInv
<1>4. ItemsAreInput'
  BY <1>1 DEF ReadInv, ItemsAreInput
<1> QED
  BY <1>2, <1>3, <1>4 DEF ReadInv, HasRead

(* The three ways in which processInput() changes the items.               *)
LEMMA ReadInputReads == ReadInv /\ TurnInv /\ ReadInput => ReadInv'
<1> SUFFICES ASSUME ReadInv, TurnInv, ReadInput
             PROVE  ReadInv'
  OBVIOUS
<1> DEFINE fed == Feed(buf, Chunk)
<1>1. isOpen /\ ~oom
  BY DEF TurnInv, ReadInput, ReadInv
<1>2. /\ items' = items \o fed.lines /\ buf' = fed.buf
      /\ consumed' = consumed + Len(Chunk)
      /\ bufferSize' \in {bufferSize, 2 * bufferSize}
      /\ isOpen' = isOpen /\ oom' = oom /\ written' = written /\ ended' = ended
  BY DEF ReadInput, InputUnchanged, pipeVars
<1>3. /\ fed.lines \in Seq(Seq(Chars)) /\ fed.buf \in Seq(Chars)
      /\ items \o fed.lines \in Seq(Seq(Chars))
      /\ HasRead(items \o fed.lines, fed.buf, SubSeq(Input, 1, Upto), {})
  BY <1>1, ChunkRead
<1> HIDE DEF fed
<1>4. /\ Upto \in consumed..Len(Input) /\ consumed \in 0..Len(Input)
      /\ Upto <= written /\ Len(Chunk) = Upto - consumed
  BY <1>1, ChunkFacts
<1>5. consumed' = Upto /\ Upto \in 0..written /\ Upto \in 0..Len(Input)
  BY <1>2, <1>4, InputType DEF ReadInv
<1>6. /\ written' \in 0..Len(Input) /\ consumed' \in 0..written'
      /\ ended' => written' = Len(Input)
  BY <1>2, <1>5 DEF ReadInv
<1>7. bufferSize' \in Nat /\ bufferSize' # 0
  BY <1>1, <1>2 DEF ReadInv
<1>8. HasRead(items', buf', SubSeq(Input, 1, consumed'), {})
  BY <1>2, <1>3, <1>5
<1>9. LinesSoFar(items', buf', InputLines)
  BY <1>2, <1>3, <1>5, OpenMeansSoFar
<1>10. /\ items' \in Seq(Seq(Chars)) /\ buf' \in Seq(Chars)
  BY <1>2, <1>3
<1>11. Len(items') <= Len(InputLines) /\ \A k \in DOMAIN items' : items'[k] = InputLines[k]
  BY <1>9, <1>10, PushedAreInput
<1>12. ItemsAreInput'
  BY <1>1, <1>2, <1>11 DEF ItemsAreInput
<1> QED
  BY <1>1, <1>2, <1>6, <1>7, <1>8, <1>10, <1>12 DEF ReadInv, HasRead

LEMMA ReadEndEnds == ReadInv /\ TurnInv /\ ReadEnd => ReadInv'
<1> SUFFICES ASSUME ReadInv, TurnInv, ReadEnd
             PROVE  ReadInv'
  OBVIOUS
<1>1. isOpen /\ HasInput /\ ~oom /\ Chunk = <<>>
  BY DEF TurnInv, ReadEnd, ReadInv
<1>2. /\ items' = items \o <<>> \o Finalize(buf) /\ buf' = <<>>
      /\ consumed' = consumed /\ bufferSize' = 0
      /\ isOpen' = FALSE /\ oom' = oom /\ written' = written /\ ended' = ended
  BY DEF ReadEnd, EndInput, InputUnchanged, pipeVars
<1>3. consumed = written /\ written = Len(Input)
  BY <1>1, ChunkFacts, InputType DEF HasInput, ReadInv
<1>4. SubSeq(Input, 1, consumed) = Input
  BY <1>3, InputType, SubSeqFull
<1>5. items \o Finalize(buf) = InputLines
  BY <1>1, <1>4 DEF ReadInv, HasRead, InputLines
<1>6. items' = InputLines
  <2>1. items \o <<>> = items
    BY ConcatEmptySeq DEF ReadInv
  <2> QED
    BY <1>2, <1>5, <2>1
<1>7. InputLines' = InputLines
  BY DEF InputLines
<1>8. ItemsAreInput'
  BY <1>1, <1>2, <1>6, InputType DEF ItemsAreInput
<1>9. <<>> \in Seq(Chars)
  OBVIOUS
<1> QED
  BY <1>2, <1>6, <1>8, <1>9, InputType DEF ReadInv

(* A failed allocation.                                                    *)
LEMMA OutOfMemoryEnds == ReadInv /\ TurnInv /\ OutOfMemory => ReadInv'
<1> SUFFICES ASSUME ReadInv, TurnInv, OutOfMemory
             PROVE  ReadInv'
  OBVIOUS
<1> DEFINE fed == Feed(buf, Chunk)
           more == fed.lines
           Left(n) == IF n = Len(more) THEN {fed.buf, IF n = 0 THEN buf ELSE <<>>}
                      ELSE IF n = 0 /\ buf # <<>> THEN {buf, more[1]}
                      ELSE {<<>>}
           Ends(n, left) ==
             \E committed : EndInput(SubSeq(more, 1, n), left, committed)
<1>1. isOpen
  BY DEF TurnInv, OutOfMemory
<1>2. /\ consumed' = consumed + Len(Chunk) /\ oom' = TRUE
      /\ \E n \in 0..Len(more) :
           \E left \in Left(n) : Ends(n, left)
  BY DEF OutOfMemory
<1>3. /\ more \in Seq(Seq(Chars)) /\ fed.buf \in Seq(Chars)
      /\ items \o more \in Seq(Seq(Chars))
      /\ HasRead(items \o more, fed.buf, SubSeq(Input, 1, Upto), {})
  BY <1>1, ChunkRead
<1> HIDE DEF fed
<1>4. /\ Upto \in consumed..Len(Input) /\ consumed \in 0..Len(Input)
      /\ Upto <= written /\ Len(Chunk) = Upto - consumed
  BY <1>1, ChunkFacts
<1>5. consumed' = Upto /\ Upto \in 0..written /\ Upto \in 0..Len(Input)
  BY <1>2, <1>4, InputType DEF ReadInv
<1>6. items \in Seq(Seq(Chars)) /\ buf \in Seq(Chars)
      /\ HasRead(items, buf, SubSeq(Input, 1, consumed), {})
  BY <1>1 DEF ReadInv
<1>7. LinesSoFar(items, buf, InputLines)
  BY <1>4, <1>6, OpenMeansSoFar
<1>8. LinesSoFar(items \o more, fed.buf, InputLines)
  BY <1>3, <1>5, OpenMeansSoFar
<1> HIDE DEF more, Left
<1> DEFINE Gives(n, left) ==
             /\ \/ left = <<>>
                \/ n = 0 /\ left = buf
                \/ n = 0 /\ more # <<>> /\ left = more[1]
                \/ n = Len(more) /\ left = fed.buf
             /\ Ends(n, left)
<1>9. PICK n \in 0..Len(more) : \E left : Gives(n, left)
  <2>1. PICK n \in 0..Len(more) :
           \E left \in Left(n) : Ends(n, left)
    BY <1>2
  <2>2. PICK left \in Left(n) : Ends(n, left)
    BY <2>1
  <2>3. n # Len(more) /\ n = 0 => more # <<>>
    OBVIOUS
  <2>4. \/ n = Len(more) /\ left \in {fed.buf, IF n = 0 THEN buf ELSE <<>>}
        \/ n # Len(more) /\ n = 0 /\ left \in {buf, more[1]}
        \/ left = <<>>
    BY <2>2 DEF Left
  <2>5. \/ left = <<>>
        \/ n = 0 /\ left = buf
        \/ n = 0 /\ more # <<>> /\ left = more[1]
        \/ n = Len(more) /\ left = fed.buf
    BY <2>3, <2>4
  <2> QED
    BY <2>2, <2>5
<1>10. PICK left : Gives(n, left)
  BY <1>9
<1> DEFINE p == items \o SubSeq(more, 1, n)
<1>11. /\ items' = p \o Finalize(left) /\ buf' = <<>> /\ bufferSize' = 0
       /\ isOpen' = FALSE /\ written' = written /\ ended' = ended
  BY <1>10 DEF EndInput, InputUnchanged, pipeVars
<1>12. left \in Seq(Chars)
  <2>1. CASE left = <<>>
    BY <2>1
  <2>2. CASE more # <<>> /\ left = more[1]
    <3>1. Len(more) \in Nat /\ Len(more) # 0
      BY <1>3, <2>2, EmptySeq
    <3> QED
      BY <1>3, <2>2, <3>1, ElementOfSeq
  <2> QED
    BY <1>3, <1>6, <1>10, <2>1, <2>2
<1>13. p \in Seq(Seq(Chars)) /\ LinesSoFar(p, left, InputLines)
  BY <1>3, <1>6, <1>7, <1>8, <1>10, InputType, LinesLeft
<1> HIDE DEF p
<1>14. /\ items' \in Seq(Seq(Chars)) /\ Len(items') <= Len(InputLines)
       /\ \A k \in DOMAIN items' :
            IF k = Len(items') THEN IsPrefix(items'[k], InputLines[k])
            ELSE items'[k] = InputLines[k]
  BY <1>11, <1>12, <1>13, PushedAreInput
<1>15. ItemsAreInput'
  BY <1>2, <1>14 DEF ItemsAreInput
<1>16. /\ written' \in 0..Len(Input) /\ consumed' \in 0..written'
       /\ ended' => written' = Len(Input)
  BY <1>5, <1>11 DEF ReadInv
<1>17. <<>> \in Seq(Chars)
  OBVIOUS
<1> QED
  BY <1>11, <1>14, <1>15, <1>16, <1>17 DEF ReadInv

LEMMA ReadNext == ReadInv /\ TurnInv /\ [Next]_vars => ReadInv'
<1> SUFFICES ASSUME ReadInv, TurnInv, [Next]_vars
             PROVE  ReadInv'
  OBVIOUS
<1>1. CASE ReadInput
  BY <1>1, ReadInputReads
<1>2. CASE ReadEnd
  BY <1>2, ReadEndEnds
<1>3. CASE OutOfMemory
  BY <1>3, OutOfMemoryEnds
<1>4. CASE Write
  <2>1. UNCHANGED inputVars /\ written' \in written..Len(Input)
        /\ (ended' => written' = Len(Input))
    BY <1>4 DEF Write
  <2> QED
    BY <2>1, ReadStays
<1>5. CASE UNCHANGED <<inputVars, pipeVars>>
  <2>1. written' \in written..Len(Input) /\ (ended' => written' = Len(Input))
    BY <1>5, InputType DEF ReadInv, pipeVars
  <2> QED
    BY <1>5, <2>1, ReadStays
<1>6. CASE QuitSignal \/ ResizeSignal \/ Publish \/ (\E key \in Keys : Type(key))
           \/ UNCHANGED vars
  BY <1>5, <1>6 DEF QuitSignal, ResizeSignal, Publish, Type, vars
<1>7. CASE CheckSignals \/ Select \/ Select_Returns \/ Interrupted \/ Exit
  BY <1>5, <1>7 DEF CheckSignals, Select, Select_Returns, Interrupted, Exit
<1>8. CASE ReadKey \/ EndOfKeys \/ Wakeup
  BY <1>5, <1>8 DEF ReadKey, EndOfKeys, Wakeup
<1>9. CASE ReadFails
  BY <1>5, <1>9 DEF ReadFails, InputUnchanged, inputVars
<1> QED
  BY <1>1, <1>2, <1>3, <1>4, <1>6, <1>7, <1>8, <1>9 DEF Next, Loop, Fault, User

LEMMA ReadInvMeans == ReadInv => ItemsAreInput
BY DEF ReadInv

-----------------------------------------------------------------------------
(* The query, the jobs and the cursor                                      *)

(* The line is no longer than what was typed, so that it is a query.       *)
TypeInv ==
  /\ mLine \in Nat /\ typed \in 0..MaxKeys /\ mLine + Len(keys) <= typed
  /\ jobs \in Seq(EngineJob)
  /\ answered \in 0..Len(jobs) /\ loaded \in 0..Len(jobs)
  /\ mCursor \in Nat

LEMMA RankedType ==
  ASSUME NEW js \in Seq(EngineJob), NEW l \in 0..Len(js), NEW its \in Seq(Seq(Chars))
  PROVE  LET j == IF l = 0 THEN [items |-> 0, query |-> NoQuery] ELSE js[l]
         IN (IF j.query # NoQuery THEN Ranked[j.items][j.query]
             ELSE [i \in DOMAIN its |-> i]) \in Seq(Nat)
<1> DEFINE j == IF l = 0 THEN [items |-> 0, query |-> NoQuery] ELSE js[l]
<1>1. CASE j.query # NoQuery
  <2>1. l # 0
    BY <1>1
  <2>2. l \in 1..Len(js)
    BY <2>1
  <2>3. j \in EngineJob
    BY <2>1, <2>2, ElementOfSeq
  <2> HIDE DEF j
  <2>4. j.items \in 0..MaxItems /\ j.query \in Queries
    BY <1>1, <2>3 DEF EngineJob
  <2>5. Ranked[j.items] \in [Queries -> Seq(Nat)]
    BY <2>4, TermAppAssumption
  <2>6. Ranked[j.items][j.query] \in Seq(Nat)
    BY <2>4, <2>5
  <2> QED
    BY <1>1, <2>6 DEF j
<1>2. CASE j.query = NoQuery
  <2>1. Len(its) \in Nat /\ DOMAIN its = 1..Len(its)
    OBVIOUS
  <2>2. [i \in 1..Len(its) |-> i] \in Seq(Nat)
    BY <2>1
  <2> HIDE DEF j
  <2> QED
    BY <1>2, <2>1, <2>2 DEF j
<1> QED
  BY <1>1, <1>2

LEMMA ResultsType == TypeInv /\ ReadInv => Results \in Seq(Nat)
BY RankedType DEF TypeInv, ReadInv, Results, JobNumber

LEMMA NewResultsType ==
  ASSUME jobs' \in Seq(EngineJob), loaded' \in 0..Len(jobs'), items' \in Seq(Seq(Chars))
  PROVE  Results' \in Seq(Nat)
BY RankedType DEF Results, JobNumber

(* redraw() keeps the cursor a number: it clamps it to the index of the    *)
(* last result only if there is one.                                       *)
LEMMA RedrawCursor ==
  ASSUME Redraw, Results' \in Seq(Nat), mCursor \in Nat
  PROVE  mCursor' \in Nat
<1>1. CASE mTiny' \/ Results' = <<>>
  BY <1>1 DEF Redraw
<1>2. CASE ~mTiny' /\ Results' # <<>>
  <2>1. Len(Results') \in Nat /\ Len(Results') # 0
    BY <1>2, EmptySeq
  <2>2. mCursor' = Least(mCursor, Len(Results') - 1)
    BY <1>2 DEF Redraw
  <2> QED
    BY <2>1, <2>2 DEF Least
<1> QED
  BY <1>1, <1>2

LEMMA CommitKeepsJobs ==
  ASSUME TypeInv, NEW n \in 0..MaxItems, NEW q \in Queries \union {NoQuery},
         CommitJobOf(n, q)
  PROVE  /\ jobs' \in Seq(EngineJob)
         /\ answered' \in 0..Len(jobs') /\ loaded' \in 0..Len(jobs')
<1>1. /\ jobs \in Seq(EngineJob) /\ Len(jobs) \in Nat
      /\ answered \in 0..Len(jobs) /\ loaded \in 0..Len(jobs)
  BY DEF TypeInv
<1> DEFINE j == [items |-> n, query |-> q]
<1>2. j \in EngineJob
  BY DEF EngineJob
<1>3. \/ jobs' = Append(jobs, j) /\ UNCHANGED <<answered, loaded>>
      \/ UNCHANGED <<jobs, answered, loaded>>
  BY DEF CommitJobOf, CommitNew, engineVars
<1> HIDE DEF j
<1>4. CASE jobs' = Append(jobs, j) /\ UNCHANGED <<answered, loaded>>
  <2>1. jobs' \in Seq(EngineJob) /\ Len(jobs') = Len(jobs) + 1
    BY <1>1, <1>2, <1>4, AppendProperties
  <2> QED
    BY <1>1, <1>4, <2>1
<1>5. CASE UNCHANGED <<jobs, answered, loaded>>
  BY <1>1, <1>5
<1> QED
  BY <1>3, <1>4, <1>5

LEMMA LastQuery == TypeInv => LastJob.query \in Queries \union {NoQuery}
<1> SUFFICES ASSUME TypeInv
             PROVE  LastJob.query \in Queries \union {NoQuery}
  OBVIOUS
<1>1. jobs \in Seq(EngineJob) /\ Len(jobs) \in Nat
  BY DEF TypeInv
<1>2. CASE Len(jobs) = 0
  BY <1>2 DEF LastJob, JobNumber
<1>3. CASE Len(jobs) # 0
  <2>1. jobs[Len(jobs)] \in EngineJob
    BY <1>1, <1>3, ElementOfSeq
  <2>2. LastJob = jobs[Len(jobs)]
    BY <1>3 DEF LastJob, JobNumber
  <2> QED
    BY <2>1, <2>2 DEF EngineJob
<1> QED
  BY <1>2, <1>3

LEMMA LineIsQuery == TypeInv /\ keys \in Seq(Keys) => QueryOf(mLine) \in Queries \union {NoQuery}
<1> SUFFICES ASSUME TypeInv, keys \in Seq(Keys), mLine # 0
             PROVE  mLine \in Queries
  BY DEF QueryOf
<1>1. Len(keys) \in Nat /\ MaxKeys \in Nat
  BY TermAppAssumption
<1>2. mLine \in 1..MaxKeys
  BY <1>1 DEF TypeInv
<1> QED
  BY <1>2, TermAppAssumption

(* commit() in processInput(). *)
LEMMA CommitItemsKeepsJobs ==
  ASSUME TypeInv, ReadInv', CommitItems \/ UNCHANGED engineVars
  PROVE  /\ jobs' \in Seq(EngineJob)
         /\ answered' \in 0..Len(jobs') /\ loaded' \in 0..Len(jobs')
<1>1. CASE UNCHANGED engineVars
  BY <1>1 DEF TypeInv, engineVars
<1>2. CASE CommitItems
  <2>1. items' \in Seq(Seq(Chars)) /\ Len(items') <= Len(InputLines)
    BY DEF ReadInv, ItemsAreInput
  <2>2. Len(items') \in 0..MaxItems
    BY <2>1, InputType, TermAppAssumption
  <2>3. LastJob.query \in Queries \union {NoQuery}
    BY LastQuery
  <2>4. CommitJobOf(Len(items'), LastJob.query)
    BY <1>2 DEF CommitItems
  <2> HIDE DEF LastJob
  <2> QED
    BY <2>2, <2>3, <2>4, CommitKeepsJobs
<1> QED
  BY <1>1, <1>2

LEMMA TypeInit == Init => TypeInv /\ keys \in Seq(Keys)
<1> SUFFICES ASSUME Init
             PROVE  TypeInv /\ keys \in Seq(Keys)
  OBVIOUS
<1>1. <<>> \in Seq(Keys) /\ <<>> \in Seq(EngineJob) /\ Len(<<>>) = 0
  OBVIOUS
<1> QED
  BY <1>1, TermAppAssumption DEF Init, EngineInit, TypeInv

LEMMA TypeNext ==
  TypeInv /\ ReadInv /\ ReadInv' /\ keys \in Seq(Keys) /\ [Next]_vars => TypeInv'
<1> SUFFICES ASSUME TypeInv, ReadInv, ReadInv', keys \in Seq(Keys), [Next]_vars
             PROVE  TypeInv'
  OBVIOUS
<1>1. /\ mLine \in Nat /\ typed \in 0..MaxKeys /\ mLine + Len(keys) <= typed
      /\ jobs \in Seq(EngineJob) /\ Len(jobs) \in Nat /\ Len(keys) \in Nat
      /\ answered \in 0..Len(jobs) /\ loaded \in 0..Len(jobs)
      /\ mCursor \in Nat /\ MaxKeys \in Nat
  BY TermAppAssumption DEF TypeInv
<1>2. items' \in Seq(Seq(Chars))
  BY DEF ReadInv
<1> DEFINE EngineOK == /\ jobs' \in Seq(EngineJob)
                       /\ answered' \in 0..Len(jobs') /\ loaded' \in 0..Len(jobs')
           LineOK == /\ mLine' \in Nat /\ typed' \in 0..MaxKeys
                     /\ mLine' + Len(keys') <= typed'
<1>3. EngineOK /\ (UNCHANGED mCursor \/ Redraw) => mCursor' \in Nat
  BY <1>1, <1>2, NewResultsType, RedrawCursor
<1>4. EngineOK /\ LineOK /\ mCursor' \in Nat => TypeInv'
  BY DEF TypeInv
<1>5. UNCHANGED engineVars => EngineOK
  BY <1>1 DEF engineVars
<1>6. UNCHANGED <<mLine, keys, typed>> => LineOK
  BY <1>1
<1> HIDE DEF EngineOK, LineOK
<1>7. CASE Write \/ QuitSignal \/ ResizeSignal \/ Select \/ Select_Returns \/ Exit
           \/ ReadFails \/ UNCHANGED vars
  <2>1. UNCHANGED <<engineVars, mLine, keys, typed, mCursor>>
    BY <1>7, Zenon DEF Write, QuitSignal, ResizeSignal, Select, Select_Returns, Exit,
       ReadFails, InputUnchanged, vars, ttyVars, drawVars
  <2> QED
    BY <1>3, <1>4, <1>5, <1>6, <2>1
<1>8. CASE CheckSignals \/ Interrupted
  <2>1. /\ UNCHANGED <<engineVars, mLine, keys, typed>>
        /\ UNCHANGED mCursor \/ Redraw
    BY <1>8 DEF CheckSignals, Interrupted, ProcessSignals, ttyVars, drawVars
  <2> QED
    BY <1>3, <1>4, <1>5, <1>6, <2>1
<1>9. CASE Publish
  <2>1. UNCHANGED <<jobs, loaded, mLine, keys, typed, mCursor>>
        /\ answered' \in answered + 1..Len(jobs)
    BY <1>9 DEF Publish, PublishAnswer, ttyVars, drawVars
  <2>2. EngineOK
    BY <1>1, <2>1 DEF EngineOK
  <2> QED
    BY <1>3, <1>4, <1>6, <2>1, <2>2
<1>10. CASE \E key \in Keys : Type(key)
  <2>1. PICK key \in Keys : Type(key)
    BY <1>10
  <2>2. /\ UNCHANGED <<engineVars, mLine, mCursor>> /\ typed < MaxKeys
        /\ typed' = typed + 1 /\ keys' = Append(keys, key)
    BY <2>1 DEF Type, drawVars
  <2>3. Len(keys') = Len(keys) + 1
    BY <2>2, AppendProperties
  <2>4. LineOK
    BY <1>1, <2>2, <2>3 DEF LineOK
  <2> QED
    BY <1>3, <1>4, <1>5, <2>2, <2>4
<1>11. CASE ReadKey
  <2>1. /\ UNCHANGED <<engineVars, typed>> /\ keys # <<>> /\ keys' = Tail(keys)
    BY <1>11 DEF ReadKey
  <2>2. Len(keys) # 0 /\ Len(keys') = Len(keys) - 1
    BY <2>1, EmptySeq, HeadTailProperties
  <2>3. /\ mLine' \in {mLine, mLine + 1, IF mLine = 0 THEN 0 ELSE mLine - 1, 0}
        /\ mCursor' \in {mCursor, mCursor + 1, IF mCursor = 0 THEN 0 ELSE mCursor - 1}
    BY <1>11, KeyIsHandled DEF Edit, MoveTo, Toggle, Quit
  <2>4. LineOK
    BY <1>1, <2>1, <2>2, <2>3 DEF LineOK
  <2>5. mCursor' \in Nat
    BY <1>1, <2>3
  <2> QED
    BY <1>4, <1>5, <2>1, <2>4, <2>5
<1>12. CASE EndOfKeys
  <2>1. /\ UNCHANGED <<mLine, keys, typed>> /\ Redraw
        /\ SetQuery(mLine) \/ UNCHANGED engineVars
    BY <1>12 DEF EndOfKeys
  <2>2. CASE SetQuery(mLine) /\ ~UNCHANGED engineVars
    <3>1. CommitJobOf(Len(items), QueryOf(mLine))
      BY <2>2 DEF SetQuery
    <3>2. Len(items) \in 0..MaxItems
      BY InputType, TermAppAssumption DEF ReadInv, ItemsAreInput
    <3>3. EngineOK
      BY <3>1, <3>2, LineIsQuery, CommitKeepsJobs DEF EngineOK
    <3> QED
      BY <1>3, <1>4, <1>6, <2>1, <3>3
  <2> QED
    BY <1>3, <1>4, <1>5, <1>6, <2>1, <2>2
<1>13. CASE ReadInput \/ ReadEnd \/ OutOfMemory
  <2>1. /\ UNCHANGED <<mLine, keys, typed>> /\ Redraw
        /\ CommitItems \/ UNCHANGED engineVars
    <3>1. CASE ReadInput
      BY <3>1 DEF ReadInput, InputUnchanged, ttyVars
    <3>2. ASSUME NEW pushed, NEW left, NEW committed,
                 EndInput(pushed, left, committed)
          PROVE  /\ UNCHANGED <<mLine, keys, typed>> /\ Redraw
                 /\ CommitItems \/ UNCHANGED engineVars
      BY <3>2 DEF EndInput, InputUnchanged, ttyVars
    <3>3. CASE ReadEnd
      BY <3>2, <3>3 DEF ReadEnd
    <3>4. CASE OutOfMemory
      <4>1. PICK pushed, left, committed : EndInput(pushed, left, committed)
        BY <3>4, Zenon DEF OutOfMemory
      <4> QED
        BY <3>2, <4>1
    <3> QED
      BY <1>13, <3>1, <3>3, <3>4
  <2>2. EngineOK
    BY <2>1, CommitItemsKeepsJobs DEF EngineOK
  <2> QED
    BY <1>3, <1>4, <1>6, <2>1, <2>2
<1>14. CASE Wakeup
  <2>1. /\ UNCHANGED <<mLine, keys, typed, jobs, answered>> /\ loaded' = answered
        /\ UNCHANGED mCursor \/ Redraw
    BY <1>14 DEF Wakeup, ConsumeAndLoad, ttyVars
  <2>2. EngineOK
    BY <1>1, <2>1 DEF EngineOK
  <2> QED
    BY <1>3, <1>4, <1>6, <2>1, <2>2
<1> QED
  BY <1>7, <1>8, <1>9, <1>10, <1>11, <1>12, <1>13, <1>14
     DEF Next, Loop, Fault, User

-----------------------------------------------------------------------------
(* The screen                                                              *)

(* The terminal shows the state there is, if it shows anything. *)
Shown == screen # <<>> /\ ~mTiny => screen = View

(* The loop waits only while the program runs, and while it does the       *)
(* terminal is behind only in the handler of the keys.  The handler leaves *)
(* it behind when it quits, too, but not if no other key was read; nor do  *)
(* the handlers after it, but for the one of the wake-ups.                 *)
ShownInv ==
  /\ pc \in {"before", "blocked", "interrupted", "tty", "input", "wakeup",
             "top", "done"}
  /\ pc \in {"before", "blocked", "interrupted", "tty"} => Running
  /\ Running /\ pc # "tty" => Shown
  /\ alone /\ (pc = "tty" \/ (mStatus = "ExitSuccess" /\ "wakeup" \notin turn)) => Shown

(* What View depends on. *)
viewVars == <<jobs, loaded, items, mCursor, mSelection, mLine>>

LEMMA ViewStays ==
  ASSUME UNCHANGED viewVars
  PROVE  View' = View
BY DEF viewVars, View, Results, JobNumber

LEMMA ShownStays ==
  ASSUME Shown, UNCHANGED <<viewVars, screen, mTiny>>
  PROVE  Shown'
BY ViewStays DEF Shown

LEMMA RedrawShows ==
  ASSUME Redraw
  PROVE  Shown'
BY DEF Redraw, Shown

LEMMA ShownInit == Init => ShownInv
BY DEF Init, ShownInv, Shown, Running

(* Every handler either redraws or leaves what is shown as it is. *)
LEMMA ShownNext ==
  ShownInv /\ TurnInv /\ keys \in Seq(Keys) /\ [Next]_vars => ShownInv'
<1> SUFFICES ASSUME ShownInv, TurnInv, keys \in Seq(Keys), [Next]_vars
             PROVE  ShownInv'
  OBVIOUS
<1> USE DEF ShownInv, Running, viewVars
<1>1. CASE Write \/ Publish \/ (\E key \in Keys : Type(key)) \/ UNCHANGED vars
  <2>1. UNCHANGED <<pc, mStatus, turn, alone, viewVars, screen, mTiny>>
    BY <1>1 DEF Write, Publish, PublishAnswer, Type, loopVars, drawVars,
       inputVars, ttyVars, engineVars, vars
  <2> QED
    BY <2>1, ShownStays
<1>2. CASE QuitSignal \/ ResizeSignal
  <2>1. /\ UNCHANGED <<mStatus, turn, alone, viewVars, screen, mTiny>>
        /\ pc # "done" /\ pc' = IF pc = "blocked" THEN "interrupted" ELSE pc
    BY <1>2 DEF QuitSignal, ResizeSignal, Interrupt, drawVars, inputVars,
       ttyVars, engineVars
  <2> QED
    BY <2>1, ShownStays
<1>3. CASE CheckSignals \/ Interrupted
  <2>1. PICK otherwise \in {"before", "top"} :
          /\ Running /\ pc # "tty" /\ ProcessSignals(otherwise)
          /\ UNCHANGED <<jobs, loaded, items, mLine, mSelection>>
    BY <1>3 DEF CheckSignals, Interrupted, inputVars, ttyVars, engineVars
  <2>2. CASE gQuitSignal
    BY <2>1, <2>2 DEF ProcessSignals
  <2>3. CASE ~gQuitSignal /\ gResizeSignal
    BY <2>1, <2>3, RedrawShows DEF ProcessSignals
  <2>4. CASE ~gQuitSignal /\ ~gResizeSignal
    <3>1. /\ UNCHANGED <<mStatus, viewVars, screen, mTiny>>
          /\ pc' = otherwise
      BY <2>1, <2>4 DEF ProcessSignals, drawVars
    <3> QED
      BY <2>1, <3>1, ShownStays
  <2> QED
    BY <2>2, <2>3, <2>4
<1>4. CASE Select \/ Select_Returns
  <2>1. /\ UNCHANGED <<mStatus, alone, viewVars, screen, mTiny>>
        /\ pc \in {"before", "blocked"}
        /\ pc' \in {"blocked", "tty", "input", "wakeup", "top"}
    BY <1>4, AfterIsHandler DEF Select, Select_Returns, drawVars, inputVars,
       ttyVars, engineVars
  <2> QED
    BY <2>1, ShownStays
<1>5. CASE Exit
  <2>1. /\ UNCHANGED <<mStatus, turn, alone, viewVars, screen, mTiny>>
        /\ ~Running /\ pc' = "done"
    BY <1>5 DEF Exit, drawVars, inputVars, ttyVars, engineVars
  <2> QED
    BY <2>1, ShownStays
<1>6. CASE ReadKey
  <2>1. /\ pc = "tty" /\ turn' = turn
        /\ alone' = (Len(keys) = 1 /\ alone /\ pc' # "tty")
        /\ UNCHANGED <<jobs, loaded, items, screen, mTiny>>
    BY <1>6 DEF ReadKey, inputVars, engineVars
  <2>2. CASE UNCHANGED <<pc, mStatus>>
    BY <2>1, <2>2
  <2>3. CASE \E status \in {"ExitSuccess", "ExitFailure"} : Quit(status)
    <3>1. /\ UNCHANGED <<viewVars, screen, mTiny>> /\ ~Running'
          /\ pc' \in {"input", "wakeup", "top"}
      BY <2>1, <2>3, AfterIsHandler DEF Quit
    <3>2. alone' => alone
      BY <2>1
    <3> QED
      BY <2>1, <3>1, <3>2, ShownStays
  <2> QED
    BY <1>6, <2>2, <2>3, KeyIsHandled DEF Edit, MoveTo, Toggle
<1>7. CASE EndOfKeys
  <2>1. /\ mStatus' = mStatus /\ Redraw
        /\ pc' \in {"input", "wakeup", "top"}
    BY <1>7, AfterIsHandler DEF EndOfKeys
  <2> QED
    BY <2>1, RedrawShows
<1>8. CASE ReadInput \/ ReadEnd \/ OutOfMemory
  <2>1. /\ mStatus' = mStatus /\ Redraw
        /\ pc' \in {"wakeup", "top"}
    BY <1>8, AfterIsHandler
       DEF ReadInput, ReadEnd, OutOfMemory, EndInput, InputUnchanged
  <2> QED
    BY <2>1, RedrawShows
<1>9. CASE ReadFails
  <2>1. /\ UNCHANGED <<mStatus, turn, alone, viewVars, screen, mTiny>> /\ pc = "input"
        /\ pc' \in {"wakeup", "top"}
    BY <1>9, AfterIsHandler DEF ReadFails, InputUnchanged, ttyVars, engineVars
  <2> QED
    BY <2>1, ShownStays
<1>10. CASE Wakeup
  <2>1. /\ UNCHANGED <<mStatus, turn>> /\ pc = "wakeup" /\ pc' = "top"
    BY <1>10, AfterIsHandler DEF Wakeup, After
  <2>2. "wakeup" \in turn
    BY <2>1 DEF TurnInv
  <2>3. CASE loaded' # loaded
    BY <1>10, <2>1, <2>2, <2>3, RedrawShows DEF Wakeup
  <2>4. CASE loaded' = loaded
    <3>1. UNCHANGED <<viewVars, screen, mTiny>>
      BY <1>10, <2>4 DEF Wakeup, ConsumeAndLoad, inputVars, ttyVars
    <3> QED
      BY <2>1, <2>2, <3>1, ShownStays
  <2> QED
    BY <2>3, <2>4
<1> QED
  BY <1>1, <1>2, <1>3, <1>4, <1>5, <1>6, <1>7, <1>8, <1>9, <1>10
     DEF Next, Loop, Fault, User

-----------------------------------------------------------------------------
(* The theorems                                                            *)

TermAppInv == TurnInv /\ ReadInv /\ TypeInv /\ keys \in Seq(Keys) /\ ShownInv

LEMMA TermAppAlways == Spec => []TermAppInv
<1>1. Init => TermAppInv
  BY ReadInit, TypeInit, ShownInit DEF TermAppInv
<1>2. TermAppInv /\ [Next]_vars => TermAppInv'
  BY ReadNext, TurnNext, TypeNext, KeysNext, ShownNext DEF TermAppInv
<1> QED
  BY <1>1, <1>2, PTL DEF Spec

(* processInput(), LineScanner::feed, ::finalize: the items are the lines  *)
(* that were read, each of them whole, however the reads cut them, and at  *)
(* the end of the input all of them, also the unterminated one; what an    *)
(* exception costs is the rest of the input, never an item, and at most    *)
(* the end of the last.                                                    *)
THEOREM ItemsAreTheInput == Spec => []ItemsAreInput
BY TermAppAlways, ReadInvMeans, PTL DEF TermAppInv

(* redraw() (term_app.cpp): every change of the results, the cursor, the   *)
(* line or the selection is drawn before the loop waits in pselect(), but  *)
(* for those that make the program leave the loop.                         *)
THEOREM ScreenIsFresh == Spec => []ScreenFresh
<1>1. TermAppInv => ScreenFresh
  BY DEF TermAppInv, ShownInv, ScreenFresh, Shown
<1> QED
  BY <1>1, TermAppAlways, PTL

(* Only main(), after the loop, comes to the end of the program. *)
LEMMA OnlyExitEnds ==
  ASSUME TermAppInv, [Next]_vars, pc # "done", pc' = "done"
  PROVE  Exit
<1>1. ~UNCHANGED pc
  OBVIOUS
<1>2. ~(Write \/ Publish \/ QuitSignal \/ ResizeSignal \/ UNCHANGED vars
        \/ \E key \in Keys : Type(key))
  BY DEF Write, Publish, Type, QuitSignal, ResizeSignal, Interrupt, loopVars, vars
<1>3. ~(CheckSignals \/ Interrupted \/ Select)
  BY DEF CheckSignals, Interrupted, ProcessSignals, Select
<1>4. ~(Select_Returns \/ EndOfKeys \/ ReadInput \/ ReadEnd \/ ReadFails \/ OutOfMemory
        \/ Wakeup)
  BY AfterIsHandler DEF Select_Returns, EndOfKeys, ReadInput, ReadEnd, ReadFails,
     OutOfMemory, EndInput, InputUnchanged, Wakeup
<1>5. ~ReadKey
  BY <1>1, KeyIsHandled, AfterIsHandler DEF TermAppInv, Edit, MoveTo, Toggle, Quit
<1> QED
  BY <1>2, <1>3, <1>4, <1>5 DEF Next, Loop, Fault, User

(* The line highlighted on a screen that is up to date is that of the item *)
(* under the cursor.                                                       *)
LEMMA HighlightedIsCurrent ==
  ASSUME TermAppInv, Shown, ~mTiny, Highlighted # {}
  PROVE  Highlighted = {CurrentItem}
<1>1. screen # <<>> /\ screen.cursor < Len(screen.lines)
      /\ Highlighted = {screen.lines[screen.cursor + 1]}
  BY DEF Highlighted
<1>2. screen.cursor = mCursor
      /\ screen.lines = SubSeq(Results, 1, Least(Height, Len(Results)))
  BY <1>1 DEF Shown, View
<1>3. Results \in Seq(Nat) /\ Len(Results) \in Nat
  BY ResultsType DEF TermAppInv
<1>4. mCursor \in Nat /\ Height \in Nat
  BY TermAppAssumption DEF TermAppInv, TypeInv
<1> HIDE DEF Results
<1> DEFINE n == Least(Height, Len(Results))
<1>5. n \in 0..Len(Results)
  BY <1>3, <1>4 DEF Least
<1> HIDE DEF n
<1>6. /\ Len(SubSeq(Results, 1, n)) = n
      /\ \A i \in 1..n : SubSeq(Results, 1, n)[i] = Results[i]
  BY <1>3, <1>5
<1>7. mCursor + 1 \in 1..n /\ mCursor < Len(Results)
  BY <1>1, <1>2, <1>3, <1>4, <1>5, <1>6 DEF n
<1> QED
  BY <1>1, <1>2, <1>6, <1>7 DEF n, CurrentItem

(* acceptAndQuit() and main(): Enter, as the only key of its turn and with *)
(* no new results in it, prints the item of the line that is highlighted,  *)
(* or the selection, although the input may still push items and commit    *)
(* them before the program ends.                                           *)
THEOREM EnterTakesWhatIsShown == Spec => EnterTakesShown
<1>1. TermAppInv /\ [Next]_vars =>
        [pc # "done" /\ pc' = "done" /\ mStatus = "ExitSuccess" /\ alone
           /\ "wakeup" \notin turn /\ ~mTiny /\ Highlighted # {} =>
           IF mSelection # {} THEN printed' = SetToSortSeq(mSelection, <)
           ELSE Highlighted = {printed'[1]}]_vars
  <2> SUFFICES ASSUME TermAppInv, [Next]_vars, pc # "done", pc' = "done",
                      mStatus = "ExitSuccess", alone, "wakeup" \notin turn, ~mTiny,
                      Highlighted # {}
               PROVE  IF mSelection # {} THEN printed' = SetToSortSeq(mSelection, <)
                      ELSE Highlighted = {printed'[1]}
    OBVIOUS
  <2>1. Exit
    BY OnlyExitEnds
  <2>2. printed' = IF mSelection # {} THEN SetToSortSeq(mSelection, <)
                   ELSE <<CurrentItem>>
    BY <2>1 DEF Exit
  <2>3. Shown
    BY DEF TermAppInv, ShownInv
  <2>4. Highlighted = {CurrentItem}
    BY <2>3, HighlightedIsCurrent
  <2> HIDE DEF CurrentItem
  <2>5. CASE mSelection # {}
    BY <2>2, <2>5
  <2>6. CASE mSelection = {}
    <3>1. printed' = <<CurrentItem>>
      BY <2>2, <2>6
    <3> QED
      BY <2>4, <2>6, <3>1
  <2> QED
    BY <2>5, <2>6
<1> QED
  BY <1>1, TermAppAlways, PTL DEF Spec, EnterTakesShown
=============================================================================
