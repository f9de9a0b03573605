------------------------------ MODULE TxProofs ------------------------------
(***************************************************************************)
(* Proofs about module Tx: its invariants, and that it implements          *)
(* LatestValue, for every set of values and any number of commits.         *)
(***************************************************************************)
EXTENDS Tx, TLAPS

(* The tick of the last commit the reader can find. *)
Top == IF mTicks[mRead] > mTicks[mUnused] THEN mTicks[mRead]
                                          ELSE mTicks[mUnused]

(* What the writer knows of the ticks in each of its places: its buffer    *)
(* always carries the last tick it gave away, or is about to.              *)
WriterInv ==
  /\ wpc \in {"idle", "writing", "written"} => mTicks[mWrite] = Top
  /\ wpc = "exchange" => wtick = Top + 1 /\ mTicks[mWrite] = wtick
  /\ wpc = "settick" => wtick = Top
  /\ wpc \in {"written", "exchange"} => mBuffers[mWrite] \in Values

(* The two buffers the writer does not own are whole, and differ in their  *)
(* ticks as soon as there was a commit.                                    *)
SharedInv ==
  /\ mBuffers[mRead] \in Values \union {Default}
  /\ mBuffers[mUnused] \in Values \union {Default}
  /\ mTicks[mRead] = mTicks[mUnused] => Content(mRead) = Content(mUnused)

(* Between its two exchanges, a reader that found nothing newer has given  *)
(* away the buffer it had; it gets back that one or a newer one.           *)
GivenAway ==
  /\ seen.tick = rtick
  /\ mTicks[mRead] <= rtick
  /\ mTicks[mUnused] >= rtick
  /\ mTicks[mUnused] = rtick => seen = Content(mUnused)

ReaderInv ==
  /\ rpc = "idle" => seen = Content(mRead) /\ ret = fresh
  /\ rpc = "exchange" => seen = Content(mRead) /\ rtick = mTicks[mRead]
  /\ rpc = "compare" /\ mTicks[mRead] > rtick => seen = Content(mRead) /\ fresh
  /\ rpc = "compare" /\ mTicks[mRead] <= rtick => GivenAway
  /\ rpc = "restore" => GivenAway
  /\ rpc = "return" => seen = Content(mRead) /\ fresh = (mTicks[mRead] > rtick)

Inv == TypeOK /\ BuffersDisjoint /\ WriterInv /\ SharedInv /\ ReaderInv

-----------------------------------------------------------------------------

LEMMA InitInv == Init => Inv
<1> SUFFICES ASSUME Init PROVE Inv
  OBVIOUS
<1> USE TxAssumption DEF Init, Index
<1>1. TypeOK
  <2>1. ret \in BOOLEAN /\ fresh \in BOOLEAN
    BY Zenon
  <2> QED
    BY <2>1 DEF TypeOK, WriterPlaces, ReaderPlaces
<1>2. BuffersDisjoint
  BY DEF BuffersDisjoint
<1>3. WriterInv
  BY DEF WriterInv, Top
<1>4. SharedInv
  BY DEF SharedInv, Content
<1>5. ReaderInv
  <2>1. ret = fresh
    BY Zenon
  <2>2. seen = Content(mRead) /\ rpc = "idle"
    BY DEF Content
  <2> QED
    BY <2>1, <2>2 DEF ReaderInv
<1> QED
  BY <1>1, <1>2, <1>3, <1>4, <1>5 DEF Inv

(* The writer's steps: filling the buffer and committing it. *)
LEMMA WriterKeepsInv == Inv /\ WriterStep => Inv'
<1> SUFFICES ASSUME Inv, WriterStep PROVE Inv'
  OBVIOUS
<1> USE TxAssumption
<1> USE DEF Inv, TypeOK, BuffersDisjoint, WriterInv, SharedInv, ReaderInv,
            GivenAway, Top, Content, Index, WriterPlaces, ReaderPlaces,
            readerVars
<1>1. CASE BeginWrite
  BY <1>1 DEF BeginWrite
<1>2. ASSUME NEW v \in Values, EndWrite(v) PROVE Inv'
  BY <1>2 DEF EndWrite
<1>3. CASE CommitTick
  BY <1>3 DEF CommitTick
<1>4. CASE CommitExchange
  BY <1>4 DEF CommitExchange
<1>5. CASE CommitSetTick
  BY <1>5 DEF CommitSetTick
<1> QED
  BY <1>1, <1>2, <1>3, <1>4, <1>5 DEF WriterStep

(* The reader's steps: the two exchanges of a load. *)
LEMMA ReaderKeepsInv == Inv /\ ReaderStep => Inv'
<1> SUFFICES ASSUME Inv, ReaderStep PROVE Inv'
  OBVIOUS
<1> USE TxAssumption
<1> USE DEF Inv, TypeOK, BuffersDisjoint, WriterInv, SharedInv, ReaderInv,
            GivenAway, Top, Content, Index, WriterPlaces, ReaderPlaces,
            writerVars
<1>1. CASE LoadTick
  BY <1>1 DEF LoadTick
<1>2. CASE LoadExchange
  <2>1. BuffersDisjoint' /\ WriterInv'
    BY <1>2 DEF LoadExchange
  <2>2. SharedInv'
    BY <1>2 DEF LoadExchange
  <2>3. CASE mTicks[mUnused] > rtick
    <3>1. seen' = Content(mUnused) /\ fresh' = TRUE
      BY <1>2, <2>3, Zenon DEF LoadExchange
    <3>2. seen' = Content(mRead)' /\ fresh'
      BY <1>2, <3>1 DEF LoadExchange
    <3>3. TypeOK'
      BY <1>2, <3>1 DEF LoadExchange
    <3>4. rpc' = "compare" /\ mTicks'[mRead'] > rtick'
      BY <1>2, <2>3 DEF LoadExchange
    <3> QED
      BY <2>1, <2>2, <3>2, <3>3, <3>4
  <2>4. CASE mTicks[mUnused] <= rtick
    <3>1. GivenAway'
      BY <1>2, <2>4 DEF LoadExchange
    <3>2. rpc' = "compare" /\ ~(mTicks'[mRead'] > rtick')
      BY <1>2, <2>4 DEF LoadExchange
    <3>3. TypeOK'
      BY <1>2, <2>4 DEF LoadExchange
    <3> QED
      BY <2>1, <2>2, <3>1, <3>2, <3>3
  <2> QED
    BY <2>3, <2>4
<1>3. CASE LoadCompare
  <2>1. TypeOK' /\ BuffersDisjoint' /\ SharedInv' /\ WriterInv'
    BY <1>3 DEF LoadCompare
  <2>2. CASE mTicks[mRead] > rtick
    <3>1. ret' = fresh'
      BY <1>3, <2>2, Zenon DEF LoadCompare
    <3>2. seen' = Content(mRead)' /\ rpc' = "idle"
      BY <1>3, <2>2 DEF LoadCompare
    <3> QED
      BY <2>1, <3>1, <3>2
  <2>3. CASE ~(mTicks[mRead] > rtick)
    <3>1. GivenAway' /\ rpc' = "restore"
      BY <1>3, <2>3 DEF LoadCompare
    <3> QED
      BY <2>1, <3>1
  <2> QED
    BY <2>2, <2>3
<1>4. CASE LoadRestore
  <2>1. TypeOK' /\ BuffersDisjoint' /\ SharedInv'
    BY <1>4 DEF LoadRestore
  <2>2. WriterInv'
    BY <1>4 DEF LoadRestore
  <2>3. ReaderInv'
    BY <1>4 DEF LoadRestore
  <2> QED
    BY <2>1, <2>2, <2>3
<1>5. CASE LoadReturn
  BY <1>5 DEF LoadReturn
<1> QED
  BY <1>1, <1>2, <1>3, <1>4, <1>5 DEF ReaderStep

LEMMA NextInv == Inv /\ [Next]_vars => Inv'
<1>1. CASE UNCHANGED vars
  BY <1>1 DEF vars, Inv, TypeOK, BuffersDisjoint, WriterInv, SharedInv,
              ReaderInv, GivenAway, Top, Content
<1> QED
  BY <1>1, WriterKeepsInv, ReaderKeepsInv DEF Next

(* Inv holds in every reachable state, for any number of commits. *)
THEOREM Invariance == Spec => []Inv
<1> QED
  BY InitInv, NextInv, PTL DEF Spec

(* The buffers, ticks and indices have their types, and no load ever       *)
(* delivers a value that the writer was in the middle of writing.          *)
THEOREM TypeCorrect == Spec => []TypeOK
<1>1. Inv => TypeOK
  BY DEF Inv
<1> QED
  BY Invariance, <1>1, PTL

(* The writer, the reader and the exchange word always name three          *)
(* different buffers: there is no data race on the buffers of Tx.          *)
THEOREM NoDataRace == Spec => []BuffersDisjoint
<1>1. Inv => BuffersDisjoint
  BY DEF Inv
<1> QED
  BY Invariance, <1>1, PTL

(* What readBuffer() returns stays what load() delivered until the next    *)
(* load(), whatever the writer does.                                       *)
THEOREM ReadsAreStable == Spec => []ReadStable
<1>1. Inv => ReadStable
  BY DEF Inv, ReaderInv, ReadStable
<1> QED
  BY Invariance, <1>1, PTL

-----------------------------------------------------------------------------

(* The reader's steps, seen by LatestValue: the deciding exchange is a     *)
(* Load, and an exchange that decides nothing changes nothing.             *)
LEMMA ReaderSimulation ==
  Inv /\ ReaderStep => [Latest!Next]_(Latest!vars)
<1> SUFFICES ASSUME Inv, ReaderStep PROVE [Latest!Next]_(Latest!vars)
  OBVIOUS
<1> USE DEF Latest!vars, Newest
<1>1. CASE LoadTick \/ LoadCompare \/ LoadReturn
  BY <1>1 DEF LoadTick, LoadCompare, LoadReturn, Content
<1>2. CASE LoadExchange
  <2>1. CASE mTicks[mUnused] > rtick
    <3>1. mTicks[mRead] = rtick /\ seen.tick = rtick
      BY <1>2 DEF LoadExchange, Inv, ReaderInv, Content
    <3>2. Newest = mUnused /\ Newest' = mRead'
      BY <1>2, <2>1, <3>1
         DEF LoadExchange, Inv, TypeOK, Index
    <3>3. seen' = Content(Newest) /\ fresh' = TRUE
      BY <1>2, <2>1, <3>2, Zenon DEF LoadExchange
    <3>4. Content(Newest)' = Content(Newest)
      BY <1>2, <3>2 DEF LoadExchange, Content
    <3>5. Content(Newest).tick > seen.tick
      BY <2>1, <3>1, <3>2 DEF Content
    <3>6. Latest!Load
      BY <3>3, <3>4, <3>5 DEF Latest!Load
    <3> QED
      BY <3>6 DEF Latest!Next
  <2>2. CASE mTicks[mUnused] <= rtick
    <3>1. UNCHANGED <<seen, fresh>>
      BY <1>2, <2>2 DEF LoadExchange, Inv, TypeOK, Index
    <3>2. Content(Newest)' = Content(Newest)
      BY <1>2, <2>2
         DEF LoadExchange, Inv, TypeOK, SharedInv, ReaderInv, Content, Index
    <3> QED
      BY <3>1, <3>2
  <2> QED
    BY <2>1, <2>2 DEF Inv, TypeOK, Index
<1>3. CASE LoadRestore
  <2>1. GivenAway
    BY <1>3 DEF LoadRestore, Inv, ReaderInv
  <2>2. Newest = mUnused
    BY <2>1 DEF GivenAway, Inv, TypeOK, Index
  <2>3. seen' = Content(Newest)
    BY <1>3, <2>2 DEF LoadRestore
  <2>4. fresh' = (Content(Newest).tick > seen.tick)
    BY <1>3, <2>1, <2>2 DEF LoadRestore, GivenAway, Content
  <2>5. Content(Newest)' = Content(Newest)
    BY <1>3, <2>1
       DEF LoadRestore, GivenAway, Inv, TypeOK, SharedInv, Content, Index
  <2>6. Latest!Load
    BY <2>3, <2>4, <2>5 DEF Latest!Load
  <2> QED
    BY <2>6 DEF Latest!Next
<1> QED
  BY <1>1, <1>2, <1>3 DEF ReaderStep

(* The writer's steps, seen by LatestValue: only the exchange publishes. *)
LEMMA WriterSimulation ==
  Inv /\ WriterStep => [Latest!Next]_(Latest!vars)
<1> SUFFICES ASSUME Inv, WriterStep PROVE [Latest!Next]_(Latest!vars)
  OBVIOUS
<1> USE DEF Latest!vars, Newest
<1> USE DEF Inv, TypeOK, BuffersDisjoint, Content, readerVars
<1>1. CASE BeginWrite \/ CommitTick \/ CommitSetTick
  BY <1>1 DEF BeginWrite, CommitTick, CommitSetTick
<1>2. ASSUME NEW v \in Values, EndWrite(v)
      PROVE  [Latest!Next]_(Latest!vars)
  BY <1>2 DEF EndWrite
<1>3. CASE CommitExchange
  <2> DEFINE v == mBuffers[mWrite]
  <2>1. v \in Values /\ mTicks[mWrite] = Content(Newest).tick + 1
    BY <1>3 DEF CommitExchange, WriterInv, Top
  <2>2. mTicks[mRead] < mTicks[mWrite]
    BY <1>3 DEF CommitExchange, WriterInv, Top, Index
  <2>3. Newest' = mWrite
    BY <1>3, <2>2 DEF CommitExchange, Index
  <2>4. Content(Newest)' = [tick |-> Content(Newest).tick + 1, value |-> v]
    BY <1>3, <2>1, <2>3 DEF CommitExchange
  <2>5. Latest!Commit(v)
    BY <1>3, <2>4 DEF CommitExchange, Latest!Commit
  <2> QED
    BY <2>1, <2>5 DEF Latest!Next
<1> QED
  BY <1>1, <1>2, <1>3 DEF WriterStep

(* Tx delivers the value committed last, never an older one, never a       *)
(* mixture of two, and reports truthfully whether it is new.               *)
THEOREM TxImplementsLatestValue == Spec => ImplementsLatestValue
<1>1. Init => Latest!Init
  BY DEF Init, Latest!Init, Content, Newest, Index
<1>2. Inv /\ [Next]_vars => [Latest!Next]_(Latest!vars)
  <2>1. CASE UNCHANGED vars
    BY <2>1 DEF vars, Latest!vars, Newest, Content
  <2> QED
    BY <2>1, ReaderSimulation, WriterSimulation DEF Next
<1> QED
  BY Invariance, <1>1, <1>2, PTL DEF Spec, ImplementsLatestValue, Latest!Spec

=============================================================================
