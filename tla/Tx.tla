--------------------------------- MODULE Tx ---------------------------------
(***************************************************************************)
(* fzx::Tx (src/fzx/tx.hpp), the triple buffer each worker publishes its   *)
(* results through: the writer owns the buffer mWrite, the reader owns     *)
(* mRead, and the third one changes hands by an atomic exchange of mUnused.*)
(* One writer thread and one reader thread run freely; an action is one    *)
(* exchange, or one access to the ticks, which are plain memory.           *)
(***************************************************************************)
EXTENDS Naturals

CONSTANTS
  Values,               \* what the writer may commit
  Default,              \* the value of a buffer nobody has written
  Torn,                 \* the content of a buffer that is being written
  MaxTick               \* bound: how many times the writer commits

ASSUME TxAssumption ==
  /\ MaxTick \in Nat
  /\ Torn \notin Values \union {Default}

VARIABLES
  mBuffers, mTicks,     \* the three buffers and their timestamps
  mWrite, mRead,        \* the buffers of the writer and of the reader
  mUnused,              \* the atomic index of the third one
  wpc, wtick,           \* the writer's place, and commit()'s local `tick'
  rpc, rtick,           \* the reader's place, and load()'s local `tick'
  ret,                  \* what the last load() returned
  seen, fresh           \* history: the load as the exchanges decided it

writerVars == <<mWrite, wpc, wtick>>
readerVars == <<mRead, rpc, rtick, ret, seen, fresh>>
vars == <<mBuffers, mTicks, mWrite, mRead, mUnused, wpc, wtick, rpc, rtick,
          ret, seen, fresh>>

Index == 0..2

WriterPlaces == {"idle", "writing", "written", "exchange", "settick"}
ReaderPlaces == {"idle", "exchange", "compare", "restore", "return"}

(* The content of a buffer with its timestamp. *)
Content(b) == [tick |-> mTicks[b], value |-> mBuffers[b]]

Init ==
  /\ mBuffers = [b \in Index |-> Default]
  /\ mTicks = [b \in Index |-> 0]
  /\ mWrite = 0
  /\ mRead = 1
  /\ mUnused = 2
  /\ wpc = "idle" /\ wtick = 0
  /\ rpc = "idle" /\ rtick = 0
  /\ ret = FALSE
  /\ seen = [tick |-> 0, value |-> Default]
  /\ fresh = FALSE

-----------------------------------------------------------------------------
(* Mistakes the properties below exclude; none of them is part of Next.    *)

(* commit() leaves the old tick on the buffer it gets back. *)
CommitSetTick_Skip ==
  /\ wpc = "settick"
  /\ wpc' = "idle"
  /\ UNCHANGED <<mBuffers, mTicks, mWrite, mUnused, wtick, readerVars>>

(* load() reads the index instead of exchanging it. *)
LoadExchange_NoSwap ==
  /\ rpc = "exchange"
  /\ rpc' = "compare"
  /\ mRead' = mUnused
  /\ IF mTicks[mUnused] > rtick
     THEN seen' = Content(mUnused) /\ fresh' = TRUE
     ELSE UNCHANGED <<seen, fresh>>
  /\ UNCHANGED <<mBuffers, mTicks, mUnused, rtick, ret, writerVars>>

(* load() compares with >= at the end. *)
LoadReturn_GreaterEqual ==
  /\ rpc = "return"
  /\ rpc' = "idle"
  /\ ret' = (mTicks[mRead] >= rtick)
  /\ UNCHANGED <<mBuffers, mTicks, mRead, mUnused, rtick, seen, fresh,
                 writerVars>>

-----------------------------------------------------------------------------
(* The writer: fills writeBuffer(), possibly several times, then commits.  *)

BeginWrite ==
  /\ wpc \in {"idle", "written"}
  /\ wpc' = "writing"
  /\ mBuffers' = [mBuffers EXCEPT ![mWrite] = Torn]
  /\ UNCHANGED <<mTicks, mWrite, mUnused, wtick, readerVars>>

EndWrite(v) ==
  /\ wpc = "writing"
  /\ wpc' = "written"
  /\ mBuffers' = [mBuffers EXCEPT ![mWrite] = v]
  /\ UNCHANGED <<mTicks, mWrite, mUnused, wtick, readerVars>>

(* auto tick = ++mTicks[mWrite] *)
CommitTick ==
  /\ wpc = "written"
  /\ mTicks[mWrite] < MaxTick
  /\ wpc' = "exchange"
  /\ wtick' = mTicks[mWrite] + 1
  /\ mTicks' = [mTicks EXCEPT ![mWrite] = wtick']
  /\ UNCHANGED <<mBuffers, mWrite, mUnused, readerVars>>

CommitExchange ==
  /\ wpc = "exchange"
  /\ wpc' = "settick"
  /\ mWrite' = mUnused
  /\ mUnused' = mWrite
  /\ UNCHANGED <<mBuffers, mTicks, wtick, readerVars>>

(* The buffer that came back carries the old tick of its last commit. *)
CommitSetTick ==
  /\ wpc = "settick"
  /\ wpc' = "idle"
  /\ mTicks' = [mTicks EXCEPT ![mWrite] = wtick]
  /\ UNCHANGED <<mBuffers, mWrite, mUnused, wtick, readerVars>>

-----------------------------------------------------------------------------
(* The reader *)

LoadTick ==
  /\ rpc = "idle"
  /\ rpc' = "exchange"
  /\ rtick' = mTicks[mRead]
  /\ UNCHANGED <<mBuffers, mTicks, mRead, mUnused, ret, seen, fresh,
                 writerVars>>

(* The first exchange: decides the load if the buffer it got is newer. *)
LoadExchange ==
  /\ rpc = "exchange"
  /\ rpc' = "compare"
  /\ mRead' = mUnused
  /\ mUnused' = mRead
  /\ IF mTicks[mUnused] > rtick
     THEN seen' = Content(mUnused) /\ fresh' = TRUE
     ELSE UNCHANGED <<seen, fresh>>
  /\ UNCHANGED <<mBuffers, mTicks, rtick, ret, writerVars>>

LoadCompare ==
  /\ rpc = "compare"
  /\ IF mTicks[mRead] > rtick
     THEN rpc' = "idle" /\ ret' = TRUE
     ELSE rpc' = "restore" /\ UNCHANGED ret
  /\ UNCHANGED <<mBuffers, mTicks, mRead, mUnused, rtick, seen, fresh,
                 writerVars>>

(* The second exchange: takes back the buffer the reader gave away, unless *)
(* the writer has replaced it by a newer one in the meantime.              *)
LoadRestore ==
  /\ rpc = "restore"
  /\ rpc' = "return"
  /\ mRead' = mUnused
  /\ mUnused' = mRead
  /\ seen' = Content(mUnused)
  /\ fresh' = (mTicks[mUnused] > rtick)
  /\ UNCHANGED <<mBuffers, mTicks, rtick, ret, writerVars>>

LoadReturn ==
  /\ rpc = "return"
  /\ rpc' = "idle"
  /\ ret' = (mTicks[mRead] > rtick)
  /\ UNCHANGED <<mBuffers, mTicks, mRead, mUnused, rtick, seen, fresh,
                 writerVars>>

-----------------------------------------------------------------------------

WriterStep ==
  \/ BeginWrite
  \/ \E v \in Values : EndWrite(v)
  \/ CommitTick
  \/ CommitExchange
  \/ CommitSetTick

ReaderStep ==
  \/ LoadTick
  \/ LoadExchange
  \/ LoadCompare
  \/ LoadRestore
  \/ LoadReturn

Next == WriterStep \/ ReaderStep

Spec == Init /\ [][Next]_vars

-----------------------------------------------------------------------------
(* Properties *)

(* The types; in particular no load ever delivers a half written value. *)
TypeOK ==
  /\ mBuffers \in [Index -> Values \union {Default, Torn}]
  /\ mTicks \in [Index -> 0..MaxTick]
  /\ mWrite \in Index /\ mRead \in Index /\ mUnused \in Index
  /\ wpc \in WriterPlaces /\ wtick \in 0..MaxTick
  /\ rpc \in ReaderPlaces /\ rtick \in 0..MaxTick
  /\ ret \in BOOLEAN /\ fresh \in BOOLEAN
  /\ seen \in [tick : 0..MaxTick, value : Values \union {Default}]

(* The three indices always name three different buffers, whatever the     *)
(* order of the exchanges: no buffer is both written and read (tx.cpp:     *)
(* "has no data races"), and none is lost.                                 *)
BuffersDisjoint == mWrite # mRead /\ mRead # mUnused /\ mWrite # mUnused

(* Between two loads readBuffer() stays what the last load delivered: the  *)
(* value and its tick do not change under the reader while the writer      *)
(* commits any number of times, and the result load() returned is the one  *)
(* the exchanges decided.                                                  *)
ReadStable == rpc = "idle" => seen = Content(mRead) /\ ret = fresh

(* Tx implements LatestValue: what is published is the newer of the two    *)
(* buffers the writer does not own; a load takes effect at the exchange    *)
(* that decides it.                                                        *)
Newest == IF mTicks[mRead] > mTicks[mUnused] THEN mRead ELSE mUnused

Latest == INSTANCE LatestValue WITH published <- Content(Newest)

ImplementsLatestValue == Latest!Spec

=============================================================================
