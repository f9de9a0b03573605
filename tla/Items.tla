------------------------------- MODULE Items -------------------------------
(***************************************************************************)
(* The item list (src/fzx/items.cpp) on its reference-counted memory       *)
(* (src/fzx/rc_mem.hpp), as the engine uses it: the main thread appends to *)
(* Fzx::mItems, commit() copies it to the shared job, and every worker     *)
(* copies the job's.  All copies share two blocks of memory, one of        *)
(* strings and one of offsets, until a block is full and the main thread   *)
(* moves to a larger one.                                                  *)
(*                                                                         *)
(* Strings are aligned to 16 bytes; a string is a sequence of such units,  *)
(* and sizes and offsets of strings are counted in units.  Assigning a     *)
(* list is not atomic: each of its two pointers gives up a reference and   *)
(* takes another, under the mutex of the job.                              *)
(*                                                                         *)
(* mMaxStrSize, a hint for reserving memory, is left out.  clear() and the *)
(* move operations are not called by the program.                          *)
(***************************************************************************)
EXTENDS Integers, Sequences, FiniteSets

CONSTANTS
  Texts,      \* the strings pushed: sequences of units
  Workers,    \* the worker threads, each with a copy of the job
  InitialCap, \* the first capacity of the offsets, 512 in the code
  Junk,       \* memory that was never written, or was freed
  NumBlocks,  \* bound: blocks of memory that can exist at once
  MaxItems    \* bound: strings the main thread pushes

ASSUME ItemsAssumption ==
  /\ \A s \in Texts : s # <<>> /\ s \in Seq({s[k] : k \in DOMAIN s})
  /\ {"mItems", "mJob"} \cap Workers = {} /\ IsFiniteSet(Workers)
  /\ Junk \notin [from : Nat, size : Nat]
  /\ InitialCap \in Nat \ {0} /\ NumBlocks \in Nat /\ MaxItems \in Nat

Holders == {"mItems", "mJob"} \union Workers
Members == {"strs", "offsets"}
Blocks == 1..NumBlocks
Null == 0

VARIABLES
  heap,     \* heap[b]: the reference count of block b, and its memory
  items,    \* items[h]: the Items object h
  mpc,      \* the main thread's place in Items::push
  pushed,   \* the argument of push
  cpc,      \* how far the assignment to h has come
  dropping  \* h is destroyed, with its thread, rather than assigned to

vars == <<heap, items, mpc, pushed, cpc, dropping>>

Free == [refs |-> 0, data |-> <<>>]
NoItems == [strs |-> Null, offsets |-> Null, strsSize |-> 0, size |-> 0,
            strsCap |-> 0, cap |-> 0]

Init ==
  /\ heap = [b \in Blocks |-> Free]
  /\ items = [h \in Holders |-> NoItems]
  /\ mpc = "idle" /\ pushed = <<>>
  /\ cpc = [h \in Holders |-> "idle"]
  /\ dropping = [h \in Holders |-> FALSE]

SourceOf(h) == IF h = "mJob" THEN "mItems" ELSE "mJob"
Source(h) == IF dropping[h] THEN NoItems ELSE items[SourceOf(h)]

(* std::string_view at(n), the (n+1)-st item as the holder of i reads it. *)
At(i, n) ==
  LET cell(b, k) == IF b # Null /\ k \in DOMAIN heap[b].data
                    THEN heap[b].data[k] ELSE Junk
      offset == cell(i.offsets, n)
  IN IF offset = Junk THEN <<Junk>>
     ELSE [k \in 1..offset.size |-> cell(i.strs, offset.from + k)]
-----------------------------------------------------------------------------
(* RcMem *)

Unref(hp, b) ==
  IF b = Null THEN hp
  ELSE IF hp[b].refs = 1 THEN [hp EXCEPT ![b] = Free]
  ELSE [hp EXCEPT ![b].refs = @ - 1]

Ref(hp, b) == IF b = Null THEN hp ELSE [hp EXCEPT ![b].refs = @ + 1]

RoundPow2(n) == {p \in n..2 * n - 1 : \E k \in 0..n : p = 2^k}

M == items["mItems"]

FreeBlocks == {b \in Blocks : heap[b].refs = 0}

(* create(): a new block of n cells takes over what is used of the old one *)
(* of mItems.  A freed block may be handed out again.                      *)
Move(member, used, capacity, n) ==
  LET old == M[member]
      new == CHOOSE b \in FreeBlocks : TRUE
      data == [k \in 1..n |-> IF k <= used THEN heap[old].data[k] ELSE Junk]
  IN /\ FreeBlocks # {}
     /\ heap' = Unref([heap EXCEPT ![new] = [refs |-> 1, data |-> data]], old)
     /\ items' = [items EXCEPT !["mItems"][member] = new,
                               !["mItems"][capacity] = n]
-----------------------------------------------------------------------------
(* Items::push, of the main thread: room for the string, room for its      *)
(* offset, and the two written.  Either allocation may throw bad_alloc,    *)
(* which leaves what was done before it.                                   *)
Leave == mpc' = "idle" /\ pushed' = <<>>

MayPush == mpc = "idle" /\ cpc["mJob"] = "idle" /\ M.size < MaxItems

GrowStrs(s) ==
  /\ MayPush
  /\ LET need == M.strsSize + Len(s)
     IN \/ need <= M.strsCap /\ UNCHANGED <<heap, items>>
        \/ /\ need > M.strsCap
           /\ \E n \in RoundPow2(need) : Move("strs", M.strsSize, "strsCap", n)
  /\ mpc' = "offsets" /\ pushed' = s
  /\ UNCHANGED <<cpc, dropping>>

GrowOffsets ==
  /\ mpc = "offsets"
  /\ LET n == IF M.cap = 0 THEN InitialCap ELSE M.cap * 2
     IN \/ M.size + 1 <= M.cap /\ UNCHANGED <<heap, items>>
        \/ M.size + 1 > M.cap /\ Move("offsets", M.size, "cap", n)
  /\ mpc' = "write"
  /\ UNCHANGED <<pushed, cpc, dropping>>

(* Mistake: out of memory, the list starts over in the memory it has. *)
BadAlloc_Clear ==
  /\ mpc = "offsets" /\ M.size + 1 > M.cap
  /\ Leave
  /\ items' = [items EXCEPT !["mItems"].size = 0, !["mItems"].strsSize = 0]
  /\ UNCHANGED <<heap, cpc, dropping>>

(* A failed first allocation changes nothing at all. *)
BadAlloc ==
  /\ mpc = "offsets" /\ M.size + 1 > M.cap
  /\ Leave
  /\ UNCHANGED <<heap, items, cpc, dropping>>

Write ==
  /\ mpc = "write"
  /\ LET grown == M.strsSize + Len(pushed)
         offset == [from |-> M.strsSize, size |-> Len(pushed)]
         filled == [k \in DOMAIN heap[M.strs].data |->
                      IF k \in M.strsSize + 1..grown
                      THEN pushed[k - M.strsSize] ELSE heap[M.strs].data[k]]
     IN /\ heap' = [heap EXCEPT ![M.strs].data = filled,
                                ![M.offsets].data[M.size + 1] = offset]
        /\ items' = [items EXCEPT !["mItems"].strsSize = grown,
                                  !["mItems"].size = @ + 1]
  /\ Leave
  /\ UNCHANGED <<cpc, dropping>>
-----------------------------------------------------------------------------
(* The assignment of lists.  A copy under way holds mJobMutex, the main    *)
(* thread's alone, the workers' together.                                  *)
Begin(h) == cpc' = [cpc EXCEPT ![h] = "strs"]

Reading == \E w \in Workers : cpc[w] # "idle" /\ ~dropping[w]

(* Mistake: the job is replaced while workers copy it. *)
Commit_NoLock ==
  /\ mpc = "idle" /\ cpc["mJob"] = "idle"
  /\ items["mJob"].size # M.size
  /\ Begin("mJob")
  /\ UNCHANGED <<heap, items, mpc, pushed, dropping>>

(* Fzx::commit, when the number of items has changed. *)
Commit ==
  /\ mpc = "idle" /\ cpc["mJob"] = "idle" /\ ~Reading
  /\ items["mJob"].size # M.size
  /\ Begin("mJob")
  /\ UNCHANGED <<heap, items, mpc, pushed, dropping>>

(* Fzx::loadJob, of a worker. *)
LoadJob(w) ==
  /\ cpc[w] = "idle" /\ cpc["mJob"] = "idle"
  /\ Begin(w)
  /\ UNCHANGED <<heap, items, mpc, pushed, dropping>>

(* The worker's thread ends and its copy is destroyed, last member first:  *)
(* the order of two pointers that nobody follows any more is left out.     *)
Exit(w) ==
  /\ cpc[w] = "idle" /\ items[w] # NoItems
  /\ Begin(w)
  /\ dropping' = [dropping EXCEPT ![w] = TRUE]
  /\ UNCHANGED <<heap, items, mpc, pushed>>

Taking(m) == IF m = "strs" THEN "strsRef" ELSE "offsetsRef"
After(m) == IF m = "strs" THEN "offsets" ELSE "sizes"

(* RcMem::operator=: nothing to do for the same block, else unref first. *)
DropOld(h, m) ==
  /\ cpc[h] = m
  /\ IF items[h][m] = Source(h)[m]
     THEN cpc' = [cpc EXCEPT ![h] = After(m)] /\ UNCHANGED <<heap, items>>
     ELSE /\ heap' = Unref(heap, items[h][m])
          /\ items' = [items EXCEPT ![h][m] = Null]
          /\ cpc' = [cpc EXCEPT ![h] = Taking(m)]
  /\ UNCHANGED <<mpc, pushed, dropping>>

(* Mistake: the first copy into an empty list takes no reference. *)
TakeNew_NoRef(h, m) ==
  /\ cpc[h] = Taking(m)
  /\ heap' = IF items[h].size = 0 THEN heap ELSE Ref(heap, Source(h)[m])
  /\ items' = [items EXCEPT ![h][m] = Source(h)[m]]
  /\ cpc' = [cpc EXCEPT ![h] = After(m)]
  /\ UNCHANGED <<mpc, pushed, dropping>>

TakeNew(h, m) ==
  /\ cpc[h] = Taking(m)
  /\ heap' = Ref(heap, Source(h)[m])
  /\ items' = [items EXCEPT ![h][m] = Source(h)[m]]
  /\ cpc' = [cpc EXCEPT ![h] = After(m)]
  /\ UNCHANGED <<mpc, pushed, dropping>>

CopySizes(h) ==
  /\ cpc[h] = "sizes"
  /\ items' = [items EXCEPT ![h] =
       [Source(h) EXCEPT !.strs = items[h].strs, !.offsets = items[h].offsets]]
  /\ cpc' = [cpc EXCEPT ![h] = "idle"]
  /\ dropping' = [dropping EXCEPT ![h] = FALSE]
  /\ UNCHANGED <<heap, mpc, pushed>>

Next ==
  \/ \E s \in Texts : GrowStrs(s)
  \/ GrowOffsets \/ BadAlloc \/ Write
  \/ Commit
  \/ \E w \in Workers : LoadJob(w) \/ Exit(w)
  \/ \E h \in Holders \ {"mItems"} :
       \/ \E m \in Members : DropOld(h, m) \/ TakeNew(h, m)
       \/ CopySizes(h)

Spec == Init /\ [][Next]_vars
-----------------------------------------------------------------------------
(* The reference count of every block is the number of pointers to it, at  *)
(* every point of the assignments that run concurrently: nothing is freed  *)
(* while a thread may read it, and nothing stays allocated that nobody     *)
(* points to.                                                              *)
RefsExact ==
  \A b \in Blocks :
    heap[b].refs =
      Cardinality({p \in Holders \X Members : items[p[1]][p[2]] = b})

(* The main thread appends to blocks that the workers read without a lock. *)
(* No holder of the same block reaches beyond the main thread's sizes, so  *)
(* what is written next is memory that nobody reads.                       *)
NoSharedWrite ==
  \A h \in Holders :
    /\ items[h].strs = M.strs => items[h].strsSize <= M.strsSize
    /\ items[h].offsets = M.offsets => items[h].size <= M.size

(* Every copy of the list is a value: pushing, moving to larger blocks,    *)
(* failing to, and the copying and dropping of other copies leave it as it *)
(* is.  A copy under way is already the copy, its source being locked.     *)
View(h) ==
  LET i == IF cpc[h] = "idle" THEN items[h] ELSE Source(h)
  IN [n \in 1..i.size |-> At(i, n)]

Store == INSTANCE ItemStore WITH Owner <- "mItems",
                                 list <- [h \in Holders |-> View(h)]
ImplementsItemStore == Store!Spec
=============================================================================
