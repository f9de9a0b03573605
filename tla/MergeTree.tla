------------------------------ MODULE MergeTree ------------------------------
(***************************************************************************)
(* The dependency tree that worker results are merged along                *)
(* (src/fzx/worker.cpp): which worker merges the results of which.  The    *)
(* two tables are those of the source.                                     *)
(***************************************************************************)
EXTENDS Integers, Sequences, FiniteSets

kMaxThreads == 64

(* kParentMap, worker 0 first; the entries are written in decimal. *)
kParentMap ==
  << 0,  0,  0,  2,  0,  4,  4,  6,  0,  8,  8, 10,  8, 12, 12, 14,
     0, 16, 16, 18, 16, 20, 20, 22, 16, 24, 24, 26, 24, 28, 28, 30,
     0, 32, 32, 34, 32, 36, 36, 38, 32, 40, 40, 42, 40, 44, 44, 46,
    32, 48, 48, 50, 48, 52, 52, 54, 48, 56, 56, 58, 56, 60, 60, 62 >>

(* kMaxChildrenMap: how many children a worker can have at most. *)
kMaxChildrenMap ==
  << 6, 0, 1, 0, 2, 0, 1, 0, 3, 0, 1, 0, 2, 0, 1, 0,
     4, 0, 1, 0, 2, 0, 1, 0, 3, 0, 1, 0, 2, 0, 1, 0,
     5, 0, 1, 0, 2, 0, 1, 0, 3, 0, 1, 0, 2, 0, 1, 0,
     4, 0, 1, 0, 2, 0, 1, 0, 3, 0, 1, 0, 2, 0, 1, 0 >>

(* 1U << child *)
Bit(child) == <<1, 2, 4, 8, 16, 32>>[child + 1]

ParentOf(w) == kParentMap[w + 1]

(* A mistake that MergePath excludes: at() forgets the shift. *)
ChildAt_NoShift(w, child) == w + child + 1

(* MergeState::at(child) of worker w *)
ChildAt(w, child) == w + Bit(child)

(* A mistake that MergePath excludes: the bound of the loop is off by one. *)
ChildCount_OffByOne(w, count) ==
  CHOOSE c \in 0..kMaxChildrenMap[w + 1] :
    /\ \A i \in 0..c - 1 : ChildAt(w, i) <= count
    /\ c = kMaxChildrenMap[w + 1] \/ ChildAt(w, c) > count

(* MergeState::size() of worker w in a pool of `count' workers: the loop   *)
(* of the constructor stops at the first child that is out of bounds.      *)
ChildCount(w, count) ==
  CHOOSE c \in 0..kMaxChildrenMap[w + 1] :
    /\ \A i \in 0..c - 1 : ChildAt(w, i) < count
    /\ c = kMaxChildrenMap[w + 1] \/ ChildAt(w, c) >= count

(* The children of worker w, in the order the merge loop visits them. *)
ChildrenOf(w, count) == [i \in 1..ChildCount(w, count) |-> ChildAt(w, i - 1)]

(* A mistake that MergePath excludes: a mask of four bits. *)
Mask_FourBits(w, count) == {b \in 0..3 : b < ChildCount(w, count)}

(* mMask: the state before any child is merged, as an 8-bit word.  Its     *)
(* width is enough as long as no worker has more than eight children.      *)
Mask(w, count) == {b \in 0..7 : b < ChildCount(w, count)}
=============================================================================
