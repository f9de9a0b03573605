------------------------------ MODULE MergePath ------------------------------
(***************************************************************************)
(* The way of one worker's results to worker 0: in a pool of `count'       *)
(* workers, for every count the program allows, the results of every       *)
(* worker climb the tree of MergeTree.  A worker that has published        *)
(* notifies ParentOf(at), which looks for them among its children.         *)
(***************************************************************************)
EXTENDS MergeTree

VARIABLES
  count,       \* workers in the pool
  at,          \* the worker that holds the results
  mergedBits,  \* the children of the worker `at' it has merged
  hops         \* how many times the results were merged into a parent

pathVars == <<count, at, mergedBits, hops>>

PathInit ==
  /\ count \in 1..kMaxThreads
  /\ at \in 0..count - 1
  /\ mergedBits = {}
  /\ hops = 0

(* The worker merges the children it still misses, in the loop's order. *)
MergeNext ==
  /\ \E c \in Mask(at, count) \ mergedBits :
       /\ \A b \in Mask(at, count) \ mergedBits : c <= b
       /\ mergedBits' = mergedBits \union {c}
  /\ UNCHANGED <<count, at, hops>>

(* Published: the parent takes the results over if they are a child's. *)
Climb ==
  /\ at # 0
  /\ mergedBits = Mask(at, count)
  /\ \E c \in Mask(ParentOf(at), count) : ChildAt(ParentOf(at), c) = at
  /\ at' = ParentOf(at)
  /\ mergedBits' = {c \in Mask(ParentOf(at), count) : ChildAt(ParentOf(at), c) = at}
  /\ hops' = hops + 1
  /\ UNCHANGED count

PathNext == MergeNext \/ Climb

PathSpec == PathInit /\ [][PathNext]_pathVars /\ WF_pathVars(PathNext)

-----------------------------------------------------------------------------
(* Properties *)

(* Every result reaches worker 0 with all of worker 0's children merged,   *)
(* for every pool size: the two tables and the child loop agree.           *)
ReachesMaster == <>[](at = 0 /\ mergedBits = Mask(0, count))

(* A worker is the child of one worker, its kParentMap entry, and of no    *)
(* other, and only once: its results are merged, and never merged twice.   *)
MergedOnce ==
  \A p \in 0..count - 1 :
    Cardinality({c \in Mask(p, count) : ChildAt(p, c) = at})
      = IF at # 0 /\ p = ParentOf(at) THEN 1 ELSE 0

(* A parent has a smaller index than its children: Fzx::commit() posts     *)
(* kJob in the order of the indices, so a worker has its kJob before any   *)
(* of its children can publish results of that job and post kMerge.  And   *)
(* results are merged at most six times on their way.                      *)
ParentFirst ==
  /\ at # 0 => ParentOf(at) < at
  /\ \A c \in Mask(at, count) : ChildAt(at, c) \in at + 1..count - 1
  /\ hops <= 6
=============================================================================
