----------------------------- MODULE LatestValue -----------------------------
(***************************************************************************)
(* What fzx::Tx (src/fzx/tx.hpp) promises: a value transaction between one *)
(* writer and one reader.  A commit replaces the published value; a load   *)
(* takes the value published last, and says whether it is newer than the   *)
(* one the reader had.  Versions that were overwritten before a load are   *)
(* skipped, never delivered late.                                          *)
(***************************************************************************)
EXTENDS Naturals

CONSTANTS
  Values,               \* what the writer may commit
  Default               \* the value of a buffer nobody has written

VARIABLES
  published,            \* [tick, value] of the last commit
  seen,                 \* [tick, value] the reader has
  fresh                 \* what the last load returned

vars == <<published, seen, fresh>>

Version == [tick : Nat, value : Values \union {Default}]

Init ==
  /\ published = [tick |-> 0, value |-> Default]
  /\ seen = published
  /\ fresh = FALSE

Commit(v) ==
  /\ published' = [tick |-> published.tick + 1, value |-> v]
  /\ UNCHANGED <<seen, fresh>>

Load ==
  /\ seen' = published
  /\ fresh' = (published.tick > seen.tick)
  /\ UNCHANGED published

Next == Load \/ \E v \in Values : Commit(v)

Spec == Init /\ [][Next]_vars
=============================================================================
