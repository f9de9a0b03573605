------------------------------- MODULE MCPool -------------------------------
(* Pool for TLC: the tree of worker.cpp cut to the size of the pool, a     *)
(* query that matches every item and others that do not match the first.   *)
EXTENDS Pool

CONSTANTS foo, bar

Tree == INSTANCE MergeTree

MCParent == [w \in Workers |-> Tree!ParentOf(w)]
MCChildren == [w \in Workers |-> Tree!ChildrenOf(w, NumWorkers)]
MCMatches == [t \in Texts |-> IF t = foo THEN Items ELSE Items \ {0}]

(* Many items or many queries, not both; in the run of three workers one   *)
(* item and one query, or a query set and cleared with no item.            *)
FewChanges == mItems + mJob.queryTick <= 3
ItemOrQueries == mItems + mJob.queryTick <= 2
=============================================================================
