------------------------------- MODULE Engine -------------------------------
(***************************************************************************)
(* What the engine (fzx::Fzx and its workers) promises a front end.  Jobs  *)
(* are committed one after the other; results are published that answer    *)
(* one of them each, in order, some of them skipped; a wake-up follows     *)
(* every publication; loadResults() loads the last one published.          *)
(*                                                                         *)
(* PoolEngine shows that Pool implements this; the front ends, TermApp and *)
(* Plugin, are built on it.                                                *)
(***************************************************************************)
EXTENDS Integers, Sequences

CONSTANTS
  Queries,    \* the queries a user may enter
  NoQuery,    \* none: a null std::shared_ptr<Query>
  MaxItems    \* bound: items pushed

VARIABLES
  jobs,       \* the jobs committed
  answered,   \* the number of the job whose results are published, or 0
  loaded,     \* the number of the job whose results are loaded, or 0
  wakeup      \* the event loop will be woken up

engineVars == <<jobs, answered, loaded, wakeup>>

EngineJob == [items : 0..MaxItems, query : Queries \union {NoQuery}]

JobNumber(n) == IF n = 0 THEN [items |-> 0, query |-> NoQuery] ELSE jobs[n]

LastJob == JobNumber(Len(jobs))

EngineInit == jobs = <<>> /\ answered = 0 /\ loaded = 0 /\ wakeup = FALSE

(* Fzx::commit with something to commit. *)
CommitNew(j) ==
  /\ j # LastJob
  /\ jobs' = Append(jobs, j)
  /\ UNCHANGED <<answered, loaded, wakeup>>

(* Fzx::commit: nothing happens if nothing changed. *)
CommitJobOf(items, query) ==
  LET j == [items |-> items, query |-> query]
  IN CommitNew(j) \/ (j = LastJob /\ UNCHANGED engineVars)

(* The master worker publishes the answer to a job newer than the last. *)
PublishAnswer ==
  /\ answered' \in answered + 1..Len(jobs)
  /\ wakeup' = TRUE
  /\ UNCHANGED <<jobs, loaded>>

(* The end of a worker that failed is signalled as well. *)
Signal == wakeup' = TRUE /\ UNCHANGED <<jobs, answered, loaded>>

(* EventFd::consume, then Fzx::loadResults. *)
Consume == wakeup' = FALSE /\ UNCHANGED <<jobs, answered, loaded>>
Load == loaded' = answered /\ UNCHANGED <<jobs, answered, wakeup>>
ConsumeAndLoad ==
  wakeup' = FALSE /\ loaded' = answered /\ UNCHANGED <<jobs, answered>>

(* Fzx::stop: the workers are gone, and their results with them. *)
StopEngine == answered' = 0 /\ loaded' = 0 /\ UNCHANGED <<jobs, wakeup>>

EngineNext ==
  \/ \E j \in EngineJob : CommitNew(j)
  \/ PublishAnswer \/ Signal \/ Consume \/ Load \/ StopEngine

EngineSpec == EngineInit /\ [][EngineNext]_engineVars
=============================================================================
