----------------------------- MODULE PoolEngine -----------------------------
(***************************************************************************)
(* Pool implements Engine.  The history variable jobs lists the jobs that  *)
(* commit() made; the number of the job some results answer is found by    *)
(* the two timestamps they carry.                                          *)
(***************************************************************************)
EXTENDS Pool

VARIABLE jobs

engineVars == <<vars, jobs>>

InitEngine == Init /\ jobs = <<>>

NextEngine ==
  /\ Next
  /\ jobs' = IF mJob' = mJob THEN jobs ELSE Append(jobs, mJob')

SpecEngine == InitEngine /\ [][NextEngine]_engineVars

(* Results that are incomplete, or of no job, answer none: no number of    *)
(* Engine is negative.                                                     *)
Answers(n, r) ==
  /\ r.itemsTick = jobs[n].items
  /\ r.queryTick = jobs[n].queryTick
  /\ r.query = jobs[n].query
  /\ Complete(r)

JobAnswered(r) ==
  IF r = NoResults THEN 0
  ELSE IF \E n \in DOMAIN jobs : Answers(n, r)
  THEN CHOOSE n \in DOMAIN jobs : Answers(n, r)
  ELSE -1

EngineOfPool == INSTANCE Engine WITH
  Queries <- Query,
  jobs <- [n \in DOMAIN jobs |->
             [items |-> jobs[n].items, query |-> jobs[n].query]],
  answered <- JobAnswered(published[0]),
  loaded <- JobAnswered(seen[0]),
  wakeup <- wakeup \/ wpc[0] = "notify"

(* The pool is an Engine to its front end: whatever the workers do with    *)
(* chunks, timestamps and one another's results, worker 0 publishes        *)
(* complete answers to committed jobs only, never goes back to an older    *)
(* one nor publishes one twice, and never without waking the event loop.   *)
ImplementsEngine == EngineOfPool!EngineSpec
=============================================================================
