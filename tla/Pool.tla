-------------------------------- MODULE Pool --------------------------------
(***************************************************************************)
(* The engine of fzx: the thread that owns the fzx::Fzx object             *)
(* (src/fzx/fzx.cpp) and the worker threads (src/fzx/worker.cpp).          *)
(*                                                                         *)
(* The main thread pushes items, sets the query and commits; a commit      *)
(* replaces the shared job and posts kJob to every worker, one by one.     *)
(* Each worker copies the job, takes chunks of items from the job's shared *)
(* counter, matches them, merges the results of its children in the tree,  *)
(* publishes its own and tells its parent, or the main thread's event loop *)
(* when it is worker 0.                                                    *)
(*                                                                         *)
(* events[w] is the Events object of w, in the atomic form that module     *)
(* Events is shown to implement (EventChannel); published[w] and seen[w]   *)
(* are its Tx, in the form that module Tx is shown to implement            *)
(* (LatestValue).  Everything else is at the code's own granularity: one   *)
(* action is the code between two accesses to shared state.                *)
(***************************************************************************)
EXTENDS Integers, Sequences, FiniteSets

CONSTANTS
  NumWorkers,     \* mThreads
  Parent,         \* Parent[w]: the worker that merges the results of w
  Children,       \* Children[w]: the workers w merges, in the loop's order
  Texts,          \* the texts of the queries a user may enter
  Matches,        \* Matches[t]: the items that match the query text t
  ChunkSize,      \* kChunkSize
  NoQuery,        \* the null std::shared_ptr<Query>
  MaxItems,       \* bound: items the main thread pushes
  MaxQueries,     \* bound: times the query changes
  MaxStarts,      \* bound: times the pool is started
  MaxStops,       \* bound: times the pool is stopped
  MaxFaults       \* bound: exceptions thrown in workers and in start()

Workers == 0..NumWorkers - 1
Items == 0..MaxItems - 1
Event == {"kStop", "kJob", "kMerge"}

ASSUME PoolAssumption ==
  /\ NumWorkers \in Nat \ {0} /\ ChunkSize \in Nat \ {0}
  /\ MaxItems \in Nat /\ MaxQueries \in Nat
  /\ MaxStarts \in Nat /\ MaxStops \in Nat /\ MaxFaults \in Nat
  /\ Matches \in [Texts -> SUBSET Items]
  /\ NoQuery \notin [id : Nat, text : Texts]

(* What the code relies on: the tables of worker.cpp make a tree of the    *)
(* workers, in which a parent has a smaller index than its children.       *)
IsTree(parent, children) ==
  /\ parent \in [Workers -> Workers]
  /\ children \in [Workers -> Seq(Workers)]
  /\ \A w \in Workers \ {0} : parent[w] < w
  /\ \A p \in Workers : \A i \in DOMAIN children[p] :
       children[p][i] # 0 /\ parent[children[p][i]] = p
  /\ \A w \in Workers \ {0} : \E i \in DOMAIN children[parent[w]] :
       \A j \in DOMAIN children[parent[w]] :
         children[parent[w]][j] = w <=> j = i

ASSUME TreeAssumption == IsTree(Parent, Children)

VARIABLES
  mpc,            \* what the main thread is doing
  next,           \* the worker its loop over mWorkers has reached
  mItems,         \* mItems.size(); items are appended and never removed
  mQuery,         \* the active Query object, or NoQuery
  mQueue,         \* the ItemQueue object of the last commit, 0 if null
  mJob,           \* the job the workers load, under mJobMutex
  mRunning,
  taken,          \* the counters of the ItemQueue objects created so far
  wakeup,         \* the callback was called and the event loop not yet woken
  starts, stops,  \* counters behind MaxStarts and MaxStops
  faults,         \* the counter behind MaxFaults
  wpc,            \* what each worker thread is doing
  events,         \* the events posted to each worker
  job,            \* each worker's copy of the job
  out,            \* each worker's write buffer
  merged,         \* mergeState: the positions of the merged children
  child,          \* the merge loop's variable
  done,           \* the worker's flag `published'
  published, seen \* each worker's Tx: last committed, last loaded by reader

mainVars == <<mpc, next, mItems, mQuery, mQueue, mJob, mRunning, starts,
              stops>>
localVars == <<job, out, merged, child, done>>
vars == <<mainVars, taken, wakeup, faults, wpc, events, localVars,
          published, seen>>

(* A Query object: `id' is its identity, what comparing pointers compares. *)
Query == [id : 1..MaxQueries, text : Texts]

(* The items of a Results are counted, so that an item taken twice or      *)
(* merged twice shows; their order is left out.                            *)
Results == [itemsTick : 0..MaxItems, queryTick : 0..MaxQueries,
            query : Query \union {NoQuery}, items : [Items -> Nat]]

NoItems == [i \in Items |-> 0]
NoResults ==
  [itemsTick |-> 0, queryTick |-> 0, query |-> NoQuery, items |-> NoItems]
NoJob == [items |-> 0, query |-> NoQuery, queue |-> 0, queryTick |-> 0]

NewerThan(a, b) == a.itemsTick > b.itemsTick \/ a.queryTick > b.queryTick
SameTick(a, b) == a.itemsTick = b.itemsTick /\ a.queryTick = b.queryTick

Minimum(a, b) == IF a < b THEN a ELSE b

(* mWorkers is empty: before start() and after stop(). *)
NoWorkers == \A w \in Workers : wpc[w] = "none"

Init ==
  /\ mpc = "idle" /\ next = 0
  /\ mItems = 0 /\ mQuery = NoQuery /\ mQueue = 0 /\ mJob = NoJob
  /\ mRunning = FALSE
  /\ taken = <<>>
  /\ wakeup = FALSE
  /\ starts = 0 /\ stops = 0 /\ faults = 0
  /\ wpc = [w \in Workers |-> "none"]
  /\ events = [w \in Workers |-> {}]
  /\ job = [w \in Workers |-> NoJob]
  /\ out = [w \in Workers |-> NoResults]
  /\ merged = [w \in Workers |-> {}]
  /\ child = [w \in Workers |-> 1]
  /\ done = [w \in Workers |-> FALSE]
  /\ published = [w \in Workers |-> NoResults]
  /\ seen = [w \in Workers |-> NoResults]

-----------------------------------------------------------------------------
(* Mistakes the properties below exclude; none of them is part of Next.    *)

(* The timestamp counts queries, and clearing the query is not counted. *)
CommitJob_ClearNotCounted(q) ==
  LET queryChanged == mJob.query # q
      itemsChanged == mJob.items # mItems
      queueChanged == queryChanged \/ (itemsChanged /\ q # NoQuery)
      queue == IF ~queueChanged THEN mQueue
               ELSE IF q # NoQuery THEN Len(taken) + 1 ELSE 0
  IN /\ queryChanged \/ itemsChanged
     /\ mQueue' = queue
     /\ taken' = IF queue > Len(taken) THEN Append(taken, 0) ELSE taken
     /\ mJob' = [items |-> mItems, query |-> q, queue |-> queue,
                 queryTick |-> IF queryChanged /\ q # NoQuery
                               THEN mJob.queryTick + 1 ELSE mJob.queryTick]
     /\ mpc' = IF NoWorkers THEN "idle" ELSE "post"
     /\ next' = 0

(* The loop over the workers leaves its index behind the last of them. *)
PostNext_NoReset(e, then) ==
  /\ events' = [events EXCEPT ![next] = @ \union {e}]
  /\ next' = next + 1
  /\ mpc' = IF next + 1 = NumWorkers THEN then ELSE mpc

(* processing() compares the query only. *)
Processing_QueryOnly ==
  /\ mQuery # NoQuery
  /\ ~NoWorkers
  /\ mQuery # seen[0].query

-----------------------------------------------------------------------------
(* The main thread *)

PushItem ==
  /\ mpc = "idle"
  /\ mItems < MaxItems
  /\ mItems' = mItems + 1
  /\ UNCHANGED <<mpc, next, mQuery, mQueue, mJob, mRunning, starts, stops,
                 taken,
                 wakeup, faults, wpc, events, localVars, published, seen>>

(* commit() with the active query q, up to the loop that wakes the workers *)
(* up.  Only the assignment to mJob is visible to them, under its mutex.   *)
CommitJob(q) ==
  LET queryChanged == mJob.query # q
      itemsChanged == mJob.items # mItems
      queueChanged == queryChanged \/ (itemsChanged /\ q # NoQuery)
      queue == IF ~queueChanged THEN mQueue
               ELSE IF q # NoQuery THEN Len(taken) + 1 ELSE 0
  IN /\ queryChanged \/ itemsChanged
     /\ mQueue' = queue
     /\ taken' = IF queue > Len(taken) THEN Append(taken, 0) ELSE taken
     /\ mJob' = [items |-> mItems, query |-> q, queue |-> queue,
                 queryTick |-> IF queryChanged THEN mJob.queryTick + 1
                                               ELSE mJob.queryTick]
     /\ mpc' = IF NoWorkers THEN "idle" ELSE "post"
     /\ next' = 0

Commit ==
  /\ mpc = "idle"
  /\ CommitJob(mQuery)
  /\ UNCHANGED <<mItems, mQuery, mRunning, starts, stops, wakeup, faults, wpc,
                 events, localVars, published, seen>>

(* setQuery() with a text that is not blank: a query equal to the active   *)
(* one is dropped, a new one becomes a new object.                         *)
SetQuery(text) ==
  /\ mpc = "idle"
  /\ mJob.queryTick < MaxQueries
  /\ mQuery # NoQuery => mQuery.text # text
  /\ mQuery' = [id |-> mJob.queryTick + 1, text |-> text]
  /\ CommitJob(mQuery')
  /\ UNCHANGED <<mItems, mRunning, starts, stops, wakeup, faults, wpc,
                 events, localVars, published, seen>>

(* setQuery() with a blank text. *)
ClearQuery ==
  /\ mpc = "idle"
  /\ mJob.queryTick < MaxQueries
  /\ mQuery # NoQuery
  /\ mQuery' = NoQuery
  /\ CommitJob(NoQuery)
  /\ UNCHANGED <<mItems, mRunning, starts, stops, wakeup, faults, wpc,
                 events, localVars, published, seen>>

(* One step of a loop over mWorkers that posts the event e. *)
PostNext(e, then) ==
  /\ events' = [events EXCEPT ![next] = @ \union {e}]
  /\ next' = IF next + 1 = NumWorkers THEN 0 ELSE next + 1
  /\ mpc' = IF next + 1 = NumWorkers THEN then ELSE mpc

PostJob ==
  /\ mpc = "post"
  /\ PostNext("kJob", "idle")
  /\ UNCHANGED <<mItems, mQuery, mQueue, mJob, mRunning, starts, stops, taken,
                 wakeup, faults, wpc, localVars, published, seen>>

(* start() creates the workers, then their threads one after the other;    *)
(* none of them can do anything before the next commit.  If a thread       *)
(* cannot be created, start() throws with mRunning set and the threads     *)
(* before that one running.                                                *)
Start(created) ==
  /\ mpc = "idle"
  /\ ~mRunning
  /\ starts < MaxStarts
  /\ created < NumWorkers => faults < MaxFaults
  /\ mRunning' = TRUE
  /\ starts' = starts + 1
  /\ faults' = IF created < NumWorkers THEN faults + 1 ELSE faults
  /\ wpc' = [w \in Workers |-> IF w < created THEN "wait" ELSE "unstarted"]
  /\ UNCHANGED <<mpc, next, mItems, mQuery, mQueue, mJob, stops, taken, wakeup,
                 events, localVars, published, seen>>

Stop ==
  /\ mpc = "idle"
  /\ mRunning
  /\ stops < MaxStops
  /\ stops' = stops + 1
  /\ mRunning' = FALSE
  /\ mpc' = "stop"
  /\ next' = 0
  /\ UNCHANGED <<mItems, mQuery, mQueue, mJob, starts, taken, wakeup, faults,
                 wpc, events, localVars, published, seen>>

PostStop ==
  /\ mpc = "stop"
  /\ PostNext("kStop", "join")
  /\ UNCHANGED <<mItems, mQuery, mQueue, mJob, mRunning, starts, stops, taken,
                 wakeup, faults, wpc, localVars, published, seen>>

(* All threads joined: mWorkers.clear() destroys the Worker objects. *)
JoinWorkers ==
  /\ mpc = "join"
  /\ \A w \in Workers : wpc[w] \in {"stopped", "dead", "unstarted"}
  /\ mpc' = "idle"
  /\ wpc' = [w \in Workers |-> "none"]
  /\ events' = [w \in Workers |-> {}]
  /\ published' = [w \in Workers |-> NoResults]
  /\ seen' = [w \in Workers |-> NoResults]
  /\ UNCHANGED <<next, mItems, mQuery, mQueue, mJob, mRunning, starts, stops,
                 taken,
                 wakeup, faults, localVars>>

(* The front end's event loop, woken up, first takes the notification... *)
ConsumeWakeup ==
  /\ mpc = "idle"
  /\ wakeup
  /\ wakeup' = FALSE
  /\ mpc' = "load"
  /\ UNCHANGED <<next, mItems, mQuery, mQueue, mJob, mRunning, starts, stops,
                 taken,
                 faults, wpc, events, localVars, published, seen>>

(* ...and then calls loadResults(). *)
LoadResults ==
  /\ mpc = "load"
  /\ mpc' = "idle"
  /\ seen' = IF NoWorkers THEN seen ELSE [seen EXCEPT ![0] = published[0]]
  /\ UNCHANGED <<next, mItems, mQuery, mQueue, mJob, mRunning, starts, stops,
                 taken,
                 wakeup, faults, wpc, events, localVars, published>>

-----------------------------------------------------------------------------
(* A worker thread *)

Goto(w, place) == wpc' = [wpc EXCEPT ![w] = place]

(* The thread ends; what run() kept on its stack is gone. *)
Exit(w, place) ==
  /\ Goto(w, place)
  /\ job' = [job EXCEPT ![w] = NoJob]
  /\ out' = [out EXCEPT ![w] = NoResults]
  /\ merged' = [merged EXCEPT ![w] = {}]
  /\ child' = [child EXCEPT ![w] = 1]
  /\ done' = [done EXCEPT ![w] = FALSE]

-----------------------------------------------------------------------------
(* Mistakes the properties below exclude; none of them is part of Next.    *)

(* kJob goes before the kStop that came with it. *)
Wait_JobFirst(w) ==
  /\ wpc[w] = "wait"
  /\ events[w] # {}
  /\ events' = [events EXCEPT ![w] = {}]
  /\ \/ events[w] = {"kStop"} /\ Exit(w, "stopped")
     \/ /\ events[w] # {"kStop"}
        /\ Goto(w, IF "kJob" \in events[w] THEN "load" ELSE "merge")
        /\ UNCHANGED localVars
  /\ UNCHANGED <<mainVars, taken, wakeup, faults, published, seen>>

(* A new job keeps the items matched for the one it replaces. *)
LoadNewJob_KeepItems(w) ==
  /\ wpc[w] \in {"load", "reload"}
  /\ job[w].items < mJob.items \/ job[w].queryTick < mJob.queryTick
  /\ job' = [job EXCEPT ![w] = mJob]
  /\ done' = [done EXCEPT ![w] = FALSE]
  /\ merged' = [merged EXCEPT ![w] = {}]
  /\ out' = [out EXCEPT ![w] =
       [itemsTick |-> mJob.items, queryTick |-> mJob.queryTick,
        query |-> mJob.query, items |-> out[w].items]]
  /\ Goto(w, IF mJob.query = NoQuery THEN "publish" ELSE "take")
  /\ UNCHANGED <<mainVars, taken, wakeup, faults, events, child, published,
                 seen>>

(* Without a query the result is stamped as one of no items. *)
LoadNewJob_NoItemsTick(w) ==
  /\ wpc[w] \in {"load", "reload"}
  /\ job[w].items < mJob.items \/ job[w].queryTick < mJob.queryTick
  /\ job' = [job EXCEPT ![w] = mJob]
  /\ done' = [done EXCEPT ![w] = FALSE]
  /\ merged' = [merged EXCEPT ![w] = {}]
  /\ out' = [out EXCEPT ![w] =
       [itemsTick |-> IF mJob.query = NoQuery THEN 0 ELSE mJob.items,
        queryTick |-> mJob.queryTick, query |-> mJob.query, items |-> NoItems]]
  /\ Goto(w, IF mJob.query = NoQuery THEN "publish" ELSE "take")
  /\ UNCHANGED <<mainVars, taken, wakeup, faults, events, child, published,
                 seen>>

(* A job that is not new sends the worker back to sleep, although kMerge   *)
(* may have come with kJob.                                                *)
LoadSameJob_Sleep(w) ==
  /\ wpc[w] \in {"load", "reload"}
  /\ ~(job[w].items < mJob.items \/ job[w].queryTick < mJob.queryTick)
  /\ job' = [job EXCEPT ![w] = mJob]
  /\ Goto(w, IF wpc[w] = "load" THEN "wait" ELSE "take")
  /\ UNCHANGED <<mainVars, taken, wakeup, faults, events, out, merged, child,
                 done, published, seen>>

(* The results of an older job are merged like those of the same job. *)
MergeChild_NoSameTick(w) ==
  /\ wpc[w] = "merge"
  /\ ~done[w]
  /\ \E i \in child[w]..Len(Children[w]) \ merged[w] :
       LET cres == published[Children[w][i]]
       IN /\ \A j \in child[w]..Len(Children[w]) \ merged[w] : i <= j
          /\ seen' = [seen EXCEPT ![Children[w][i]] = cres]
          /\ IF NewerThan(cres, out[w])
             THEN /\ Goto(w, "wait")
                  /\ child' = [child EXCEPT ![w] = 1]
                  /\ UNCHANGED <<out, merged>>
             ELSE /\ child' = [child EXCEPT ![w] = i + 1]
                  /\ merged' = [merged EXCEPT ![w] = @ \union {i}]
                  /\ out' = [out EXCEPT ![w].items =
                       [k \in Items |-> @[k] + cres.items[k]]]
                  /\ UNCHANGED wpc
  /\ UNCHANGED <<mainVars, taken, wakeup, faults, events, job, done,
                 published>>

(* A kMerge that comes with kJob goes first, and kJob is forgotten. *)
Wait_MergeFirst(w) ==
  /\ wpc[w] = "wait"
  /\ events[w] # {}
  /\ events' = [events EXCEPT ![w] = {}]
  /\ \/ "kStop" \in events[w] /\ Exit(w, "stopped")
     \/ /\ "kStop" \notin events[w]
        /\ Goto(w, IF "kMerge" \in events[w] THEN "merge" ELSE "load")
        /\ UNCHANGED localVars
  /\ UNCHANGED <<mainVars, taken, wakeup, faults, published, seen>>

(* events.wait() returned: kStop goes first, then kJob; a kMerge, or a job *)
(* that is not new, leads to the merge loop.                               *)
Wait(w) ==
  /\ wpc[w] = "wait"
  /\ events[w] # {}
  /\ events' = [events EXCEPT ![w] = {}]
  /\ \/ "kStop" \in events[w] /\ Exit(w, "stopped")
     \/ /\ "kStop" \notin events[w]
        /\ Goto(w, IF "kJob" \in events[w] THEN "load" ELSE "merge")
        /\ UNCHANGED localVars
  /\ UNCHANGED <<mainVars, taken, wakeup, faults, published, seen>>

(* events.get() between two chunks: kMerge is dropped, as the merge loop   *)
(* that follows looks at every child anyway.                               *)
Poll(w) ==
  /\ wpc[w] = "poll"
  /\ events' = [events EXCEPT ![w] = {}]
  /\ \/ "kStop" \in events[w] /\ Exit(w, "stopped")
     \/ /\ "kStop" \notin events[w]
        /\ Goto(w, IF "kJob" \in events[w] THEN "reload" ELSE "take")
        /\ UNCHANGED localVars
  /\ UNCHANGED <<mainVars, taken, wakeup, faults, published, seen>>

(* loadJob(): lastItemsTick and lastQueryTick are the size and the tick of *)
(* the copy loaded before this one.                                        *)
NewJob(w) == job[w].items < mJob.items \/ job[w].queryTick < mJob.queryTick

(* The label `match': start over with an empty result.  Without a query    *)
(* the empty result is published as it is.                                 *)
LoadNewJob(w) ==
  /\ wpc[w] \in {"load", "reload"}
  /\ NewJob(w)
  /\ job' = [job EXCEPT ![w] = mJob]
  /\ done' = [done EXCEPT ![w] = FALSE]
  /\ merged' = [merged EXCEPT ![w] = {}]
  /\ out' = [out EXCEPT ![w] =
       [itemsTick |-> mJob.items, queryTick |-> mJob.queryTick,
        query |-> mJob.query, items |-> NoItems]]
  /\ Goto(w, IF mJob.query = NoQuery THEN "publish" ELSE "take")
  /\ UNCHANGED <<mainVars, taken, wakeup, faults, events, child, published,
                 seen>>

LoadSameJob(w) ==
  /\ wpc[w] \in {"load", "reload"}
  /\ ~NewJob(w)
  /\ job' = [job EXCEPT ![w] = mJob]
  /\ Goto(w, IF wpc[w] = "load" THEN "merge" ELSE "take")
  /\ UNCHANGED <<mainVars, taken, wakeup, faults, events, out, merged, child,
                 done, published, seen>>

(* Take a chunk of the queue and match it, or, when the counter is past    *)
(* the end, go on to the merge loop.                                       *)
Take(w) ==
  LET q == job[w].queue
      start == Minimum(taken[q], job[w].items)
      end == Minimum(start + ChunkSize, job[w].items)
      hits == {i \in Items : start <= i /\ i < end
                               /\ i \in Matches[job[w].query.text]}
  IN /\ wpc[w] = "take"
     /\ taken' = [taken EXCEPT ![q] = @ + ChunkSize]
     /\ IF start >= end
        THEN Goto(w, "merge") /\ UNCHANGED out
        ELSE /\ Goto(w, "poll")
             /\ out' = [out EXCEPT ![w].items =
                  [i \in Items |-> @[i] + (IF i \in hits THEN 1 ELSE 0)]]
     /\ UNCHANGED <<mainVars, wakeup, faults, events, job, merged, child, done,
                    published, seen>>

(* The children the merge loop has still to look at, and the next of them. *)
Missing(w) == {i \in child[w]..Len(Children[w]) : i \notin merged[w]}

IsNext(w, i) == i \in Missing(w) /\ \A j \in Missing(w) : i <= j

AllMerged(w) == merged[w] = DOMAIN Children[w]

(* One turn of the merge loop: load what the child published and compare   *)
(* the timestamps.  A newer result means a job this worker has not loaded, *)
(* an older one is skipped, and one of the same job is merged.             *)
MergeChild(w) ==
  /\ wpc[w] = "merge"
  /\ ~done[w]
  /\ \E i \in DOMAIN Children[w] :
       LET c == Children[w][i]
           cres == published[c]
       IN /\ IsNext(w, i)
          /\ seen' = [seen EXCEPT ![c] = cres]
          /\ \/ /\ NewerThan(cres, out[w])
                /\ Goto(w, "wait")
                /\ child' = [child EXCEPT ![w] = 1]
                /\ UNCHANGED <<out, merged>>
             \/ /\ ~NewerThan(cres, out[w])
                /\ ~SameTick(cres, out[w])
                /\ child' = [child EXCEPT ![w] = i + 1]
                /\ UNCHANGED <<wpc, out, merged>>
             \/ /\ SameTick(cres, out[w])
                /\ child' = [child EXCEPT ![w] = i + 1]
                /\ merged' = [merged EXCEPT ![w] = @ \union {i}]
                /\ out' = [out EXCEPT ![w].items =
                     [k \in Items |-> @[k] + cres.items[k]]]
                /\ UNCHANGED wpc
  /\ UNCHANGED <<mainVars, taken, wakeup, faults, events, job, done,
                 published>>

(* The same turn after this job's result was published without merging     *)
(* (there was no query): the write buffer is then some older result, and   *)
(* the comparison can have any outcome.                                    *)
MergeGarbage(w) ==
  /\ wpc[w] = "merge"
  /\ done[w]
  /\ \E i \in DOMAIN Children[w] :
       LET c == Children[w][i]
       IN /\ IsNext(w, i)
          /\ seen' = [seen EXCEPT ![c] = published[c]]
          /\ \/ /\ Goto(w, "wait")
                /\ child' = [child EXCEPT ![w] = 1]
                /\ UNCHANGED merged
             \/ /\ child' = [child EXCEPT ![w] = i + 1]
                /\ \/ merged' = [merged EXCEPT ![w] = @ \union {i}]
                   \/ UNCHANGED merged
                /\ UNCHANGED wpc
  /\ UNCHANGED <<mainVars, taken, wakeup, faults, events, job, out, done,
                 published>>

(* After the loop: publish once everything is merged, and only once. *)
EndMerge(w) ==
  /\ wpc[w] = "merge"
  /\ Missing(w) = {}
  /\ Goto(w, IF AllMerged(w) /\ ~done[w] THEN "publish" ELSE "wait")
  /\ child' = [child EXCEPT ![w] = 1]
  /\ UNCHANGED <<mainVars, taken, wakeup, faults, events, job, out, merged,
                 done,
                 published, seen>>

(* output.commit(): the write buffer becomes one whose content is unknown. *)
Publish(w) ==
  /\ wpc[w] = "publish"
  /\ done' = [done EXCEPT ![w] = TRUE]
  /\ published' = [published EXCEPT ![w] = out[w]]
  /\ out' = [out EXCEPT ![w] = NoResults]
  /\ Goto(w, "notify")
  /\ UNCHANGED <<mainVars, taken, wakeup, faults, events, job, merged, child,
                 seen>>

(* Tell whoever is responsible for the results: the parent, or the event   *)
(* loop of the front end.                                                  *)
Notify(w) ==
  /\ wpc[w] = "notify"
  /\ Goto(w, "wait")
  /\ IF w = 0
     THEN wakeup' = TRUE /\ UNCHANGED events
     ELSE /\ events' = [events EXCEPT ![Parent[w]] = @ \union {"kMerge"}]
          /\ UNCHANGED wakeup
  /\ UNCHANGED <<mainVars, taken, faults, localVars, published, seen>>

(* An exception where memory is allocated: the chunk that was taken, or    *)
(* the merge, is lost.  run() calls the callback and the thread ends.      *)
Abort(w) ==
  /\ wpc[w] \in {"take", "poll", "merge"}
  /\ faults < MaxFaults
  /\ faults' = faults + 1
  /\ Exit(w, "dead")
  /\ wakeup' = TRUE
  /\ UNCHANGED <<mainVars, taken, events, published, seen>>

-----------------------------------------------------------------------------

WorkerStep(w) ==
  \/ Wait(w) \/ Poll(w)
  \/ LoadNewJob(w) \/ LoadSameJob(w)
  \/ Take(w)
  \/ MergeChild(w) \/ MergeGarbage(w) \/ EndMerge(w)
  \/ Publish(w) \/ Notify(w)

(* What the main thread and the front end's event loop have to do. *)
MainStep ==
  PostJob \/ PostStop \/ JoinWorkers \/ ConsumeWakeup \/ LoadResults

(* What a user may do. *)
Request ==
  \/ PushItem \/ Commit \/ ClearQuery \/ Stop
  \/ \E t \in Texts : SetQuery(t)
  \/ \E n \in 0..NumWorkers : Start(n)

Next ==
  \/ MainStep
  \/ Request
  \/ \E w \in Workers : WorkerStep(w) \/ Abort(w)

SafeSpec == Init /\ [][Next]_vars

(* Threads that can run do run, and the event loop looks at the wake-up    *)
(* descriptor again and again.  Nothing is assumed of the user.            *)
Fairness ==
  /\ WF_vars(MainStep)
  /\ \A w \in Workers : WF_vars(WorkerStep(w))

Spec == SafeSpec /\ Fairness

-----------------------------------------------------------------------------
(* What the front end asks of the results it has loaded *)

(* getResults() is not null: there is a master worker. *)
HasMaster == ~NoWorkers

(* processing(), which a front end shows as `still working'. *)
Processing ==
  /\ mQuery # NoQuery
  /\ HasMaster
  /\ mItems # seen[0].itemsTick \/ mQuery # seen[0].query

-----------------------------------------------------------------------------
(* Properties *)

WorkerPlaces ==
  {"none", "unstarted", "wait", "poll", "load", "reload", "take", "merge",
   "publish", "notify", "stopped", "dead"}

Job == [items : 0..MaxItems, query : Query \union {NoQuery},
        queue : 0..Len(taken), queryTick : 0..MaxQueries]

TypeOK ==
  /\ mpc \in {"idle", "post", "stop", "join", "load"}
  /\ next \in Workers
  /\ mItems \in 0..MaxItems
  /\ mQuery \in Query \union {NoQuery}
  /\ mQueue \in 0..Len(taken)
  /\ mJob \in Job
  /\ mRunning \in BOOLEAN
  /\ taken \in Seq(Nat)
  /\ wakeup \in BOOLEAN
  /\ starts \in 0..MaxStarts
  /\ stops \in 0..MaxStops
  /\ faults \in 0..MaxFaults
  /\ wpc \in [Workers -> WorkerPlaces]
  /\ events \in [Workers -> SUBSET Event]
  /\ job \in [Workers -> Job]
  /\ out \in [Workers -> Results]
  /\ merged \in [Workers -> SUBSET Nat]
  /\ child \in [Workers -> Nat]
  /\ \A w \in Workers : merged[w] \subseteq DOMAIN Children[w]
  /\ \A w \in Workers : child[w] \in 1..Len(Children[w]) + 1
  /\ done \in [Workers -> BOOLEAN]
  /\ published \in [Workers -> Results]
  /\ seen \in [Workers -> Results]

(* Result r holds every item of its snapshot that matches its query, each  *)
(* of them once, and no other item.                                        *)
Complete(r) ==
  \A i \in Items :
    r.items[i] =
      IF r.query # NoQuery /\ i < r.itemsTick /\ i \in Matches[r.query.text]
      THEN 1 ELSE 0

(* Whatever the master publishes is complete, although the items were      *)
(* shared out chunk by chunk among workers that load the job at different  *)
(* times, abandon it half way for a newer one, and merge each other's      *)
(* results by comparing timestamps: no item is lost with an abandoned      *)
(* chunk, none is matched by two workers, none is merged twice.            *)
ResultsComplete == Complete(published[0]) /\ Complete(seen[0])

(* The results a worker publishes carry the query of the timestamps they   *)
(* carry, so getResult() and query() speak of the same query as the items: *)
(* results of one tick never travel with the Query object of another.      *)
SnapshotConsistent ==
  \A w \in Workers :
    \A r \in {published[w], seen[w]} :
      /\ r.query # NoQuery => r.query.id = r.queryTick
      /\ r.queryTick = mJob.queryTick => r.query = mJob.query

(* What the front end has loaded never goes back to an older snapshot      *)
(* while the pool runs, and neither does what a parent reads of a child.   *)
NeverOlder ==
  [][\A w \in Workers : wpc'[w] # "none" =>
       /\ ~NewerThan(seen[w], seen'[w])
       /\ ~NewerThan(published[w], published'[w])]_vars

(* With a query, and not processing: the list on the screen is the         *)
(* complete answer to the active query over all the items pushed.          *)
NotProcessingMeansAnswer ==
  mQuery # NoQuery /\ HasMaster /\ ~Processing =>
    /\ seen[0].query = mQuery
    /\ seen[0].itemsTick = mItems
    /\ Complete(seen[0])

(* When the main thread has posted its events and every worker has gone    *)
(* back to sleep without any pending, the job the workers know is answered *)
(* and the event loop was told or has the answer: no result is left in a   *)
(* worker that nobody will merge.                                          *)
Asleep == \A w \in Workers : wpc[w] = "wait" /\ events[w] = {}

QuiescentMeansAnswered ==
  mpc \in {"idle", "load"} /\ Asleep /\ (\E w \in Workers : job[w] # NoJob) =>
    /\ \A w \in Workers : job[w] = mJob
    /\ published[0].itemsTick = mJob.items
    /\ published[0].query = mJob.query
    /\ seen[0] = published[0] \/ wakeup \/ mpc = "load"

(* A job committed to a running pool, or the one that has replaced it      *)
(* since, is in the end the one on the screen: however jobs overtake each  *)
(* other, kJob comes twice for one job or together with kMerge, and        *)
(* results without a query are left in the buffers; unless the pool is     *)
(* stopped or a thread was lost.  Who changes the query faster than it is  *)
(* answered is kept waiting: MaxItems and MaxQueries make the user pause.  *)
JobIsAnswered ==
  mpc = "post" ~>
    \/ seen[0].itemsTick = mJob.items /\ seen[0].queryTick = mJob.queryTick
    \/ ~mRunning
    \/ faults > 0

(* stop() always returns: a worker that waits, works, was never created or *)
(* died of an exception does not keep it from joining.                     *)
StopReturns == (mpc = "stop") ~> (mpc = "idle" /\ NoWorkers)

=============================================================================
