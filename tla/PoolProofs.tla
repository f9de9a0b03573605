----------------------------- MODULE PoolProofs -----------------------------
(***************************************************************************)
(* Proofs about module Pool, for any number of workers, any merge tree,    *)
(* and any number of items, queries, restarts and exceptions: its type     *)
(* invariant; that the results the workers hand on carry the query of      *)
(* their timestamps, and never go back; that those it publishes are        *)
(* complete, no item lost, taken twice or merged twice; that nobody waits  *)
(* for ever for an answer; and that Pool implements Engine, which the      *)
(* front ends are built on.  At the end, that the tables of the program    *)
(* are such a merge tree.                                                  *)
(***************************************************************************)
EXTENDS PoolEngine, MergePath, FiniteSetTheorems, SequenceTheorems, WellFoundedInduction, TLAPS

(* A query and a tick belong together: the query that was the active one   *)
(* at that tick was created with it, and the ticks only grow.              *)
Stamped(query, tick) ==
  /\ tick <= mJob.queryTick
  /\ query # NoQuery => query.id = tick
  /\ tick = mJob.queryTick => query = mJob.query

(* A job with a query has a queue to take its items from. *)
HasQueue(j) == j.query # NoQuery => j.queue \in 1..Len(taken)

(* The job of the last commit is what the main thread works with. *)
MainInv ==
  /\ mJob.queue = mQueue
  /\ mJob.query = mQuery
  /\ mJob.items <= mItems
  /\ Stamped(mJob.query, mJob.queryTick)
  /\ HasQueue(mJob)

(* What a worker has copied is that job or an earlier one, and it matches  *)
(* items only when there is a query.                                       *)
CopyInv(w) ==
  /\ job[w].items <= mJob.items
  /\ Stamped(job[w].query, job[w].queryTick)
  /\ HasQueue(job[w])
  /\ wpc[w] \in {"take", "poll", "reload"} => job[w].query # NoQuery

(* So are the stamps on all the results there are. *)
ResultsInv(w) ==
  \A r \in {out[w], published[w], seen[w]} : Stamped(r.query, r.queryTick)

Inv ==
  /\ TypeOK
  /\ MainInv
  /\ \A w \in Workers : CopyInv(w)
  /\ \A w \in Workers : ResultsInv(w)

-----------------------------------------------------------------------------
(* Facts about the values                                                  *)

LEMMA WorkersFacts ==
  /\ 0 \in Workers
  /\ \A w \in Workers : w \in Nat /\ w + 1 \in Nat
  /\ \A w \in Workers : w + 1 # NumWorkers => w + 1 \in Workers
BY PoolAssumption DEF Workers

LEMMA QueryFacts ==
  /\ NoQuery \notin Query
  /\ \A q \in Query : q.id \in 1..MaxQueries /\ q.text \in Texts
<1>1. Query \subseteq [id : Nat, text : Texts]
  BY DEF Query
<1>2. \A q \in Query : q.id \in 1..MaxQueries /\ q.text \in Texts
  BY DEF Query
<1> QED
  BY <1>1, <1>2, PoolAssumption

LEMMA NoValues ==
  /\ NoJob \in Job
  /\ NoResults \in Results
  /\ NoResults.query = NoQuery /\ NoResults.queryTick = 0
  /\ NoJob.query = NoQuery /\ NoJob.queryTick = 0 /\ NoJob.items = 0
<1>1. NoItems \in [Items -> Nat]
  BY DEF NoItems
<1>2. 0 \in 0..MaxItems /\ 0 \in 0..MaxQueries
  BY PoolAssumption
<1>3. NoResults \in Results
  BY <1>1, <1>2 DEF NoResults, Results
<1> QED
  BY <1>2, <1>3 DEF NoResults, NoJob, Job

(* While no query was ever set there is none. *)
LEMMA TickZero ==
  ASSUME Inv
  PROVE  Stamped(NoQuery, 0)
<1>1. mJob \in Job /\ Stamped(mJob.query, mJob.queryTick)
  BY DEF Inv, TypeOK, MainInv
<1>2. mJob.query # NoQuery => mJob.queryTick # 0
  BY <1>1, QueryFacts DEF Job, Stamped
<1>3. mJob.queryTick \in Nat
  BY <1>1, PoolAssumption DEF Job
<1> QED
  BY <1>2, <1>3 DEF Stamped

-----------------------------------------------------------------------------
(* The initial states                                                      *)

LEMMA InitInv == Init => Inv
<1> SUFFICES ASSUME Init PROVE Inv
  OBVIOUS
<1>1. TypeOK
  <2>1. mRunning \in BOOLEAN /\ wakeup \in BOOLEAN
    BY Zenon DEF Init
  <2>2. done \in [Workers -> BOOLEAN]
    BY DEF Init
  <2>3. taken \in Seq(Nat) /\ Len(taken) = 0
    BY EmptySeq DEF Init
  <2>4. mpc \in {"idle", "post", "stop", "join", "load"} /\ next \in Workers
    BY WorkersFacts DEF Init
  <2>5. mItems \in 0..MaxItems /\ mQuery \in Query \union {NoQuery}
        /\ mQueue \in 0..Len(taken) /\ mJob \in Job
    BY <2>3, NoValues, PoolAssumption DEF Init
  <2>6. starts \in 0..MaxStarts /\ stops \in 0..MaxStops
        /\ faults \in 0..MaxFaults
    BY PoolAssumption DEF Init
  <2>7. wpc \in [Workers -> WorkerPlaces]
        /\ events \in [Workers -> SUBSET Event]
    BY DEF Init, WorkerPlaces
  <2>8. job \in [Workers -> Job] /\ out \in [Workers -> Results]
        /\ published \in [Workers -> Results] /\ seen \in [Workers -> Results]
    BY NoValues DEF Init
  <2>9. /\ merged \in [Workers -> SUBSET Nat]
        /\ child \in [Workers -> Nat]
        /\ \A w \in Workers : merged[w] \subseteq DOMAIN Children[w]
    BY DEF Init
  <2>10. \A w \in Workers : child[w] \in 1..Len(Children[w]) + 1
    <3>1. \A w \in Workers : Len(Children[w]) \in Nat
      BY TreeAssumption, LenProperties DEF IsTree
    <3> QED
      BY <3>1 DEF Init
  <2> QED
    BY <2>1, <2>2, <2>3, <2>4, <2>5, <2>6, <2>7, <2>8, <2>9, <2>10 DEF TypeOK
<1>2. mJob.query = NoQuery /\ Stamped(NoQuery, 0)
  BY NoValues DEF Init, Stamped
<1>3. MainInv
  BY <1>2, NoValues DEF Init, MainInv, HasQueue, NoJob
<1>4. \A w \in Workers : CopyInv(w)
  BY <1>2, NoValues DEF Init, CopyInv, HasQueue
<1>5. \A w \in Workers : ResultsInv(w)
  BY <1>2, NoValues DEF Init, ResultsInv
<1> QED
  BY <1>1, <1>3, <1>4, <1>5 DEF Inv

-----------------------------------------------------------------------------
(* The type invariant, part by part                                        *)

ControlType ==
  /\ mpc \in {"idle", "post", "stop", "join", "load"}
  /\ next \in Workers
  /\ starts \in 0..MaxStarts
  /\ stops \in 0..MaxStops
  /\ faults \in 0..MaxFaults
  /\ wpc \in [Workers -> WorkerPlaces]
  /\ events \in [Workers -> SUBSET Event]

FlagType ==
  /\ mRunning \in BOOLEAN
  /\ wakeup \in BOOLEAN
  /\ done \in [Workers -> BOOLEAN]

JobType ==
  /\ mItems \in 0..MaxItems
  /\ mQuery \in Query \union {NoQuery}
  /\ mQueue \in 0..Len(taken)
  /\ mJob \in Job
  /\ taken \in Seq(Nat)
  /\ job \in [Workers -> Job]

ResultType ==
  /\ out \in [Workers -> Results]
  /\ published \in [Workers -> Results]
  /\ seen \in [Workers -> Results]

MergeType ==
  /\ merged \in [Workers -> SUBSET Nat]
  /\ child \in [Workers -> Nat]
  /\ \A w \in Workers : merged[w] \subseteq DOMAIN Children[w]
  /\ \A w \in Workers : child[w] \in 1..Len(Children[w]) + 1

LEMMA TypeParts ==
  TypeOK <=> ControlType /\ FlagType /\ JobType /\ ResultType /\ MergeType
BY DEF TypeOK, ControlType, FlagType, JobType, ResultType, MergeType

LEMMA ControlTypeKept ==
  ASSUME ControlType, Next
  PROVE  ControlType'
<1> USE PoolAssumption, WorkersFacts
    DEF ControlType, mainVars, localVars, WorkerPlaces, Event
<1>1. CASE PushItem
  BY <1>1 DEF PushItem
<1>2. CASE Commit \/ ClearQuery \/ \E t \in Texts : SetQuery(t)
  BY <1>2 DEF Commit, ClearQuery, SetQuery, CommitJob
<1>3. CASE PostJob
  BY <1>3 DEF PostJob, PostNext
<1>4. ASSUME NEW n \in 0..NumWorkers, Start(n) PROVE ControlType'
  BY <1>4 DEF Start
<1>5. CASE Stop
  BY <1>5 DEF Stop
<1>6. CASE PostStop
  BY <1>6 DEF PostStop, PostNext
<1>7. CASE JoinWorkers
  BY <1>7 DEF JoinWorkers
<1>8. CASE ConsumeWakeup
  BY <1>8 DEF ConsumeWakeup
<1>9. CASE LoadResults
  BY <1>9 DEF LoadResults
<1>10. ASSUME NEW w \in Workers, Wait(w) \/ Poll(w) PROVE ControlType'
  BY <1>10 DEF Wait, Poll, Goto, Exit
<1>11. ASSUME NEW w \in Workers, LoadNewJob(w) \/ LoadSameJob(w)
       PROVE  ControlType'
  BY <1>11 DEF LoadNewJob, LoadSameJob, Goto
<1>12. ASSUME NEW w \in Workers, Take(w) PROVE ControlType'
  BY <1>12 DEF Take, Goto
<1>13. ASSUME NEW w \in Workers, MergeChild(w) PROVE ControlType'
  BY <1>13 DEF MergeChild, Goto
<1>14. ASSUME NEW w \in Workers, MergeGarbage(w) PROVE ControlType'
  BY <1>14 DEF MergeGarbage, Goto
<1>15. ASSUME NEW w \in Workers, EndMerge(w) PROVE ControlType'
  BY <1>15 DEF EndMerge, Goto
<1>16. ASSUME NEW w \in Workers, Publish(w) PROVE ControlType'
  BY <1>16 DEF Publish, Goto
<1>17. ASSUME NEW w \in Workers, Notify(w) PROVE ControlType'
  BY <1>17 DEF Notify, Goto
<1>18. ASSUME NEW w \in Workers, Abort(w) PROVE ControlType'
  BY <1>18 DEF Abort, Goto, Exit
<1> QED
  BY <1>1, <1>2, <1>3, <1>4, <1>5, <1>6, <1>7, <1>8, <1>9, <1>10, <1>11,
     <1>12, <1>13, <1>14, <1>15, <1>16, <1>17, <1>18
     DEF Next, MainStep, Request, WorkerStep

LEMMA FlagTypeKept ==
  ASSUME FlagType, Next
  PROVE  FlagType'
<1> USE DEF FlagType, mainVars, localVars
<1>1. CASE MainStep
  <2>1. done' \in [Workers -> BOOLEAN]
    BY <1>1 DEF MainStep, PostJob, PostStop, JoinWorkers, ConsumeWakeup,
                LoadResults
  <2>2. mRunning' = mRunning
    BY <1>1 DEF MainStep, PostJob, PostStop, JoinWorkers, ConsumeWakeup,
                LoadResults
  <2>3. wakeup' = wakeup \/ wakeup' = FALSE
    BY <1>1, Zenon DEF MainStep, PostJob, PostStop, JoinWorkers,
                       ConsumeWakeup, LoadResults
  <2> QED
    BY <2>1, <2>2, <2>3, Zenon
<1>2. CASE Request
  <2>1. done' = done /\ wakeup' = wakeup
    BY <1>2 DEF Request, PushItem, Commit, ClearQuery, SetQuery, Stop, Start
  <2>2. mRunning' \in {mRunning, TRUE, FALSE}
    BY <1>2, Zenon DEF Request, PushItem, Commit, ClearQuery, SetQuery, Stop,
                       Start
  <2> QED
    BY <2>1, <2>2, Zenon
<1>3. ASSUME NEW w \in Workers, WorkerStep(w) \/ Abort(w) PROVE FlagType'
  <2>1. mRunning' = mRunning
    BY <1>3 DEF WorkerStep, Wait, Poll, LoadNewJob, LoadSameJob, Take,
                MergeChild, MergeGarbage, EndMerge, Publish, Notify, Abort
  <2>2. wakeup' = wakeup \/ wakeup' = TRUE
    BY <1>3, Zenon DEF WorkerStep, Wait, Poll, LoadNewJob, LoadSameJob, Take,
                MergeChild, MergeGarbage, EndMerge, Publish, Notify, Abort
  <2>3. done' \in [Workers -> BOOLEAN]
    BY <1>3 DEF WorkerStep, Wait, Poll, LoadNewJob, LoadSameJob, Take,
                MergeChild, MergeGarbage, EndMerge, Publish, Notify, Abort,
                Exit
  <2> QED
    BY <2>1, <2>2, <2>3, Zenon
<1> QED
  BY <1>1, <1>2, <1>3 DEF Next

(* A worker looks at its children one after the other. *)
LEMMA ChildPositions ==
  \A w \in Workers : /\ Len(Children[w]) \in Nat
                     /\ DOMAIN Children[w] = 1..Len(Children[w])
BY TreeAssumption, LenProperties DEF IsTree

LEMMA MergePart ==
  ASSUME MergeType, NEW w \in Workers,
         NEW m \in SUBSET DOMAIN Children[w],
         NEW c \in 1..Len(Children[w]) + 1,
         merged' = merged \/ merged' = [merged EXCEPT ![w] = m],
         child' = child \/ child' = [child EXCEPT ![w] = c]
  PROVE  MergeType'
<1> USE ChildPositions DEF MergeType
<1>1. m \in SUBSET Nat /\ c \in Nat
  OBVIOUS
<1>2. /\ merged' \in [Workers -> SUBSET Nat]
      /\ \A v \in Workers : merged'[v] \subseteq DOMAIN Children[v]
  BY <1>1
<1>3. /\ child' \in [Workers -> Nat]
      /\ \A v \in Workers : child'[v] \in 1..Len(Children[v]) + 1
  BY <1>1
<1> QED
  BY <1>2, <1>3

LEMMA MergeTypeKept ==
  ASSUME MergeType, Next
  PROVE  MergeType'
<1> USE DEF mainVars, localVars
<1>1. CASE MainStep \/ Request
  BY <1>1 DEF MergeType, MainStep, PostJob, PostStop, JoinWorkers,
              ConsumeWakeup, LoadResults, Request, PushItem, Commit,
              ClearQuery, SetQuery, Stop, Start
<1>2. ASSUME NEW w \in Workers, WorkerStep(w) \/ Abort(w)
      PROVE  MergeType'
  <2>1. {} \in SUBSET DOMAIN Children[w] /\ 1 \in 1..Len(Children[w]) + 1
    BY ChildPositions
  <2>2. CASE Wait(w) \/ Poll(w) \/ Abort(w)
    <3>1. /\ merged' = merged \/ merged' = [merged EXCEPT ![w] = {}]
          /\ child' = child \/ child' = [child EXCEPT ![w] = 1]
      BY <2>2 DEF Wait, Poll, Abort, Exit
    <3> QED
      BY <2>1, <3>1, MergePart
  <2>3. CASE LoadNewJob(w) \/ LoadSameJob(w) \/ Take(w)
    <3>1. /\ merged' = merged \/ merged' = [merged EXCEPT ![w] = {}]
          /\ child' = child
      BY <2>3 DEF LoadNewJob, LoadSameJob, Take
    <3> QED
      BY <2>1, <3>1, MergePart
  <2>4. CASE MergeChild(w) \/ MergeGarbage(w)
    <3>1. PICK i \in DOMAIN Children[w] :
            /\ \/ merged' = merged
               \/ merged' = [merged EXCEPT ![w] = merged[w] \union {i}]
            /\ \/ child' = [child EXCEPT ![w] = 1]
               \/ child' = [child EXCEPT ![w] = i + 1]
      BY <2>4 DEF MergeChild, MergeGarbage
    <3>2. merged[w] \union {i} \in SUBSET DOMAIN Children[w]
      BY DEF MergeType
    <3>3. i + 1 \in 1..Len(Children[w]) + 1
      BY ChildPositions
    <3>4. CASE child' = [child EXCEPT ![w] = 1]
      BY <2>1, <3>1, <3>2, <3>4, MergePart
    <3>5. CASE child' = [child EXCEPT ![w] = i + 1]
      BY <3>1, <3>2, <3>3, <3>5, MergePart
    <3> QED
      BY <3>1, <3>4, <3>5
  <2>5. CASE EndMerge(w) \/ Publish(w) \/ Notify(w)
    <3>1. /\ merged' = merged
          /\ child' = child \/ child' = [child EXCEPT ![w] = 1]
      BY <2>5 DEF EndMerge, Publish, Notify
    <3> QED
      BY <2>1, <3>1, MergePart
  <2> QED
    BY <1>2, <2>2, <2>3, <2>4, <2>5 DEF WorkerStep
<1> QED
  BY <1>1, <1>2 DEF Next

(* The results: items are counted, whatever is merged. *)
LEMMA ResultTypeKept ==
  ASSUME ResultType, JobType, Next
  PROVE  ResultType'
<1> USE NoValues DEF ResultType, mainVars, localVars
<1>1. CASE MainStep \/ Request
  BY <1>1 DEF MainStep, PostJob, PostStop, JoinWorkers, ConsumeWakeup,
              LoadResults, Request, PushItem, Commit, ClearQuery, SetQuery,
              Stop, Start
<1>2. ASSUME NEW w \in Workers,
             \/ Wait(w) \/ Poll(w) \/ Abort(w) \/ LoadSameJob(w)
             \/ EndMerge(w) \/ Publish(w) \/ Notify(w)
      PROVE  ResultType'
  BY <1>2 DEF Wait, Poll, Abort, Exit, LoadSameJob, EndMerge, Publish, Notify
<1>3. ASSUME NEW w \in Workers, LoadNewJob(w) PROVE ResultType'
  <2>1. NoItems \in [Items -> Nat]
    BY DEF NoItems
  <2>2. [itemsTick |-> mJob.items, queryTick |-> mJob.queryTick,
         query |-> mJob.query, items |-> NoItems] \in Results
    BY <2>1 DEF JobType, Job, Results
  <2> QED
    BY <1>3, <2>2 DEF LoadNewJob
<1>4. ASSUME NEW w \in Workers, Take(w) PROVE ResultType'
  <2>1. \/ out' = out
        \/ \E hits : out' = [out EXCEPT ![w] = [out[w] EXCEPT !.items =
              [i \in Items |-> out[w].items[i]
                                + (IF i \in hits THEN 1 ELSE 0)]]]
    BY <1>4 DEF Take
  <2>2. published' = published /\ seen' = seen
    BY <1>4 DEF Take
  <2>3. ASSUME NEW hits
        PROVE  [out[w] EXCEPT !.items =
                 [i \in Items |-> out[w].items[i]
                                   + (IF i \in hits THEN 1 ELSE 0)]]
                 \in Results
    <3>1. out[w] \in Results
      OBVIOUS
    <3>2. [i \in Items |-> out[w].items[i] + (IF i \in hits THEN 1 ELSE 0)]
            \in [Items -> Nat]
      BY <3>1 DEF Results
    <3> QED
      BY <3>1, <3>2 DEF Results
  <2>4. out' \in [Workers -> Results]
    <3>1. CASE out' = out
      BY <3>1
    <3>2. ASSUME NEW hits,
                 out' = [out EXCEPT ![w] = [out[w] EXCEPT !.items =
                   [i \in Items |-> out[w].items[i]
                                     + (IF i \in hits THEN 1 ELSE 0)]]]
          PROVE  out' \in [Workers -> Results]
      BY <2>3, <3>2
    <3> QED
      BY <2>1, <3>1, <3>2
  <2> QED
    BY <2>2, <2>4
<1>5. ASSUME NEW w \in Workers, MergeChild(w) PROVE ResultType'
  <2>1. PICK c \in Workers :
          /\ seen' = [seen EXCEPT ![c] = published[c]]
          /\ \/ out' = out
             \/ out' = [out EXCEPT ![w] = [out[w] EXCEPT !.items =
                  [k \in Items |-> out[w].items[k] + published[c].items[k]]]]
    <3>1. PICK i \in DOMAIN Children[w] :
            LET c == Children[w][i]
            IN /\ seen' = [seen EXCEPT ![c] = published[c]]
               /\ \/ out' = out
                  \/ out' = [out EXCEPT ![w] = [out[w] EXCEPT !.items =
                     [k \in Items |-> out[w].items[k]
                                       + published[c].items[k]]]]
      BY <1>5 DEF MergeChild
    <3>2. Children[w][i] \in Workers
      BY TreeAssumption, ChildPositions, ElementOfSeq DEF IsTree
    <3> QED
      BY <3>1, <3>2
  <2>2. published' = published
    BY <1>5 DEF MergeChild
  <2>3. [k \in Items |-> out[w].items[k] + published[c].items[k]]
          \in [Items -> Nat]
    BY DEF Results
  <2>4. [out[w] EXCEPT !.items =
          [k \in Items |-> out[w].items[k] + published[c].items[k]]]
            \in Results
    <3>1. out[w] \in Results
      OBVIOUS
    <3> QED
      BY <2>3, <3>1 DEF Results
  <2>5. out' \in [Workers -> Results]
    BY <2>1, <2>4
  <2> QED
    BY <2>1, <2>2, <2>5
<1>6. ASSUME NEW w \in Workers, MergeGarbage(w) PROVE ResultType'
  BY <1>6 DEF MergeGarbage
<1> QED
  BY <1>1, <1>2, <1>3, <1>4, <1>5, <1>6 DEF Next, WorkerStep

-----------------------------------------------------------------------------
(* Committing a job                                                        *)

(* A commit either keeps the active query, or makes one with the next tick *)
(* the active one, or makes none active.                                   *)
CommitOf(q) ==
  /\ CommitJob(q)
  /\ mQuery' = q
  /\ mItems' = mItems
  /\ \/ q = mQuery
     \/ /\ q # mQuery
        /\ mJob.queryTick < MaxQueries
        /\ q # NoQuery => q.id = mJob.queryTick + 1

LEMMA CommitSteps ==
  ASSUME TypeOK, Commit \/ ClearQuery \/ \E t \in Texts : SetQuery(t)
  PROVE  \E q \in Query \union {NoQuery} : CommitOf(q)
<1>1. CASE Commit
  <2>1. mQuery \in Query \union {NoQuery}
    BY DEF TypeOK
  <2> QED
    BY <1>1, <2>1 DEF Commit, CommitOf
<1>2. CASE ClearQuery
  BY <1>2 DEF ClearQuery, CommitOf
<1>3. ASSUME NEW t \in Texts, SetQuery(t)
      PROVE  \E q \in Query \union {NoQuery} : CommitOf(q)
  <2> DEFINE q == [id |-> mJob.queryTick + 1, text |-> t]
  <2>1. mJob.queryTick \in 0..MaxQueries /\ mJob.queryTick < MaxQueries
    BY <1>3 DEF TypeOK, Job, SetQuery
  <2>2. q \in Query
    BY <2>1, PoolAssumption DEF Query
  <2>3. q # mQuery
    BY <1>3, <2>2, QueryFacts DEF SetQuery
  <2>4. CommitOf(q)
    BY <1>3, <2>1, <2>3 DEF SetQuery, CommitOf
  <2> QED
    BY <2>2, <2>4
<1> QED
  BY <1>1, <1>2, <1>3

(* The queue of the new job. *)
LEMMA CommitQueue ==
  ASSUME TypeOK, MainInv, NEW q, CommitJob(q)
  PROVE  /\ taken' \in Seq(Nat)
         /\ Len(taken') \in Nat /\ Len(taken) \in Nat
         /\ Len(taken) <= Len(taken')
         /\ mQueue' \in 0..Len(taken')
         /\ q # NoQuery => mQueue' \in 1..Len(taken')
         /\ mJob'.queue = mQueue'
<1>1. taken \in Seq(Nat) /\ Len(taken) \in Nat /\ mQueue \in 0..Len(taken)
  BY LenProperties DEF TypeOK
<1>2. mJob'.queue = mQueue'
  BY DEF CommitJob
<1>3. CASE mQueue' = Len(taken) + 1
  <2>1. taken' = Append(taken, 0)
    BY <1>1, <1>3 DEF CommitJob
  <2>2. taken' \in Seq(Nat) /\ Len(taken') = Len(taken) + 1
    BY <1>1, <2>1, AppendProperties
  <2> QED
    BY <1>1, <1>2, <1>3, <2>2
<1>4. CASE mQueue' # Len(taken) + 1
  <2>1. q = NoQuery /\ mQueue' \in {mQueue, 0}
    BY <1>4 DEF CommitJob
  <2>2. taken' = taken
    BY <1>1, <2>1 DEF CommitJob
  <2> QED
    BY <1>1, <1>2, <2>1, <2>2
<1> QED
  BY <1>3, <1>4

(* The tick grows when the query changes, and only then, so that every     *)
(* stamp stays valid.                                                      *)
LEMMA CommitStamps ==
  ASSUME TypeOK, MainInv, NEW q \in Query \union {NoQuery}, CommitOf(q)
  PROVE  /\ mJob'.items = mItems /\ mJob'.query = q
         /\ mJob'.queryTick \in 0..MaxQueries
         /\ \A query, tick :
              tick \in Nat /\ Stamped(query, tick) => Stamped(query, tick)'
         /\ Stamped(mJob.query, mJob.queryTick)'
<1>1. mJob.query = mQuery /\ Stamped(mJob.query, mJob.queryTick)
      /\ mJob.queryTick \in 0..MaxQueries
  BY DEF TypeOK, MainInv, Job
<1>2. mJob'.items = mItems /\ mJob'.query = q
  BY DEF CommitOf, CommitJob
<1>3. CASE q = mQuery
  <2>1. mJob'.queryTick = mJob.queryTick /\ mJob'.query = mJob.query
    BY <1>1, <1>3 DEF CommitOf, CommitJob
  <2> QED
    BY <1>1, <1>2, <2>1 DEF Stamped
<1>4. CASE q # mQuery
  <2>1. mJob'.queryTick = mJob.queryTick + 1
        /\ mJob.queryTick < MaxQueries
        /\ (q # NoQuery => q.id = mJob.queryTick + 1)
    BY <1>1, <1>4 DEF CommitOf, CommitJob
  <2> QED
    BY <1>1, <1>2, <2>1, PoolAssumption DEF Stamped
<1> QED
  BY <1>3, <1>4

LEMMA CommitKeepsInv ==
  ASSUME Inv, Commit \/ ClearQuery \/ \E t \in Texts : SetQuery(t)
  PROVE  /\ JobType'
         /\ MainInv'
         /\ \A w \in Workers : CopyInv(w)' /\ ResultsInv(w)'
<1> USE DEF Inv
<1>1. PICK q \in Query \union {NoQuery} : CommitOf(q)
  BY CommitSteps
<1>2. UNCHANGED <<wpc, localVars, published, seen>>
  BY DEF Commit, ClearQuery, SetQuery
<1>3. /\ taken' \in Seq(Nat) /\ mQueue' \in 0..Len(taken')
      /\ Len(taken') \in Nat /\ Len(taken) \in Nat
      /\ Len(taken) <= Len(taken')
      /\ q # NoQuery => mQueue' \in 1..Len(taken')
      /\ mJob'.queue = mQueue'
  BY <1>1, CommitQueue DEF CommitOf
<1>4. /\ mJob'.items = mItems /\ mJob'.query = q
      /\ mJob'.queryTick \in 0..MaxQueries
      /\ Stamped(mJob.query, mJob.queryTick)'
      /\ \A query, tick :
           tick \in Nat /\ Stamped(query, tick) => Stamped(query, tick)'
  BY <1>1, CommitStamps
<1>5. mQuery' = q /\ mItems' = mItems
  BY <1>1 DEF CommitOf
<1>6. mItems \in 0..MaxItems
  BY DEF TypeOK
<1>7. JobType'
  <2>1. mJob' \in Job'
    <3>1. mJob' = [items |-> mJob'.items, query |-> mJob'.query,
                   queue |-> mJob'.queue, queryTick |-> mJob'.queryTick]
      BY <1>1 DEF CommitOf, CommitJob
    <3> QED
      BY <1>3, <1>4, <1>6, <3>1 DEF Job
  <2>2. job' \in [Workers -> Job']
    <3>1. \A j \in Job : j \in Job'
      BY <1>3 DEF Job
    <3>2. job' = job /\ job \in [Workers -> Job]
      BY <1>2 DEF localVars, TypeOK
    <3> QED
      BY <3>1, <3>2
  <2> QED
    BY <1>3, <1>5, <1>6, <2>1, <2>2 DEF JobType
<1>8. MainInv'
  BY <1>3, <1>4, <1>5, <1>6 DEF MainInv, HasQueue
<1>9. ASSUME NEW w \in Workers
      PROVE  CopyInv(w)' /\ ResultsInv(w)'
  <2>1. CopyInv(w)'
    <3>1. job[w] \in Job /\ job'[w] = job[w] /\ wpc'[w] = wpc[w]
      BY <1>2 DEF TypeOK, localVars
    <3>2. job[w].queryTick \in Nat /\ job[w].items \in Nat
          /\ mJob.items \in Nat /\ mItems \in Nat
      BY <3>1, <1>6 DEF Job, TypeOK
    <3>3. Stamped(job[w].query, job[w].queryTick)'
      BY <1>2, <1>4, <3>1, <3>2 DEF CopyInv, Stamped
    <3>4. HasQueue(job[w])' /\ job'[w].items <= mJob'.items
      BY <1>3, <1>4, <3>1, <3>2 DEF CopyInv, HasQueue, MainInv
    <3> QED
      BY <3>1, <3>3, <3>4 DEF CopyInv
  <2>2. ResultsInv(w)'
    <3>1. {out[w], published[w], seen[w]} \subseteq Results
      BY DEF TypeOK
    <3>2. \A r \in Results : r.queryTick \in Nat
      BY DEF Results
    <3> QED
      BY <1>2, <1>4, <3>1, <3>2 DEF ResultsInv, Stamped, localVars
  <2> QED
    BY <2>1, <2>2
<1> QED
  BY <1>7, <1>8, <1>9

-----------------------------------------------------------------------------
(* The steps that leave the job alone                                      *)

Stamps(r) == Stamped(r.query, r.queryTick)

Busy(w) == wpc[w] \in {"take", "poll", "reload"}

(* Nothing but the number of items changes for the main thread, and queues *)
(* are only taken from.                                                    *)
LEMMA SameJob ==
  ASSUME TypeOK, MainInv, UNCHANGED <<mQuery, mQueue, mJob>>,
         mItems' \in 0..MaxItems, mItems <= mItems',
         taken' \in Seq(Nat), Len(taken') = Len(taken)
  PROVE  /\ MainInv'
         /\ Job' = Job
         /\ mQuery' \in Query \union {NoQuery} /\ mQueue' \in 0..Len(taken')
         /\ mJob' \in Job'
         /\ \A query, tick : Stamped(query, tick) <=> Stamped(query, tick)'
         /\ \A j : HasQueue(j) <=> HasQueue(j)'
<1>1. mJob.items \in Nat /\ mItems \in Nat
  BY DEF TypeOK, Job
<1>2. Job' = Job
  BY DEF Job
<1>3. \A query, tick : Stamped(query, tick) <=> Stamped(query, tick)'
  BY DEF Stamped
<1>4. \A j : HasQueue(j) <=> HasQueue(j)'
  BY DEF HasQueue
<1>5. MainInv'
  BY <1>1 DEF MainInv, Stamped, HasQueue
<1> QED
  BY <1>2, <1>3, <1>4, <1>5 DEF TypeOK

LEMMA OtherMainStepsKeepInv ==
  ASSUME Inv,
         \/ MainStep \/ PushItem \/ Stop
         \/ \E n \in 0..NumWorkers : Start(n)
  PROVE  /\ JobType'
         /\ MainInv'
         /\ \A w \in Workers : CopyInv(w)' /\ ResultsInv(w)'
<1> USE DEF Inv, mainVars, localVars
<1>1. UNCHANGED <<mQuery, mQueue, mJob, taken, job, out>>
  BY DEF MainStep, PostJob, PostStop, JoinWorkers, ConsumeWakeup,
         LoadResults, PushItem, Stop, Start
<1>2. mItems' \in 0..MaxItems /\ mItems <= mItems'
  <2>1. mItems \in 0..MaxItems
    BY DEF TypeOK
  <2>2. mItems' = mItems \/ (mItems < MaxItems /\ mItems' = mItems + 1)
    BY DEF MainStep, PostJob, PostStop, JoinWorkers, ConsumeWakeup,
           LoadResults, PushItem, Stop, Start
  <2> QED
    BY <2>1, <2>2, PoolAssumption
<1>3. taken' \in Seq(Nat)
  BY <1>1 DEF TypeOK
<1>4. /\ MainInv'
      /\ Job' = Job
      /\ mQuery' \in Query \union {NoQuery} /\ mQueue' \in 0..Len(taken')
      /\ mJob' \in Job'
      /\ \A query, tick : Stamped(query, tick) <=> Stamped(query, tick)'
      /\ \A j : HasQueue(j) <=> HasQueue(j)'
  BY <1>1, <1>2, <1>3, SameJob
<1>5. JobType'
  BY <1>1, <1>2, <1>3, <1>4 DEF JobType, TypeOK
<1>6. ASSUME NEW w \in Workers PROVE CopyInv(w)'
  <2>1. Busy(w)' => Busy(w)
    BY DEF Busy, MainStep, PostJob, PostStop, JoinWorkers, ConsumeWakeup,
           LoadResults, PushItem, Stop, Start
  <2> QED
    BY <1>1, <2>1 DEF CopyInv, Busy, Stamped, HasQueue
<1>7. ASSUME NEW w \in Workers PROVE ResultsInv(w)'
  <2>1. published' = published \/ published' = [v \in Workers |-> NoResults]
    BY DEF MainStep, PostJob, PostStop, JoinWorkers, ConsumeWakeup,
           LoadResults, PushItem, Stop, Start
  <2>2. \/ seen' = seen \/ seen' = [v \in Workers |-> NoResults]
        \/ seen' = [seen EXCEPT ![0] = published[0]]
    BY DEF MainStep, PostJob, PostStop, JoinWorkers, ConsumeWakeup,
           LoadResults, PushItem, Stop, Start
  <2>3. \A v \in Workers : Stamps(out[v]) /\ Stamps(published[v])
                           /\ Stamps(seen[v])
    BY DEF ResultsInv, Stamps
  <2>4. Stamps(NoResults)
    BY TickZero, NoValues DEF Stamps
  <2>5. Stamps(out'[w]) /\ Stamps(published'[w]) /\ Stamps(seen'[w])
    BY <1>1, <2>1, <2>2, <2>3, <2>4, WorkersFacts DEF TypeOK
  <2> QED
    BY <1>1, <2>5 DEF ResultsInv, Stamps, Stamped
<1> QED
  BY <1>4, <1>5, <1>6, <1>7

(* The copies of the job: a worker has the main thread's, or the one it    *)
(* had before, or none any more; and it takes items only for a query.      *)
LEMMA WorkerJobs ==
  ASSUME Inv, NEW w \in Workers, WorkerStep(w) \/ Abort(w)
  PROVE  /\ \/ job' = job
            \/ job' = [job EXCEPT ![w] = NoJob]
            \/ job' = [job EXCEPT ![w] = mJob]
         /\ \A v \in Workers : Busy(v)' => job'[v].query # NoQuery
<1> USE DEF WorkerStep, localVars
<1>1. /\ \/ job' = job
         \/ job' = [job EXCEPT ![w] = NoJob]
         \/ job' = [job EXCEPT ![w] = mJob]
      /\ \A v \in Workers \ {w} : wpc'[v] = wpc[v]
  BY DEF Wait, Poll, LoadNewJob, LoadSameJob, Take, MergeChild, MergeGarbage,
         EndMerge, Publish, Notify, Abort, Exit, Goto, Inv, TypeOK
<1>2. ASSUME NEW v \in Workers, v # w, Busy(v)'
      PROVE  job'[v].query # NoQuery
  BY <1>1, <1>2 DEF Inv, TypeOK, CopyInv, Busy
<1>3. ASSUME Busy(w)'
      PROVE  job'[w].query # NoQuery
  <2> USE <1>3 DEF Inv, TypeOK
  <2>1. CASE LoadNewJob(w)
    BY <2>1 DEF LoadNewJob, Goto, Busy
  <2>2. CASE LoadSameJob(w)
    <3>1. wpc[w] = "reload" /\ job'[w] = mJob
      BY <2>2 DEF LoadSameJob, Goto, Busy
    <3>2. ~(job[w].queryTick < mJob.queryTick)
      BY <2>2 DEF LoadSameJob, NewJob
    <3>3. job[w].queryTick = mJob.queryTick
      <4>1. job[w].queryTick \in Nat /\ mJob.queryTick \in Nat
        BY DEF Job
      <4> QED
        BY <3>2, <4>1 DEF CopyInv, Stamped
    <3> QED
      BY <3>1, <3>3 DEF CopyInv, Stamped
  <2>3. CASE Poll(w)
    BY <2>3 DEF Poll, Goto, Exit, Busy, CopyInv
  <2>4. CASE Take(w)
    <3>1. job' = job /\ wpc[w] = "take" /\ (Goto(w, "merge") \/ Goto(w, "poll"))
      BY <2>4, Zenon DEF Take
    <3> QED BY <3>1 DEF Goto, Busy, CopyInv
  <2>5. CASE \/ Wait(w) \/ MergeChild(w) \/ MergeGarbage(w) \/ EndMerge(w)
             \/ Publish(w) \/ Notify(w) \/ Abort(w)
    BY <2>5 DEF Wait, MergeChild, MergeGarbage, EndMerge, Publish, Notify,
                Abort, Exit, Goto, Busy
  <2> QED
    BY <2>1, <2>2, <2>3, <2>4, <2>5
<1> QED
  BY <1>1, <1>2, <1>3

(* Results get the stamps of the job their worker has loaded, and are      *)
(* handed on with the stamps they have.                                    *)
LEMMA WorkerResults ==
  ASSUME Inv, NEW w \in Workers, WorkerStep(w) \/ Abort(w),
         NEW v \in Workers
  PROVE  Stamps(out'[v]) /\ Stamps(published'[v]) /\ Stamps(seen'[v])
<1> USE DEF Inv, TypeOK
<1>1. \A u \in Workers :
        Stamps(out[u]) /\ Stamps(published[u]) /\ Stamps(seen[u])
  BY DEF ResultsInv, Stamps
<1>2. Stamps(NoResults)
  BY TickZero, NoValues DEF Stamps
<1>3. CASE LoadNewJob(w)
  <2> DEFINE new == [itemsTick |-> mJob.items, queryTick |-> mJob.queryTick,
                     query |-> mJob.query, items |-> NoItems]
  <2>1. Stamps(new)
    BY DEF Stamps, MainInv
  <2>2. out' = [out EXCEPT ![w] = new]
        /\ published' = published /\ seen' = seen
    BY <1>3 DEF LoadNewJob
  <2> QED
    BY <1>1, <2>1, <2>2
<1>4. ASSUME out' = out \/ \E f : out' = [out EXCEPT ![w] =
                                        [out[w] EXCEPT !.items = f]]
      PROVE  Stamps(out'[v])
  <2>1. CASE out' = out
    BY <1>1, <2>1
  <2>2. ASSUME NEW f, out' = [out EXCEPT ![w] = [out[w] EXCEPT !.items = f]]
        PROVE  Stamps(out'[v])
    <3>1. Stamps([out[w] EXCEPT !.items = f])
      BY <1>1 DEF Stamps, Results
    <3>2. v # w => out'[v] = out[v]
      BY <2>2
    <3>3. out'[w] = [out[w] EXCEPT !.items = f]
      BY <2>2
    <3> QED
      BY <1>1, <3>1, <3>2, <3>3
  <2> QED
    BY <1>4, <2>1, <2>2
<1>5. ASSUME \/ seen' = seen
             \/ \E c : seen' = [seen EXCEPT ![c] = published[c]]
      PROVE  Stamps(seen'[v])
  <2>1. CASE seen' = seen
    BY <1>1, <2>1
  <2>2. ASSUME NEW c, seen' = [seen EXCEPT ![c] = published[c]]
        PROVE  Stamps(seen'[v])
    <3>1. v # c => seen'[v] = seen[v]
      BY <2>2
    <3>2. v = c => seen'[v] = published[v]
      BY <2>2
    <3> QED
      BY <1>1, <3>1, <3>2
  <2> QED
    BY <1>5, <2>1, <2>2
<1>6. CASE Take(w) \/ MergeChild(w) \/ MergeGarbage(w)
  <2>1. /\ out' = out \/ \E f : out' = [out EXCEPT ![w] =
                                        [out[w] EXCEPT !.items = f]]
        /\ published' = published
    BY <1>6 DEF Take, MergeChild, MergeGarbage
  <2>2. seen' = seen \/ \E c : seen' = [seen EXCEPT ![c] = published[c]]
    BY <1>6 DEF Take, MergeChild, MergeGarbage
  <2>3. Stamps(out'[v])
    BY <1>4, <2>1
  <2>4. Stamps(seen'[v])
    BY <1>5, <2>2
  <2>5. Stamps(published'[v])
    BY <1>1, <2>1
  <2> QED
    BY <2>3, <2>4, <2>5
<1>7. CASE Publish(w)
  BY <1>1, <1>2, <1>7 DEF Publish
<1>8. CASE \/ Wait(w) \/ Poll(w) \/ LoadSameJob(w) \/ EndMerge(w)
           \/ Notify(w) \/ Abort(w)
  <2>1. /\ out' = out \/ out' = [out EXCEPT ![w] = NoResults]
        /\ published' = published /\ seen' = seen
    BY <1>8 DEF Wait, Poll, LoadSameJob, EndMerge, Notify, Abort, Exit,
                localVars
  <2> QED
    BY <1>1, <1>2, <2>1
<1> QED
  BY <1>3, <1>6, <1>7, <1>8 DEF WorkerStep

LEMMA WorkerStepsKeepInv ==
  ASSUME Inv, NEW w \in Workers, WorkerStep(w) \/ Abort(w)
  PROVE  /\ JobType'
         /\ MainInv'
         /\ \A v \in Workers : CopyInv(v)' /\ ResultsInv(v)'
<1> USE DEF Inv
<1>1. UNCHANGED <<mItems, mQuery, mQueue, mJob>>
  BY DEF WorkerStep, Wait, Poll, LoadNewJob, LoadSameJob, Take, MergeChild,
         MergeGarbage, EndMerge, Publish, Notify, Abort, mainVars
<1>2. taken' \in Seq(Nat) /\ Len(taken') = Len(taken)
  <2>1. CASE Take(w)
    <3> DEFINE q == job[w].queue
    <3>1. q \in 1..Len(taken) /\ taken \in Seq(Nat)
      BY <2>1 DEF Take, CopyInv, HasQueue, TypeOK
    <3>2. taken' = [taken EXCEPT ![q] = taken[q] + ChunkSize]
      BY <2>1 DEF Take
    <3>3. taken[q] + ChunkSize \in Nat
      BY <3>1, ElementOfSeq, PoolAssumption
    <3> QED
      BY <3>1, <3>2, <3>3, ExceptSeq
  <2>2. CASE ~Take(w)
    <3>1. taken' = taken
      BY <2>2 DEF WorkerStep, Wait, Poll, LoadNewJob, LoadSameJob, MergeChild,
                  MergeGarbage, EndMerge, Publish, Notify, Abort
    <3> QED
      BY <3>1 DEF TypeOK
  <2> QED
    BY <2>1, <2>2
<1>3. mItems' \in 0..MaxItems /\ mItems <= mItems'
  BY <1>1 DEF TypeOK
<1>4. /\ MainInv'
      /\ Job' = Job
      /\ mQuery' \in Query \union {NoQuery} /\ mQueue' \in 0..Len(taken')
      /\ mJob' \in Job'
      /\ \A query, tick : Stamped(query, tick) <=> Stamped(query, tick)'
      /\ \A j : HasQueue(j) <=> HasQueue(j)'
  BY <1>1, <1>2, <1>3, SameJob
<1>5. /\ \/ job' = job
         \/ job' = [job EXCEPT ![w] = NoJob]
         \/ job' = [job EXCEPT ![w] = mJob]
      /\ \A v \in Workers : Busy(v)' => job'[v].query # NoQuery
  BY WorkerJobs
<1>6. JobType'
  <2>1. job' \in [Workers -> Job]
    BY <1>5, NoValues DEF TypeOK
  <2> QED
    BY <1>2, <1>3, <1>4, <2>1 DEF JobType
<1>7. ASSUME NEW v \in Workers PROVE CopyInv(v)'
  <2>1. job'[v] \in {job[v], NoJob, mJob}
    BY <1>5 DEF TypeOK
  <2>2. mJob.items \in Nat
    BY DEF TypeOK, Job
  <2>3. /\ job'[v].items <= mJob.items
        /\ Stamped(job'[v].query, job'[v].queryTick)
        /\ HasQueue(job'[v])
    <3>1. CASE job'[v] = job[v]
      BY <3>1 DEF CopyInv
    <3>2. CASE job'[v] = NoJob
      BY <2>2, <3>2, TickZero, NoValues DEF HasQueue
    <3>3. CASE job'[v] = mJob
      BY <2>2, <3>3 DEF MainInv
    <3> QED
      BY <2>1, <3>1, <3>2, <3>3
  <2> QED
    BY <1>1, <1>2, <1>5, <2>3 DEF CopyInv, Busy, Stamped, HasQueue
<1>8. ASSUME NEW v \in Workers PROVE ResultsInv(v)'
  <2>1. Stamps(out'[v]) /\ Stamps(published'[v]) /\ Stamps(seen'[v])
    BY WorkerResults
  <2> QED
    BY <1>1, <2>1 DEF ResultsInv, Stamps, Stamped
<1> QED
  BY <1>4, <1>6, <1>7, <1>8

-----------------------------------------------------------------------------
(* The theorems                                                            *)

LEMMA NextInv == Inv /\ [Next]_vars => Inv'
<1> SUFFICES ASSUME Inv, [Next]_vars PROVE Inv'
  OBVIOUS
<1>1. CASE Next
  <2>1. ControlType' /\ FlagType' /\ ResultType' /\ MergeType'
    BY <1>1, TypeParts, ControlTypeKept, FlagTypeKept, ResultTypeKept,
       MergeTypeKept DEF Inv
  <2>2. /\ JobType'
        /\ MainInv'
        /\ \A w \in Workers : CopyInv(w)' /\ ResultsInv(w)'
    <3>1. CASE Commit \/ ClearQuery \/ \E t \in Texts : SetQuery(t)
      BY <3>1, CommitKeepsInv
    <3>2. CASE \/ MainStep \/ PushItem \/ Stop
               \/ \E n \in 0..NumWorkers : Start(n)
      BY <3>2, OtherMainStepsKeepInv
    <3>3. CASE \E w \in Workers : WorkerStep(w) \/ Abort(w)
      BY <3>3, WorkerStepsKeepInv
    <3> QED
      BY <1>1, <3>1, <3>2, <3>3 DEF Next, Request
  <2>3. TypeOK'
    BY <2>1, <2>2, TypeParts, PTL
  <2> QED
    BY <2>2, <2>3 DEF Inv
<1>2. CASE UNCHANGED vars
  BY <1>2 DEF Inv, TypeOK, MainInv, CopyInv, ResultsInv, Stamped, HasQueue,
              Job, vars, mainVars, localVars
<1> QED
  BY <1>1, <1>2

(* The inductive invariant holds in every state of every execution.        *)
THEOREM Invariance == SafeSpec => []Inv
<1>1. Init => Inv
  BY InitInv
<1>2. Inv /\ [Next]_vars => Inv'
  BY NextInv
<1> QED
  BY <1>1, <1>2, PTL DEF SafeSpec

(* Every variable keeps its type, whatever the number of workers, items    *)
(* and queries: in particular the number of a job's queue is always one of *)
(* the queues there are, and a worker's events are for it to handle.       *)
THEOREM TypeCorrect == SafeSpec => []TypeOK
<1>1. Inv => TypeOK
  BY DEF Inv
<1> QED
  BY <1>1, Invariance, PTL

(* The results a worker publishes, and those a reader has loaded, carry    *)
(* the query of their timestamp: one that was created for that query tick, *)
(* and at the tick of the current job the current query, or none when it   *)
(* was cleared.  Ticks and queries are copied by several threads, at       *)
(* different moments, from a job that changes meanwhile.                   *)
THEOREM SnapshotsAreConsistent == SafeSpec => []SnapshotConsistent
<1>1. Inv => SnapshotConsistent
  BY DEF Inv, ResultsInv, Stamped, SnapshotConsistent
<1> QED
  BY <1>1, Invariance, PTL
-----------------------------------------------------------------------------
(* The results: the invariants                                             *)

Alive(w) ==
  wpc[w] \in {"wait", "poll", "load", "reload", "take", "merge", "publish",
              "notify"}

(* There are workers exactly while the pool runs or is being stopped. *)
RunInv ==
  /\ \A w \in Workers : wpc[w] = "none" => NoWorkers
  /\ mpc = "post" => mRunning
  /\ mpc \in {"stop", "join"} => ~mRunning /\ ~NoWorkers
  /\ mRunning => ~NoWorkers
  /\ ~mRunning /\ mpc \notin {"stop", "join"} => NoWorkers

(* A thread that does not run holds nothing; a worker without a thread was *)
(* never told or sent anything.                                            *)
IdleInv(w) ==
  /\ ~Alive(w) => /\ job[w] = NoJob /\ out[w] = NoResults
                  /\ merged[w] = {} /\ child[w] = 1 /\ ~done[w]
  /\ wpc[w] \in {"none", "unstarted"} =>
       published[w] = NoResults /\ seen[w] = NoResults
  /\ wpc[w] = "none" => events[w] = {}

(* Where in the loop of a worker its flags are set. *)
StageInv(w) ==
  /\ wpc[w] \in {"take", "poll", "reload"} => merged[w] = {} /\ ~done[w]
  /\ wpc[w] = "publish" =>
       ~done[w] /\ (job[w].query # NoQuery => AllMerged(w))
  /\ wpc[w] = "notify" => done[w]
  /\ wpc[w] # "merge" => child[w] = 1
  /\ ~done[w] /\ job[w].query = NoQuery /\ job[w] # NoJob =>
       wpc[w] = "publish"

StampOf(r, j) == r.itemsTick = j.items /\ r.queryTick = j.queryTick
UpTo(r, j) == r.itemsTick <= j.items /\ r.queryTick <= j.queryTick
NotNewer(r, s) == r.itemsTick <= s.itemsTick /\ r.queryTick <= s.queryTick

(* The write buffer belongs to the worker's job, and once it is published  *)
(* the published results do.                                               *)
StampInv(w) ==
  /\ ~done[w] => StampOf(out[w], job[w]) /\ out[w].query = job[w].query
  /\ done[w] => StampOf(published[w], job[w])
  /\ job[w].items = mJob.items /\ job[w].queryTick = mJob.queryTick =>
       job[w] = mJob

(* Jobs and results follow one another in the order of their stamps. *)
OrderInv(w) ==
  /\ Alive(w) => UpTo(published[w], job[w])
  /\ UpTo(published[w], mJob)
  /\ NotNewer(seen[w], published[w])

(* A worker leaves the chunks behind only when there are no more.          *)
ExhaustedInv(w) ==
  /\ wpc[w] \in {"wait", "load", "merge", "publish", "notify"}
  /\ job[w].query # NoQuery
  => job[w].items <= taken[job[w].queue]

WorkerInv(w) ==
  IdleInv(w) /\ StageInv(w) /\ StampInv(w) /\ OrderInv(w) /\ ExhaustedInv(w)

(* Only the job that there is before the first commit has the stamp zero.  *)
FirstJobInv == mJob.items = 0 /\ mJob.queryTick = 0 => mJob = NoJob

PoolInv ==
  Inv /\ RunInv /\ FirstJobInv /\ \A w \in Workers : WorkerInv(w)

Older(a, b) ==
  /\ a.items <= b.items /\ a.queryTick <= b.queryTick
  /\ a.items < b.items \/ a.queryTick < b.queryTick

-----------------------------------------------------------------------------
(* What a step changes                                                     *)

LEMMA Numbers ==
  ASSUME TypeOK
  PROVE  /\ mJob.items \in Nat /\ mJob.queryTick \in Nat /\ mItems \in Nat
         /\ \A w \in Workers :
              /\ job[w] \in Job
              /\ job[w].items \in Nat /\ job[w].queryTick \in Nat
              /\ \A r \in {out[w], published[w], seen[w]} :
                   /\ r \in Results
                   /\ r.itemsTick \in Nat /\ r.queryTick \in Nat
<1>1. mJob.items \in Nat /\ mJob.queryTick \in Nat /\ mItems \in Nat
  BY DEF TypeOK, Job
<1>2. \A w \in Workers : /\ job[w] \in Job
                         /\ job[w].items \in Nat /\ job[w].queryTick \in Nat
  BY DEF TypeOK, Job
<1>3. \A r \in Results : r.itemsTick \in Nat /\ r.queryTick \in Nat
  BY DEF Results
<1>4. \A w \in Workers : {out[w], published[w], seen[w]} \subseteq Results
  BY DEF TypeOK
<1> QED
  BY <1>1, <1>2, <1>3, <1>4

(* The job that is committed is newer than the one before. *)
LEMMA CommitIsNewer ==
  ASSUME TypeOK, MainInv,
         Commit \/ ClearQuery \/ \E t \in Texts : SetQuery(t)
  PROVE  /\ Older(mJob, mJob')
         /\ mJob'.items \in Nat /\ mJob'.queryTick \in Nat
<1>1. PICK q \in Query \union {NoQuery} : CommitOf(q)
  BY CommitSteps
<1>2. /\ mJob'.items = mItems
      /\ mJob'.queryTick = IF mJob.query # q THEN mJob.queryTick + 1
                                             ELSE mJob.queryTick
      /\ mJob.query # q \/ mJob.items # mItems
  BY <1>1 DEF CommitOf, CommitJob
<1>3. mJob.items <= mItems
  BY DEF MainInv
<1> QED
  BY <1>2, <1>3, Numbers DEF Older

(* A queue counter only grows. *)
LEMMA TakenGrows ==
  ASSUME Inv, Next
  PROVE  \A q \in 1..Len(taken) : /\ taken[q] \in Nat /\ taken'[q] \in Nat
                                  /\ taken[q] <= taken'[q]
<1> SUFFICES ASSUME NEW q \in 1..Len(taken)
             PROVE  /\ taken[q] \in Nat /\ taken'[q] \in Nat
                    /\ taken[q] <= taken'[q]
  OBVIOUS
<1>1. taken \in Seq(Nat) /\ taken[q] \in Nat
  BY ElementOfSeq DEF Inv, TypeOK
<1>2. CASE taken' = taken
  BY <1>1, <1>2
<1>3. CASE taken' = Append(taken, 0)
  BY <1>1, <1>3, AppendProperties
<1>4. CASE \E w \in Workers : Take(w)
  <2>1. PICK w \in Workers : Take(w)
    BY <1>4
  <2>2. job[w].queue \in 1..Len(taken)
    BY <2>1 DEF Take, Inv, CopyInv, HasQueue
  <2>3. taken' = [taken EXCEPT ![job[w].queue] =
                    taken[job[w].queue] + ChunkSize]
    BY <2>1 DEF Take
  <2>4. DOMAIN taken = 1..Len(taken)
    BY <1>1, LenProperties
  <2>5. taken'[q] = IF q = job[w].queue THEN taken[q] + ChunkSize
                                        ELSE taken[q]
    BY <2>2, <2>3, <2>4
  <2> QED
    BY <1>1, <2>5, PoolAssumption
<1>5. \/ taken' = taken \/ taken' = Append(taken, 0)
      \/ \E w \in Workers : Take(w)
  BY DEF Next, MainStep, PostJob, PostStop, JoinWorkers, ConsumeWakeup,
         LoadResults, Request, PushItem, Commit, ClearQuery, SetQuery,
         CommitJob, Stop, Start, WorkerStep, Wait, Poll, LoadNewJob,
         LoadSameJob, MergeChild, MergeGarbage, EndMerge, Publish, Notify,
         Abort
<1> QED
  BY <1>2, <1>3, <1>4, <1>5

(* A step of one worker leaves the main thread and the other workers as    *)
(* they are, except that it may load what they have published.             *)
LEMMA WorkerFrame ==
  ASSUME Inv, NEW w \in Workers, WorkerStep(w) \/ Abort(w)
  PROVE  /\ UNCHANGED <<mpc, next, mItems, mQuery, mQueue, mJob, mRunning>>
         /\ \A v \in Workers \ {w} :
              UNCHANGED <<wpc[v], job[v], out[v], merged[v], child[v],
                          done[v], published[v]>>
         /\ \A v \in Workers : seen'[v] = seen[v] \/ seen'[v] = published[v]
<1> USE DEF Inv, TypeOK, mainVars, localVars
<1>1. CASE Wait(w) \/ Poll(w) \/ Abort(w)
  BY <1>1 DEF Wait, Poll, Abort, Exit, Goto
<1>2. CASE LoadNewJob(w) \/ LoadSameJob(w) \/ Take(w)
  BY <1>2 DEF LoadNewJob, LoadSameJob, Take, Goto
<1>3. CASE MergeChild(w)
  BY <1>3 DEF MergeChild, Goto
<1>4. CASE MergeGarbage(w)
  BY <1>4 DEF MergeGarbage, Goto
<1>5. CASE EndMerge(w) \/ Publish(w) \/ Notify(w)
  BY <1>5 DEF EndMerge, Publish, Notify, Goto
<1> QED
  BY <1>1, <1>2, <1>3, <1>4, <1>5 DEF WorkerStep

-----------------------------------------------------------------------------
(* The initial states                                                      *)

LEMMA InitPoolInv == Init => PoolInv
<1> SUFFICES ASSUME Init PROVE PoolInv
  OBVIOUS
<1>1. Inv
  BY InitInv
<1>2. RunInv
  BY WorkersFacts DEF Init, RunInv, NoWorkers
<1>3. ASSUME NEW w \in Workers PROVE WorkerInv(w)
  <2>1. IdleInv(w) /\ StageInv(w) /\ ExhaustedInv(w)
    BY <1>3, NoValues DEF Init, IdleInv, StageInv, ExhaustedInv, Alive
  <2>2. StampInv(w) /\ OrderInv(w)
    BY <1>3 DEF Init, StampInv, OrderInv, StampOf, UpTo, NotNewer, NoJob,
                NoResults
  <2> QED
    BY <2>1, <2>2 DEF WorkerInv
<1>4. FirstJobInv
  BY DEF Init, FirstJobInv
<1> QED
  BY <1>1, <1>2, <1>3, <1>4 DEF PoolInv

-----------------------------------------------------------------------------
(* When there are workers                                                  *)

LEMMA RunInvKept ==
  ASSUME Inv, RunInv, Next
  PROVE  RunInv'
<1> USE DEF mainVars, localVars
<1>1. CASE PushItem \/ ConsumeWakeup \/ LoadResults \/ Stop
  BY <1>1 DEF PushItem, ConsumeWakeup, LoadResults, Stop, RunInv, NoWorkers
<1>2. CASE PostJob \/ PostStop
  BY <1>2 DEF PostJob, PostStop, PostNext, RunInv, NoWorkers
<1>3. CASE Commit \/ ClearQuery \/ \E t \in Texts : SetQuery(t)
  <2>1. /\ mpc = "idle" /\ mpc' = IF NoWorkers THEN "idle" ELSE "post"
        /\ mRunning' = mRunning /\ wpc' = wpc
    BY <1>3 DEF Commit, ClearQuery, SetQuery, CommitJob
  <2> QED
    BY <2>1 DEF RunInv, NoWorkers
<1>4. ASSUME NEW n \in 0..NumWorkers, Start(n) PROVE RunInv'
  <2>1. mRunning' = TRUE /\ mpc' = mpc /\ mpc = "idle"
    BY <1>4 DEF Start
  <2>2. \A w \in Workers : wpc'[w] # "none"
    BY <1>4 DEF Start
  <2> QED
    BY <2>1, <2>2, WorkersFacts DEF RunInv, NoWorkers
<1>5. CASE JoinWorkers
  BY <1>5, WorkersFacts DEF JoinWorkers, RunInv, NoWorkers
<1>6. ASSUME NEW w \in Workers, WorkerStep(w) \/ Abort(w) PROVE RunInv'
  <2>1. mpc' = mpc /\ mRunning' = mRunning
        /\ \A v \in Workers \ {w} : wpc'[v] = wpc[v]
    BY <1>6, WorkerFrame
  <2>2. wpc[w] # "none" /\ wpc'[w] # "none"
    BY <1>6 DEF WorkerStep, Wait, Poll, LoadNewJob, LoadSameJob, Take,
                MergeChild, MergeGarbage, EndMerge, Publish, Notify, Abort,
                Exit, Goto, Inv, TypeOK
  <2>3. ~NoWorkers /\ ~NoWorkers'
    BY <2>2, <1>6 DEF NoWorkers
  <2> QED
    BY <2>1, <2>2, <2>3 DEF RunInv
<1> QED
  BY <1>1, <1>2, <1>3, <1>4, <1>5, <1>6 DEF Next, MainStep, Request

-----------------------------------------------------------------------------
(* The steps of the main thread                                            *)

LEMMA MainKeepsWorkerInv ==
  ASSUME PoolInv, MainStep \/ Request, NEW w \in Workers
  PROVE  WorkerInv(w)'
<1> USE DEF mainVars, localVars, PoolInv, WorkerInv
<1>1. \A q \in 1..Len(taken) : /\ taken[q] \in Nat /\ taken'[q] \in Nat
                               /\ taken[q] <= taken'[q]
  BY TakenGrows DEF Next
<1>2. ExhaustedInv(w) /\ UNCHANGED <<wpc, job>> => ExhaustedInv(w)'
  <2>1. job[w].query # NoQuery => job[w].queue \in 1..Len(taken)
    BY DEF Inv, CopyInv, HasQueue
  <2> QED
    BY <1>1, <2>1, Numbers DEF ExhaustedInv, Inv
<1>3. CASE PushItem \/ ConsumeWakeup \/ Stop \/ PostJob \/ PostStop
  <2>1. /\ UNCHANGED <<mJob, wpc, job, out, merged, child, done, published,
                       seen>>
        /\ UNCHANGED events \/ ~NoWorkers
    BY <1>3 DEF PushItem, ConsumeWakeup, Stop, PostJob, PostStop, RunInv
  <2>2. IdleInv(w)'
    BY <2>1 DEF IdleInv, Alive, RunInv
  <2>3. StageInv(w)' /\ StampInv(w)' /\ OrderInv(w)'
    BY <2>1 DEF StageInv, StampInv, OrderInv, Alive, AllMerged, StampOf,
                UpTo, NotNewer
  <2> QED
    BY <1>2, <2>1, <2>2, <2>3
<1>4. CASE Commit \/ ClearQuery \/ \E t \in Texts : SetQuery(t)
  <2>1. UNCHANGED <<wpc, job, out, merged, child, done, published, seen,
                    events>>
    BY <1>4 DEF Commit, ClearQuery, SetQuery
  <2>2. /\ Older(mJob, mJob')
        /\ mJob'.items \in Nat /\ mJob'.queryTick \in Nat
    BY <1>4, CommitIsNewer DEF Inv
  <2>3. IdleInv(w)' /\ StageInv(w)'
    BY <2>1 DEF IdleInv, StageInv, Alive, AllMerged
  <2>4. StampInv(w)'
    <3>1. job[w].items <= mJob.items /\ job[w].queryTick <= mJob.queryTick
      BY DEF Inv, CopyInv, Stamped
    <3> QED
      BY <2>1, <2>2, <3>1, Numbers DEF StampInv, StampOf, Older, Inv
  <2>5. OrderInv(w)'
    BY <2>1, <2>2, Numbers DEF OrderInv, UpTo, NotNewer, Older, Alive, Inv
  <2> QED
    BY <1>2, <2>1, <2>3, <2>4, <2>5
<1>5. ASSUME NEW n \in 0..NumWorkers, Start(n) PROVE WorkerInv(w)'
  <2>1. /\ NoWorkers
        /\ UNCHANGED <<mJob, job, out, merged, child, done, published, seen,
                       events>>
        /\ wpc'[w] \in {"wait", "unstarted"}
    BY <1>5 DEF Start, RunInv
  <2>2. /\ job[w] = NoJob /\ out[w] = NoResults
        /\ merged[w] = {} /\ child[w] = 1 /\ ~done[w]
        /\ published[w] = NoResults /\ seen[w] = NoResults
    BY <2>1 DEF NoWorkers, IdleInv, Alive
  <2>3. IdleInv(w)' /\ StageInv(w)' /\ ExhaustedInv(w)'
    BY <2>1, <2>2, NoValues DEF IdleInv, StageInv, ExhaustedInv, Alive
  <2>4. StampInv(w)'
    BY <2>1 DEF StampInv, StampOf
  <2>5. OrderInv(w)'
    BY <2>1, <2>2, NoValues DEF OrderInv, UpTo, NotNewer, NoResults
  <2> QED
    BY <2>3, <2>4, <2>5
<1>6. CASE JoinWorkers
  <2>1. /\ wpc[w] \in {"stopped", "dead", "unstarted"} /\ wpc'[w] = "none"
        /\ UNCHANGED <<mJob, job, out, merged, child, done>>
        /\ published'[w] = NoResults /\ seen'[w] = NoResults
        /\ events'[w] = {}
    BY <1>6 DEF JoinWorkers
  <2>2. /\ job[w] = NoJob /\ out[w] = NoResults
        /\ merged[w] = {} /\ child[w] = 1 /\ ~done[w]
    BY <2>1 DEF IdleInv, Alive
  <2>3. IdleInv(w)' /\ StageInv(w)' /\ ExhaustedInv(w)'
    BY <2>1, <2>2, NoValues DEF IdleInv, StageInv, ExhaustedInv, Alive
  <2>4. StampInv(w)'
    BY <2>1, <2>2 DEF StampInv, StampOf
  <2>5. OrderInv(w)'
    BY <2>1, Numbers DEF OrderInv, UpTo, NotNewer, NoResults, Alive, Inv
  <2> QED
    BY <2>3, <2>4, <2>5
<1>7. CASE LoadResults
  <2>1. /\ UNCHANGED <<mJob, wpc, job, out, merged, child, done, published,
                       events>>
        /\ \/ seen'[w] = seen[w]
           \/ ~NoWorkers /\ seen'[w] = published[w]
    BY <1>7 DEF LoadResults, Inv, TypeOK
  <2>2. IdleInv(w)'
    BY <2>1 DEF IdleInv, Alive
  <2>3. StageInv(w)' /\ StampInv(w)'
    BY <2>1 DEF StageInv, StampInv, AllMerged, StampOf
  <2>4. OrderInv(w)'
    BY <2>1, Numbers DEF OrderInv, UpTo, NotNewer, Alive, Inv
  <2> QED
    BY <1>2, <2>1, <2>2, <2>3, <2>4
<1> QED
  BY <1>3, <1>4, <1>5, <1>6, <1>7 DEF MainStep, Request

-----------------------------------------------------------------------------
(* The steps of a worker                                                   *)

LEMMA OthersKeepWorkerInv ==
  ASSUME PoolInv, NEW w \in Workers, WorkerStep(w) \/ Abort(w),
         NEW v \in Workers, v # w
  PROVE  WorkerInv(v)'
<1> USE DEF PoolInv, WorkerInv
<1>1. /\ mJob' = mJob
      /\ UNCHANGED <<wpc[v], job[v], out[v], merged[v], child[v], done[v],
                     published[v]>>
      /\ seen'[v] = seen[v] \/ seen'[v] = published[v]
  BY WorkerFrame
<1>2. ~NoWorkers
  <2>1. wpc[w] # "none"
    BY DEF WorkerStep, Wait, Poll, LoadNewJob, LoadSameJob, Take, MergeChild,
           MergeGarbage, EndMerge, Publish, Notify, Abort
  <2> QED
    BY <2>1 DEF NoWorkers
<1>3. IdleInv(v)'
  BY <1>1, <1>2 DEF IdleInv, Alive, RunInv
<1>4. StageInv(v)' /\ StampInv(v)'
  BY <1>1 DEF StageInv, StampInv, AllMerged, StampOf
<1>5. OrderInv(v)'
  BY <1>1, Numbers DEF OrderInv, UpTo, NotNewer, Alive, Inv
<1>6. ExhaustedInv(v)'
  <2>1. job[v].query # NoQuery => job[v].queue \in 1..Len(taken)
    BY DEF Inv, CopyInv, HasQueue
  <2>2. \A q \in 1..Len(taken) : /\ taken[q] \in Nat /\ taken'[q] \in Nat
                                 /\ taken[q] <= taken'[q]
    BY TakenGrows DEF Next
  <2>3. job[v].items \in Nat
    BY Numbers DEF Inv
  <2>4. CASE job[v].query = NoQuery
    BY <1>1, <2>4 DEF ExhaustedInv
  <2>5. CASE job[v].query # NoQuery
    <3> DEFINE q == job[v].queue
    <3>1. taken[q] \in Nat /\ taken'[q] \in Nat /\ taken[q] <= taken'[q]
      BY <2>1, <2>2, <2>5
    <3>2. job'[v] = job[v] /\ wpc'[v] = wpc[v]
      BY <1>1
    <3> HIDE DEF PoolInv
    <3>3. ExhaustedInv(v)
      BY DEF PoolInv
    <3> QED
      BY <2>3, <3>1, <3>2, <3>3 DEF ExhaustedInv
  <2> QED
    BY <2>4, <2>5
<1> QED
  BY <1>3, <1>4, <1>5, <1>6

(* A worker that ends drops everything but what it has published. *)
LEMMA ExitKeepsWorkerInv ==
  ASSUME PoolInv, NEW w \in Workers, NEW place \in {"stopped", "dead"},
         Exit(w, place), UNCHANGED <<mJob, published, seen>>
  PROVE  WorkerInv(w)'
<1> USE DEF PoolInv, WorkerInv
<1>1. /\ wpc'[w] = place
      /\ job'[w] = NoJob /\ out'[w] = NoResults
      /\ merged'[w] = {} /\ child'[w] = 1 /\ ~done'[w]
      /\ published'[w] = published[w] /\ seen'[w] = seen[w]
  BY DEF Exit, Goto, Inv, TypeOK
<1>2. IdleInv(w)' /\ StageInv(w)' /\ ExhaustedInv(w)'
  BY <1>1, NoValues DEF IdleInv, StageInv, ExhaustedInv
<1>3. OrderInv(w)'
  BY <1>1, Numbers DEF OrderInv, UpTo, NotNewer, Alive, Inv
<1>4. StampInv(w)'
  <2>1. StampOf(NoResults, NoJob) /\ NoResults.query = NoJob.query
    BY DEF StampOf, NoResults, NoJob
  <2>2. mJob.items = 0 /\ mJob.queryTick = 0 => mJob = NoJob
    BY DEF FirstJobInv
  <2> QED
    BY <1>1, <2>1, <2>2, NoValues DEF StampInv, StampOf
<1> QED
  BY <1>2, <1>3, <1>4

LEMMA FirstJobKept ==
  ASSUME PoolInv, Next
  PROVE  FirstJobInv'
<1>1. CASE Commit \/ ClearQuery \/ \E t \in Texts : SetQuery(t)
  BY <1>1, CommitIsNewer, Numbers DEF PoolInv, Inv, FirstJobInv, Older
<1>2. CASE mJob' = mJob
  BY <1>2 DEF PoolInv, FirstJobInv
<1>3. \/ Commit \/ ClearQuery \/ \E t \in Texts : SetQuery(t)
      \/ mJob' = mJob
  BY WorkerFrame DEF Next, MainStep, Request, PostJob, PostStop, JoinWorkers,
       ConsumeWakeup, LoadResults, PushItem, Stop, Start, mainVars, PoolInv
<1> QED
  BY <1>1, <1>2, <1>3

(* A job that is not newer than the worker's copy is that copy.            *)
LEMMA SameJobIsLast ==
  ASSUME PoolInv, NEW w \in Workers, LoadSameJob(w)
  PROVE  job[w] = mJob
<1>1. ~(job[w].items < mJob.items) /\ ~(job[w].queryTick < mJob.queryTick)
  BY DEF LoadSameJob, NewJob
<1>2. job[w].items <= mJob.items /\ job[w].queryTick <= mJob.queryTick
  BY DEF PoolInv, Inv, CopyInv, Stamped
<1>3. job[w].items = mJob.items /\ job[w].queryTick = mJob.queryTick
  BY <1>1, <1>2, Numbers DEF PoolInv, Inv
<1> QED
  BY <1>3 DEF PoolInv, WorkerInv, StampInv

LEMMA LoadKeepsWorkerInv ==
  ASSUME PoolInv, NEW w \in Workers, LoadNewJob(w) \/ LoadSameJob(w)
  PROVE  WorkerInv(w)'
<1> USE DEF PoolInv, WorkerInv, mainVars, localVars
<1>1. CASE LoadNewJob(w)
  <2> DEFINE new == [itemsTick |-> mJob.items, queryTick |-> mJob.queryTick,
                     query |-> mJob.query, items |-> NoItems]
  <2>1. /\ wpc[w] \in {"load", "reload"}
        /\ wpc'[w] = IF mJob.query = NoQuery THEN "publish" ELSE "take"
        /\ job'[w] = mJob /\ out'[w] = new
        /\ merged'[w] = {} /\ child'[w] = child[w] /\ ~done'[w]
        /\ published'[w] = published[w] /\ seen'[w] = seen[w]
        /\ mJob' = mJob
    BY <1>1 DEF LoadNewJob, Goto, Inv, TypeOK
  <2>2. IdleInv(w)' /\ ExhaustedInv(w)'
    BY <2>1 DEF IdleInv, ExhaustedInv, Alive
  <2>3. StageInv(w)'
    BY <2>1 DEF StageInv
  <2>4. StampInv(w)'
    BY <2>1 DEF StampInv, StampOf
  <2>5. OrderInv(w)'
    BY <2>1, Numbers DEF OrderInv, UpTo, NotNewer, Alive, Inv
  <2> QED
    BY <2>2, <2>3, <2>4, <2>5
<1>2. CASE LoadSameJob(w)
  <2>1. job[w] = mJob
    BY <1>2, SameJobIsLast
  <2>2. /\ wpc[w] \in {"load", "reload"}
        /\ wpc'[w] = IF wpc[w] = "load" THEN "merge" ELSE "take"
        /\ UNCHANGED <<job[w], out[w], merged[w], child[w], done[w],
                       published[w], seen[w], mJob, taken>>
    BY <1>2, <2>1 DEF LoadSameJob, Goto, Inv, TypeOK
  <2>3. IdleInv(w)' /\ ExhaustedInv(w)'
    BY <2>2 DEF IdleInv, ExhaustedInv, Alive
  <2>4. StageInv(w)' /\ StampInv(w)' /\ OrderInv(w)'
    BY <2>2 DEF StageInv, StampInv, OrderInv, StampOf, UpTo, NotNewer, Alive
  <2> QED
    BY <2>3, <2>4
<1> QED
  BY <1>1, <1>2

(* What taking a chunk changes.                                            *)
LEMMA TakeSteps ==
  ASSUME PoolInv, NEW w \in Workers, Take(w)
  PROVE  /\ wpc[w] = "take" /\ job[w].query # NoQuery
         /\ job[w].queue \in 1..Len(taken)
         /\ taken[job[w].queue] \in Nat
         /\ taken' = [taken EXCEPT ![job[w].queue] = @ + ChunkSize]
         /\ taken'[job[w].queue] = taken[job[w].queue] + ChunkSize
         /\ UNCHANGED <<job, merged, child, done, published, seen, events,
                        mJob, mpc>>
         /\ \/ /\ wpc'[w] = "merge" /\ out' = out
               /\ job[w].items <= taken[job[w].queue]
            \/ /\ wpc'[w] = "poll"
               /\ \A v \in Workers \ {w} : out'[v] = out[v]
               /\ out'[w].itemsTick = out[w].itemsTick
               /\ out'[w].queryTick = out[w].queryTick
               /\ out'[w].query = out[w].query
               /\ \A i \in Items : out'[w].items[i] = out[w].items[i] +
                    IF /\ taken[job[w].queue] <= i
                       /\ i < taken[job[w].queue] + ChunkSize
                       /\ i < job[w].items
                       /\ i \in Matches[job[w].query.text]
                    THEN 1 ELSE 0
<1> USE DEF PoolInv, Inv, TypeOK
<1> DEFINE q == job[w].queue
           n == job[w].items
           start == Minimum(taken[q], n)
           end == Minimum(start + ChunkSize, n)
           hits == {i \in Items : start <= i /\ i < end
                                    /\ i \in Matches[job[w].query.text]}
<1>1. wpc[w] = "take" /\ job[w].query # NoQuery /\ q \in 1..Len(taken)
  BY DEF Take, CopyInv, HasQueue
<1>2. taken[q] \in Nat /\ n \in Nat
  BY <1>1, ElementOfSeq, Numbers
<1>3. taken' = [taken EXCEPT ![q] = @ + ChunkSize]
  BY DEF Take
<1>4. taken'[q] = taken[q] + ChunkSize
  <2>1. q \in DOMAIN taken
    BY <1>1, LenProperties
  <2> QED
    BY <1>3, <2>1
<1>5. UNCHANGED <<job, merged, child, done, published, seen, events, mJob,
                  mpc>>
  BY DEF Take, mainVars
<1>6. CASE start >= end
  <2>1. wpc'[w] = "merge" /\ out' = out
    BY <1>6 DEF Take, Goto
  <2>2. n <= taken[q]
    BY <1>2, <1>6, PoolAssumption DEF Minimum
  <2> QED
    BY <1>1, <1>2, <1>3, <1>4, <1>5, <2>1, <2>2
<1>7. CASE ~(start >= end)
  <2>1. /\ wpc'[w] = "poll"
        /\ out' = [out EXCEPT ![w].items =
                     [i \in Items |-> @[i] + (IF i \in hits THEN 1 ELSE 0)]]
    BY <1>7 DEF Take, Goto
  <2>2. out[w] \in Results
    OBVIOUS
  <2>3. /\ out'[w].itemsTick = out[w].itemsTick
        /\ out'[w].queryTick = out[w].queryTick
        /\ out'[w].query = out[w].query
        /\ \A i \in Items : out'[w].items[i] =
             out[w].items[i] + (IF i \in hits THEN 1 ELSE 0)
    BY <2>1, <2>2 DEF Results
  <2>4. ASSUME NEW i \in Items
        PROVE  i \in hits <=> /\ taken[q] <= i /\ i < taken[q] + ChunkSize
                              /\ i < n /\ i \in Matches[job[w].query.text]
    <3>1. i \in Nat
      BY <2>4 DEF Items
    <3>2. start <= i /\ i < end
            <=> taken[q] <= i /\ i < taken[q] + ChunkSize /\ i < n
      <4>1. taken[q] < n
        BY <1>2, <1>7, PoolAssumption DEF Minimum
      <4>2. start = taken[q]
        BY <4>1 DEF Minimum
      <4>3. end = IF taken[q] + ChunkSize < n THEN taken[q] + ChunkSize ELSE n
        BY <4>2 DEF Minimum
      <4>4. taken[q] + ChunkSize \in Nat
        BY <1>2, PoolAssumption
      <4> HIDE DEF start, end, PoolInv, Inv, TypeOK
      <4>5. i < end <=> i < taken[q] + ChunkSize /\ i < n
        BY <1>2, <3>1, <4>3, <4>4
      <4> QED
        BY <4>2, <4>5
    <3> QED
      BY <3>2
  <2>5. \A v \in Workers \ {w} : out'[v] = out[v]
    BY <2>1
  <2>6. \A i \in Items : out'[w].items[i] = out[w].items[i] +
          IF /\ taken[q] <= i /\ i < taken[q] + ChunkSize
             /\ i < n /\ i \in Matches[job[w].query.text]
          THEN 1 ELSE 0
    BY <2>3, <2>4
  <2> HIDE DEF hits, start, end
  <2> QED
    BY <1>1, <1>2, <1>3, <1>4, <1>5, <2>1, <2>3, <2>5, <2>6
<1> QED
  BY <1>6, <1>7

LEMMA TakeKeepsWorkerInv ==
  ASSUME PoolInv, NEW w \in Workers, Take(w)
  PROVE  WorkerInv(w)'
<1> USE DEF PoolInv, WorkerInv
<1>1. /\ wpc[w] = "take" /\ wpc'[w] \in {"merge", "poll"}
      /\ out'[w].itemsTick = out[w].itemsTick
      /\ out'[w].queryTick = out[w].queryTick
      /\ out'[w].query = out[w].query
      /\ UNCHANGED <<job, merged, child, done, published, seen, events, mJob>>
      /\ wpc'[w] = "merge" => job[w].items <= taken'[job[w].queue]
  <2> HIDE DEF PoolInv
  <2>1. job[w].items \in Nat
    BY Numbers DEF PoolInv, Inv
  <2> QED
    BY TakeSteps, <2>1, PoolAssumption
<1>2. IdleInv(w)' /\ ExhaustedInv(w)'
  BY <1>1 DEF IdleInv, ExhaustedInv, Alive
<1>3. StageInv(w)' /\ StampInv(w)' /\ OrderInv(w)'
  <2>1. job[w].query # NoQuery
    BY TakeSteps
  <2>2. StageInv(w)'
    BY <1>1, <2>1 DEF StageInv
  <2>3. StampInv(w)'
    <3>1. StampInv(w)
      OBVIOUS
    <3> HIDE DEF PoolInv, WorkerInv
    <3> QED
      BY <1>1, <3>1 DEF StampInv, StampOf
  <2>4. OrderInv(w)'
    BY <1>1 DEF OrderInv, UpTo, NotNewer, Alive
  <2> QED
    BY <2>2, <2>3, <2>4
<1> QED
  BY <1>2, <1>3

(* What a turn of the merge loop changes. *)
LEMMA MergeSteps ==
  ASSUME PoolInv, NEW w \in Workers, MergeChild(w)
  PROVE  \E i \in DOMAIN Children[w] :
           LET c == Children[w][i] IN
           /\ wpc[w] = "merge" /\ ~done[w]
           /\ i \in child[w]..Len(Children[w]) /\ i \notin merged[w]
           /\ \A j \in child[w]..Len(Children[w]) : j \notin merged[w] => i <= j
           /\ seen' = [seen EXCEPT ![c] = published[c]]
           /\ UNCHANGED <<job, done, published, events, mJob, mpc, taken,
                          wakeup>>
           /\ \A v \in Workers \ {w} :
                UNCHANGED <<wpc[v], out[v], merged[v], child[v]>>
           /\ \/ /\ NewerThan(published[c], out[w])
                 /\ wpc'[w] = "wait" /\ child'[w] = 1
                 /\ UNCHANGED <<out, merged>>
              \/ /\ ~NewerThan(published[c], out[w])
                 /\ ~SameTick(published[c], out[w])
                 /\ child'[w] = i + 1
                 /\ UNCHANGED <<wpc, out, merged>>
              \/ /\ SameTick(published[c], out[w])
                 /\ child'[w] = i + 1 /\ wpc' = wpc
                 /\ merged'[w] = merged[w] \union {i}
                 /\ out'[w].itemsTick = out[w].itemsTick
                 /\ out'[w].queryTick = out[w].queryTick
                 /\ out'[w].query = out[w].query
                 /\ \A k \in Items : out'[w].items[k] =
                      out[w].items[k] + published[c].items[k]
<1> USE DEF PoolInv, Inv, TypeOK
<1>1. PICK i \in DOMAIN Children[w] :
        LET c == Children[w][i]
            cres == published[c]
        IN /\ IsNext(w, i)
           /\ seen' = [seen EXCEPT ![c] = cres]
           /\ \/ /\ NewerThan(cres, out[w])
                 /\ Goto(w, "wait")
                 /\ child' = [child EXCEPT ![w] = 1]
                 /\ UNCHANGED <<out, merged>>
              \/ /\ ~NewerThan(cres, out[w])
                 /\ ~SameTick(cres, out[w])
                 /\ child' = [child EXCEPT ![w] = i + 1]
                 /\ UNCHANGED <<wpc, out, merged>>
              \/ /\ SameTick(cres, out[w])
                 /\ child' = [child EXCEPT ![w] = i + 1]
                 /\ merged' = [merged EXCEPT ![w] = @ \union {i}]
                 /\ out' = [out EXCEPT ![w].items =
                      [k \in Items |-> @[k] + cres.items[k]]]
                 /\ UNCHANGED wpc
  BY DEF MergeChild
<1> DEFINE c == Children[w][i]
<1>2. /\ wpc[w] = "merge" /\ ~done[w]
      /\ UNCHANGED <<job, done, published, events, mJob, mpc, taken, wakeup>>
  BY DEF MergeChild, mainVars
<1>3. /\ i \in child[w]..Len(Children[w]) /\ i \notin merged[w]
      /\ \A j \in child[w]..Len(Children[w]) : j \notin merged[w] => i <= j
      /\ seen' = [seen EXCEPT ![c] = published[c]]
  BY <1>1 DEF IsNext, Missing
<1>4. CASE NewerThan(published[c], out[w]) /\ Goto(w, "wait")
           /\ child' = [child EXCEPT ![w] = 1] /\ UNCHANGED <<out, merged>>
  BY <1>2, <1>3, <1>4 DEF Goto
<1>5. CASE ~NewerThan(published[c], out[w]) /\ ~SameTick(published[c], out[w])
           /\ child' = [child EXCEPT ![w] = i + 1]
           /\ UNCHANGED <<wpc, out, merged>>
  BY <1>2, <1>3, <1>5
<1>6. CASE /\ SameTick(published[c], out[w])
           /\ child' = [child EXCEPT ![w] = i + 1]
           /\ merged' = [merged EXCEPT ![w] = @ \union {i}]
           /\ out' = [out EXCEPT ![w].items =
                [k \in Items |-> @[k] + published[c].items[k]]]
           /\ UNCHANGED wpc
  <2>1. out[w] \in Results
    OBVIOUS
  <2>2. /\ out'[w].itemsTick = out[w].itemsTick
        /\ out'[w].queryTick = out[w].queryTick
        /\ out'[w].query = out[w].query
        /\ \A k \in Items : out'[w].items[k] =
             out[w].items[k] + published[c].items[k]
    BY <1>6, <2>1 DEF Results
  <2>3. /\ child'[w] = i + 1 /\ wpc' = wpc
        /\ merged'[w] = merged[w] \union {i}
        /\ \A v \in Workers \ {w} :
             UNCHANGED <<wpc[v], out[v], merged[v], child[v]>>
    BY <1>6
  <2>4. SameTick(published[c], out[w])
    BY <1>6
  <2> QED
    BY <1>2, <1>3, <2>2, <2>3, <2>4
<1> QED
  BY <1>1, <1>4, <1>5, <1>6, ZenonT(30)

LEMMA MergeKeepsWorkerInv ==
  ASSUME PoolInv, NEW w \in Workers, MergeChild(w) \/ MergeGarbage(w)
  PROVE  WorkerInv(w)'
<1> USE DEF PoolInv, WorkerInv
<1>1. /\ wpc[w] = "merge" /\ wpc'[w] \in {"merge", "wait"}
      /\ wpc'[w] = "wait" => child'[w] = 1
      /\ out'[w].itemsTick = out[w].itemsTick
      /\ out'[w].queryTick = out[w].queryTick
      /\ out'[w].query = out[w].query
      /\ UNCHANGED <<job, done, published, events, mJob, taken>>
  <2>1. CASE MergeChild(w)
    BY <2>1, MergeSteps
  <2>2. CASE MergeGarbage(w)
    BY <2>2 DEF MergeGarbage, mainVars, Goto, Inv, TypeOK
  <2> QED
    BY <2>1, <2>2
<1>2. seen'[w] = seen[w] \/ seen'[w] = published[w]
  BY WorkerFrame DEF WorkerStep
<1>3. IdleInv(w)' /\ ExhaustedInv(w)'
  BY <1>1 DEF IdleInv, ExhaustedInv, Alive
<1>4. StageInv(w)' /\ StampInv(w)'
  BY <1>1 DEF StageInv, StampInv, StampOf
<1>5. OrderInv(w)'
  BY <1>1, <1>2, Numbers DEF OrderInv, UpTo, NotNewer, Alive, Inv
<1> QED
  BY <1>3, <1>4, <1>5

LEMMA LastStepsKeepWorkerInv ==
  ASSUME PoolInv, NEW w \in Workers,
         Wait(w) \/ Poll(w) \/ Abort(w) \/ EndMerge(w) \/ Publish(w)
           \/ Notify(w)
  PROVE  WorkerInv(w)'
<1> USE DEF PoolInv, WorkerInv
<1>1. CASE Abort(w)
  <2>1. Exit(w, "dead") /\ UNCHANGED <<mJob, published, seen>>
    BY <1>1 DEF Abort, mainVars
  <2> QED
    BY <2>1, ExitKeepsWorkerInv
<1>2. CASE Wait(w) \/ Poll(w)
  <2>1. CASE Exit(w, "stopped")
    <3>1. UNCHANGED <<mJob, published, seen>>
      BY <1>2 DEF Wait, Poll, mainVars
    <3> QED
      BY <2>1, <3>1, ExitKeepsWorkerInv
  <2>2. CASE ~Exit(w, "stopped")
    <3>1. /\ \/ wpc[w] = "wait" /\ wpc'[w] \in {"load", "merge"}
             \/ wpc[w] = "poll" /\ wpc'[w] \in {"reload", "take"}
          /\ UNCHANGED <<job, out, merged, child, done, published, seen, mJob,
                         taken>>
      BY <1>2, <2>2 DEF Wait, Poll, Goto, mainVars, localVars, Inv, TypeOK
    <3>2. IdleInv(w)' /\ ExhaustedInv(w)'
      BY <3>1 DEF IdleInv, ExhaustedInv, Alive
    <3>3. StageInv(w)' /\ StampInv(w)' /\ OrderInv(w)'
      BY <3>1 DEF StageInv, StampInv, OrderInv, StampOf, UpTo, NotNewer, Alive
    <3> QED
      BY <3>2, <3>3
  <2> QED
    BY <2>1, <2>2
<1>3. CASE EndMerge(w)
  <2>1. /\ wpc[w] = "merge" /\ child'[w] = 1
        /\ wpc'[w] = IF AllMerged(w) /\ ~done[w] THEN "publish" ELSE "wait"
        /\ UNCHANGED <<job, out, merged, done, published, seen, mJob, taken>>
    BY <1>3 DEF EndMerge, Goto, mainVars, Inv, TypeOK
  <2>2. IdleInv(w)' /\ ExhaustedInv(w)'
    BY <2>1 DEF IdleInv, ExhaustedInv, Alive
  <2>3. StageInv(w)'
    BY <2>1 DEF StageInv, AllMerged
  <2>4. StampInv(w)' /\ OrderInv(w)'
    BY <2>1 DEF StampInv, OrderInv, StampOf, UpTo, NotNewer, Alive
  <2> QED
    BY <2>2, <2>3, <2>4
<1>4. CASE Publish(w)
  <2>1. /\ wpc[w] = "publish" /\ wpc'[w] = "notify"
        /\ done'[w] /\ published'[w] = out[w] /\ seen'[w] = seen[w]
        /\ UNCHANGED <<job, merged, child, mJob, taken>>
    BY <1>4 DEF Publish, Goto, mainVars, Inv, TypeOK
  <2>2. IdleInv(w)' /\ ExhaustedInv(w)' /\ StageInv(w)'
    BY <2>1 DEF IdleInv, ExhaustedInv, StageInv, Alive
  <2>3. StampOf(out[w], job[w]) /\ UpTo(published[w], job[w])
    BY <2>1 DEF StageInv, StampInv, OrderInv, Alive
  <2>4. StampInv(w)'
    BY <2>1, <2>3 DEF StampInv, StampOf
  <2>5. OrderInv(w)'
    <3>1. job[w].items <= mJob.items /\ job[w].queryTick <= mJob.queryTick
      BY DEF Inv, CopyInv, Stamped
    <3> QED
      BY <2>1, <2>3, <3>1, Numbers
         DEF OrderInv, StampOf, UpTo, NotNewer, Alive, Inv
  <2> QED
    BY <2>2, <2>4, <2>5
<1>5. CASE Notify(w)
  <2>1. /\ wpc[w] = "notify" /\ wpc'[w] = "wait"
        /\ UNCHANGED <<job, out, merged, child, done, published, seen, mJob,
                       taken>>
    BY <1>5 DEF Notify, Goto, mainVars, localVars, Inv, TypeOK
  <2>2. IdleInv(w)' /\ ExhaustedInv(w)' /\ StageInv(w)'
    BY <2>1 DEF IdleInv, ExhaustedInv, StageInv, Alive
  <2>3. StampInv(w)' /\ OrderInv(w)'
    BY <2>1 DEF StampInv, OrderInv, StampOf, UpTo, NotNewer, Alive
  <2> QED
    BY <2>2, <2>3
<1> QED
  BY <1>1, <1>2, <1>3, <1>4, <1>5

-----------------------------------------------------------------------------
(* The invariant, and the order of the results                             *)

LEMMA NextPoolInv == PoolInv /\ [Next]_vars => PoolInv'
<1> SUFFICES ASSUME PoolInv, [Next]_vars PROVE PoolInv'
  OBVIOUS
<1>1. Inv'
  BY NextInv DEF PoolInv
<1>2. CASE Next
  <2>1. RunInv' /\ FirstJobInv'
    BY <1>2, RunInvKept, FirstJobKept DEF PoolInv
  <2>2. ASSUME NEW v \in Workers PROVE WorkerInv(v)'
    <3>1. CASE MainStep \/ Request
      BY <3>1, MainKeepsWorkerInv
    <3>2. ASSUME NEW w \in Workers, WorkerStep(w) \/ Abort(w)
          PROVE  WorkerInv(v)'
      <4>1. CASE v # w
        BY <3>2, <4>1, OthersKeepWorkerInv
      <4>2. CASE v = w
        BY <3>2, <4>2, LoadKeepsWorkerInv, TakeKeepsWorkerInv,
           MergeKeepsWorkerInv, LastStepsKeepWorkerInv DEF WorkerStep
      <4> QED
        BY <4>1, <4>2
    <3> QED
      BY <1>2, <3>1, <3>2 DEF Next
  <2> QED
    BY <1>1, <2>1, <2>2 DEF PoolInv
<1>3. CASE UNCHANGED vars
  <2>1. RunInv' /\ FirstJobInv'
    BY <1>3 DEF PoolInv, RunInv, FirstJobInv, NoWorkers, vars, mainVars,
                localVars
  <2>2. ASSUME NEW w \in Workers PROVE WorkerInv(w)'
    BY <1>3 DEF PoolInv, WorkerInv, IdleInv, StageInv, StampInv, OrderInv,
                ExhaustedInv, StampOf, UpTo, NotNewer, Alive, AllMerged,
                vars, mainVars, localVars
  <2> QED
    BY <1>1, <2>1, <2>2 DEF PoolInv
<1> QED
  BY <1>2, <1>3

LEMMA PoolInvariance == SafeSpec => []PoolInv
<1> QED
  BY InitPoolInv, NextPoolInv, PTL DEF SafeSpec

LEMMA StepsKeepOrder ==
  ASSUME PoolInv, [Next]_vars, NEW w \in Workers, wpc'[w] # "none"
  PROVE  /\ ~NewerThan(seen[w], seen'[w])
         /\ ~NewerThan(published[w], published'[w])
<1> USE DEF PoolInv, WorkerInv, NewerThan
<1>1. /\ ~NewerThan(seen[w], seen[w]) /\ ~NewerThan(seen[w], published[w])
      /\ ~NewerThan(published[w], published[w])
  BY Numbers DEF OrderInv, NotNewer, Inv
<1> SUFFICES /\ seen'[w] \in {seen[w], published[w]}
             /\ \/ published'[w] = published[w]
                \/ ~NewerThan(published[w], published'[w])
  BY <1>1
<1>2. CASE MainStep \/ Request
  BY <1>2 DEF MainStep, Request, PostJob, PostStop, JoinWorkers,
              ConsumeWakeup, LoadResults, PushItem, Commit, ClearQuery,
              SetQuery, Stop, Start, Inv, TypeOK
<1>3. ASSUME NEW u \in Workers, WorkerStep(u) \/ Abort(u), u # w
      PROVE  /\ seen'[w] \in {seen[w], published[w]}
             /\ published'[w] = published[w]
  BY <1>3, WorkerFrame
<1>4. CASE WorkerStep(w) \/ Abort(w)
  <2>1. seen'[w] \in {seen[w], published[w]}
    BY <1>4, WorkerFrame
  <2>2. CASE Publish(w)
    <3>1. published'[w] = out[w] /\ wpc[w] = "publish"
      BY <2>2 DEF Publish, Inv, TypeOK
    <3>2. StampOf(out[w], job[w]) /\ UpTo(published[w], job[w])
      BY <3>1 DEF StageInv, StampInv, OrderInv, Alive
    <3> QED
      BY <2>1, <3>1, <3>2, Numbers DEF StampOf, UpTo, Inv
  <2>3. CASE ~Publish(w)
    BY <1>4, <2>1, <2>3
       DEF WorkerStep, Wait, Poll, LoadNewJob, LoadSameJob, Take, MergeChild,
           MergeGarbage, EndMerge, Notify, Abort
  <2> QED
    BY <2>2, <2>3
<1>5. CASE UNCHANGED vars
  BY <1>5 DEF vars
<1> QED
  BY <1>2, <1>3, <1>4, <1>5 DEF Next

(* While the pool runs, what a worker publishes and what its reader has    *)
(* loaded never go back to an older snapshot, in whatever order workers    *)
(* load jobs, abandon them and merge each other's results.                 *)
THEOREM ResultsNeverOlder == SafeSpec => NeverOlder
<1>1. PoolInv /\ [Next]_vars =>
        [\A w \in Workers : wpc'[w] # "none" =>
           /\ ~NewerThan(seen[w], seen'[w])
           /\ ~NewerThan(published[w], published'[w])]_vars
  BY StepsKeepOrder
<1> QED
  BY <1>1, PoolInvariance, PTL DEF SafeSpec, NeverOlder

-----------------------------------------------------------------------------
(* The merge tree                                                          *)

(* A set of workers with all the workers that are merged into them.        *)
Closed(S) == \A v \in Workers \ {0} : Parent[v] \in S => v \in S

(* The workers whose results reach w: the least closed set that has w.     *)
Below(w) ==
  {v \in Workers :
     \A S \in SUBSET Workers : w \in S /\ Closed(S) => v \in S}

ChildSet(w) == {Children[w][i] : i \in DOMAIN Children[w]}

LEMMA ChildrenFacts ==
  ASSUME NEW w \in Workers, NEW i \in DOMAIN Children[w]
  PROVE  /\ Children[w][i] \in Workers \ {0}
         /\ Parent[Children[w][i]] = w
         /\ w < Children[w][i]
         /\ \A j \in DOMAIN Children[w] :
              Children[w][j] = Children[w][i] => j = i
<1> DEFINE c == Children[w][i]
<1>1. Children[w] \in Seq(Workers)
  BY TreeAssumption DEF IsTree
<1>2. c \in Workers
  BY <1>1, ElementOfSeq, LenProperties
<1>3. c # 0 /\ Parent[c] = w
  BY TreeAssumption DEF IsTree
<1>4. w < c
  BY <1>2, <1>3, TreeAssumption DEF IsTree
<1>5. \A j \in DOMAIN Children[w] : Children[w][j] = c => j = i
  <2>1. PICK k \in DOMAIN Children[Parent[c]] :
          \A j \in DOMAIN Children[Parent[c]] :
            Children[Parent[c]][j] = c <=> j = k
    BY <1>2, <1>3, TreeAssumption DEF IsTree
  <2> QED
    BY <1>3, <2>1
<1> QED
  BY <1>2, <1>3, <1>4, <1>5

LEMMA EveryoneHasAParent ==
  ASSUME NEW v \in Workers \ {0}
  PROVE  /\ Parent[v] \in Workers /\ Parent[v] < v
         /\ \E i \in DOMAIN Children[Parent[v]] : Children[Parent[v]][i] = v
BY TreeAssumption DEF IsTree

LEMMA BelowLeast ==
  ASSUME NEW w \in Workers
  PROVE  /\ w \in Below(w) /\ Below(w) \subseteq Workers
         /\ Closed(Below(w))
         /\ \A S \in SUBSET Workers :
              w \in S /\ Closed(S) => Below(w) \subseteq S
<1>1. w \in Below(w) /\ Below(w) \subseteq Workers
  BY DEF Below
<1>2. \A S \in SUBSET Workers : w \in S /\ Closed(S) => Below(w) \subseteq S
  BY DEF Below
<1>3. ASSUME NEW v \in Workers \ {0}, Parent[v] \in Below(w)
      PROVE  v \in Below(w)
  BY <1>3 DEF Below, Closed
<1> QED
  BY <1>1, <1>2, <1>3 DEF Closed

(* Whoever is below w, other than w, has a parent that is.                 *)
LEMMA BelowInversion ==
  ASSUME NEW w \in Workers, NEW v \in Below(w), v # w
  PROVE  v # 0 /\ Parent[v] \in Below(w)
<1> SUFFICES ASSUME ~(v # 0 /\ Parent[v] \in Below(w))
             PROVE  FALSE
  OBVIOUS
<1> DEFINE S == Below(w) \ {v}
<1>1. S \in SUBSET Workers /\ w \in S
  BY BelowLeast
<1>2. Closed(S)
  BY BelowLeast DEF Closed
<1>3. Below(w) \subseteq S
  BY <1>1, <1>2, BelowLeast
<1> QED
  BY <1>3

LEMMA BelowIsHigher ==
  ASSUME NEW w \in Workers, NEW v \in Below(w)
  PROVE  w <= v
<1> DEFINE S == {u \in Workers : w <= u}
<1>1. w \in S
  BY WorkersFacts
<1>2. Closed(S)
  <2> SUFFICES ASSUME NEW u \in Workers \ {0}, Parent[u] \in S PROVE u \in S
    BY DEF Closed
  <2> QED
    BY EveryoneHasAParent, WorkersFacts
<1>3. Below(w) \subseteq S
  BY <1>1, <1>2, BelowLeast
<1> QED
  BY <1>3

LEMMA SiblingsDisjoint ==
  ASSUME NEW c \in Workers \ {0}, NEW d \in Workers \ {0}, c # d,
         Parent[c] = Parent[d]
  PROVE  Below(c) \cap Below(d) = {}
<1>1. Parent[d] \notin Below(c) /\ Parent[c] \notin Below(d)
  BY BelowIsHigher, EveryoneHasAParent, WorkersFacts
<1>2. c \notin Below(d)
  BY <1>1, BelowInversion
<1> DEFINE S == Below(c) \ Below(d)
<1>3. c \in S /\ S \in SUBSET Workers
  BY <1>2, BelowLeast
<1>4. Closed(S)
  <2> SUFFICES ASSUME NEW u \in Workers \ {0}, Parent[u] \in S, u \notin S
               PROVE  FALSE
    BY DEF Closed
  <2>1. u \in Below(c)
    BY BelowLeast DEF Closed
  <2>2. u \in Below(d)
    BY <2>1
  <2>3. u # d
    BY <1>1
  <2> QED
    BY <2>2, <2>3, BelowInversion
<1>5. Below(c) \subseteq S
  BY <1>3, <1>4, BelowLeast
<1> QED
  BY <1>5

LEMMA BelowSplits ==
  ASSUME NEW w \in Workers
  PROVE  Below(w) = {w} \union UNION {Below(c) : c \in ChildSet(w)}
<1> DEFINE S == {w} \union UNION {Below(c) : c \in ChildSet(w)}
<1>1. \A c \in ChildSet(w) : c \in Workers \ {0} /\ Parent[c] = w
  BY ChildrenFacts DEF ChildSet
<1>2. \A c \in ChildSet(w) : c \in Below(w)
  BY <1>1, BelowLeast DEF Closed
<1>3. \A c \in ChildSet(w) : Below(c) \subseteq Below(w)
  BY <1>1, <1>2, BelowLeast
<1>4. S \subseteq Below(w)
  BY <1>3, BelowLeast
<1>5. S \in SUBSET Workers
  BY <1>4, BelowLeast
<1>6. Closed(S)
  <2> SUFFICES ASSUME NEW u \in Workers \ {0}, Parent[u] \in S PROVE u \in S
    BY DEF Closed
  <2>1. CASE Parent[u] = w
    <3>1. u \in ChildSet(w)
      BY <2>1, EveryoneHasAParent DEF ChildSet
    <3> QED
      BY <3>1, BelowLeast
  <2>2. ASSUME NEW c \in ChildSet(w), Parent[u] \in Below(c)
        PROVE  u \in S
    <3>1. u \in Below(c)
      BY <1>1, <2>2, BelowLeast DEF Closed
    <3> QED
      BY <3>1
  <2> QED
    BY <2>1, <2>2
<1>7. Below(w) \subseteq S
  BY <1>5, <1>6, BelowLeast
<1> QED
  BY <1>4, <1>7

LEMMA LeastNumber ==
  ASSUME NEW S \in SUBSET Nat, S # {}
  PROVE  \E m \in S : \A k \in S : m <= k
<1> DEFINE R == {p \in Nat \X Nat : p[1] < p[2]}
<1>1. IsWellFoundedOn(R, Nat)
  BY NatLessThanWellFounded DEF OpToRel
<1> HIDE DEF R
<1>2. PICK m \in S : \A k \in S : <<k, m>> \notin R
  BY <1>1, WFMin
<1>3. ASSUME NEW k \in S PROVE ~(k < m)
  <2>1. <<k, m>> \in Nat \X Nat /\ <<k, m>>[1] = k /\ <<k, m>>[2] = m
    BY <1>3
  <2> QED
    BY <1>2, <2>1 DEF R
<1> QED
  BY <1>3

(* All the results reach worker 0. *)
LEMMA EveryoneBelowRoot == Below(0) = Workers
<1>1. 0 \in Workers
  BY WorkersFacts
<1> DEFINE S == Workers \ Below(0)
<1>2. ASSUME NEW n \in S PROVE FALSE
  <2>1. S \subseteq Nat
    BY WorkersFacts
  <2>2. PICK m \in S : \A k \in S : m <= k
    BY <1>2, <2>1, LeastNumber
  <2>3. m # 0
    BY <1>1, BelowLeast
  <2>4. Parent[m] \in Workers /\ Parent[m] < m
    BY <2>3, EveryoneHasAParent
  <2>5. Parent[m] \in Below(0)
    BY <2>1, <2>2, <2>4, WorkersFacts
  <2>6. m \in Below(0)
    BY <1>1, <2>3, <2>5, BelowLeast DEF Closed
  <2> QED
    BY <2>6
<1> QED
  BY <1>1, <1>2, BelowLeast

-----------------------------------------------------------------------------
(* The jobs there have been, and who took which item                       *)
(*                                                                         *)
(* The results a worker holds may belong to a job that neither the main    *)
(* thread nor any worker has any more, so the invariant speaks of the jobs *)
(* committed so far, and of the worker that took each item of each queue:  *)
(* there is a set H of jobs and a function own such that all results are   *)
(* explained by them.                                                      *)

JobRecord == [items : 0..MaxItems, query : Query \union {NoQuery},
              queue : Nat, queryTick : 0..MaxQueries]

Owners == [Nat -> [Items -> Workers]]

(* Item i is one of the answer to job j that the workers in S have found,  *)
(* the counters of the queues being t.                                     *)
Hit(own, t, j, i, S) ==
  /\ j.query # NoQuery
  /\ i < j.items /\ i < t[j.queue]
  /\ i \in Matches[j.query.text]
  /\ own[j.queue][i] \in S

Counts(own, t, r, j, S) ==
  \A i \in Items : r.items[i] = IF Hit(own, t, j, i, S) THEN 1 ELSE 0

(* r is what the workers below w have found for some job all of whose      *)
(* items were taken.                                                       *)
AnswersSome(H, own, t, r, w) ==
  \E j \in H : /\ StampOf(r, j) /\ r.query = j.query
               /\ Counts(own, t, r, j, Below(w))
               /\ j.query # NoQuery => j.items <= t[j.queue]

(* The workers whose items are in the write buffer of w. *)
Mine(w) == {w} \union UNION {Below(Children[w][i]) : i \in merged[w]}

(* Every job is newer than the ones before, and each has its own queue. *)
Made(H) ==
  /\ NoJob \in H /\ mJob \in H
  /\ \A w \in Workers : job[w] \in H
  /\ \A a, b \in H : a = b \/ Older(a, b) \/ Older(b, a)
  /\ \A a \in H : a = mJob \/ Older(a, mJob)
  /\ \A a, b \in H : /\ a.query # NoQuery /\ b.query # NoQuery
                     /\ a.queue = b.queue
                     => a = b
  /\ \A a \in H : a.query # NoQuery => a.queue \in 1..Len(taken)

FoundInv(H, own, w) ==
  /\ AnswersSome(H, own, taken, published[w], w)
  /\ AnswersSome(H, own, taken, seen[w], w)
  /\ ~done[w] => Counts(own, taken, out[w], job[w], Mine(w))

(* A worker that is about to load a job has not taken items of it: it      *)
(* could have only in an earlier run of the pool, whose job is not posted  *)
(* again.                                                                  *)
FreshInv(own, w) ==
  /\ Alive(w)
  /\ mpc = "post" \/ "kJob" \in events[w] \/ wpc[w] \in {"load", "reload"}
  /\ NewJob(w)
  /\ mJob.query # NoQuery
  => \A i \in Items : i < mJob.items /\ i < taken[mJob.queue] =>
       own[mJob.queue][i] # w

Explained(H, own) ==
  Made(H) /\ \A w \in Workers : FoundInv(H, own, w) /\ FreshInv(own, w)

AnswersInv ==
  \E H \in SUBSET JobRecord : \E own \in Owners : Explained(H, own)

-----------------------------------------------------------------------------
(* Facts about them                                                        *)

LEMMA JobRecordFacts ==
  \A j \in JobRecord : j.items \in Nat /\ j.queryTick \in Nat
BY PoolAssumption DEF JobRecord

LEMMA ItemsAreNumbers == \A i \in Items : i \in Nat
BY DEF Items

(* Queues grow, and items stay with the worker that took them. *)
Grows(own, t, own2, t2) ==
  /\ Len(t) <= Len(t2)
  /\ \A q \in 1..Len(t) :
       /\ t[q] \in Nat /\ t2[q] \in Nat /\ t[q] <= t2[q]
       /\ \A i \in Items : i < t[q] => own2[q][i] = own[q][i]

LEMMA CountsKept ==
  ASSUME NEW own, NEW own2, NEW t, NEW t2, Grows(own, t, own2, t2),
         NEW r, NEW j \in JobRecord, NEW S,
         j.query # NoQuery => j.queue \in 1..Len(t)
                                /\ j.items <= t[j.queue],
         Counts(own, t, r, j, S)
  PROVE  Counts(own2, t2, r, j, S)
<1> SUFFICES ASSUME NEW i \in Items
             PROVE  Hit(own, t, j, i, S) <=> Hit(own2, t2, j, i, S)
  BY DEF Counts
<1>1. CASE j.query = NoQuery
  BY <1>1 DEF Hit
<1>2. CASE j.query # NoQuery
  <2> DEFINE q == j.queue
  <2>1. /\ t[q] \in Nat /\ t2[q] \in Nat /\ t[q] <= t2[q]
        /\ i < t[q] => own2[q][i] = own[q][i]
        /\ j.items <= t[q] /\ j.items \in Nat /\ i \in Nat
    BY <1>2, JobRecordFacts, ItemsAreNumbers DEF Grows
  <2>2. i < j.items => i < t[q] /\ i < t2[q]
    BY <2>1
  <2> QED
    BY <2>1, <2>2 DEF Hit
<1> QED
  BY <1>1, <1>2

LEMMA AnswersKept ==
  ASSUME NEW own, NEW own2, NEW t, NEW t2, Grows(own, t, own2, t2),
         Len(t) \in Nat, Len(t2) \in Nat,
         NEW H \in SUBSET JobRecord, NEW H2 \in SUBSET JobRecord, H \subseteq H2,
         \A a \in H : a.query # NoQuery => a.queue \in 1..Len(t),
         NEW r, NEW w, AnswersSome(H, own, t, r, w)
  PROVE  AnswersSome(H2, own2, t2, r, w)
<1>1. PICK j \in H : /\ StampOf(r, j) /\ r.query = j.query
                     /\ Counts(own, t, r, j, Below(w))
                     /\ j.query # NoQuery => j.items <= t[j.queue]
  BY DEF AnswersSome
<1>2. j \in JobRecord /\ j.items \in Nat
  BY JobRecordFacts
<1>3. Counts(own2, t2, r, j, Below(w))
  BY <1>1, <1>2, CountsKept
<1>4. j.query # NoQuery => j.items <= t2[j.queue]
  BY <1>1, <1>2 DEF Grows
<1> QED
  BY <1>1, <1>3, <1>4 DEF AnswersSome

(* The empty result answers the job there is before the first commit, and  *)
(* counts nothing for a job without a query.                               *)
LEMMA EmptyAnswers ==
  ASSUME NEW own, NEW t, NEW H, NoJob \in H, NEW w
  PROVE  /\ AnswersSome(H, own, t, NoResults, w)
         /\ \A S : Counts(own, t, NoResults, NoJob, S)
<1>1. /\ NoJob.query = NoQuery /\ NoResults.query = NoQuery
      /\ StampOf(NoResults, NoJob)
      /\ \A i \in Items : NoResults.items[i] = 0
  BY DEF NoJob, NoResults, NoItems, StampOf
<1>2. \A S : Counts(own, t, NoResults, NoJob, S)
  BY <1>1 DEF Counts, Hit
<1> QED
  BY <1>1, <1>2 DEF AnswersSome

LEMMA InitAnswers == Init => AnswersInv
<1> SUFFICES ASSUME Init PROVE AnswersInv
  OBVIOUS
<1> DEFINE own == [q \in Nat |-> [i \in Items |-> 0]]
           H == {NoJob}
<1>1. own \in Owners
  BY WorkersFacts DEF Owners
<1>2. H \in SUBSET JobRecord
  BY NoValues DEF NoJob, JobRecord, Job
<1>3. Made(H)
  BY NoValues DEF Init, Made
<1>4. ASSUME NEW w \in Workers
      PROVE  FoundInv(H, own, w) /\ FreshInv(own, w)
  <2>1. /\ published[w] = NoResults /\ seen[w] = NoResults
        /\ out[w] = NoResults /\ job[w] = NoJob /\ wpc[w] = "none"
    BY <1>4 DEF Init
  <2>2. FoundInv(H, own, w)
    BY <2>1, EmptyAnswers DEF FoundInv
  <2>3. FreshInv(own, w)
    BY <2>1 DEF FreshInv, Alive
  <2> QED
    BY <2>2, <2>3
<1> HIDE DEF own, H
<1> QED
  BY <1>1, <1>2, <1>3, <1>4 DEF AnswersInv, Explained

-----------------------------------------------------------------------------
(* The history grows with each commit, and only then                       *)

LEMMA NewQueue ==
  ASSUME Inv, Commit \/ ClearQuery \/ \E t \in Texts : SetQuery(t)
  PROVE  /\ mJob' \in JobRecord
         /\ Len(taken) \in Nat /\ Len(taken') \in Nat
         /\ Len(taken) <= Len(taken')
         /\ \A q \in 1..Len(taken) : taken'[q] = taken[q]
         /\ mJob'.query # NoQuery =>
              /\ mJob'.queue = Len(taken) + 1 /\ Len(taken') = Len(taken) + 1
              /\ taken'[mJob'.queue] = 0
<1> USE DEF Inv
<1>1. PICK q \in Query \union {NoQuery} : CommitOf(q)
  BY CommitSteps
<1>2. /\ taken \in Seq(Nat)
      /\ Len(taken') \in Nat /\ Len(taken) \in Nat
      /\ Len(taken) <= Len(taken')
      /\ mQueue' \in 0..Len(taken')
      /\ mJob'.queue = mQueue'
  BY <1>1, CommitQueue DEF CommitOf, TypeOK
<1>3. /\ mJob'.items = mItems /\ mJob'.query = q
      /\ mJob'.queryTick \in 0..MaxQueries
  BY <1>1, CommitStamps
<1>4. mJob' \in JobRecord
  <2>1. mItems \in 0..MaxItems /\ mJob'.queue \in Nat
    BY <1>2 DEF TypeOK
  <2>2. mJob' = [items |-> mJob'.items, query |-> mJob'.query,
                 queue |-> mJob'.queue, queryTick |-> mJob'.queryTick]
    BY <1>1 DEF CommitOf, CommitJob
  <2> QED
    BY <1>3, <2>1, <2>2 DEF JobRecord
<1>5. taken' \in {taken, Append(taken, 0)}
  BY <1>1 DEF CommitOf, CommitJob
<1>6. \A i \in 1..Len(taken) : taken'[i] = taken[i]
  BY <1>2, <1>5, AppendProperties
<1>7. ASSUME q # NoQuery
      PROVE  /\ mJob'.queue = Len(taken) + 1 /\ Len(taken') = Len(taken) + 1
             /\ taken'[mJob'.queue] = 0
  <2>1. mJob'.queue = Len(taken) + 1 /\ taken' = Append(taken, 0)
    BY <1>1, <1>2, <1>7 DEF CommitOf, CommitJob
  <2> QED
    BY <1>2, <2>1, AppendProperties
<1> QED
  BY <1>2, <1>3, <1>4, <1>6, <1>7

LEMMA CommitExplained ==
  ASSUME PoolInv, Commit \/ ClearQuery \/ \E t \in Texts : SetQuery(t),
         NEW H \in SUBSET JobRecord, NEW own \in Owners, Explained(H, own)
  PROVE  AnswersInv'
<1> USE DEF PoolInv
<1>1. PICK j : j = mJob'
  OBVIOUS
<1>2. /\ j \in JobRecord
      /\ Len(taken) \in Nat /\ Len(taken') \in Nat
      /\ Len(taken) <= Len(taken')
      /\ \A q \in 1..Len(taken) : taken'[q] = taken[q]
      /\ j.query # NoQuery =>
           /\ j.queue = Len(taken) + 1 /\ Len(taken') = Len(taken) + 1
           /\ taken'[j.queue] = 0
  BY <1>1, NewQueue
<1>3. Older(mJob, j)
  BY <1>1, CommitIsNewer DEF Inv
<1>4. UNCHANGED <<wpc, job, out, merged, done, published, seen, events>>
  BY DEF Commit, ClearQuery, SetQuery, localVars
<1> DEFINE H2 == H \union {j}
<1>5. H2 \in SUBSET JobRecord
  BY <1>2
<1>6. Made(H2)'
  <2> USE DEF Made, Explained
  <2>1. \A a \in H : Older(a, j)
    <3> SUFFICES ASSUME NEW a \in H PROVE Older(a, j)
      OBVIOUS
    <3>1. a = mJob \/ Older(a, mJob)
      OBVIOUS
    <3> QED
      BY <1>2, <1>3, <3>1, JobRecordFacts, Numbers DEF Older, Inv
  <2>2. \A a \in H2 : a = j \/ Older(a, j)
    BY <2>1
  <2>3. \A a, b \in H2 : a = b \/ Older(a, b) \/ Older(b, a)
    BY <2>1
  <2>4. \A a \in H2 : a.query # NoQuery => a.queue \in 1..Len(taken')
    BY <1>2
  <2>5. \A a \in H : a.query # NoQuery => a.queue \in 1..Len(taken)
    OBVIOUS
  <2>6. \A a, b \in H2 : /\ a.query # NoQuery /\ b.query # NoQuery
                         /\ a.queue = b.queue
                         => a = b
    <3>1. \A a \in H : a.query # NoQuery /\ j.query # NoQuery =>
            a.queue # j.queue
      BY <1>2, <2>5
    <3>2. \A a, b \in H : /\ a.query # NoQuery /\ b.query # NoQuery
                          /\ a.queue = b.queue
                          => a = b
      OBVIOUS
    <3> QED
      BY <3>1, <3>2
  <2>7. NoJob \in H2 /\ j \in H2 /\ (\A w \in Workers : job[w] \in H2)
    OBVIOUS
  <2> HIDE DEF H2
  <2> QED
    BY <1>1, <1>4, <2>2, <2>3, <2>4, <2>6, <2>7
<1>7. Grows(own, taken, own, taken')
  <2>1. \A q \in 1..Len(taken) : taken[q] \in Nat
    BY ElementOfSeq DEF Inv, TypeOK
  <2> QED
    BY <1>2, <2>1 DEF Grows
<1>8. /\ \A a \in H : a.query # NoQuery => a.queue \in 1..Len(taken)
      /\ \A w \in Workers : FoundInv(H, own, w) /\ job[w] \in H
  BY DEF Explained, Made
<1>9. ASSUME NEW w \in Workers PROVE FoundInv(H2, own, w)'
  <2>1. /\ AnswersSome(H2, own, taken', published[w], w)
        /\ AnswersSome(H2, own, taken', seen[w], w)
    BY <1>2, <1>5, <1>7, <1>8, AnswersKept DEF FoundInv
  <2>2. ASSUME ~done[w]
        PROVE  Counts(own, taken', out[w], job[w], Mine(w))
    <3>1. Counts(own, taken, out[w], job[w], Mine(w))
      BY <1>8, <2>2 DEF FoundInv
    <3>2. job[w].query # NoQuery =>
            taken'[job[w].queue] = taken[job[w].queue]
      BY <1>2, <1>8
    <3> QED
      BY <3>1, <3>2 DEF Counts, Hit
  <2>3. Mine(w)' = Mine(w)
    BY <1>4 DEF Mine
  <2> QED
    BY <1>4, <2>1, <2>2, <2>3 DEF FoundInv
<1>10. ASSUME NEW w \in Workers PROVE FreshInv(own, w)'
  <2>1. mJob'.query # NoQuery => taken'[mJob'.queue] = 0
    BY <1>1, <1>2
  <2>2. \A i \in Items : ~(i < 0)
    BY ItemsAreNumbers
  <2> QED
    BY <2>1, <2>2 DEF FreshInv
<1> HIDE DEF H2
<1> QED
  BY <1>5, <1>6, <1>9, <1>10 DEF AnswersInv, Explained

(* The steps that are not commits make no job and no queue. *)
LEMMA MadeKept ==
  ASSUME NEW H, Made(H), mJob' = mJob, Len(taken') = Len(taken),
         \A v \in Workers : job'[v] \in {job[v], NoJob, mJob}
  PROVE  Made(H)'
<1>1. \A v \in Workers : job'[v] \in H
  BY DEF Made
<1> QED
  BY <1>1 DEF Made

(* A worker is told of a job by the main thread only, and forgets it only  *)
(* by loading it or by ending.                                             *)
LEMMA WorkerNews ==
  ASSUME Inv, NEW w \in Workers, WorkerStep(w) \/ Abort(w),
         NEW v \in Workers
  PROVE  /\ Alive(v)' => Alive(v)
         /\ "kJob" \in events'[v] => "kJob" \in events[v]
         /\ wpc'[v] \in {"load", "reload"} =>
              wpc[v] \in {"load", "reload"} \/ "kJob" \in events[v]
         /\ \/ job'[v] = job[v]
            \/ wpc[v] \in {"load", "reload"} /\ job'[v] = mJob
            \/ ~Alive(v)' /\ job'[v] = NoJob
<1> USE DEF Inv, TypeOK, Alive, localVars
<1>1. CASE Wait(w) \/ Poll(w)
  BY <1>1 DEF Wait, Poll, Exit, Goto
<1>2. CASE Abort(w)
  BY <1>2 DEF Abort, Exit, Goto
<1>3. CASE LoadNewJob(w) \/ LoadSameJob(w)
  BY <1>3 DEF LoadNewJob, LoadSameJob, Goto
<1>4. CASE Take(w) \/ EndMerge(w) \/ Publish(w)
  BY <1>4 DEF Take, EndMerge, Publish, Goto
<1>5. CASE MergeChild(w)
  BY <1>5 DEF MergeChild, Goto
<1>6. CASE MergeGarbage(w)
  BY <1>6 DEF MergeGarbage, Goto
<1>7. CASE Notify(w)
  <2>1. wpc[w] = "notify" /\ job' = job
        /\ wpc' = [wpc EXCEPT ![w] = "wait"]
    BY <1>7 DEF Notify, Goto
  <2>2. \/ events' = events
        \/ events' = [events EXCEPT ![Parent[w]] = @ \union {"kMerge"}]
    BY <1>7 DEF Notify
  <2>3. events'[v] \in {events[v], events[v] \union {"kMerge"}}
    BY <2>2
  <2>4. "kJob" \in events'[v] => "kJob" \in events[v]
    BY <2>3
  <2> QED
    BY <2>1, <2>4
<1> QED
  BY <1>1, <1>2, <1>3, <1>4, <1>5, <1>6, <1>7 DEF WorkerStep

LEMMA NewsKept ==
  ASSUME PoolInv, Next, mJob' = mJob, NEW v \in Workers,
         Alive(v)', NewJob(v)',
         mpc' = "post" \/ "kJob" \in events'[v]
           \/ wpc'[v] \in {"load", "reload"}
  PROVE  /\ Alive(v) /\ NewJob(v)
         /\ mpc = "post" \/ "kJob" \in events[v]
              \/ wpc[v] \in {"load", "reload"}
<1> USE DEF PoolInv
<1>1. ASSUME NEW w \in Workers, WorkerStep(w) \/ Abort(w)
      PROVE  /\ Alive(v) /\ NewJob(v)
             /\ mpc = "post" \/ "kJob" \in events[v]
                  \/ wpc[v] \in {"load", "reload"}
  <2>1. mpc' = mpc
    BY <1>1, WorkerFrame
  <2>2. job'[v] = job[v]
    BY <1>1, WorkerNews, Numbers DEF NewJob, Inv
  <2> QED
    BY <1>1, <2>1, <2>2, WorkerNews DEF NewJob
<1>2. CASE PushItem \/ ConsumeWakeup \/ Stop \/ LoadResults \/ PostStop
  <2>1. wpc' = wpc /\ job' = job /\ mpc' # "post"
    BY <1>2 DEF PushItem, ConsumeWakeup, Stop, LoadResults, PostStop,
                PostNext, localVars
  <2>2. "kJob" \in events'[v] => "kJob" \in events[v]
    <3>1. \/ events' = events
          \/ events' = [events EXCEPT ![next] = @ \union {"kStop"}]
      BY <1>2 DEF PushItem, ConsumeWakeup, Stop, LoadResults, PostStop,
                  PostNext
    <3>2. events'[v] \in {events[v], events[v] \union {"kStop"}}
      BY <3>1 DEF Inv, TypeOK
    <3> QED
      BY <3>2
  <2>3. Alive(v) /\ NewJob(v)
    BY <2>1 DEF NewJob, Alive
  <2> QED
    BY <2>1, <2>2, <2>3
<1>3. CASE PostJob
  BY <1>3 DEF PostJob, NewJob, Alive, localVars
<1>4. CASE JoinWorkers
  BY <1>4 DEF JoinWorkers, Alive
<1>5. ASSUME NEW n \in 0..NumWorkers, Start(n) PROVE FALSE
  <2>1. /\ mpc' = "idle" /\ wpc'[v] \in {"wait", "unstarted"}
        /\ events' = events /\ ~mRunning /\ mpc = "idle"
    BY <1>5 DEF Start
  <2>2. events[v] = {}
    BY <2>1 DEF RunInv, NoWorkers, WorkerInv, IdleInv
  <2> QED
    BY <2>1, <2>2
<1>6. CASE Commit \/ ClearQuery \/ \E t \in Texts : SetQuery(t)
  BY <1>6, CommitIsNewer, Numbers DEF Inv, Older
<1> QED
  BY <1>1, <1>2, <1>3, <1>4, <1>5, <1>6 DEF Next, MainStep, Request

(* The owners and the queues are as they were. *)
LEMMA FreshKept ==
  ASSUME PoolInv, Next, mJob' = mJob, taken' = taken, NEW v \in Workers,
         NEW own, FreshInv(own, v)
  PROVE  FreshInv(own, v)'
BY NewsKept DEF FreshInv

-----------------------------------------------------------------------------
(* The steps of the main thread                                            *)

LEMMA MainExplained ==
  ASSUME PoolInv, NEW H \in SUBSET JobRecord, NEW own \in Owners,
         Explained(H, own),
         \/ MainStep \/ PushItem \/ Stop
         \/ \E n \in 0..NumWorkers : Start(n)
  PROVE  AnswersInv'
<1> USE DEF PoolInv
<1>1. Next /\ mJob' = mJob /\ taken' = taken
      /\ UNCHANGED <<job, out, merged, done>>
  BY DEF Next, MainStep, Request, PostJob, PostStop, JoinWorkers,
         ConsumeWakeup, LoadResults, PushItem, Stop, Start, mainVars,
         localVars
<1>2. Made(H)'
  BY <1>1, MadeKept DEF Explained
<1>3. ASSUME NEW v \in Workers PROVE FreshInv(own, v)'
  BY <1>1, <1>3, FreshKept DEF Explained
<1>4. ASSUME NEW v \in Workers PROVE FoundInv(H, own, v)'
  <2>1. published'[v] \in {published[v], NoResults}
        /\ seen'[v] \in {seen[v], published[v], NoResults}
    BY DEF MainStep, PostJob, PostStop, JoinWorkers, ConsumeWakeup,
           LoadResults, PushItem, Stop, Start, Inv, TypeOK
  <2>2. /\ FoundInv(H, own, v)
        /\ AnswersSome(H, own, taken, NoResults, v)
    BY EmptyAnswers DEF Explained, Made
  <2>3. /\ AnswersSome(H, own, taken, published'[v], v)
        /\ AnswersSome(H, own, taken, seen'[v], v)
    BY <2>1, <2>2 DEF FoundInv
  <2>4. Mine(v)' = Mine(v)
    BY <1>1 DEF Mine
  <2> QED
    BY <1>1, <2>2, <2>3, <2>4 DEF FoundInv
<1> QED
  BY <1>2, <1>3, <1>4 DEF AnswersInv, Explained

-----------------------------------------------------------------------------
(* The steps of a worker                                                   *)

LEMMA SeenExplained ==
  ASSUME PoolInv, NEW H, NEW own, NEW w \in Workers,
         WorkerStep(w) \/ Abort(w), NEW v \in Workers, FoundInv(H, own, v)
  PROVE  /\ AnswersSome(H, own, taken, seen'[v], v)
         /\ v # w => /\ published'[v] = published[v] /\ out'[v] = out[v]
                     /\ job'[v] = job[v] /\ done'[v] = done[v]
                     /\ Mine(v)' = Mine(v) /\ merged'[v] = merged[v]
<1>1. seen'[v] \in {seen[v], published[v]}
  BY WorkerFrame DEF PoolInv
<1>2. v # w => UNCHANGED <<published[v], out[v], job[v], done[v], merged[v]>>
  BY WorkerFrame DEF PoolInv
<1> QED
  BY <1>1, <1>2 DEF FoundInv, Mine

(* A worker that ends, waits, tells its parent or gives up merging holds   *)
(* what it held, or nothing.                                               *)
LEMMA IdleStepsExplained ==
  ASSUME PoolInv, NEW H, NEW own, Explained(H, own), NEW w \in Workers,
         Wait(w) \/ Poll(w) \/ Abort(w) \/ LoadSameJob(w) \/ EndMerge(w)
           \/ Notify(w) \/ MergeGarbage(w)
  PROVE  FoundInv(H, own, w)'
<1> USE DEF PoolInv
<1>1. FoundInv(H, own, w) /\ NoJob \in H
  BY DEF Explained, Made
<1>2. AnswersSome(H, own, taken, seen'[w], w)
  BY <1>1, SeenExplained DEF WorkerStep
<1>3. taken' = taken /\ published'[w] = published[w]
  BY DEF Wait, Poll, Abort, LoadSameJob, EndMerge, Notify, MergeGarbage
<1>4. CASE job'[w] = NoJob /\ out'[w] = NoResults
  BY <1>1, <1>2, <1>3, <1>4, EmptyAnswers DEF FoundInv
<1>5. CASE done'[w]
  BY <1>1, <1>2, <1>3, <1>5 DEF FoundInv
<1>6. CASE UNCHANGED <<job[w], out[w], merged[w], done[w]>>
  <2>1. Mine(w)' = Mine(w)
    BY <1>6 DEF Mine
  <2> QED
    BY <1>1, <1>2, <1>3, <1>6, <2>1 DEF FoundInv
<1>7. CASE LoadSameJob(w)
  <2>1. job[w] = mJob
    BY <1>7, SameJobIsLast
  <2>2. UNCHANGED <<job[w], out[w], merged[w], done[w]>>
    BY <1>7, <2>1 DEF LoadSameJob, Inv, TypeOK
  <2> QED
    BY <1>6, <2>2
<1>8. CASE ~LoadSameJob(w)
  <2>1. \/ job'[w] = NoJob /\ out'[w] = NoResults
        \/ done'[w]
        \/ UNCHANGED <<job[w], out[w], merged[w], done[w]>>
    BY <1>8 DEF Wait, Poll, Abort, EndMerge, Notify, MergeGarbage, Exit,
                localVars, Inv, TypeOK
  <2> QED
    BY <1>4, <1>5, <1>6, <2>1
<1> QED
  BY <1>7, <1>8

LEMMA LoadExplained ==
  ASSUME PoolInv, NEW H, NEW own, Explained(H, own), NEW w \in Workers,
         LoadNewJob(w)
  PROVE  FoundInv(H, own, w)'
<1> USE DEF PoolInv
<1>1. FoundInv(H, own, w) /\ FreshInv(own, w)
  BY DEF Explained
<1>2. AnswersSome(H, own, taken, seen'[w], w)
  BY <1>1, SeenExplained DEF WorkerStep
<1>3. /\ taken' = taken /\ published'[w] = published[w]
      /\ job'[w] = mJob /\ merged'[w] = {}
      /\ \A i \in Items : out'[w].items[i] = 0
  BY DEF LoadNewJob, NoItems, Inv, TypeOK
<1>4. Mine(w)' = {w}
  BY <1>3 DEF Mine
<1>5. Counts(own, taken, out'[w], mJob, {w})
  <2> SUFFICES ASSUME NEW i \in Items, Hit(own, taken, mJob, i, {w})
               PROVE  FALSE
    BY <1>3 DEF Counts
  <2> QED
    BY <1>1 DEF FreshInv, Hit, LoadNewJob, Alive
<1> QED
  BY <1>1, <1>2, <1>3, <1>4, <1>5 DEF FoundInv

(* Results of the same stamps are of the same job, and no worker is below  *)
(* two children: what is merged adds up.                                   *)
LEMMA MergeExplained ==
  ASSUME PoolInv, NEW H \in SUBSET JobRecord, NEW own, Explained(H, own),
         NEW w \in Workers, MergeChild(w)
  PROVE  FoundInv(H, own, w)'
<1> USE DEF PoolInv
<1>1. FoundInv(H, own, w)
  BY DEF Explained
<1>2. AnswersSome(H, own, taken, seen'[w], w)
  BY <1>1, SeenExplained DEF WorkerStep
<1>3. PICK i \in DOMAIN Children[w] :
        LET c == Children[w][i] IN
        /\ ~done[w] /\ i \notin merged[w]
        /\ UNCHANGED <<job, done, published, taken>>
        /\ \/ UNCHANGED <<out, merged>>
           \/ /\ SameTick(published[c], out[w])
              /\ merged'[w] = merged[w] \union {i}
              /\ \A k \in Items : out'[w].items[k] =
                   out[w].items[k] + published[c].items[k]
  BY MergeSteps
<1> DEFINE c == Children[w][i]
<1>4. CASE UNCHANGED <<out, merged>>
  <2>1. Mine(w)' = Mine(w)
    BY <1>4 DEF Mine
  <2> QED
    BY <1>1, <1>2, <1>3, <1>4, <2>1 DEF FoundInv
<1>5. CASE /\ SameTick(published[c], out[w])
           /\ merged'[w] = merged[w] \union {i}
           /\ \A k \in Items : out'[w].items[k] =
                out[w].items[k] + published[c].items[k]
  <2>1. c \in Workers \ {0} /\ Parent[c] = w
    BY ChildrenFacts
  <2>2. Mine(w)' = Mine(w) \union Below(c)
    BY <1>5 DEF Mine
  <2>3. Mine(w) \cap Below(c) = {}
    <3>1. w \notin Below(c)
      BY <2>1, BelowIsHigher, ChildrenFacts, WorkersFacts
    <3>2. ASSUME NEW k \in merged[w]
          PROVE  Below(Children[w][k]) \cap Below(c) = {}
      <4>1. k \in DOMAIN Children[w]
        BY DEF Inv, TypeOK
      <4>2. Children[w][k] # c
        BY <1>3, <4>1, ChildrenFacts
      <4>3. Children[w][k] \in Workers \ {0} /\ Parent[Children[w][k]] = w
        BY <4>1, ChildrenFacts
      <4> QED
        BY <2>1, <4>2, <4>3, SiblingsDisjoint
    <3> QED
      BY <3>1, <3>2 DEF Mine
  <2>4. Counts(own, taken, out[w], job[w], Mine(w))
    BY <1>1, <1>3 DEF FoundInv
  <2>5. Counts(own, taken, published[c], job[w], Below(c))
    <3>1. FoundInv(H, own, c)
      BY <2>1 DEF Explained
    <3>2. PICK j \in H : /\ StampOf(published[c], j)
                         /\ Counts(own, taken, published[c], j, Below(c))
      BY <3>1 DEF FoundInv, AnswersSome
    <3>3. StampOf(out[w], job[w])
      BY <1>3 DEF WorkerInv, StampInv
    <3>4. j.items = job[w].items /\ j.queryTick = job[w].queryTick
      BY <1>5, <3>2, <3>3 DEF SameTick, StampOf
    <3>5. j = job[w] \/ Older(j, job[w]) \/ Older(job[w], j)
      BY DEF Explained, Made
    <3>6. j = job[w]
      <4>1. j.items \in Nat /\ j.queryTick \in Nat
        BY JobRecordFacts
      <4> QED
        BY <3>4, <3>5, <4>1 DEF Older
    <3> QED
      BY <3>2, <3>6
  <2>6. Counts(own, taken, out'[w], job[w], Mine(w) \union Below(c))
    <3> SUFFICES ASSUME NEW k \in Items
                 PROVE  out'[w].items[k] =
                   IF Hit(own, taken, job[w], k, Mine(w) \union Below(c))
                   THEN 1 ELSE 0
      BY DEF Counts
    <3>1. /\ out[w].items[k] =
               IF Hit(own, taken, job[w], k, Mine(w)) THEN 1 ELSE 0
          /\ published[c].items[k] =
               IF Hit(own, taken, job[w], k, Below(c)) THEN 1 ELSE 0
      BY <2>4, <2>5 DEF Counts
    <3>2. Hit(own, taken, job[w], k, Mine(w) \union Below(c))
            <=> \/ Hit(own, taken, job[w], k, Mine(w))
                \/ Hit(own, taken, job[w], k, Below(c))
      BY DEF Hit
    <3>3. ~(/\ Hit(own, taken, job[w], k, Mine(w))
            /\ Hit(own, taken, job[w], k, Below(c)))
      BY <2>3 DEF Hit
    <3> QED
      BY <1>5, <3>1, <3>2, <3>3
  <2> QED
    BY <1>1, <1>2, <1>3, <2>2, <2>6 DEF FoundInv
<1> QED
  BY <1>3, <1>4, <1>5

(* A worker publishes when all the items of its job are taken, and when    *)
(* the results of everybody below it are merged.                           *)
LEMMA PublishExplained ==
  ASSUME PoolInv, NEW H, NEW own, Explained(H, own), NEW w \in Workers,
         Publish(w)
  PROVE  FoundInv(H, own, w)'
<1> USE DEF PoolInv
<1>1. FoundInv(H, own, w) /\ job[w] \in H
  BY DEF Explained, Made
<1>2. AnswersSome(H, own, taken, seen'[w], w)
  BY <1>1, SeenExplained DEF WorkerStep
<1>3. /\ wpc[w] = "publish" /\ ~done[w]
      /\ taken' = taken /\ published'[w] = out[w] /\ done'[w]
  BY DEF Publish, WorkerInv, StageInv, Inv, TypeOK
<1>4. StampOf(out[w], job[w]) /\ out[w].query = job[w].query
  BY <1>3 DEF WorkerInv, StampInv
<1>5. job[w].query # NoQuery => job[w].items <= taken[job[w].queue]
  BY <1>3 DEF WorkerInv, ExhaustedInv
<1>6. Counts(own, taken, out[w], job[w], Below(w))
  <2>1. Counts(own, taken, out[w], job[w], Mine(w))
    BY <1>1, <1>3 DEF FoundInv
  <2>2. CASE job[w].query = NoQuery
    BY <2>1, <2>2 DEF Counts, Hit
  <2>3. CASE job[w].query # NoQuery
    <3>1. merged[w] = DOMAIN Children[w]
      BY <1>3, <2>3 DEF WorkerInv, StageInv, AllMerged
    <3>2. Mine(w) = Below(w)
      BY <3>1, BelowSplits DEF Mine, ChildSet
    <3> QED
      BY <2>1, <3>2
  <2> QED
    BY <2>2, <2>3
<1>7. AnswersSome(H, own, taken, out[w], w)
  BY <1>1, <1>4, <1>5, <1>6 DEF AnswersSome
<1> QED
  BY <1>2, <1>3, <1>7 DEF FoundInv

(* The items of a chunk go to the worker that takes it, and to nobody      *)
(* else, and they are all its new answers.                                 *)
LEMMA TakeExplained ==
  ASSUME PoolInv, NEW H \in SUBSET JobRecord, NEW own \in Owners,
         Explained(H, own), NEW w \in Workers, Take(w)
  PROVE  AnswersInv'
<1> USE DEF PoolInv
<1> DEFINE q == job[w].queue
           n == job[w].items
           Chunk(i) == taken[q] <= i /\ i < taken[q] + ChunkSize
<1>0. PICK own2 : own2 = [own EXCEPT ![q] =
                            [i \in Items |-> IF Chunk(i) /\ i < n
                                             THEN w ELSE own[q][i]]]
  OBVIOUS
<1>1. /\ wpc[w] = "take" /\ job[w].query # NoQuery
      /\ q \in 1..Len(taken) /\ taken[q] \in Nat
      /\ taken' = [taken EXCEPT ![q] = @ + ChunkSize]
      /\ taken'[q] = taken[q] + ChunkSize
      /\ UNCHANGED <<job, merged, child, done, published, seen, events, mJob,
                     mpc>>
      /\ \A v \in Workers \ {w} : out'[v] = out[v]
  BY TakeSteps
<1>2. n \in Nat /\ job[w] \in H /\ ~done[w] /\ merged[w] = {}
  BY <1>1, Numbers DEF Explained, Made, WorkerInv, StageInv, Inv
<1>3. /\ Len(taken) \in Nat /\ Len(taken') = Len(taken)
      /\ \A p \in 1..Len(taken) : taken[p] \in Nat
      /\ \A p \in 1..Len(taken) : p # q => taken'[p] = taken[p]
  <2>1. taken \in Seq(Nat) /\ DOMAIN taken = 1..Len(taken)
        /\ Len(taken) \in Nat
    BY LenProperties DEF Inv, TypeOK
  <2>2. taken' \in Seq(Nat)
    BY NextInv DEF Next, WorkerStep, Inv, TypeOK
  <2> QED
    BY <1>1, <2>1, <2>2, LenProperties, ElementOfSeq
<1>4. own2 \in Owners
  BY <1>0, <1>1 DEF Owners
<1>5. /\ \A i \in Items : own2[q][i] = IF Chunk(i) /\ i < n THEN w
                                                           ELSE own[q][i]
      /\ \A p \in Nat \ {q} : own2[p] = own[p]
  BY <1>0, <1>1 DEF Owners
<1>6. Grows(own, taken, own2, taken')
  <2>1. \A i \in Items : i < taken[q] => own2[q][i] = own[q][i]
    BY <1>1, <1>5, ItemsAreNumbers
  <2> QED
    BY <1>1, <1>3, <1>5, <2>1, PoolAssumption DEF Grows
<1>7. Made(H)'
  BY <1>1, <1>3, MadeKept DEF Explained
<1>8. /\ \A a \in H : a.query # NoQuery => a.queue \in 1..Len(taken)
      /\ \A a \in H : a.query # NoQuery /\ a.queue = q => a = job[w]
  BY <1>1, <1>2 DEF Explained, Made
<1>9. ASSUME NEW v \in Workers
      PROVE  /\ AnswersSome(H, own2, taken', published[v], v)
             /\ AnswersSome(H, own2, taken', seen[v], v)
  BY <1>3, <1>6, <1>8, AnswersKept DEF Explained, FoundInv
<1>10. ASSUME NEW v \in Workers, v # w, ~done[v]
       PROVE  Counts(own2, taken', out[v], job[v], Mine(v))
  <2>1. /\ Counts(own, taken, out[v], job[v], Mine(v))
        /\ job[v] \in H
    BY <1>10 DEF Explained, FoundInv, Made
  <2>2. CASE job[v].query = NoQuery
    BY <2>1, <2>2 DEF Counts, Hit
  <2>3. CASE job[v].query # NoQuery /\ job[v].items <= taken[job[v].queue]
    BY <1>6, <1>8, <2>1, <2>3, CountsKept
  <2>4. CASE job[v].query # NoQuery /\ ~(job[v].items <= taken[job[v].queue])
    <3>1. merged[v] = {}
      BY <2>4 DEF WorkerInv, ExhaustedInv, StageInv, IdleInv, Alive
    <3>2. Mine(v) = {v}
      BY <3>1 DEF Mine
    <3>3. CASE job[v].queue # q
      <4>1. job[v].queue \in 1..Len(taken)
        BY <1>8, <2>1, <2>4
      <4>2. /\ taken'[job[v].queue] = taken[job[v].queue]
            /\ own2[job[v].queue] = own[job[v].queue]
        BY <1>3, <1>5, <3>3, <4>1
      <4> QED
        BY <2>1, <4>2 DEF Counts, Hit
    <3>4. CASE job[v].queue = q
      <4>1. job[v] = job[w]
        BY <1>8, <2>1, <2>4, <3>4
      <4> SUFFICES ASSUME NEW i \in Items
                   PROVE  Hit(own, taken, job[v], i, {v})
                            <=> Hit(own2, taken', job[v], i, {v})
        BY <2>1, <3>2 DEF Counts
      <4>2. i \in Nat
        BY ItemsAreNumbers
      <4>3. i < n /\ own2[q][i] = v =>
              ~Chunk(i) /\ own[q][i] = v
        BY <1>5, <1>10
      <4>4. i < n /\ i < taken[q] =>
              i < taken'[q] /\ own2[q][i] = own[q][i]
        BY <1>1, <1>5, <4>2, PoolAssumption
      <4> QED
        BY <1>1, <4>1, <4>2, <4>3, <4>4 DEF Hit
    <3> QED
      BY <3>3, <3>4
  <2> QED
    BY <2>2, <2>3, <2>4
<1>11. Counts(own2, taken', out'[w], job[w], {w})
  <2>1. Counts(own, taken, out[w], job[w], {w})
    <3>1. Mine(w) = {w}
      BY <1>2 DEF Mine
    <3> QED
      BY <1>2, <3>1 DEF Explained, FoundInv
  <2> SUFFICES ASSUME NEW i \in Items
               PROVE  out'[w].items[i] =
                        IF Hit(own2, taken', job[w], i, {w}) THEN 1 ELSE 0
    BY DEF Counts
  <2>2. out[w].items[i] = IF Hit(own, taken, job[w], i, {w}) THEN 1 ELSE 0
    BY <2>1 DEF Counts
  <2>3. i \in Nat
    BY ItemsAreNumbers
  <2>4. CASE Chunk(i) /\ i < n
    <3>1. ~Hit(own, taken, job[w], i, {w})
      BY <1>1, <2>3, <2>4 DEF Hit
    <3>2. Hit(own2, taken', job[w], i, {w})
            <=> i \in Matches[job[w].query.text]
      BY <1>1, <1>5, <2>4 DEF Hit
    <3>3. out'[w].items[i] = out[w].items[i] +
            IF i \in Matches[job[w].query.text] THEN 1 ELSE 0
      BY <1>1, <1>2, <2>3, <2>4, TakeSteps
    <3> QED
      BY <2>2, <3>1, <3>2, <3>3
  <2>5. CASE ~(Chunk(i) /\ i < n)
    <3>1. Hit(own2, taken', job[w], i, {w})
            <=> Hit(own, taken, job[w], i, {w})
      <4>1. CASE ~(i < n)
        BY <4>1 DEF Hit
      <4>2. CASE i < taken[q]
        <5>1. i < taken'[q]
          BY <1>1, <2>3, <4>2, PoolAssumption
        <5>2. own2[q][i] = own[q][i]
          BY <1>5, <2>5
        <5> QED
          BY <4>2, <5>1, <5>2 DEF Hit
      <4>3. CASE i < n /\ ~(i < taken[q])
        <5>1. ~(i < taken'[q])
          BY <1>1, <2>3, <2>5, <4>3
        <5> QED
          BY <4>3, <5>1 DEF Hit
      <4> QED
        BY <4>1, <4>2, <4>3
    <3>2. out'[w].items[i] = out[w].items[i]
      <4>1. out[w].items[i] \in Nat
        BY <2>2
      <4> QED
        BY <2>5, <4>1, TakeSteps
    <3> QED
      BY <2>2, <3>1, <3>2
  <2> QED
    BY <2>4, <2>5
<1>12. ASSUME NEW v \in Workers PROVE FoundInv(H, own2, v)'
  <2>1. Mine(v)' = Mine(v) /\ (v = w => Mine(v) = {w})
    BY <1>1, <1>2 DEF Mine
  <2> QED
    BY <1>1, <1>9, <1>10, <1>11, <2>1 DEF FoundInv
<1>13. ASSUME NEW v \in Workers PROVE FreshInv(own2, v)'
  <2> SUFFICES ASSUME Alive(v)', NewJob(v)', mJob.query # NoQuery,
                      mpc' = "post" \/ "kJob" \in events'[v]
                        \/ wpc'[v] \in {"load", "reload"},
                      NEW i \in Items, i < mJob.items,
                      i < taken'[mJob.queue], own2[mJob.queue][i] = v
               PROVE  FALSE
    BY <1>1 DEF FreshInv
  <2>1. /\ Alive(v) /\ NewJob(v)
        /\ mpc = "post" \/ "kJob" \in events[v]
             \/ wpc[v] \in {"load", "reload"}
    BY <1>1, NewsKept DEF Next, WorkerStep
  <2>2. i < taken[mJob.queue] => own[mJob.queue][i] # v
    BY <2>1 DEF Explained, FreshInv
  <2>3. mJob \in H /\ mJob.queue \in 1..Len(taken)
    BY <1>8 DEF Explained, Made
  <2>4. CASE mJob.queue # q
    BY <1>3, <1>5, <2>2, <2>3, <2>4
  <2>5. CASE mJob.queue = q
    <3>1. mJob = job[w]
      BY <1>8, <2>3, <2>5
    <3>2. v # w
      BY <2>1, <3>1, Numbers DEF NewJob, Inv
    <3>3. ~Chunk(i)
      BY <1>5, <2>5, <3>1, <3>2
    <3>4. own[q][i] = v
      BY <1>5, <2>5, <3>1, <3>3
    <3> QED
      BY <1>1, <2>2, <2>5, <3>3, <3>4, ItemsAreNumbers
  <2> QED
    BY <2>4, <2>5
<1> QED
  BY <1>4, <1>7, <1>12, <1>13 DEF AnswersInv, Explained

-----------------------------------------------------------------------------
(* The theorems                                                            *)

LEMMA NextAnswers ==
  ASSUME PoolInv, AnswersInv, [Next]_vars
  PROVE  AnswersInv'
<1>1. PICK H \in SUBSET JobRecord, own \in Owners : Explained(H, own)
  BY DEF AnswersInv
<1>2. CASE Commit \/ ClearQuery \/ \E t \in Texts : SetQuery(t)
  BY <1>1, <1>2, CommitExplained
<1>3. CASE \/ MainStep \/ PushItem \/ Stop
           \/ \E n \in 0..NumWorkers : Start(n)
  BY <1>1, <1>3, MainExplained
<1>4. ASSUME NEW w \in Workers, WorkerStep(w) \/ Abort(w), ~Take(w)
      PROVE  AnswersInv'
  <2>1. Next /\ taken' = taken /\ mJob' = mJob
    <3>1. taken' = taken
      BY <1>4
         DEF WorkerStep, Wait, Poll, LoadNewJob, LoadSameJob, MergeChild,
             MergeGarbage, EndMerge, Publish, Notify, Abort
    <3>2. Next
      BY <1>4 DEF Next
    <3>3. mJob' = mJob
      BY <1>4, WorkerFrame DEF PoolInv
    <3> QED
      BY <3>1, <3>2, <3>3
  <2>2. Made(H)'
    <3>1. \A v \in Workers : job'[v] \in {job[v], NoJob, mJob}
      BY <1>4, WorkerNews DEF PoolInv
    <3> QED
      BY <1>1, <2>1, <3>1, MadeKept DEF Explained
  <2>3. ASSUME NEW v \in Workers PROVE FreshInv(own, v)'
    BY <1>1, <2>1, FreshKept DEF Explained
  <2>4. ASSUME NEW v \in Workers PROVE FoundInv(H, own, v)'
    <3>1. CASE v # w
      <4>1. FoundInv(H, own, v)
        BY <1>1 DEF Explained
      <4> QED
        BY <1>4, <2>1, <3>1, <4>1, SeenExplained DEF FoundInv
    <3>2. CASE v = w
      BY <1>1, <1>4, <3>2, IdleStepsExplained, LoadExplained, MergeExplained,
         PublishExplained DEF WorkerStep
    <3> QED
      BY <3>1, <3>2
  <2>5. Explained(H, own)'
    BY <2>2, <2>3, <2>4 DEF Explained
  <2> QED
    BY <1>1, <2>5 DEF AnswersInv
<1>5. ASSUME NEW w \in Workers, Take(w) PROVE AnswersInv'
  BY <1>1, <1>5, TakeExplained
<1>6. CASE UNCHANGED vars
  <2>1. Explained(H, own)'
    BY <1>1, <1>6
       DEF Explained, Made, FoundInv, FreshInv, Mine, Alive, NewJob, vars,
           mainVars, localVars
  <2> QED
    BY <1>1, <2>1 DEF AnswersInv
<1> QED
  BY <1>2, <1>3, <1>4, <1>5, <1>6 DEF Next, Request, WorkerStep

LEMMA AnswersInvariance == SafeSpec => []AnswersInv
<1> QED
  BY InitAnswers, NextAnswers, PoolInvariance, PTL DEF SafeSpec

LEMMA RootIsComplete ==
  ASSUME PoolInv, AnswersInv
  PROVE  ResultsComplete
<1>1. PICK H \in SUBSET JobRecord, own \in Owners : Explained(H, own)
  BY DEF AnswersInv
<1>2. /\ AnswersSome(H, own, taken, published[0], 0)
      /\ AnswersSome(H, own, taken, seen[0], 0)
  BY <1>1, WorkersFacts DEF Explained, FoundInv
<1>3. ASSUME NEW r, AnswersSome(H, own, taken, r, 0) PROVE Complete(r)
  <2>1. PICK j \in H : /\ StampOf(r, j) /\ r.query = j.query
                       /\ Counts(own, taken, r, j, Workers)
                       /\ j.query # NoQuery => j.items <= taken[j.queue]
    BY <1>3, EveryoneBelowRoot DEF AnswersSome
  <2>2. j.items \in Nat /\ j.queue \in Nat
    BY JobRecordFacts DEF JobRecord
  <2>3. j.query # NoQuery => taken[j.queue] \in Nat
    <3>1. j.query # NoQuery => j.queue \in 1..Len(taken)
      BY <1>1 DEF Explained, Made
    <3> QED
      BY <3>1, ElementOfSeq DEF PoolInv, Inv, TypeOK
  <2> SUFFICES ASSUME NEW i \in Items
               PROVE  Hit(own, taken, j, i, Workers) <=>
                        /\ r.query # NoQuery /\ i < r.itemsTick
                        /\ i \in Matches[r.query.text]
    BY <2>1 DEF Complete, Counts
  <2>4. own[j.queue][i] \in Workers
    BY <2>2 DEF Owners
  <2> QED
    BY <2>1, <2>2, <2>3, <2>4, ItemsAreNumbers DEF Hit, StampOf
<1> QED
  BY <1>2, <1>3 DEF ResultsComplete

(* Whatever worker 0 publishes, and whatever the front end has loaded of   *)
(* it, holds every matching item of its snapshot exactly once, and no      *)
(* other: for any number of workers, any tree and any chunk size, across   *)
(* jobs abandoned half way, restarts, and threads lost to exceptions.      *)
THEOREM EveryResultIsComplete == SafeSpec => []ResultsComplete
<1> QED
  BY PoolInvariance, AnswersInvariance, RootIsComplete, PTL

(* When the front end is no longer told that it is processing, the list it *)
(* has loaded is the complete answer to the active query over all items.   *)
THEOREM NotProcessingIsAnswered == SafeSpec => []NotProcessingMeansAnswer
<1>1. ResultsComplete => NotProcessingMeansAnswer
  BY DEF ResultsComplete, NotProcessingMeansAnswer, Processing
<1> QED
  BY <1>1, EveryResultIsComplete, PTL

-----------------------------------------------------------------------------
(* When everybody sleeps                                                   *)

(* A commit has reached this pool. *)
Posted ==
  \/ mpc = "post"
  \/ \E v \in Workers : \/ job[v] # NoJob
                        \/ "kJob" \in events[v]
                        \/ wpc[v] \in {"load", "reload"}

(* A worker has the last job, or is going to load it. *)
ToldInv(w) ==
  Posted /\ Alive(w) => \/ job[w] = mJob
                        \/ "kJob" \in events[w]
                        \/ wpc[w] \in {"load", "reload"}
                        \/ mpc = "post" /\ next <= w

(* A result that is to be merged is one the parent is told of, or going to *)
(* look at.                                                                *)
DueInv(p) ==
  \A i \in DOMAIN Children[p] :
    LET c == Children[p][i] IN
    /\ Alive(p) /\ job[p] = mJob /\ job[p].query # NoQuery /\ ~done[p]
    /\ StampOf(published[c], job[p]) /\ i \notin merged[p]
    => \/ "kMerge" \in events[p]
       \/ wpc[c] = "notify"
       \/ wpc[p] \in {"take", "poll", "reload", "load"}
       \/ wpc[p] = "merge" /\ child[p] <= i

(* Nobody sleeps who has merged everything and not published it. *)
WaitInv(w) ==
  wpc[w] = "wait" /\ ~done[w] /\ job[w].query # NoQuery => ~AllMerged(w)

(* The event loop is told of what worker 0 has published. *)
RootInv ==
  published[0] # seen[0] => wakeup \/ mpc = "load" \/ wpc[0] = "notify"

QuietInv ==
  RootInv /\ \A w \in Workers : ToldInv(w) /\ DueInv(w) /\ WaitInv(w)

LEMMA InitQuiet == Init => QuietInv
<1> SUFFICES ASSUME Init PROVE QuietInv
  OBVIOUS
<1>1. RootInv
  BY WorkersFacts DEF Init, RootInv
<1>2. ASSUME NEW w \in Workers PROVE ToldInv(w) /\ DueInv(w) /\ WaitInv(w)
  BY <1>2 DEF Init, ToldInv, DueInv, WaitInv, Alive
<1> QED
  BY <1>1, <1>2 DEF QuietInv

LEMMA RootInvKept ==
  ASSUME PoolInv, RootInv, Next
  PROVE  RootInv'
<1> USE DEF PoolInv, localVars, mainVars
<1>0. 0 \in Workers
  BY WorkersFacts
<1>1. CASE PushItem \/ Stop \/ PostJob \/ PostStop \/ ConsumeWakeup
  BY <1>1 DEF PushItem, Stop, PostJob, PostStop, PostNext, ConsumeWakeup,
              RootInv
<1>2. CASE Commit \/ ClearQuery \/ \E t \in Texts : SetQuery(t)
  BY <1>2 DEF Commit, ClearQuery, SetQuery, RootInv
<1>3. ASSUME NEW n \in 0..NumWorkers, Start(n) PROVE RootInv'
  <2>1. wpc[0] = "none"
    BY <1>0, <1>3 DEF Start, RunInv, NoWorkers
  <2> QED
    BY <1>0, <1>3, <2>1 DEF Start, WorkerInv, IdleInv, RootInv
<1>4. CASE JoinWorkers
  BY <1>0, <1>4 DEF JoinWorkers, RootInv
<1>5. CASE LoadResults
  <2>1. CASE NoWorkers
    <3>1. published[0] = NoResults /\ seen[0] = NoResults
      BY <1>0, <2>1 DEF NoWorkers, WorkerInv, IdleInv
    <3> QED
      BY <1>5, <2>1, <3>1 DEF LoadResults, RootInv
  <2>2. CASE ~NoWorkers
    BY <1>0, <1>5, <2>2 DEF LoadResults, RootInv, Inv, TypeOK
  <2> QED
    BY <2>1, <2>2
<1>6. ASSUME NEW w \in Workers, WorkerStep(w) \/ Abort(w), w # 0
      PROVE  RootInv'
  <2>1. /\ mpc' = mpc /\ wpc'[0] = wpc[0] /\ published'[0] = published[0]
        /\ seen'[0] \in {seen[0], published[0]}
    BY <1>0, <1>6, WorkerFrame
  <2>2. wakeup' = wakeup \/ wakeup'
    BY <1>6 DEF WorkerStep, Wait, Poll, LoadNewJob, LoadSameJob, Take,
                MergeChild, MergeGarbage, EndMerge, Publish, Notify, Abort
  <2> QED
    BY <2>1, <2>2 DEF RootInv
<1>7. CASE WorkerStep(0) \/ Abort(0)
  <2>1. mpc' = mpc /\ seen'[0] \in {seen[0], published[0]}
    BY <1>0, <1>7, WorkerFrame
  <2>2. CASE Publish(0) \/ Notify(0) \/ Abort(0)
    BY <1>0, <2>2 DEF Publish, Notify, Abort, Goto, RootInv, Inv, TypeOK
  <2>3. CASE ~(Publish(0) \/ Notify(0) \/ Abort(0))
    <3>1. /\ wpc[0] # "notify" /\ published'[0] = published[0]
          /\ wakeup' = wakeup
      BY <1>7, <2>3
         DEF WorkerStep, Wait, Poll, LoadNewJob, LoadSameJob, Take,
             MergeChild, MergeGarbage, EndMerge
    <3> QED
      BY <2>1, <3>1 DEF RootInv
  <2> QED
    BY <2>2, <2>3
<1> QED
  BY <1>0, <1>1, <1>2, <1>3, <1>4, <1>5, <1>6, <1>7
     DEF Next, MainStep, Request

(* A worker that is told of a job loads it, unless it ends.                *)
LEMMA NewsAreHeard ==
  ASSUME PoolInv, NEW w \in Workers, WorkerStep(w) \/ Abort(w),
         NEW v \in Workers, Alive(v)'
  PROVE  /\ job[v] = mJob => job'[v] = mJob
         /\ "kJob" \in events[v] =>
              "kJob" \in events'[v] \/ wpc'[v] \in {"load", "reload"}
         /\ wpc[v] \in {"load", "reload"} =>
              wpc'[v] = wpc[v] \/ job'[v] = mJob
<1>1. CASE v # w
  <2>1. job'[v] = job[v] /\ wpc'[v] = wpc[v]
    BY <1>1, WorkerFrame DEF PoolInv
  <2>2. "kJob" \in events[v] => "kJob" \in events'[v]
    BY <1>1 DEF PoolInv, Inv, TypeOK, WorkerStep, Wait, Poll, LoadNewJob,
                LoadSameJob, Take, MergeChild, MergeGarbage, EndMerge,
                Publish, Notify, Abort
  <2> QED
    BY <2>1, <2>2
<1>2. CASE v = w
  <2>1. CASE Wait(w) \/ Poll(w)
    BY <1>2, <2>1 DEF Wait, Poll, Exit, Goto, Alive, localVars, PoolInv, Inv,
                      TypeOK
  <2>2. CASE Abort(w)
    BY <1>2, <2>2 DEF Abort, Exit, Goto, Alive, PoolInv, Inv, TypeOK
  <2>3. CASE LoadNewJob(w) \/ LoadSameJob(w)
    BY <1>2, <2>3 DEF LoadNewJob, LoadSameJob, PoolInv, Inv, TypeOK
  <2>4. CASE \/ Take(w) \/ EndMerge(w) \/ Publish(w) \/ MergeChild(w)
             \/ MergeGarbage(w)
    BY <1>2, <2>4 DEF Take, EndMerge, Publish, MergeChild, MergeGarbage
  <2>5. CASE Notify(w)
    <3>1. wpc[w] = "notify" /\ job' = job
      BY <2>5 DEF Notify, localVars
    <3>2. \/ events' = events
          \/ events' = [events EXCEPT ![Parent[w]] = @ \union {"kMerge"}]
      BY <2>5 DEF Notify
    <3>3. events[v] \subseteq events'[v]
      BY <3>2 DEF PoolInv, Inv, TypeOK
    <3> QED
      BY <1>2, <3>1, <3>3
  <2> QED
    BY <1>2, <2>1, <2>2, <2>3, <2>4, <2>5 DEF WorkerStep
<1> QED
  BY <1>1, <1>2

LEMMA ToldInvKept ==
  ASSUME PoolInv, \A u \in Workers : ToldInv(u), Next, NEW v \in Workers
  PROVE  ToldInv(v)'
<1> SUFFICES ASSUME Posted', Alive(v)'
             PROVE  \/ job'[v] = mJob'
                    \/ "kJob" \in events'[v]
                    \/ wpc'[v] \in {"load", "reload"}
                    \/ mpc' = "post" /\ next' <= v
  BY DEF ToldInv
<1>1. ToldInv(v) /\ v \in Nat /\ v < NumWorkers /\ next \in Workers
  BY PoolAssumption DEF Workers, PoolInv, Inv, TypeOK
<1>2. CASE PushItem \/ ConsumeWakeup \/ Stop \/ LoadResults \/ PostStop
  <2>1. /\ wpc' = wpc /\ job' = job /\ mpc' # "post" /\ mpc # "post"
        /\ mJob' = mJob
    BY <1>2 DEF PushItem, ConsumeWakeup, Stop, LoadResults, PostStop,
                PostNext, localVars
  <2>2. \A u \in Workers : "kJob" \in events'[u] <=> "kJob" \in events[u]
    <3>1. \/ events' = events
          \/ events' = [events EXCEPT ![next] = @ \union {"kStop"}]
      BY <1>2 DEF PushItem, ConsumeWakeup, Stop, LoadResults, PostStop,
                  PostNext
    <3>2. \A u \in Workers :
            events'[u] \in {events[u], events[u] \union {"kStop"}}
      BY <3>1 DEF PoolInv, Inv, TypeOK
    <3> QED
      BY <3>2
  <2>3. Posted /\ Alive(v)
    BY <2>1, <2>2 DEF Posted, Alive
  <2> QED
    BY <1>1, <2>1, <2>2, <2>3 DEF ToldInv
<1>3. CASE PostJob
  <2>1. /\ mpc = "post" /\ wpc' = wpc /\ job' = job /\ mJob' = mJob
        /\ events' = [events EXCEPT ![next] = @ \union {"kJob"}]
        /\ \/ mpc' = mpc /\ next' = next + 1
           \/ next + 1 = NumWorkers
    BY <1>3 DEF PostJob, PostNext, localVars
  <2>2. events[v] \subseteq events'[v] /\ (v = next => "kJob" \in events'[v])
    BY <2>1 DEF PoolInv, Inv, TypeOK
  <2>3. Posted /\ Alive(v)
    BY <2>1 DEF Posted, Alive
  <2>4. CASE mpc = "post" /\ next <= v /\ v # next
    <3>1. next + 1 # NumWorkers /\ next + 1 <= v
      BY <1>1, <2>4, WorkersFacts
    <3> QED
      BY <2>1, <3>1
  <2> QED
    BY <1>1, <2>1, <2>2, <2>3, <2>4 DEF ToldInv
<1>4. CASE JoinWorkers
  BY <1>4 DEF JoinWorkers, Alive
<1>5. ASSUME NEW n \in 0..NumWorkers, Start(n) PROVE FALSE
  <2>1. /\ mpc' = "idle" /\ events' = events /\ job' = job
        /\ \A u \in Workers : wpc'[u] \in {"wait", "unstarted"}
        /\ ~mRunning /\ mpc = "idle"
    BY <1>5 DEF Start, localVars
  <2>2. \A u \in Workers : wpc[u] = "none"
    BY <2>1 DEF PoolInv, RunInv, NoWorkers
  <2>3. \A u \in Workers : events[u] = {} /\ job[u] = NoJob
    BY <2>2 DEF PoolInv, WorkerInv, IdleInv, Alive
  <2> QED
    BY <2>1, <2>3 DEF Posted
<1>6. CASE Commit \/ ClearQuery \/ \E t \in Texts : SetQuery(t)
  <2>1. wpc' = wpc /\ next' = 0
        /\ (mpc' = IF NoWorkers THEN "idle" ELSE "post")
    BY <1>6 DEF Commit, ClearQuery, SetQuery, CommitJob
  <2>2. ~NoWorkers
    BY <2>1 DEF NoWorkers, Alive
  <2> QED
    BY <1>1, <2>1, <2>2
<1>7. ASSUME NEW w \in Workers, WorkerStep(w) \/ Abort(w)
      PROVE  \/ job'[v] = mJob'
             \/ "kJob" \in events'[v]
             \/ wpc'[v] \in {"load", "reload"}
             \/ mpc' = "post" /\ next' <= v
  <2>1. mpc' = mpc /\ next' = next /\ mJob' = mJob
    BY <1>7, WorkerFrame DEF PoolInv
  <2>2. Posted /\ Alive(v)
    <3>1. \A u \in Workers :
            /\ job'[u] # NoJob => job[u] # NoJob
                                    \/ wpc[u] \in {"load", "reload"}
            /\ "kJob" \in events'[u] => "kJob" \in events[u]
            /\ wpc'[u] \in {"load", "reload"} =>
                 wpc[u] \in {"load", "reload"} \/ "kJob" \in events[u]
      BY <1>7, WorkerNews DEF PoolInv
    <3>2. Posted
      BY <2>1, <3>1 DEF Posted
    <3> QED
      BY <1>7, <3>2, WorkerNews DEF PoolInv
  <2> QED
    BY <1>1, <1>7, <2>1, <2>2, NewsAreHeard DEF ToldInv
<1> QED
  BY <1>2, <1>3, <1>4, <1>5, <1>6, <1>7 DEF Next, MainStep, Request

LEMMA DueByOthers ==
  ASSUME PoolInv, NEW w \in Workers, WorkerStep(w) \/ Abort(w),
         NEW p \in Workers, p # w, DueInv(p)
  PROVE  DueInv(p)'
<1> USE DEF PoolInv
<1>1. /\ mJob' = mJob
      /\ UNCHANGED <<wpc[p], job[p], merged[p], child[p], done[p]>>
  BY WorkerFrame
<1>2. "kMerge" \in events[p] => "kMerge" \in events'[p]
  BY DEF Inv, TypeOK, WorkerStep, Wait, Poll, LoadNewJob, LoadSameJob, Take,
         MergeChild, MergeGarbage, EndMerge, Publish, Notify, Abort
<1> SUFFICES ASSUME NEW i \in DOMAIN Children[p],
                    Alive(p), job[p] = mJob, job[p].query # NoQuery, ~done[p],
                    StampOf(published'[Children[p][i]], job[p]),
                    i \notin merged[p]
             PROVE  \/ "kMerge" \in events'[p]
                    \/ wpc'[Children[p][i]] = "notify"
                    \/ wpc[p] \in {"take", "poll", "reload", "load"}
                    \/ wpc[p] = "merge" /\ child[p] <= i
  BY <1>1 DEF DueInv, Alive, StampOf
<1> DEFINE c == Children[p][i]
<1>3. c \in Workers \ {0} /\ Parent[c] = p
  BY ChildrenFacts
<1>4. CASE c # w
  <2>1. published'[c] = published[c] /\ wpc'[c] = wpc[c]
    BY <1>3, <1>4, WorkerFrame
  <2> QED
    BY <1>2, <2>1 DEF DueInv
<1>5. CASE c = w
  <2>1. CASE Publish(w)
    BY <1>3, <1>5, <2>1 DEF Publish, Goto, Inv, TypeOK
  <2>2. CASE Notify(w)
    BY <1>3, <1>5, <2>2 DEF Notify, Inv, TypeOK
  <2>3. CASE ~Publish(w) /\ ~Notify(w)
    <3>1. published'[c] = published[c] /\ wpc[c] # "notify"
      BY <1>5, <2>3 DEF WorkerStep, Wait, Poll, LoadNewJob, LoadSameJob,
                        Take, MergeChild, MergeGarbage, EndMerge, Abort
    <3> QED
      BY <1>2, <3>1 DEF DueInv
  <2> QED
    BY <2>1, <2>2, <2>3
<1> QED
  BY <1>4, <1>5

(* A parent looks at every child after it has handled its events, and      *)
(* after it has taken its last chunk.                                      *)
LEMMA DueByParent ==
  ASSUME PoolInv, NEW p \in Workers, WorkerStep(p) \/ Abort(p), DueInv(p)
  PROVE  DueInv(p)'
<1> USE DEF PoolInv, localVars
<1>1. mJob' = mJob /\ \A v \in Workers \ {p} : /\ wpc'[v] = wpc[v]
                                              /\ published'[v] = published[v]
  BY WorkerFrame
<1> SUFFICES ASSUME NEW i \in DOMAIN Children[p],
                    Alive(p)', job'[p] = mJob, mJob.query # NoQuery, ~done'[p],
                    StampOf(published[Children[p][i]], mJob),
                    i \notin merged'[p]
             PROVE  \/ "kMerge" \in events'[p]
                    \/ wpc[Children[p][i]] = "notify"
                    \/ wpc'[p] \in {"take", "poll", "reload", "load"}
                    \/ wpc'[p] = "merge" /\ child'[p] <= i
  <2>1. \A i \in DOMAIN Children[p] : Children[p][i] \in Workers \ {p}
    BY ChildrenFacts, WorkersFacts
  <2> QED
    BY <1>1, <2>1 DEF DueInv, StampOf
<1> DEFINE c == Children[p][i]
<1>2. c \in Workers \ {0} /\ Parent[c] = p /\ i \in Nat /\ 1 <= i
      /\ i <= Len(Children[p])
  BY ChildrenFacts, TreeAssumption, LenProperties DEF IsTree
<1>3. wpc[p] # "merge" => child[p] <= i
  BY <1>2 DEF WorkerInv, StageInv
<1>4. CASE Wait(p) \/ Poll(p) \/ LoadNewJob(p) \/ LoadSameJob(p) \/ Take(p)
           \/ Abort(p)
  <2>1. \/ wpc'[p] \in {"take", "poll", "reload", "load"}
        \/ /\ wpc[p] # "merge" /\ wpc'[p] = "merge"
           /\ child'[p] = child[p]
    BY <1>4 DEF Wait, Poll, LoadNewJob, LoadSameJob, Take, Abort, Exit, Goto,
                Alive, Inv, TypeOK
  <2> QED
    BY <1>3, <2>1
<1>5. CASE MergeChild(p)
  <2>1. PICK k \in DOMAIN Children[p] :
          LET d == Children[p][k] IN
          /\ wpc[p] = "merge" /\ ~done[p]
          /\ k \in child[p]..Len(Children[p]) /\ k \notin merged[p]
          /\ \A j \in child[p]..Len(Children[p]) :
               j \notin merged[p] => k <= j
          /\ UNCHANGED <<job, events>>
          /\ \/ /\ NewerThan(published[d], out[p])
                /\ UNCHANGED <<out, merged>>
             \/ /\ ~SameTick(published[d], out[p])
                /\ child'[p] = k + 1
                /\ UNCHANGED <<wpc, out, merged>>
             \/ /\ SameTick(published[d], out[p])
                /\ child'[p] = k + 1 /\ wpc' = wpc
                /\ merged'[p] = merged[p] \union {k}
    BY <1>5, MergeSteps
  <2>2. job[p] = mJob /\ StampOf(out[p], mJob) /\ Alive(p)
    BY <2>1 DEF WorkerInv, StampInv, Alive
  <2>3. i \notin merged[p] /\ k \in Nat
    BY <2>1
  <2>4. CASE ~(child[p] <= i)
    BY <2>1, <2>2, <2>3, <2>4 DEF DueInv
  <2>5. CASE child[p] <= i
    <3>1. k <= i
      BY <1>2, <2>1, <2>3, <2>5 DEF Inv, TypeOK
    <3>2. Children[p][k] \in Workers
      BY ChildrenFacts
    <3>3. ~NewerThan(published[Children[p][k]], out[p])
      BY <2>2, <3>2, Numbers
         DEF NewerThan, StampOf, WorkerInv, OrderInv, UpTo, Inv
    <3>4. k # i
      BY <2>1, <2>2, <3>3 DEF SameTick, StampOf
    <3> QED
      BY <1>2, <2>1, <2>3, <3>1, <3>3, <3>4
  <2> QED
    BY <2>4, <2>5
<1>6. CASE EndMerge(p)
  <2>1. /\ wpc[p] = "merge" /\ Missing(p) = {}
        /\ UNCHANGED <<job, done, merged, events>>
    BY <1>6 DEF EndMerge
  <2>2. ~(child[p] <= i)
    <3>1. child[p] \in Nat /\ i \notin merged[p]
      BY <2>1 DEF Inv, TypeOK
    <3> QED
      BY <1>2, <2>1, <3>1 DEF Missing
  <2> QED
    BY <2>1, <2>2 DEF DueInv, Alive
<1>7. CASE MergeGarbage(p) \/ Publish(p) \/ Notify(p)
  <2>1. done'[p]
    BY <1>7 DEF MergeGarbage, Publish, Notify, WorkerInv, StageInv, Inv,
                TypeOK
  <2> QED
    BY <2>1
<1> QED
  BY <1>4, <1>5, <1>6, <1>7 DEF WorkerStep

LEMMA MainKeepsQuiet ==
  ASSUME PoolInv, MainStep \/ Request, NEW p \in Workers,
         DueInv(p), WaitInv(p)
  PROVE  DueInv(p)' /\ WaitInv(p)'
<1> USE DEF PoolInv, localVars
<1>1. CASE \/ PushItem \/ Stop \/ PostJob \/ PostStop \/ ConsumeWakeup
           \/ LoadResults
  <2>1. UNCHANGED <<mJob, wpc, job, merged, child, done, published>>
    BY <1>1 DEF PushItem, Stop, PostJob, PostStop, ConsumeWakeup, LoadResults
  <2>2. "kMerge" \in events[p] => "kMerge" \in events'[p]
    BY <1>1, Zenon
       DEF PushItem, Stop, PostJob, PostStop, PostNext, ConsumeWakeup,
           LoadResults, Inv, TypeOK
  <2>3. DueInv(p)'
    BY <2>1, <2>2 DEF DueInv, StampOf, Alive
  <2> QED
    BY <2>1, <2>3 DEF WaitInv, AllMerged
<1>2. CASE Commit \/ ClearQuery \/ \E t \in Texts : SetQuery(t)
  <2>1. UNCHANGED <<wpc, job, merged, done>>
    BY <1>2 DEF Commit, ClearQuery, SetQuery
  <2>2. job[p] # mJob'
    <3>1. job[p].items <= mJob.items /\ job[p].queryTick <= mJob.queryTick
      BY DEF Inv, CopyInv, Stamped
    <3>2. Older(mJob, mJob')
      BY <1>2, CommitIsNewer DEF Inv
    <3>3. mJob'.items \in Nat /\ mJob'.queryTick \in Nat
      BY <1>2, CommitIsNewer DEF Inv
    <3> QED
      BY <3>1, <3>2, <3>3, Numbers DEF Older, Inv
  <2>3. DueInv(p)'
    BY <2>1, <2>2 DEF DueInv
  <2> QED
    BY <2>1, <2>3 DEF WaitInv, AllMerged
<1>3. CASE JoinWorkers
  BY <1>3 DEF JoinWorkers, DueInv, WaitInv, Alive
<1>4. ASSUME NEW n \in 0..NumWorkers, Start(n)
      PROVE  DueInv(p)' /\ WaitInv(p)'
  <2>1. ~mRunning /\ mpc = "idle" /\ job' = job
    BY <1>4 DEF Start
  <2>2. wpc[p] = "none"
    BY <2>1 DEF RunInv, NoWorkers
  <2>3. job'[p].query = NoQuery
    BY <2>1, <2>2, NoValues DEF WorkerInv, IdleInv, Alive
  <2> QED
    BY <2>3 DEF DueInv, WaitInv
<1> QED
  BY <1>1, <1>2, <1>3, <1>4 DEF MainStep, Request

LEMMA WorkersKeepWait ==
  ASSUME PoolInv, NEW w \in Workers, WorkerStep(w) \/ Abort(w),
         NEW v \in Workers, WaitInv(v)
  PROVE  WaitInv(v)'
<1> USE DEF PoolInv, localVars
<1>1. CASE v # w
  <2>1. UNCHANGED <<wpc[v], job[v], merged[v], done[v]>>
    BY <1>1, WorkerFrame
  <2> QED
    BY <2>1 DEF WaitInv, AllMerged
<1>2. CASE v = w
  <2>1. CASE \/ Wait(w) \/ Poll(w) \/ LoadNewJob(w) \/ LoadSameJob(w)
             \/ Take(w) \/ Publish(w) \/ Abort(w)
    <3>1. wpc'[w] # "wait"
      BY <2>1 DEF Wait, Poll, LoadNewJob, LoadSameJob, Take, Publish, Abort,
                  Exit, Goto, Inv, TypeOK
    <3> QED
      BY <1>2, <3>1 DEF WaitInv
  <2>2. CASE Notify(w) \/ MergeGarbage(w)
    <3>1. done'[w]
      BY <2>2 DEF Notify, MergeGarbage, WorkerInv, StageInv
    <3> QED
      BY <1>2, <3>1 DEF WaitInv
  <2>3. CASE EndMerge(w)
    <3>1. /\ UNCHANGED <<job, merged, done>>
          /\ wpc'[w] = "wait" => ~(AllMerged(w) /\ ~done[w])
      BY <2>3 DEF EndMerge, Goto, Inv, TypeOK
    <3> QED
      BY <1>2, <3>1 DEF WaitInv, AllMerged
  <2>4. CASE MergeChild(w)
    <3>1. PICK i \in DOMAIN Children[w] :
            /\ wpc[w] = "merge" /\ i \notin merged[w]
            /\ \/ UNCHANGED merged
               \/ wpc' = wpc
      BY <2>4, MergeSteps
    <3> QED
      BY <1>2, <3>1 DEF WaitInv, AllMerged
  <2> QED
    BY <2>1, <2>2, <2>3, <2>4 DEF WorkerStep
<1> QED
  BY <1>1, <1>2

LEMMA NextQuiet ==
  ASSUME PoolInv, QuietInv, [Next]_vars
  PROVE  QuietInv'
<1>1. CASE Next
  <2>1. RootInv' /\ \A v \in Workers : ToldInv(v)'
    BY <1>1, RootInvKept, ToldInvKept DEF QuietInv
  <2>2. ASSUME NEW v \in Workers PROVE DueInv(v)' /\ WaitInv(v)'
    <3>1. CASE MainStep \/ Request
      BY <3>1, MainKeepsQuiet DEF QuietInv
    <3>2. ASSUME NEW w \in Workers, WorkerStep(w) \/ Abort(w)
          PROVE  DueInv(v)' /\ WaitInv(v)'
      BY <3>2, DueByOthers, DueByParent, WorkersKeepWait DEF QuietInv
    <3> QED
      BY <1>1, <3>1, <3>2 DEF Next
  <2> QED
    BY <2>1, <2>2 DEF QuietInv
<1>2. CASE UNCHANGED vars
  <2>1. RootInv'
    BY <1>2 DEF QuietInv, RootInv, vars, mainVars
  <2>2. ASSUME NEW v \in Workers
        PROVE  ToldInv(v)' /\ DueInv(v)' /\ WaitInv(v)'
    BY <1>2 DEF QuietInv, ToldInv, DueInv, WaitInv, Posted, Alive, StampOf,
                AllMerged, vars, mainVars, localVars
  <2> QED
    BY <2>1, <2>2 DEF QuietInv
<1> QED
  BY <1>1, <1>2

LEMMA QuietInvariance == SafeSpec => []QuietInv
<1> QED
  BY InitQuiet, NextQuiet, PoolInvariance, PTL DEF SafeSpec

(* The last worker that has not published has no child that has not, so    *)
(* there is nothing left for it to wait for.                               *)
LEMMA SleepersHavePublished ==
  ASSUME PoolInv, QuietInv, Asleep, mJob # NoJob,
         \A w \in Workers : job[w] = mJob
  PROVE  \A w \in Workers : done[w]
<1> USE DEF PoolInv
<1> DEFINE S == {n \in Nat : \E v \in Workers : ~done[v] /\ n + v = NumWorkers}
<1> SUFFICES ASSUME NEW u \in Workers, ~done[u] PROVE FALSE
  OBVIOUS
<1>1. NumWorkers - u \in S
  BY PoolAssumption DEF Workers
<1>2. PICK n \in S : \A k \in S : n <= k
  <2> HIDE DEF S
  <2> QED
    BY <1>1, LeastNumber DEF S
<1>3. PICK w \in Workers : ~done[w] /\ n + w = NumWorkers
  OBVIOUS
<1>4. \A c \in Workers : w < c => done[c]
  <2> SUFFICES ASSUME NEW c \in Workers, w < c, ~done[c] PROVE FALSE
    OBVIOUS
  <2>1. NumWorkers - c \in S
    BY PoolAssumption DEF Workers
  <2>2. n <= NumWorkers - c
    BY <1>2, <2>1
  <2> QED
    BY <1>3, <2>2, WorkersFacts, PoolAssumption
<1>5. wpc[w] = "wait" /\ events[w] = {} /\ job[w] = mJob
  BY DEF Asleep
<1>6. mJob.query # NoQuery
  BY <1>3, <1>5 DEF WorkerInv, StageInv
<1>7. ASSUME NEW i \in DOMAIN Children[w] PROVE i \in merged[w]
  <2>1. Children[w][i] \in Workers /\ done[Children[w][i]]
    BY <1>4, ChildrenFacts
  <2>2. /\ StampOf(published[Children[w][i]], mJob)
        /\ wpc[Children[w][i]] = "wait"
    BY <2>1 DEF WorkerInv, StampInv, Asleep
  <2> QED
    BY <1>3, <1>5, <1>6, <2>2 DEF QuietInv, DueInv, Alive
<1>8. merged[w] \subseteq DOMAIN Children[w]
  BY DEF Inv, TypeOK
<1> QED
  BY <1>3, <1>5, <1>6, <1>7, <1>8 DEF QuietInv, WaitInv, AllMerged

(* When the main thread has posted its events and every worker sleeps      *)
(* without one, the job is answered, and the event loop was told of the    *)
(* answer or has it: no notification is lost between the workers of any    *)
(* tree, whatever order they wake up and publish in.                       *)
THEOREM SleepMeansAnswered == SafeSpec => []QuiescentMeansAnswered
<1>1. ASSUME PoolInv, QuietInv PROVE QuiescentMeansAnswered
  <2> SUFFICES ASSUME mpc \in {"idle", "load"}, Asleep,
                      NEW u \in Workers, job[u] # NoJob
               PROVE  /\ \A w \in Workers : job[w] = mJob
                      /\ published[0].itemsTick = mJob.items
                      /\ published[0].query = mJob.query
                      /\ seen[0] = published[0] \/ wakeup \/ mpc = "load"
    BY DEF QuiescentMeansAnswered
  <2>1. \A w \in Workers : job[w] = mJob
    BY <1>1 DEF QuietInv, ToldInv, Posted, Alive, Asleep
  <2>2. \A w \in Workers : done[w]
    BY <1>1, <2>1, SleepersHavePublished
  <2>3. StampOf(published[0], mJob) /\ wpc[0] = "wait"
    BY <1>1, <2>1, <2>2, WorkersFacts DEF PoolInv, WorkerInv, StampInv, Asleep
  <2>4. published[0].query = mJob.query
    BY <1>1, <2>3, WorkersFacts
       DEF PoolInv, Inv, ResultsInv, Stamped, StampOf
  <2> QED
    BY <1>1, <2>1, <2>3, <2>4 DEF StampOf, QuietInv, RootInv
<1> QED
  BY <1>1, PoolInvariance, QuietInvariance, PTL

-----------------------------------------------------------------------------
(* The jobs made so far                                                    *)

(* Jobs are in the order of their stamps, and none has the stamp zero. *)
Ordered(js) ==
  /\ js \in Seq(JobRecord)
  /\ \A n \in 1..Len(js) : Older(NoJob, js[n])
  /\ \A m, n \in 1..Len(js) : m < n => Older(js[m], js[n])

(* JobAnswered, for any sequence of jobs. *)
AnswersIn(js, n, r) ==
  /\ r.itemsTick = js[n].items
  /\ r.queryTick = js[n].queryTick
  /\ r.query = js[n].query
  /\ Complete(r)

NumberOf(js, r) ==
  IF r = NoResults THEN 0
  ELSE IF \E n \in DOMAIN js : AnswersIn(js, n, r)
  THEN CHOOSE n \in DOMAIN js : AnswersIn(js, n, r)
  ELSE -1

(* The results r are those of a job, or of none. *)
OfJob(js, r) ==
  \/ r = NoResults
  \/ \E n \in 1..Len(js) : StampOf(r, js[n]) /\ r.query = js[n].query

LEMMA NumberOfNone == \A js : NumberOf(js, NoResults) = 0
BY DEF NumberOf

(* Stamps tell jobs apart, so the number of the job is the only one. *)
LEMMA NumberOfJob ==
  ASSUME NEW js, Ordered(js), NEW n \in 1..Len(js), NEW r, Complete(r),
         StampOf(r, js[n]), r.query = js[n].query
  PROVE  r # NoResults /\ NumberOf(js, r) = n
<1>1. /\ DOMAIN js = 1..Len(js) /\ Len(js) \in Nat
      /\ \A m \in 1..Len(js) : /\ js[m] \in JobRecord
                               /\ js[m].items \in Nat
                               /\ js[m].queryTick \in Nat
  BY LenProperties, ElementOfSeq, JobRecordFacts DEF Ordered
<1>2. r # NoResults
  BY <1>1 DEF Ordered, Older, NoJob, NoResults, StampOf
<1>3. AnswersIn(js, n, r)
  BY DEF AnswersIn, StampOf
<1>4. ASSUME NEW m \in DOMAIN js, AnswersIn(js, m, r) PROVE m = n
  <2>1. js[m].items = js[n].items /\ js[m].queryTick = js[n].queryTick
    BY <1>3, <1>4 DEF AnswersIn
  <2>2. ~Older(js[m], js[n]) /\ ~Older(js[n], js[m])
    BY <1>1, <2>1 DEF Older
  <2> QED
    BY <1>1, <2>2 DEF Ordered
<1> QED
  BY <1>1, <1>2, <1>3, <1>4 DEF NumberOf

(* A job more changes no number. *)
LEMMA AppendKeepsNumber ==
  ASSUME NEW js, Ordered(js), NEW j \in JobRecord, Ordered(Append(js, j)),
         NEW r, Complete(r), OfJob(js, r)
  PROVE  /\ OfJob(Append(js, j), r)
         /\ NumberOf(Append(js, j), r) = NumberOf(js, r)
<1>1. CASE r = NoResults
  BY <1>1, NumberOfNone DEF OfJob
<1>2. ASSUME NEW n \in 1..Len(js), StampOf(r, js[n]), r.query = js[n].query
      PROVE  /\ OfJob(Append(js, j), r)
             /\ NumberOf(Append(js, j), r) = NumberOf(js, r)
  <2>1. /\ Append(js, j)[n] = js[n]
        /\ n \in 1..Len(Append(js, j))
    BY AppendProperties, LenProperties DEF Ordered
  <2>2. NumberOf(js, r) = n
    BY <1>2, NumberOfJob
  <2> DEFINE more == Append(js, j)
  <2>3. StampOf(r, more[n]) /\ r.query = more[n].query
    BY <1>2, <2>1
  <2> HIDE DEF more
  <2>4. NumberOf(more, r) = n
    BY <2>1, <2>3, NumberOfJob DEF more
  <2> QED
    BY <2>1, <2>2, <2>3, <2>4 DEF OfJob, more
<1> QED
  BY <1>1, <1>2 DEF OfJob

LEMMA NumberIsNat ==
  ASSUME NEW js, Ordered(js), NEW r, Complete(r), OfJob(js, r)
  PROVE  NumberOf(js, r) \in 0..Len(js)
<1>1. Len(js) \in Nat
  BY LenProperties DEF Ordered
<1> QED
  BY <1>1, NumberOfNone, NumberOfJob DEF OfJob

-----------------------------------------------------------------------------
(* The invariant                                                           *)

HistoryInv ==
  /\ Ordered(jobs)
  /\ jobs = <<>> => mJob = NoJob
  /\ jobs # <<>> => mJob = jobs[Len(jobs)]

(* Worker 0 has one of those jobs, its results and those loaded are of     *)
(* them, and what it publishes next is newer than what it published last.  *)
MasterInv ==
  /\ job[0] = NoJob \/ \E n \in 1..Len(jobs) : job[0] = jobs[n]
  /\ OfJob(jobs, published[0])
  /\ OfJob(jobs, seen[0])
  /\ ~done[0] /\ job[0] # NoJob =>
       \/ published[0].itemsTick < job[0].items
       \/ published[0].queryTick < job[0].queryTick

EngineInv == HistoryInv /\ MasterInv

LEMMA InitEngineInv == InitEngine => EngineInv
<1> SUFFICES ASSUME InitEngine PROVE EngineInv
  OBVIOUS
<1>1. jobs = <<>> /\ mJob = NoJob
  BY DEF InitEngine, Init
<1>2. Ordered(jobs)
  <2>1. jobs \in Seq(JobRecord) /\ Len(jobs) = 0
    BY <1>1, EmptySeq
  <2> QED
    BY <2>1 DEF Ordered
<1>3. job[0] = NoJob /\ published[0] = NoResults /\ seen[0] = NoResults
  BY WorkersFacts DEF InitEngine, Init
<1> QED
  BY <1>1, <1>2, <1>3 DEF EngineInv, HistoryInv, MasterInv, OfJob

-----------------------------------------------------------------------------
(* The steps                                                               *)

(* A commit adds a job that is newer than all the others. *)
LEMMA CommitKeepsHistory ==
  ASSUME PoolInv, PoolInv', EngineInv,
         Commit \/ ClearQuery \/ \E t \in Texts : SetQuery(t),
         jobs' = IF mJob' = mJob THEN jobs ELSE Append(jobs, mJob')
  PROVE  /\ mJob' \in JobRecord /\ Older(mJob, mJob')
         /\ jobs' = Append(jobs, mJob')
         /\ HistoryInv'
<1>1. /\ Older(mJob, mJob')
      /\ mJob'.items \in Nat /\ mJob'.queryTick \in Nat
  BY CommitIsNewer DEF PoolInv, Inv
<1>2. mJob' # mJob
  BY <1>1, Numbers DEF Older, PoolInv, Inv
<1>3. mJob' \in JobRecord
  BY DEF PoolInv, Inv, TypeOK, Job, JobRecord
<1>4. jobs' = Append(jobs, mJob')
  BY <1>2
<1>5. /\ jobs \in Seq(JobRecord) /\ Len(jobs) \in Nat
      /\ \A n \in 1..Len(jobs) : /\ jobs[n] \in JobRecord
                                 /\ jobs[n].items \in Nat
                                 /\ jobs[n].queryTick \in Nat
  BY LenProperties, ElementOfSeq, JobRecordFacts
     DEF EngineInv, HistoryInv, Ordered
<1>6. /\ jobs' \in Seq(JobRecord) /\ Len(jobs') = Len(jobs) + 1
      /\ \A n \in 1..Len(jobs) : jobs'[n] = jobs[n]
      /\ jobs'[Len(jobs) + 1] = mJob'
  BY <1>3, <1>4, <1>5, AppendProperties
<1>7. \A n \in 1..Len(jobs) : Older(jobs[n], mJob')
  <2>1. SUFFICES ASSUME NEW n \in 1..Len(jobs) PROVE Older(jobs[n], mJob')
    OBVIOUS
  <2>2. jobs # <<>>
    BY <2>1, EmptySeq
  <2>3. mJob = jobs[Len(jobs)] /\ Len(jobs) \in 1..Len(jobs)
    BY <1>5, <2>1, <2>2 DEF EngineInv, HistoryInv
  <2>4. n = Len(jobs) \/ Older(jobs[n], mJob)
    BY <1>5, <2>1, <2>3 DEF EngineInv, HistoryInv, Ordered
  <2> QED
    BY <1>1, <1>5, <2>1, <2>3, <2>4 DEF Older
<1>8. Older(NoJob, mJob')
  BY <1>1, Numbers DEF Older, NoJob, PoolInv, Inv
<1>9. Ordered(jobs)
  BY DEF EngineInv, HistoryInv
<1>10. Ordered(jobs')
  BY <1>5, <1>6, <1>7, <1>8, <1>9 DEF Ordered
<1>11. jobs' # <<>>
  BY <1>5, <1>6, EmptySeq
<1> QED
  BY <1>1, <1>3, <1>4, <1>6, <1>10, <1>11 DEF HistoryInv

LEMMA CommitKeepsMaster ==
  ASSUME PoolInv, PoolInv', EngineInv, ResultsComplete,
         Commit \/ ClearQuery \/ \E t \in Texts : SetQuery(t),
         jobs' = IF mJob' = mJob THEN jobs ELSE Append(jobs, mJob')
  PROVE  MasterInv'
<1>1. UNCHANGED <<job, done, published, seen>>
  BY DEF Commit, ClearQuery, SetQuery, localVars
<1>2. mJob' \in JobRecord /\ jobs' = Append(jobs, mJob') /\ HistoryInv'
  BY CommitKeepsHistory
<1>3. Ordered(jobs) /\ Ordered(jobs')
  BY <1>2 DEF EngineInv, HistoryInv
<1>4. OfJob(jobs', published[0]) /\ OfJob(jobs', seen[0])
  BY <1>2, <1>3, AppendKeepsNumber DEF EngineInv, MasterInv, ResultsComplete
<1>5. job[0] = NoJob \/ \E n \in 1..Len(jobs') : job[0] = jobs'[n]
  <2>1. \A n \in 1..Len(jobs) : n \in 1..Len(jobs') /\ jobs'[n] = jobs[n]
    BY <1>2, <1>3, AppendProperties, LenProperties DEF Ordered
  <2> QED
    BY <2>1 DEF EngineInv, MasterInv
<1> QED
  BY <1>1, <1>4, <1>5 DEF MasterInv, EngineInv

(* A step that gives worker 0 no new job and publishes nothing of it. *)
QuietStep ==
  /\ mJob' = mJob
  /\ seen'[0] \in {seen[0], published[0], NoResults}
  /\ \/ /\ UNCHANGED <<job[0], published[0]>>
        /\ done[0] => done'[0]
     \/ /\ job'[0] = NoJob
        /\ published'[0] \in {published[0], NoResults}

LEMMA QuietKeepsMaster ==
  ASSUME MasterInv, QuietStep, jobs' = jobs
  PROVE  MasterInv'
BY DEF MasterInv, QuietStep, OfJob

LEMMA QuietSteps ==
  ASSUME PoolInv, Next
  PROVE  \/ Commit \/ ClearQuery \/ \E t \in Texts : SetQuery(t)
         \/ LoadNewJob(0) \/ Publish(0)
         \/ QuietStep
<1> USE DEF mainVars, localVars
<1>0. /\ Inv /\ 0 \in Workers
      /\ wpc \in [Workers -> WorkerPlaces] /\ job \in [Workers -> Job]
      /\ out \in [Workers -> Results] /\ done \in [Workers -> BOOLEAN]
      /\ published \in [Workers -> Results] /\ seen \in [Workers -> Results]
  BY WorkersFacts DEF PoolInv, Inv, TypeOK
<1>1. CASE PushItem \/ PostJob \/ PostStop \/ Stop \/ ConsumeWakeup
  BY <1>1 DEF PushItem, PostJob, PostStop, Stop, ConsumeWakeup, QuietStep
<1>2. CASE LoadResults
  BY <1>0, <1>2 DEF LoadResults, QuietStep
<1>3. ASSUME NEW n \in 0..NumWorkers, Start(n) PROVE QuietStep
  BY <1>3 DEF Start, QuietStep
<1>4. CASE JoinWorkers
  <2>1. job'[0] = NoJob /\ published'[0] = NoResults /\ seen'[0] = NoResults
    BY <1>0, <1>4 DEF JoinWorkers, PoolInv, WorkerInv, IdleInv, Alive
  <2> QED
    BY <1>4, <2>1 DEF JoinWorkers, QuietStep
<1>5. ASSUME NEW w \in Workers \ {0}, WorkerStep(w) \/ Abort(w)
      PROVE  QuietStep
  BY <1>0, <1>5, WorkerFrame DEF QuietStep
<1>6. CASE Wait(0) \/ Poll(0) \/ Abort(0)
  BY <1>0, <1>6 DEF Wait, Poll, Abort, Exit, QuietStep
<1>7. CASE LoadSameJob(0)
  <2>1. job[0] = mJob
    BY <1>0, <1>7, SameJobIsLast
  <2> QED
    BY <1>0, <1>7, <2>1 DEF LoadSameJob, QuietStep
<1>8. CASE Take(0) \/ MergeChild(0) \/ MergeGarbage(0) \/ EndMerge(0)
           \/ Notify(0)
  <2>1. UNCHANGED <<mJob, job, published, done>>
    BY <1>8 DEF Take, MergeChild, MergeGarbage, EndMerge, Notify
  <2>2. seen'[0] = seen[0] \/ seen'[0] = published[0]
    BY <1>0, <1>8, WorkerFrame DEF WorkerStep
  <2> QED
    BY <2>1, <2>2 DEF QuietStep
<1> QED
  BY <1>1, <1>2, <1>3, <1>4, <1>5, <1>6, <1>7, <1>8
     DEF Next, MainStep, Request, WorkerStep

LEMMA LoadKeepsMaster ==
  ASSUME PoolInv, EngineInv, LoadNewJob(0), jobs' = jobs
  PROVE  MasterInv' /\ mJob' = mJob
<1>1. /\ job'[0] = mJob /\ UNCHANGED <<mJob, published, seen>>
      /\ wpc[0] \in {"load", "reload"} /\ NewJob(0)
  BY WorkersFacts DEF LoadNewJob, PoolInv, Inv, TypeOK, mainVars
<1>2. /\ UpTo(published[0], job[0])
      /\ job[0].items <= mJob.items /\ job[0].queryTick <= mJob.queryTick
  BY <1>1, WorkersFacts
     DEF PoolInv, WorkerInv, OrderInv, Alive, Inv, CopyInv, Stamped
<1>3. \/ published[0].itemsTick < mJob.items
      \/ published[0].queryTick < mJob.queryTick
  BY <1>1, <1>2, Numbers, WorkersFacts DEF UpTo, NewJob, PoolInv, Inv
<1>4. mJob = NoJob \/ \E n \in 1..Len(jobs) : mJob = jobs[n]
  <2>1. jobs # <<>> => Len(jobs) \in 1..Len(jobs)
    BY LenProperties, EmptySeq DEF EngineInv, HistoryInv, Ordered
  <2> QED
    BY <2>1 DEF EngineInv, HistoryInv
<1> QED
  BY <1>1, <1>3, <1>4 DEF EngineInv, MasterInv, OfJob

(* What worker 0 publishes without a job is an empty result. *)
LEMMA EmptyResults ==
  ASSUME NEW r \in Results, Complete(r), StampOf(r, NoJob), r.query = NoQuery
  PROVE  r = NoResults
<1>1. r.items = NoItems
  BY DEF Complete, NoItems, Results
<1>2. r.itemsTick = 0 /\ r.queryTick = 0
  BY DEF StampOf, NoJob
<1> QED
  BY <1>1, <1>2 DEF Results, NoResults

LEMMA PublishSteps ==
  ASSUME PoolInv, EngineInv, ResultsComplete', Publish(0)
  PROVE  /\ published'[0] = out[0] /\ done'[0]
         /\ UNCHANGED <<mJob, job, seen>>
         /\ ~done[0]
         /\ \/ job[0] = NoJob /\ out[0] = NoResults
            \/ /\ job[0] # NoJob
               /\ StampOf(out[0], job[0]) /\ out[0].query = job[0].query
               /\ \E n \in 1..Len(jobs) : job[0] = jobs[n]
<1>1. /\ published'[0] = out[0] /\ done'[0]
      /\ UNCHANGED <<mJob, job, seen>>
      /\ wpc[0] = "publish"
  BY WorkersFacts DEF Publish, mainVars, PoolInv, Inv, TypeOK
<1>2. ~done[0] /\ StampOf(out[0], job[0]) /\ out[0].query = job[0].query
  BY <1>1, WorkersFacts DEF PoolInv, WorkerInv, StageInv, StampInv
<1>3. CASE job[0] = NoJob
  <2>1. Complete(out[0])
    BY <1>1 DEF ResultsComplete, Complete
  <2>2. out[0] \in Results
    BY WorkersFacts DEF PoolInv, Inv, TypeOK
  <2>3. out[0] = NoResults
    BY <1>2, <1>3, <2>1, <2>2, EmptyResults, NoValues
  <2> QED
    BY <1>1, <1>2, <1>3, <2>3
<1>4. CASE job[0] # NoJob
  BY <1>1, <1>2, <1>4 DEF EngineInv, MasterInv
<1> QED
  BY <1>3, <1>4

LEMMA PublishKeepsMaster ==
  ASSUME PoolInv, EngineInv, ResultsComplete', Publish(0), jobs' = jobs
  PROVE  MasterInv'
BY PublishSteps DEF EngineInv, MasterInv, OfJob

LEMMA NextEngineInv ==
  ASSUME PoolInv, PoolInv', ResultsComplete, ResultsComplete', EngineInv,
         [NextEngine]_engineVars
  PROVE  EngineInv'
<1>1. CASE UNCHANGED engineVars
  BY <1>1 DEF EngineInv, HistoryInv, MasterInv, OfJob, engineVars, vars,
              mainVars, localVars
<1>2. CASE NextEngine
  <2>1. /\ Next
        /\ jobs' = IF mJob' = mJob THEN jobs ELSE Append(jobs, mJob')
    BY <1>2 DEF NextEngine
  <2>2. CASE Commit \/ ClearQuery \/ \E t \in Texts : SetQuery(t)
    BY <2>1, <2>2, CommitKeepsHistory, CommitKeepsMaster DEF EngineInv
  <2>3. CASE mJob' = mJob
    <3>1. jobs' = jobs /\ HistoryInv'
      BY <2>1, <2>3 DEF EngineInv, HistoryInv
    <3> QED
      BY <2>1, <2>2, <3>1, QuietSteps, QuietKeepsMaster, LoadKeepsMaster,
         PublishKeepsMaster DEF EngineInv
  <2>4. LoadNewJob(0) \/ Publish(0) \/ QuietStep => mJob' = mJob
    BY DEF LoadNewJob, Publish, QuietStep, mainVars
  <2> QED
    BY <2>1, <2>2, <2>3, <2>4, QuietSteps
<1> QED
  BY <1>1, <1>2

-----------------------------------------------------------------------------
(* The steps as steps of Engine                                            *)

(* The jobs as Engine knows them. *)
Mapped == [n \in DOMAIN jobs |->
             [items |-> jobs[n].items, query |-> jobs[n].query]]
Answered == NumberOf(jobs, published[0])
Loaded == NumberOf(jobs, seen[0])
Signalled == wakeup \/ wpc[0] = "notify"

LEMMA MappedJobs ==
  ASSUME HistoryInv
  PROVE  /\ Mapped \in Seq(EngineOfPool!EngineJob)
         /\ Len(Mapped) = Len(jobs) /\ Len(jobs) \in Nat
         /\ \A n \in 1..Len(jobs) :
              Mapped[n] = [items |-> jobs[n].items, query |-> jobs[n].query]
<1>1. /\ Len(jobs) \in Nat /\ DOMAIN jobs = 1..Len(jobs)
      /\ \A n \in 1..Len(jobs) : jobs[n] \in JobRecord
  BY LenProperties, ElementOfSeq DEF HistoryInv, Ordered
<1>2. \A n \in 1..Len(jobs) :
        [items |-> jobs[n].items, query |-> jobs[n].query]
          \in EngineOfPool!EngineJob
  BY <1>1 DEF JobRecord, EngineOfPool!EngineJob
<1> QED
  BY <1>1, <1>2, IsASeq, LenProperties DEF Mapped

LEMMA MappedInit == InitEngine => EngineOfPool!EngineInit
<1> SUFFICES ASSUME InitEngine PROVE EngineOfPool!EngineInit
  OBVIOUS
<1>1. /\ jobs = <<>> /\ wakeup = FALSE /\ wpc[0] = "none"
      /\ published[0] = NoResults /\ seen[0] = NoResults
  BY WorkersFacts DEF InitEngine, Init
<1>2. JobAnswered(NoResults) = 0
  BY DEF JobAnswered
<1>3. [n \in DOMAIN jobs |-> [items |-> jobs[n].items,
                              query |-> jobs[n].query]] = <<>>
  BY <1>1
<1> QED
  BY <1>1, <1>2, <1>3 DEF EngineOfPool!EngineInit

(* What a step of Engine changes, in the terms of Pool. *)
Unheard == UNCHANGED <<Mapped, Answered, Loaded>>

EngineStep ==
  \/ /\ Mapped' = Append(Mapped, [items |-> mJob'.items,
                                  query |-> mJob'.query])
     /\ \/ mJob'.items # mJob.items
        \/ mJob'.query # mJob.query
     /\ UNCHANGED <<Answered, Loaded, Signalled>>
  \/ Answered' \in Answered + 1..Len(Mapped) /\ Signalled' = TRUE
       /\ UNCHANGED <<Mapped, Loaded>>
  \/ Signalled' = TRUE /\ Unheard
  \/ Signalled' = FALSE /\ Unheard
  \/ Loaded' = Answered /\ UNCHANGED <<Mapped, Answered, Signalled>>
  \/ Answered' = 0 /\ Loaded' = 0 /\ UNCHANGED <<Mapped, Signalled>>
  \/ UNCHANGED <<Mapped, Answered, Loaded, Signalled>>

LEMMA EngineStepMaps ==
  ASSUME PoolInv', EngineInv, EngineInv', EngineStep
  PROVE  [EngineOfPool!EngineNext]_(EngineOfPool!engineVars)
<1>1. /\ Answered = JobAnswered(published[0])
      /\ Answered' = JobAnswered(published[0])'
      /\ Loaded = JobAnswered(seen[0])
      /\ Loaded' = JobAnswered(seen[0])'
  BY DEF Answered, Loaded, JobAnswered, NumberOf, Answers, AnswersIn, Complete
<1> DEFINE jobsOf == [n \in DOMAIN jobs |-> [items |-> jobs[n].items,
                                           query |-> jobs[n].query]]
           newJob == [items |-> mJob'.items, query |-> mJob'.query]
<1>2. jobsOf = Mapped /\ jobsOf' = Mapped'
  BY DEF Mapped
<1>3. EngineOfPool!LastJob = [items |-> mJob.items, query |-> mJob.query]
  <2>1. jobs = <<>> <=> Len(jobs) = 0
    BY EmptySeq DEF EngineInv, HistoryInv, Ordered
  <2>2. CASE jobs = <<>>
    <3>1. mJob = NoJob /\ Len(Mapped) = 0
      BY <2>1, <2>2, MappedJobs DEF EngineInv, HistoryInv
    <3> QED
      BY <1>2, <3>1 DEF EngineOfPool!LastJob, EngineOfPool!JobNumber, NoJob
  <2>3. CASE jobs # <<>>
    <3>1. /\ mJob = jobs[Len(jobs)] /\ Len(jobs) \in 1..Len(jobs)
          /\ Len(Mapped) = Len(jobs)
          /\ Mapped[Len(jobs)] = [items |-> jobs[Len(jobs)].items,
                                  query |-> jobs[Len(jobs)].query]
      BY <2>1, <2>3, MappedJobs DEF EngineInv, HistoryInv
    <3> QED
      BY <1>2, <2>1, <2>3, <3>1
         DEF EngineOfPool!LastJob, EngineOfPool!JobNumber
  <2> QED
    BY <2>2, <2>3
<1>4. newJob \in EngineOfPool!EngineJob
  BY DEF PoolInv, Inv, TypeOK, Job, EngineOfPool!EngineJob
<1> USE <1>1, <1>2 DEF Signalled
<1>5. CASE /\ Mapped' = Append(Mapped, newJob)
           /\ mJob'.items # mJob.items \/ mJob'.query # mJob.query
           /\ UNCHANGED <<Answered, Loaded, Signalled>>
  <2>1. newJob # EngineOfPool!LastJob
    BY <1>3, <1>5
  <2>2. PICK j \in EngineOfPool!EngineJob : j = newJob
    BY <1>4
  <2>3. EngineOfPool!CommitNew(j)
    BY <1>5, <2>1, <2>2 DEF EngineOfPool!CommitNew
  <2> QED
    BY <2>3 DEF EngineOfPool!EngineNext
<1>6. CASE Answered' \in Answered + 1..Len(Mapped) /\ Signalled' = TRUE
             /\ UNCHANGED <<Mapped, Loaded>>
  BY <1>6 DEF EngineOfPool!EngineNext, EngineOfPool!PublishAnswer
<1>7. CASE Signalled' = TRUE /\ Unheard
  BY <1>7 DEF Unheard, EngineOfPool!EngineNext, EngineOfPool!Signal
<1>8. CASE Signalled' = FALSE /\ Unheard
  BY <1>8 DEF Unheard, EngineOfPool!EngineNext, EngineOfPool!Consume
<1>9. CASE Loaded' = Answered /\ UNCHANGED <<Mapped, Answered, Signalled>>
  BY <1>9 DEF EngineOfPool!EngineNext, EngineOfPool!Load
<1>10. CASE Answered' = 0 /\ Loaded' = 0 /\ UNCHANGED <<Mapped, Signalled>>
  BY <1>10 DEF EngineOfPool!EngineNext, EngineOfPool!StopEngine
<1>11. CASE UNCHANGED <<Mapped, Answered, Loaded, Signalled>>
  BY <1>11 DEF EngineOfPool!engineVars
<1> QED
  BY <1>5, <1>6, <1>7, <1>8, <1>9, <1>10, <1>11 DEF EngineStep

LEMMA CommitIsEngineStep ==
  ASSUME PoolInv, PoolInv', EngineInv, ResultsComplete,
         Commit \/ ClearQuery \/ \E t \in Texts : SetQuery(t),
         jobs' = IF mJob' = mJob THEN jobs ELSE Append(jobs, mJob')
  PROVE  EngineStep
<1> DEFINE newJob == [items |-> mJob'.items, query |-> mJob'.query]
<1>1. mJob' \in JobRecord /\ jobs' = Append(jobs, mJob') /\ HistoryInv'
  BY CommitKeepsHistory
<1>2. mJob'.items # mJob.items \/ mJob'.query # mJob.query
  <2>1. PICK q \in Query \union {NoQuery} : CommitOf(q)
    BY CommitSteps DEF PoolInv, Inv
  <2> QED
    BY <2>1 DEF CommitOf, CommitJob
<1>3. UNCHANGED <<published, seen, wpc, wakeup>>
  BY DEF Commit, ClearQuery, SetQuery
<1>4. /\ Len(jobs) \in Nat /\ Len(Mapped) = Len(jobs)
      /\ Len(jobs') = Len(jobs) + 1 /\ Len(Mapped') = Len(jobs')
      /\ \A n \in 1..Len(jobs) : jobs'[n] = jobs[n]
      /\ jobs'[Len(jobs) + 1] = mJob'
  <2>1. jobs \in Seq(JobRecord)
    BY DEF EngineInv, HistoryInv, Ordered
  <2>2. Len(Mapped') = Len(jobs')
    BY <1>1, LenProperties DEF Mapped, HistoryInv, Ordered
  <2> QED
    BY <1>1, <2>1, <2>2, AppendProperties, MappedJobs DEF EngineInv
<1>5. Mapped' = Append(Mapped, newJob)
  <2>1. /\ DOMAIN jobs = 1..Len(jobs) /\ DOMAIN jobs' = 1..Len(jobs')
        /\ Mapped \in Seq(EngineOfPool!EngineJob)
    BY <1>1, LenProperties, MappedJobs
       DEF EngineInv, HistoryInv, Ordered
  <2>2. newJob \in EngineOfPool!EngineJob
    BY <1>1 DEF JobRecord, EngineOfPool!EngineJob
  <2>3. /\ Append(Mapped, newJob) \in Seq(EngineOfPool!EngineJob)
        /\ Len(Append(Mapped, newJob)) = Len(jobs')
        /\ \A n \in 1..Len(jobs) : Append(Mapped, newJob)[n] = Mapped[n]
        /\ Append(Mapped, newJob)[Len(jobs) + 1] = newJob
    BY <1>4, <2>1, <2>2, AppendProperties
  <2>4. DOMAIN Append(Mapped, newJob) = 1..Len(jobs')
    BY <2>3, LenProperties
  <2>5. DOMAIN Mapped' = 1..Len(jobs')
    BY <2>1 DEF Mapped
  <2>6. \A n \in 1..Len(jobs') : Append(Mapped, newJob)[n] = Mapped'[n]
    BY <1>4, <2>1, <2>3 DEF Mapped
  <2> QED
    BY <2>3, <2>4, <2>5, <2>6 DEF Mapped
<1>6. /\ NumberOf(jobs', published[0]) = NumberOf(jobs, published[0])
      /\ NumberOf(jobs', seen[0]) = NumberOf(jobs, seen[0])
  BY <1>1, AppendKeepsNumber
     DEF EngineInv, HistoryInv, MasterInv, ResultsComplete
<1>7. UNCHANGED <<Answered, Loaded, Signalled>>
  BY <1>3, <1>6 DEF Answered, Loaded, Signalled
<1> QED
  BY <1>2, <1>5, <1>7 DEF EngineStep

(* The number of the answer grows. *)
LEMMA PublishIsEngineStep ==
  ASSUME PoolInv, EngineInv, ResultsComplete, ResultsComplete', Publish(0),
         jobs' = jobs
  PROVE  EngineStep
<1>1. /\ published'[0] = out[0] /\ seen' = seen
      /\ ~done[0]
      /\ \/ job[0] = NoJob /\ out[0] = NoResults
         \/ /\ job[0] # NoJob
            /\ StampOf(out[0], job[0]) /\ out[0].query = job[0].query
            /\ \E n \in 1..Len(jobs) : job[0] = jobs[n]
  BY PublishSteps
<1>2. Signalled' = TRUE /\ Mapped' = Mapped /\ Loaded' = Loaded
  BY <1>1, WorkersFacts
     DEF Publish, Goto, Signalled, Mapped, Loaded, PoolInv, Inv, TypeOK
<1>3. CASE job[0] = NoJob
  <2>1. published[0] = NoResults
    <3>1. UpTo(published[0], NoJob)
      BY <1>3, WorkersFacts DEF Publish, PoolInv, WorkerInv, OrderInv, Alive
    <3>2. ASSUME NEW n \in 1..Len(jobs), StampOf(published[0], jobs[n])
          PROVE  FALSE
      <4>1. Older(NoJob, jobs[n]) /\ jobs[n] \in JobRecord
        BY <3>2, ElementOfSeq DEF EngineInv, HistoryInv, Ordered
      <4> QED
        BY <3>1, <3>2, <4>1, JobRecordFacts DEF Older, UpTo, StampOf, NoJob
    <3> QED
      BY <3>2 DEF EngineInv, MasterInv, OfJob
  <2> QED
    BY <1>1, <1>2, <1>3, <2>1 DEF EngineStep, Unheard, Answered
<1>4. CASE job[0] # NoJob
  <2>1. PICK n \in 1..Len(jobs) : job[0] = jobs[n]
    BY <1>1, <1>4
  <2>2. Complete(out[0])
    BY <1>1 DEF ResultsComplete, Complete
  <2>3. Ordered(jobs) /\ Len(jobs) \in Nat
    BY LenProperties DEF EngineInv, HistoryInv, Ordered
  <2>4. NumberOf(jobs, out[0]) = n
    BY <1>1, <1>4, <2>1, <2>2, <2>3, NumberOfJob
  <2>5. NumberOf(jobs, published[0]) \in 0..n - 1
    <3>1. CASE published[0] = NoResults
      BY <2>1, <2>3, <3>1, NumberOfNone
    <3>2. ASSUME NEW m \in 1..Len(jobs), StampOf(published[0], jobs[m]),
                 published[0].query = jobs[m].query
          PROVE  NumberOf(jobs, published[0]) \in 0..n - 1
      <4>1. NumberOf(jobs, published[0]) = m
        BY <2>3, <3>2, NumberOfJob DEF ResultsComplete
      <4>2. \/ jobs[m].items < jobs[n].items
            \/ jobs[m].queryTick < jobs[n].queryTick
        BY <1>1, <1>4, <2>1, <3>2 DEF EngineInv, MasterInv, StampOf
      <4>3. /\ jobs[m].items \in Nat /\ jobs[m].queryTick \in Nat
            /\ jobs[n].items \in Nat /\ jobs[n].queryTick \in Nat
        BY <2>3, ElementOfSeq, JobRecordFacts DEF Ordered
      <4>4. m # n /\ ~Older(jobs[n], jobs[m])
        BY <4>2, <4>3 DEF Older
      <4>5. ~(n < m)
        BY <2>3, <4>4 DEF Ordered
      <4> QED
        BY <4>1, <4>4, <4>5
    <3> QED
      BY <3>1, <3>2 DEF EngineInv, MasterInv, OfJob
  <2>6. Len(Mapped) = Len(jobs)
    BY MappedJobs DEF EngineInv
  <2>7. Answered' \in Answered + 1..Len(Mapped)
    BY <1>1, <2>3, <2>4, <2>5, <2>6 DEF Answered
  <2> QED
    BY <1>2, <2>7 DEF EngineStep
<1> QED
  BY <1>3, <1>4

LEMMA MainIsEngineStep ==
  ASSUME PoolInv, MainStep \/ PushItem \/ Stop \/ \E n \in 0..NumWorkers : Start(n),
         jobs' = jobs
  PROVE  EngineStep
<1>0. /\ 0 \in Workers /\ wpc \in [Workers -> WorkerPlaces]
      /\ published \in [Workers -> Results] /\ seen \in [Workers -> Results]
  BY WorkersFacts DEF PoolInv, Inv, TypeOK
<1>1. Mapped' = Mapped
  BY DEF Mapped
<1>2. CASE PushItem \/ Stop \/ PostJob \/ PostStop
  <2>1. UNCHANGED <<published, seen, wpc, wakeup>>
    BY <1>2 DEF PushItem, Stop, PostJob, PostStop
  <2> QED
    BY <1>1, <2>1 DEF EngineStep, Answered, Loaded, Signalled
<1>3. ASSUME NEW n \in 0..NumWorkers, Start(n) PROVE EngineStep
  <2>1. UNCHANGED <<published, seen, wakeup>> /\ wpc'[0] # "notify"
    BY <1>0, <1>3 DEF Start
  <2>2. wpc[0] = "none"
    BY <1>0, <1>3 DEF Start, PoolInv, RunInv, NoWorkers
  <2> QED
    BY <1>1, <2>1, <2>2 DEF EngineStep, Answered, Loaded, Signalled
<1>4. CASE JoinWorkers
  <2>1. /\ published'[0] = NoResults /\ seen'[0] = NoResults
        /\ wakeup' = wakeup /\ wpc[0] # "notify" /\ wpc'[0] # "notify"
    BY <1>0, <1>4 DEF JoinWorkers
  <2>2. Answered' = 0 /\ Loaded' = 0
    BY <2>1, NumberOfNone DEF Answered, Loaded
  <2> QED
    BY <1>1, <2>1, <2>2 DEF EngineStep, Signalled
<1>5. CASE ConsumeWakeup
  <2>1. UNCHANGED <<published, seen, wpc>> /\ wakeup = TRUE /\ wakeup' = FALSE
    BY <1>5 DEF ConsumeWakeup
  <2>2. Unheard
    BY <1>1, <2>1 DEF Unheard, Answered, Loaded
  <2>3. CASE wpc[0] = "notify"
    BY <2>1, <2>2, <2>3 DEF EngineStep, Signalled
  <2>4. CASE wpc[0] # "notify"
    BY <2>1, <2>2, <2>4 DEF EngineStep, Signalled
  <2> QED
    BY <2>3, <2>4
<1>6. CASE LoadResults
  <2>1. /\ UNCHANGED <<published, wpc, wakeup>>
        /\ seen'[0] \in {seen[0], published[0]}
    BY <1>0, <1>6 DEF LoadResults
  <2>2. Loaded' \in {Loaded, Answered} /\ UNCHANGED <<Answered, Signalled>>
    BY <2>1 DEF Answered, Loaded, Signalled
  <2> QED
    BY <1>1, <2>2 DEF EngineStep
<1> QED
  BY <1>2, <1>3, <1>4, <1>5, <1>6 DEF MainStep

LEMMA WorkerIsEngineStep ==
  ASSUME PoolInv, NEW w \in Workers, WorkerStep(w) \/ Abort(w),
         ~(w = 0 /\ Publish(w)), jobs' = jobs
  PROVE  EngineStep
<1>0. /\ Inv /\ 0 \in Workers
      /\ wpc \in [Workers -> WorkerPlaces]
  BY WorkersFacts, Zenon DEF PoolInv, Inv, TypeOK
<1>1. Mapped' = Mapped
  BY DEF Mapped
<1>2. published'[0] = published[0] /\ seen'[0] \in {seen[0], published[0]}
  <2>1. CASE w # 0
    BY <1>0, <2>1, WorkerFrame
  <2>2. CASE w = 0
    BY <1>0, <2>2, WorkerFrame, Zenon
       DEF WorkerStep, Wait, Poll, LoadNewJob, LoadSameJob, Take, MergeChild,
           MergeGarbage, EndMerge, Notify, Abort
  <2> QED
    BY <2>1, <2>2
<1>3. Answered' = Answered /\ Loaded' \in {Loaded, Answered}
  BY <1>2 DEF Answered, Loaded
<1>4. CASE Abort(w)
  <2>1. wakeup' = TRUE /\ seen' = seen
    BY <1>4 DEF Abort
  <2> QED
    BY <1>1, <1>3, <2>1 DEF EngineStep, Unheard, Signalled, Loaded
<1>5. CASE w = 0 /\ Notify(w)
  <2>1. wakeup' = TRUE /\ wpc[0] = "notify" /\ seen' = seen
    BY <1>5 DEF Notify
  <2> QED
    BY <1>1, <1>3, <2>1 DEF EngineStep, Unheard, Signalled, Loaded
<1>6. CASE WorkerStep(w) /\ ~(w = 0 /\ Notify(w))
  <2>1. wakeup' = wakeup
    BY <1>6, Zenon
       DEF WorkerStep, Wait, Poll, LoadNewJob, LoadSameJob, Take,
           MergeChild, MergeGarbage, EndMerge, Publish, Notify
  <2>2. (wpc'[0] = "notify") = (wpc[0] = "notify")
    <3>1. CASE w # 0
      BY <1>0, <3>1, WorkerFrame
    <3>2. CASE w = 0
      BY <1>0, <1>6, <3>2, Zenon
         DEF WorkerStep, Wait, Poll, LoadNewJob, LoadSameJob, Take,
             MergeChild, MergeGarbage, EndMerge, Notify, Goto, Exit
    <3> QED
      BY <3>1, <3>2
  <2>3. Signalled' = Signalled
    BY <2>1, <2>2, Zenon DEF Signalled
  <2> QED
    BY <1>1, <1>3, <2>3 DEF EngineStep
<1> QED
  BY <1>4, <1>5, <1>6 DEF WorkerStep

LEMMA NextIsEngineStep ==
  ASSUME PoolInv, PoolInv', ResultsComplete, ResultsComplete', EngineInv,
         [NextEngine]_engineVars
  PROVE  EngineStep
<1>1. CASE UNCHANGED engineVars
  BY <1>1 DEF EngineStep, Mapped, Answered, Loaded, Signalled, engineVars,
              vars
<1>2. CASE NextEngine
  <2>1. /\ Next
        /\ jobs' = IF mJob' = mJob THEN jobs ELSE Append(jobs, mJob')
    BY <1>2 DEF NextEngine
  <2>2. CASE Commit \/ ClearQuery \/ \E t \in Texts : SetQuery(t)
    BY <2>1, <2>2, CommitIsEngineStep
  <2>3. CASE MainStep \/ PushItem \/ Stop \/ \E n \in 0..NumWorkers : Start(n)
    <3>1. mJob' = mJob
      BY <2>3 DEF MainStep, PostJob, PostStop, JoinWorkers, ConsumeWakeup,
                  LoadResults, PushItem, Stop, Start, mainVars
    <3> QED
      BY <2>1, <2>3, <3>1, MainIsEngineStep
  <2>4. ASSUME NEW w \in Workers, WorkerStep(w) \/ Abort(w)
        PROVE  EngineStep
    <3>1. mJob' = mJob
      BY <2>4, WorkerFrame DEF PoolInv
    <3>2. CASE w = 0 /\ Publish(w)
      BY <2>1, <3>1, <3>2, PublishIsEngineStep
    <3>3. CASE ~(w = 0 /\ Publish(w))
      BY <2>1, <2>4, <3>1, <3>3, WorkerIsEngineStep
    <3> QED
      BY <3>2, <3>3
  <2> QED
    BY <2>1, <2>2, <2>3, <2>4 DEF Next, Request
<1> QED
  BY <1>1, <1>2

-----------------------------------------------------------------------------
(* The refinement                                                          *)

LEMMA EngineHistory ==
  SpecEngine => [](PoolInv /\ ResultsComplete /\ EngineInv)
<1>1. InitEngine => Init
  BY DEF InitEngine
<1>2. [NextEngine]_engineVars => [Next]_vars
  BY DEF NextEngine, engineVars
<1>3. SpecEngine => SafeSpec
  BY <1>1, <1>2, PTL DEF SpecEngine, SafeSpec
<1>4. SpecEngine => []PoolInv /\ []ResultsComplete
  BY <1>3, PoolInvariance, EveryResultIsComplete, PTL
<1>5. PoolInv /\ PoolInv' /\ ResultsComplete /\ ResultsComplete' /\ EngineInv
        /\ [NextEngine]_engineVars => EngineInv'
  BY NextEngineInv
<1> QED
  BY <1>4, <1>5, InitEngineInv, PTL DEF SpecEngine

(* The pool is an Engine to its front end: every step of the main thread   *)
(* and of the workers commits a job, publishes the complete answer to a    *)
(* newer job than before with the event loop about to be woken, loads what *)
(* was published last, or is one that the front end cannot see.            *)
THEOREM PoolImplementsEngine == SpecEngine => ImplementsEngine
<1>1. InitEngine => EngineOfPool!EngineInit
  BY MappedInit
<1>2. /\ PoolInv /\ ResultsComplete /\ EngineInv
      /\ PoolInv' /\ ResultsComplete' /\ EngineInv'
      /\ [NextEngine]_engineVars
      => [EngineOfPool!EngineNext]_(EngineOfPool!engineVars)
  BY NextIsEngineStep, EngineStepMaps
<1> QED
  BY <1>1, <1>2, EngineHistory, PTL
     DEF SpecEngine, ImplementsEngine, EngineOfPool!EngineSpec

-----------------------------------------------------------------------------
(* The tables of worker.cpp, and the way of one worker's results through   *)
(* the tree they make (module MergePath)                                   *)

MaxChildren(w) == kMaxChildrenMap[w + 1]

LEMMA ParentTable == \A w \in 1..63 : ParentOf(w) \in 0..w - 1
BY SMTT(60) DEF kParentMap, ParentOf

LEMMA ChildrenTable == \A w \in 0..63 : MaxChildren(w) \in 0..6
BY SMTT(60) DEF kMaxChildrenMap, MaxChildren

(* 1U << child *)
LEMMA Bits ==
  /\ \A c \in 0..5 : Bit(c) \in 1..32
  /\ \A b, c \in 0..5 : b < c => Bit(b) < Bit(c)
BY SMTT(30) DEF Bit

LEMMA ParentOfChild ==
  \A w \in 0..63 : \A c \in 0..MaxChildren(w) - 1 :
    ParentOf(ChildAt(w, c)) = w
<1>1. \A w \in 0..63 : \A c \in 0..5 : c < MaxChildren(w) =>
        kParentMap[w + Bit(c) + 1] = w
  BY SMTT(60) DEF kMaxChildrenMap, kParentMap, MaxChildren, Bit
<1> QED
  BY <1>1, ChildrenTable DEF ParentOf, ChildAt

LEMMA ChildOfParent ==
  \A w \in 1..63 : \E c \in 0..MaxChildren(ParentOf(w)) - 1 :
    ChildAt(ParentOf(w), c) = w
<1>1. \A w \in 1..63 : w - ParentOf(w) \in {1, 2, 4, 8, 16, 32}
  BY SMTT(60) DEF kParentMap, ParentOf
<1>2. \A w \in 1..63 : \A c \in 0..5 :
        w - ParentOf(w) = Bit(c)
          => c < MaxChildren(ParentOf(w))
  BY SMTT(60) DEF kParentMap, kMaxChildrenMap, ParentOf, MaxChildren, Bit
<1>3. SUFFICES ASSUME NEW w \in 1..63
               PROVE  \E c \in 0..MaxChildren(ParentOf(w)) - 1 :
                        ChildAt(ParentOf(w), c) = w
  OBVIOUS
<1> DEFINE p == ParentOf(w)
<1>4. p \in 0..w - 1 /\ MaxChildren(p) \in 0..6
  BY ParentTable, ChildrenTable
<1> HIDE DEF p
<1>5. \E c \in 0..5 : w - p = Bit(c)
  BY <1>1 DEF p, Bit
<1>6. PICK c \in 0..5 : w - p = Bit(c)
  BY <1>5
<1>7. c < MaxChildren(p)
  BY <1>2, <1>6 DEF p
<1>8. ChildAt(p, c) = w
  BY <1>4, <1>6, Bits DEF ChildAt
<1>9. c \in 0..MaxChildren(p) - 1
  BY <1>4, <1>7
<1> QED
  BY <1>8, <1>9 DEF p

(* The loop of the constructor of MergeState stops at some child.          *)
LEMMA ChildCountFacts ==
  ASSUME NEW w \in 0..63, NEW size \in Nat
  PROVE  /\ ChildCount(w, size) \in 0..MaxChildren(w)
         /\ \A i \in 0..ChildCount(w, size) - 1 : ChildAt(w, i) < size
         /\ \/ ChildCount(w, size) = MaxChildren(w)
            \/ ChildAt(w, ChildCount(w, size)) >= size
<1> DEFINE Stops(c) ==
      /\ \A i \in 0..c - 1 : ChildAt(w, i) < size
      /\ c = MaxChildren(w) \/ ChildAt(w, c) >= size
<1>1. MaxChildren(w) \in 0..6
  BY ChildrenTable
<1>2. \A c \in 0..5 : ChildAt(w, c) \in Int
  BY Bits DEF ChildAt
<1>3. \E c \in 0..MaxChildren(w) : Stops(c)
  BY <1>1, <1>2
<1>4. ChildCount(w, size) = CHOOSE c \in 0..MaxChildren(w) : Stops(c)
  BY DEF ChildCount, MaxChildren
<1> HIDE DEF Stops
<1>5. /\ ChildCount(w, size) \in 0..MaxChildren(w)
      /\ Stops(ChildCount(w, size))
  BY <1>3, <1>4, Zenon
<1> QED
  BY <1>5 DEF Stops

(* A child that is in bounds comes before the place where the loop stops. *)
LEMMA IsMasked ==
  ASSUME NEW size \in 1..64, NEW p \in 0..size - 1, NEW c \in 0..MaxChildren(p) - 1,
         ChildAt(p, c) < size
  PROVE  c < ChildCount(p, size) /\ c \in 0..5 /\ c \in Mask(p, size)
<1> DEFINE n == ChildCount(p, size)
<1>1. p \in 0..63 /\ size \in Nat
  OBVIOUS
<1>2. /\ n \in 0..MaxChildren(p) /\ MaxChildren(p) \in 0..6
      /\ n = MaxChildren(p) \/ ChildAt(p, n) >= size
  BY <1>1, ChildCountFacts, ChildrenTable
<1> HIDE DEF n, MaxChildren
<1>3. c \in 0..5
  BY <1>2
<1>4. c < n
  <2> SUFFICES ASSUME n <= c
               PROVE  FALSE
    BY <1>2, <1>3
  <2>1. n \in 0..5 /\ p + Bit(n) >= size
    BY <1>2, <1>3 DEF ChildAt
  <2>2. Bit(n) <= Bit(c) /\ Bit(n) \in Int /\ Bit(c) \in Int
    BY <1>3, <2>1, Bits
  <2>3. p + Bit(c) < size
    BY DEF ChildAt
  <2> QED
    BY <1>1, <2>1, <2>2, <2>3
<1> QED
  BY <1>3, <1>4 DEF n, Mask

(* kParentMap, kMaxChildrenMap, MergeState::at() and the loop of its       *)
(* constructor are a tree of the workers as every other theorem of this    *)
(* module takes it, however many of the 64 workers the pool has.           *)
THEOREM TablesAreATree ==
  NumWorkers <= kMaxThreads =>
    IsTree([w \in Workers |-> ParentOf(w)],
           [w \in Workers |-> ChildrenOf(w, NumWorkers)])
<1> SUFFICES ASSUME NumWorkers <= 64
             PROVE  IsTree([w \in Workers |-> ParentOf(w)],
                           [w \in Workers |-> ChildrenOf(w, NumWorkers)])
  BY DEF kMaxThreads
<1> DEFINE parent == [w \in Workers |-> ParentOf(w)]
           children == [w \in Workers |-> ChildrenOf(w, NumWorkers)]
<1>1. NumWorkers \in 1..64 /\ Workers \subseteq 0..63 /\ 0 \in Workers
      /\ \A v \in Int : v \in Workers <=> 0 <= v /\ v < NumWorkers
  BY PoolAssumption DEF Workers
<1>2. ParentOf(0) = 0
  BY DEF ParentOf, kParentMap
<1>3. \A w \in Workers : ParentOf(w) \in Workers /\ (w # 0 => ParentOf(w) < w)
  BY <1>1, <1>2, ParentTable
<1>4. ASSUME NEW w \in Workers
      PROVE  /\ DOMAIN children[w] = 1..ChildCount(w, NumWorkers)
             /\ ChildCount(w, NumWorkers) \in 0..6
             /\ \A i \in DOMAIN children[w] :
                  /\ i - 1 \in 0..MaxChildren(w) - 1 /\ i - 1 \in 0..5
                  /\ children[w][i] = ChildAt(w, i - 1)
                  /\ children[w][i] = w + Bit(i - 1)
                  /\ children[w][i] \in Workers \ {0}
  <2>1. w \in 0..63 /\ NumWorkers \in Nat
    BY <1>1
  <2> DEFINE n == ChildCount(w, NumWorkers)
  <2>2. /\ n \in 0..MaxChildren(w) /\ MaxChildren(w) \in 0..6
        /\ \A i \in 0..n - 1 : ChildAt(w, i) < NumWorkers
    BY <2>1, ChildCountFacts, ChildrenTable
  <2>3. children[w] = [i \in 1..n |-> ChildAt(w, i - 1)]
    BY DEF ChildrenOf
  <2> HIDE DEF n, children
  <2>4. ASSUME NEW i \in 1..n
        PROVE  /\ i - 1 \in 0..MaxChildren(w) - 1 /\ i - 1 \in 0..5
               /\ children[w][i] = ChildAt(w, i - 1)
               /\ children[w][i] = w + Bit(i - 1)
               /\ children[w][i] \in Workers \ {0}
    <3>1. i - 1 \in 0..MaxChildren(w) - 1 /\ i - 1 \in 0..5 /\ i - 1 \in 0..n - 1
      BY <2>2
    <3>2. children[w][i] = ChildAt(w, i - 1)
      BY <2>3
    <3>3. children[w][i] = w + Bit(i - 1)
      BY <3>2 DEF ChildAt
    <3>4. Bit(i - 1) \in 1..32
      BY <3>1, Bits
    <3>5. children[w][i] < NumWorkers
      BY <2>2, <3>1, <3>2
    <3> QED
      BY <1>1, <2>1, <3>1, <3>2, <3>3, <3>4, <3>5
  <2> QED
    BY <2>2, <2>3, <2>4 DEF n
<1>5. parent \in [Workers -> Workers] /\ \A w \in Workers \ {0} : parent[w] < w
  BY <1>3
<1>6. \A w \in Workers : children[w] \in Seq(Workers)
  <2> TAKE w \in Workers
  <2> DEFINE n == ChildCount(w, NumWorkers)
  <2>1. n \in Nat /\ children[w] = [i \in 1..n |-> ChildAt(w, i - 1)]
        /\ \A i \in 1..n : ChildAt(w, i - 1) \in Workers
    <3>1. n \in Nat /\ DOMAIN children[w] = 1..n
          /\ \A i \in DOMAIN children[w] : children[w][i] = ChildAt(w, i - 1)
                                           /\ children[w][i] \in Workers
      BY <1>4
    <3>2. children[w] = [i \in 1..n |-> ChildAt(w, i - 1)]
      BY DEF ChildrenOf
    <3> HIDE DEF n, children
    <3> QED
      BY <3>1, <3>2
  <2> HIDE DEF n, children
  <2> QED
    BY <2>1
<1>7. children \in [Workers -> Seq(Workers)]
  BY <1>6
<1>8. ASSUME NEW p \in Workers, NEW i \in DOMAIN children[p]
      PROVE  children[p][i] # 0 /\ parent[children[p][i]] = p
  <2>1. /\ children[p][i] \in Workers \ {0} /\ i - 1 \in 0..MaxChildren(p) - 1
        /\ children[p][i] = ChildAt(p, i - 1)
    BY <1>4
  <2> HIDE DEF children
  <2>2. parent[children[p][i]] = ParentOf(ChildAt(p, i - 1))
    BY <2>1
  <2>3. ParentOf(ChildAt(p, i - 1)) = p
    BY <1>1, <2>1, ParentOfChild
  <2> QED
    BY <2>1, <2>2, <2>3
<1>9. ASSUME NEW w \in Workers \ {0}
      PROVE  \E i \in DOMAIN children[parent[w]] :
               \A j \in DOMAIN children[parent[w]] :
                 children[parent[w]][j] = w <=> j = i
  <2> DEFINE p == ParentOf(w)
             n == ChildCount(p, NumWorkers)
  <2>0. w \in Workers /\ w # 0 /\ parent[w] = p
    OBVIOUS
  <2>1. /\ w \in 1..63 /\ w < NumWorkers /\ NumWorkers \in Nat
        /\ p \in Workers /\ p \in 0..63 /\ parent[w] = p
    <3>1. p \in Workers
      BY <1>3, <2>0
    <3> HIDE DEF p, parent
    <3> QED
      BY <1>1, <2>0, <3>1
  <2>2. PICK c \in 0..MaxChildren(p) - 1 : ChildAt(p, c) = w
    BY <2>1, ChildOfParent
  <2> HIDE DEF p, n, children, parent
  <2>3. MaxChildren(p) \in 0..6
    BY <2>1, ChildrenTable
  <2>4. c \in 0..5 /\ w = p + Bit(c)
    BY <2>2, <2>3 DEF ChildAt
  <2>5. /\ n \in 0..MaxChildren(p)
        /\ n = MaxChildren(p) \/ ChildAt(p, n) >= NumWorkers
    <3>1. p \in 0..63 /\ NumWorkers \in Nat
      BY <2>1
    <3> QED
      BY <3>1, ChildCountFacts DEF n
  <2>6. c < n
    <3>1. NumWorkers \in 1..64 /\ p \in 0..NumWorkers - 1 /\ ChildAt(p, c) < NumWorkers
      BY <1>1, <2>1, <2>2
    <3> QED
      BY <3>1, IsMasked DEF n
  <2>7. /\ DOMAIN children[p] = 1..n
        /\ \A j \in 1..n : j - 1 \in 0..5 /\ children[p][j] = p + Bit(j - 1)
    BY <1>4, <2>1 DEF n
  <2>8. c + 1 \in 1..n
    BY <2>3, <2>4, <2>5, <2>6
  <2>9. ASSUME NEW j \in 1..n
        PROVE  children[p][j] = w <=> j = c + 1
    <3>1. j - 1 \in 0..5 /\ children[p][j] = p + Bit(j - 1)
      BY <2>7
    <3>2. /\ Bit(j - 1) \in Int /\ Bit(c) \in Int
          /\ j - 1 < c => Bit(j - 1) < Bit(c)
          /\ c < j - 1 => Bit(c) < Bit(j - 1)
      BY <2>4, <3>1, Bits
    <3>3. CASE j - 1 = c
      BY <2>4, <3>1, <3>3
    <3>4. CASE j - 1 # c
      BY <2>1, <2>4, <3>1, <3>2, <3>4
    <3> QED
      BY <3>3, <3>4
  <2>10. \E i \in DOMAIN children[p] :
           \A j \in DOMAIN children[p] : children[p][j] = w <=> j = i
    BY <2>7, <2>8, <2>9
  <2> QED
    BY <2>1, <2>10
<1> HIDE DEF parent, children
<1>10. IsTree(parent, children)
  BY <1>5, <1>7, <1>8, <1>9 DEF IsTree
<1> QED
  BY <1>10 DEF parent, children

-----------------------------------------------------------------------------
(* The way of the results through the tree                                 *)

(* Nobody has more results merged into it on their way than it may have    *)
(* children.                                                               *)
PathInv ==
  /\ count \in 1..64 /\ at \in 0..count - 1
  /\ hops \in Nat /\ hops <= MaxChildren(at)

LEMMA ParentHasMore == \A w \in 1..63 : MaxChildren(w) < MaxChildren(ParentOf(w))
BY SMTT(60) DEF kParentMap, kMaxChildrenMap, ParentOf, MaxChildren

LEMMA PathInvInit == PathInit => PathInv
BY ChildrenTable DEF PathInit, kMaxThreads, PathInv

LEMMA PathInvNext == PathInv /\ [PathNext]_pathVars => PathInv'
<1> SUFFICES ASSUME PathInv, [PathNext]_pathVars
             PROVE  PathInv'
  OBVIOUS
<1> USE DEF PathInv
<1>1. CASE MergeNext \/ UNCHANGED pathVars
  BY <1>1 DEF MergeNext, pathVars
<1>2. CASE Climb
  <2>1. at \in 1..63 /\ at < count
    BY <1>2 DEF Climb
  <2>2. /\ at' = ParentOf(at) /\ hops' = hops + 1
        /\ count' = count
    BY <1>2 DEF Climb
  <2>3. /\ ParentOf(at) \in 0..at - 1
        /\ MaxChildren(at) < MaxChildren(ParentOf(at))
        /\ MaxChildren(at) \in Int
    <3>1. at \in 0..63 /\ at \in 1..63
      BY <2>1
    <3>2. MaxChildren(at) \in 0..6
      BY <3>1, ChildrenTable
    <3> QED
      BY <3>1, <3>2, ParentTable, ParentHasMore
  <2>4. MaxChildren(ParentOf(at)) \in Int
    BY <2>1, <2>3, ChildrenTable
  <2> HIDE DEF MaxChildren
  <2>5. hops + 1 <= MaxChildren(ParentOf(at))
    BY <2>3, <2>4
  <2> QED
    BY <2>1, <2>2, <2>3, <2>5
<1> QED
  BY <1>1, <1>2 DEF PathNext

LEMMA PathAlways == PathSpec => []PathInv
BY PathInvInit, PathInvNext, PTL DEF PathSpec

(* The positions of mMask, of a worker there is.                           *)
LEMMA MaskFacts ==
  ASSUME NEW size \in 1..64, NEW p \in 0..size - 1, NEW c \in Mask(p, size)
  PROVE  /\ c \in 0..5 /\ c \in 0..MaxChildren(p) - 1
         /\ ChildAt(p, c) = p + Bit(c)
         /\ ChildAt(p, c) \in p + 1..size - 1
         /\ ParentOf(ChildAt(p, c)) = p
<1>1. p \in 0..63 /\ size \in Nat
  OBVIOUS
<1>2. c \in 0..7 /\ c < ChildCount(p, size)
  BY DEF Mask
<1>3. /\ ChildCount(p, size) \in 0..MaxChildren(p)
      /\ \A i \in 0..ChildCount(p, size) - 1 : ChildAt(p, i) < size
  BY <1>1, ChildCountFacts
<1>4. MaxChildren(p) \in 0..6
  BY <1>1, ChildrenTable
<1> HIDE DEF MaxChildren
<1>5. c \in 0..5 /\ c \in 0..MaxChildren(p) - 1 /\ c \in 0..ChildCount(p, size) - 1
  BY <1>2, <1>3, <1>4
<1>6. ChildAt(p, c) = p + Bit(c) /\ Bit(c) \in 1..32
  BY <1>5, Bits DEF ChildAt
<1>7. ChildAt(p, c) < size
  BY <1>3, <1>5
<1>8. ParentOf(ChildAt(p, c)) = p
  BY <1>1, <1>5, ParentOfChild
<1> QED
  BY <1>1, <1>5, <1>6, <1>7, <1>8

(* kParentMap and the loop of MergeState's constructor agree: the results  *)
(* of a worker are merged by the worker it notifies, once, and by no other,*)
(* whatever the size of the pool.                                          *)
THEOREM EveryWorkerIsMergedOnce == PathSpec => []MergedOnce
<1>1. PathInv => MergedOnce
  <2> SUFFICES ASSUME PathInv, NEW p \in 0..count - 1
               PROVE  Cardinality({c \in Mask(p, count) : ChildAt(p, c) = at})
                        = IF at # 0 /\ p = ParentOf(at) THEN 1 ELSE 0
    BY DEF MergedOnce
  <2> DEFINE S == {c \in Mask(p, count) : ChildAt(p, c) = at}
  <2>1. count \in 1..64 /\ at \in 0..count - 1
    BY DEF PathInv
  <2>2. \A c \in S : /\ c \in 0..5 /\ at = p + Bit(c)
                     /\ at # 0 /\ p = ParentOf(at)
    <3> TAKE c \in S
    <3>1. c \in Mask(p, count) /\ ChildAt(p, c) = at
      OBVIOUS
    <3> HIDE DEF S
    <3>2. /\ c \in 0..5 /\ ChildAt(p, c) = p + Bit(c)
          /\ ChildAt(p, c) \in p + 1..count - 1
          /\ ParentOf(ChildAt(p, c)) = p
      BY <2>1, <3>1, MaskFacts
    <3> QED
      BY <2>1, <3>1, <3>2
  <2>3. CASE at # 0 /\ p = ParentOf(at)
    <3>1. PICK c \in 0..MaxChildren(p) - 1 : ChildAt(p, c) = at
      BY <2>1, <2>3, ChildOfParent
    <3>2. c \in Mask(p, count)
      <4> HIDE DEF S
      <4>1. ChildAt(p, c) < count
        BY <2>1, <3>1
      <4> QED
        BY <2>1, <4>1, IsMasked
    <3>3. c \in S
      BY <3>1, <3>2
    <3>4. \A d \in S : d = c
      <4> HIDE DEF S
      <4> TAKE d \in S
      <4>1. c \in 0..5 /\ d \in 0..5 /\ at = p + Bit(c) /\ at = p + Bit(d)
        BY <2>2, <3>3
      <4>2. /\ Bit(c) \in Int /\ Bit(d) \in Int
            /\ c < d => Bit(c) < Bit(d)
            /\ d < c => Bit(d) < Bit(c)
        BY <4>1, Bits
      <4> QED
        BY <2>1, <4>1, <4>2
    <3> HIDE DEF S
    <3>5. S = {c}
      BY <3>3, <3>4
    <3>6. Cardinality(S) = 1
      BY <3>5, FS_Singleton
    <3> QED
      BY <2>3, <3>6 DEF S
  <2>4. CASE ~(at # 0 /\ p = ParentOf(at))
    <3> HIDE DEF S
    <3>1. S = {}
      BY <2>2, <2>4
    <3>2. Cardinality(S) = 0
      BY <3>1, FS_EmptySet
    <3> QED
      BY <2>4, <3>2 DEF S
  <2> QED
    BY <2>3, <2>4
<1> QED
  BY <1>1, PathAlways, PTL

(* Fzx::commit() posts kJob in the order of the indices, so a worker has   *)
(* its kJob before a child can publish results of that job: the parent has *)
(* the smaller index.  And there are at most six merges on the way of the  *)
(* results to worker 0.                                                    *)
THEOREM ParentsComeFirst == PathSpec => []ParentFirst
<1>1. PathInv => ParentFirst
  <2> SUFFICES ASSUME PathInv
               PROVE  ParentFirst
    OBVIOUS
  <2>1. count \in 1..64 /\ at \in 0..count - 1
        /\ hops \in Nat /\ hops <= MaxChildren(at)
    BY DEF PathInv
  <2>2. at # 0 => ParentOf(at) < at
    BY <2>1, ParentTable
  <2>3. \A c \in Mask(at, count) :
          ChildAt(at, c) \in at + 1..count - 1
    BY <2>1, MaskFacts
  <2>4. MaxChildren(at) \in 0..6
    BY <2>1, ChildrenTable
  <2> HIDE DEF MaxChildren
  <2>5. hops <= 6
    BY <2>1, <2>4
  <2> QED
    BY <2>2, <2>3, <2>5 DEF ParentFirst
<1> QED
  BY <1>1, PathAlways, PTL
=============================================================================
