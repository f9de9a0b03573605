---------------------------- MODULE EventFdProofs ----------------------------
(***************************************************************************)
(* Proofs about module EventFd: its invariants, for any number of          *)
(* notifying threads.                                                      *)
(***************************************************************************)
EXTENDS EventFd, TLAPS

MutexInv ==
  \A n \in Notifiers :
    mMutex = n <=> npc[n] \in {"exchange", "write", "unlock"}

One(b) == IF b THEN 1 ELSE 0

Writing == \E n \in Notifiers : npc[n] = "write"

(* The bytes in the pipe, and the one a notifier is about to write, are    *)
(* those of the notification under way and of the one being consumed.      *)
CountInv == pipe + One(Writing) = One(mActive) + One(cpc = "read")

(* Only a notification whose byte was written is consumed. *)
OrderInv ==
  /\ Writing => mActive
  /\ cpc \in {"exchange", "read"} => pipe > 0

TriesInv == \A n \in Notifiers : tries[n] <= MaxInterrupts

Inv ==
  /\ TypeOK
  /\ MutexInv
  /\ CountInv
  /\ OrderInv
  /\ TriesInv
  /\ NoLostNews
  /\ NeverThrows

-----------------------------------------------------------------------------

LEMMA InitInv == Init => Inv
<1> SUFFICES ASSUME Init PROVE Inv
  OBVIOUS
<1> USE EventFdAssumption DEF Init, MaxTries
<1>1. mActive \in BOOLEAN /\ unseen \in BOOLEAN /\ ~mActive /\ ~unseen
  BY Zenon
<1>2. TypeOK /\ MutexInv /\ TriesInv /\ NeverThrows
  BY <1>1 DEF TypeOK, NotifierPlaces, MutexInv, TriesInv, NeverThrows
<1>3. ~Writing
  BY DEF Writing
<1>4. CountInv /\ OrderInv
  BY <1>1, <1>3 DEF CountInv, OrderInv, One
<1>5. NoLostNews
  BY <1>1 DEF NoLostNews
<1> QED
  BY <1>2, <1>4, <1>5 DEF Inv

(* The steps of the event loop. *)
LEMMA EventLoopKeepsInv == Inv /\ EventLoopStep => Inv'
<1> SUFFICES ASSUME Inv, EventLoopStep PROVE Inv'
  OBVIOUS
<1> USE EventFdAssumption
<1> USE DEF Inv, TypeOK, MutexInv, CountInv, OrderInv, TriesInv, NoLostNews,
            NeverThrows, Writing, One, NotifierPlaces, MaxTries
<1>1. CASE Select
  BY <1>1 DEF Select
<1>2. CASE ConsumeExchange
  (* The pipe is not empty and nothing is being consumed, so there is a    *)
  (* notification, and its byte is the one in the pipe.                    *)
  <2>1. mActive /\ ~Writing
    BY <1>2 DEF ConsumeExchange
  <2>2. mActive' = FALSE /\ cpc' = "read"
    BY <1>2, <2>1, Zenon DEF ConsumeExchange
  <2>3. UNCHANGED <<mMutex, pipe, npc, tries, unseen>>
    BY <1>2 DEF ConsumeExchange
  <2>4. CountInv' /\ OrderInv'
    BY <1>2, <2>1, <2>2, <2>3 DEF ConsumeExchange
  <2> QED
    BY <2>2, <2>3, <2>4
<1>3. CASE ConsumeRead
  BY <1>3 DEF ConsumeRead
<1>4. CASE LoadResults
  BY <1>4 DEF LoadResults
<1> QED
  BY <1>1, <1>2, <1>3, <1>4 DEF EventLoopStep

(* The steps of a notifier. *)
LEMMA NotifierKeepsInv ==
  ASSUME NEW n \in Notifiers, Inv, PublishNews(n) \/ NotifyStep(n)
  PROVE  Inv'
<1> USE EventFdAssumption
<1> USE DEF Inv, TypeOK, MutexInv, CountInv, OrderInv, TriesInv, NoLostNews,
            NeverThrows, Writing, One, NotifierPlaces, MaxTries
<1>1. CASE PublishNews(n)
  BY <1>1 DEF PublishNews
<1>2. CASE NotifyLock(n)
  BY <1>2 DEF NotifyLock
<1>3. CASE NotifyExchange(n)
  BY <1>3 DEF NotifyExchange
<1>4. CASE NotifyWrite(n)
  BY <1>4 DEF NotifyWrite
<1>5. CASE NotifyAgain(n)
  BY <1>5 DEF NotifyAgain
<1>6. CASE NotifyReturn(n)
  BY <1>6 DEF NotifyReturn
<1> QED
  BY <1>1, <1>2, <1>3, <1>4, <1>5, <1>6 DEF NotifyStep

(* Inv holds in every reachable state. *)
THEOREM Invariance == Spec => []Inv
<1>1. Inv /\ UNCHANGED vars => Inv'
  BY DEF vars, Inv, TypeOK, MutexInv, CountInv, OrderInv, TriesInv,
         NoLostNews, NeverThrows, Writing, One
<1>2. Inv /\ [Next]_vars => Inv'
  BY <1>1, EventLoopKeepsInv, NotifierKeepsInv DEF Next
<1> QED
  BY InitInv, <1>2, PTL DEF Spec, SafeSpec

(* The state has its types; the pipe never holds more than two bytes. *)
THEOREM TypeCorrect == Spec => []TypeOK
<1>1. Inv => TypeOK
  BY DEF Inv
<1> QED
  BY Invariance, <1>1, PTL

(* Whatever a worker publishes before it calls notify() is loaded later    *)
(* than that, or the event loop is on its way to it: no wake-up is lost.   *)
THEOREM NoNewsIsLost == Spec => []NoLostNews
<1>1. Inv => NoLostNews
  BY DEF Inv
<1> QED
  BY Invariance, <1>1, PTL

(* consume() always empties what made the descriptor readable, as far as   *)
(* there is no notification after it.                                      *)
THEOREM EventLoopNeverSpins == Spec => []NoBusyLoop
<1>1. Inv => NoBusyLoop
  BY DEF Inv, TypeOK, CountInv, OrderInv, One, NoBusyLoop
<1> QED
  BY Invariance, <1>1, PTL

(* The pipe is never full, so notify() always writes its byte. *)
THEOREM NotifyNeverThrows == Spec => []NeverThrows
<1>1. Inv => NeverThrows
  BY DEF Inv
<1> QED
  BY Invariance, <1>1, PTL

=============================================================================
