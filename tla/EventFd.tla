------------------------------- MODULE EventFd -------------------------------
(***************************************************************************)
(* fzx::EventFd (src/fzx/helper/eventfd.cpp), the pipe through which the   *)
(* worker threads wake up the event loop of a front end, together with the *)
(* two sides that use it: the callback of Fzx (a worker publishes, then    *)
(* calls notify()) and the event loop (the descriptor is readable, so it   *)
(* calls consume(), then loadResults()).  This is the `wakeup' of module   *)
(* Pool, and its two steps ConsumeWakeup and LoadResults, in detail.       *)
(***************************************************************************)
EXTENDS Integers, FiniteSets

CONSTANTS
  Notifiers,      \* the threads that call notify()
  Free,           \* the mutex is not held
  Capacity,       \* how many bytes the pipe can hold
  MaxInterrupts   \* how often a write is interrupted before it gets through

MaxTries == 5     \* the attempts of notify() to write its byte

(* Two bytes are less than any pipe holds.  A write that does not block is *)
(* hardly ever interrupted, and is assumed not to be five times in a row.  *)
ASSUME EventFdAssumption ==
  /\ Free \notin Notifiers
  /\ Capacity \in Nat /\ Capacity >= 2
  /\ MaxInterrupts \in 0..MaxTries - 1

VARIABLES
  mActive,        \* a notification is under way
  mMutex,         \* the notifier that holds the mutex, or Free
  pipe,           \* bytes in the pipe
  npc, tries,     \* each notifier's place, and its attempts to write
  cpc,            \* the event loop's place
  unseen          \* something was published after the last loadResults()

vars == <<mActive, mMutex, pipe, npc, tries, cpc, unseen>>

Init ==
  /\ mActive = FALSE
  /\ mMutex = Free
  /\ pipe = 0
  /\ npc = [n \in Notifiers |-> "idle"]
  /\ tries = [n \in Notifiers |-> 0]
  /\ cpc = "poll"
  /\ unseen = FALSE

-----------------------------------------------------------------------------
(* Mistakes the properties below exclude; none of them is part of Next.    *)

(* notify() tests mActive before it sets it, outside the mutex. *)
NotifyExchange_NoSet(n) ==
  /\ npc[n] = "exchange"
  /\ npc' = [npc EXCEPT ![n] = IF mActive THEN "unlock" ELSE "write"]
  /\ UNCHANGED <<mActive, mMutex, pipe, tries, cpc, unseen>>

(* consume() clears mActive after it has read, not before. *)
ConsumeRead_ClearLate ==
  /\ cpc = "read"
  /\ cpc' = "load"
  /\ pipe' = IF pipe > 0 THEN pipe - 1 ELSE 0
  /\ mActive' = FALSE
  /\ UNCHANGED <<mMutex, npc, tries, unseen>>

(* The event loop is woken up, but consume() does not clear mActive. *)
ConsumeExchange_KeepActive ==
  /\ cpc = "exchange"
  /\ cpc' = IF mActive THEN "read" ELSE "load"
  /\ UNCHANGED <<mActive, mMutex, pipe, npc, tries, unseen>>

-----------------------------------------------------------------------------
(* A notifier *)

(* The worker commits its results, or sets its error flag, and then calls  *)
(* the callback.                                                           *)
PublishNews(n) ==
  /\ npc[n] = "idle"
  /\ unseen' = TRUE
  /\ npc' = [npc EXCEPT ![n] = "lock"]
  /\ UNCHANGED <<mActive, mMutex, pipe, tries, cpc>>

NotifyLock(n) ==
  /\ npc[n] = "lock"
  /\ mMutex = Free
  /\ mMutex' = n
  /\ npc' = [npc EXCEPT ![n] = "exchange"]
  /\ UNCHANGED <<mActive, pipe, tries, cpc, unseen>>

(* mActive.exchange(true): a notification that is not consumed yet is left *)
(* to do the work of this one.                                             *)
NotifyExchange(n) ==
  /\ npc[n] = "exchange"
  /\ mActive' = TRUE
  /\ npc' = [npc EXCEPT ![n] = IF mActive THEN "unlock" ELSE "write"]
  /\ UNCHANGED <<mMutex, pipe, tries, cpc, unseen>>

NotifyWrite(n) ==
  /\ npc[n] = "write"
  /\ pipe < Capacity
  /\ pipe' = pipe + 1
  /\ npc' = [npc EXCEPT ![n] = "unlock"]
  /\ UNCHANGED <<mActive, mMutex, tries, cpc, unseen>>

(* EAGAIN or EINTR: the pipe is full, or the write was interrupted.  The   *)
(* fifth time notify() throws, and the mutex is unlocked on the way out.   *)
NotifyAgain(n) ==
  /\ npc[n] = "write"
  /\ pipe = Capacity \/ tries[n] < MaxInterrupts
  /\ tries' = [tries EXCEPT ![n] = @ + 1]
  /\ IF tries'[n] = MaxTries
     THEN npc' = [npc EXCEPT ![n] = "thrown"] /\ mMutex' = Free
     ELSE UNCHANGED <<npc, mMutex>>
  /\ UNCHANGED <<mActive, pipe, cpc, unseen>>

NotifyReturn(n) ==
  /\ npc[n] = "unlock"
  /\ mMutex' = Free
  /\ npc' = [npc EXCEPT ![n] = "idle"]
  /\ tries' = [tries EXCEPT ![n] = 0]
  /\ UNCHANGED <<mActive, pipe, cpc, unseen>>

-----------------------------------------------------------------------------
(* The event loop *)

Select ==
  /\ cpc = "poll"
  /\ pipe > 0
  /\ cpc' = "exchange"
  /\ UNCHANGED <<mActive, mMutex, pipe, npc, tries, unseen>>

(* mActive.exchange(false) *)
ConsumeExchange ==
  /\ cpc = "exchange"
  /\ mActive' = FALSE
  /\ cpc' = IF mActive THEN "read" ELSE "load"
  /\ UNCHANGED <<mMutex, pipe, npc, tries, unseen>>

(* One byte; the descriptor does not block, an empty pipe is ignored. *)
ConsumeRead ==
  /\ cpc = "read"
  /\ cpc' = "load"
  /\ pipe' = IF pipe > 0 THEN pipe - 1 ELSE 0
  /\ UNCHANGED <<mActive, mMutex, npc, tries, unseen>>

LoadResults ==
  /\ cpc = "load"
  /\ cpc' = "poll"
  /\ unseen' = FALSE
  /\ UNCHANGED <<mActive, mMutex, pipe, npc, tries>>

-----------------------------------------------------------------------------

NotifyStep(n) ==
  \/ NotifyLock(n)
  \/ NotifyExchange(n)
  \/ NotifyWrite(n) \/ NotifyAgain(n)
  \/ NotifyReturn(n)

EventLoopStep ==
  \/ Select
  \/ ConsumeExchange
  \/ ConsumeRead
  \/ LoadResults

Next ==
  \/ EventLoopStep
  \/ \E n \in Notifiers : PublishNews(n) \/ NotifyStep(n)

SafeSpec == Init /\ [][Next]_vars

(* The event loop polls again and again and a notify() that can go on goes *)
(* on; no worker has to publish, and the mutex need not be fair.           *)
Fairness ==
  /\ WF_vars(EventLoopStep)
  /\ \A n \in Notifiers : WF_vars(NotifyStep(n))

Spec == SafeSpec /\ Fairness

-----------------------------------------------------------------------------
(* Properties *)

NotifierPlaces == {"idle", "lock", "exchange", "write", "unlock", "thrown"}

(* The types; in particular two bytes are as many as the pipe ever holds. *)
TypeOK ==
  /\ mActive \in BOOLEAN
  /\ mMutex \in Notifiers \union {Free}
  /\ pipe \in 0..2
  /\ npc \in [Notifiers -> NotifierPlaces]
  /\ tries \in [Notifiers -> 0..MaxTries]
  /\ cpc \in {"poll", "exchange", "read", "load"}
  /\ unseen \in BOOLEAN

(* Nothing published stays unseen: either a notify() for it is on its way  *)
(* to the pipe, or the descriptor is readable, or the event loop has been  *)
(* woken up and has not loaded yet.  A notification that another thread    *)
(* left to the one before it is covered by that one's byte, even when the  *)
(* event loop is between clearing mActive and reading the byte.            *)
NoLostNews ==
  unseen =>
    \/ pipe > 0
    \/ cpc # "poll"
    \/ \E n \in Notifiers : npc[n] \in {"lock", "exchange", "write", "thrown"}

(* A readable descriptor is never left readable: consume() finds mActive   *)
(* set and takes a byte, so that the event loop does not spin.             *)
NoBusyLoop ==
  /\ cpc \in {"poll", "exchange"} /\ pipe > 0 => mActive
  /\ cpc = "read" => pipe > 0

(* notify() never runs out of attempts (eventfd.cpp: "I don't think EAGAIN *)
(* can happen").                                                           *)
NeverThrows == \A n \in Notifiers : npc[n] # "thrown"

(* What is published is loaded. *)
NewsIsLoaded == unseen ~> ~unseen

=============================================================================
