------------------------------- MODULE Events -------------------------------
(***************************************************************************)
(* fzx::Events, the event flags of one worker thread (src/fzx/events.cpp): *)
(* an atomic word mState, a mutex and a condition variable.  One thread,   *)
(* the owner, calls get() and wait(); any number of posters call post().   *)
(*                                                                         *)
(* One action is one atomic access to mState, one mutex operation or one   *)
(* condition-variable operation.  mState is the set of the bits that are   *)
(* set in it, the reserved high bit being WaitFlag.                        *)
(***************************************************************************)

CONSTANTS
  Flags,       \* the flags callers may post (kStop, kJob, kMerge, ...)
  WaitFlag,    \* kWaitFlag, the reserved bit of mState
  Posters,     \* the threads that call post()
  Owner,       \* the thread that calls get() and wait()
  Free         \* the mutex is not held

ASSUME EventsAssumption ==
  /\ WaitFlag \notin Flags
  /\ Owner \notin Posters
  /\ Free \notin Posters \union {Owner}

VARIABLES
  mState,      \* the bits set in the atomic word
  mMutex,      \* the thread that holds the mutex, or Free
  opc,         \* where the owner is in get() / wait()
  ppc,         \* where each poster is in post()
  ret          \* what the owner's last get() or wait() returned

vars == <<mState, mMutex, opc, ppc, ret>>

(* The owner's places.  "run": in neither function.  "arm": wait() holds   *)
(* the mutex, before the fetch_or.  "sleep": about to call mCv.wait.       *)
(* "asleep": blocked in mCv.wait, mutex released.  "woken": mCv.wait is    *)
(* taking the mutex back.  "recheck": before the loop condition.           *)
(* "consume": before the exchange.  "unlock": before the return.           *)
OwnerPlaces ==
  {"run", "arm", "sleep", "asleep", "woken", "recheck", "consume", "unlock"}

PosterPlaces == {"idle", "lock", "unlock", "notify"}

(* mState & kEventMask *)
Pending == mState \ {WaitFlag}

(* Nobody is in wait() or post(), and no event is set. *)
Init ==
  /\ mState = {}
  /\ mMutex = Free
  /\ opc = "run"
  /\ ppc = [p \in Posters |-> "idle"]
  /\ ret = {}

-----------------------------------------------------------------------------
(* Mistakes the properties below exclude.  None of them is part of Next:   *)
(* each shows, put in place of the action it is named after, that the      *)
(* property about that action can be violated.                             *)

(* get() loads mState without clearing it. *)
Get_Load ==
  /\ opc = "run"
  /\ ret' = mState
  /\ UNCHANGED <<mState, mMutex, opc, ppc>>

(* wait() returns mState without masking it. *)
WaitConsume_Unmasked ==
  /\ opc = "consume"
  /\ ret' = mState
  /\ mState' = {}
  /\ opc' = "unlock"
  /\ UNCHANGED <<mMutex, ppc>>

(* wait() takes the events and leaves kWaitFlag set. *)
WaitConsume_KeepFlag ==
  /\ opc = "consume"
  /\ ret' = Pending
  /\ mState' = mState \ Flags
  /\ opc' = "unlock"
  /\ UNCHANGED <<mMutex, ppc>>

(* post() notifies without the empty critical section. *)
PostFlags_NoLock(p, fs) ==
  /\ ppc[p] = "idle"
  /\ mState' = mState \union fs
  /\ ppc' = [ppc EXCEPT ![p] =
       IF mState = {WaitFlag} THEN "notify" ELSE "idle"]
  /\ UNCHANGED <<mMutex, opc, ret>>

(* post() does not notify. *)
PostUnlock_NoNotify(p) ==
  /\ ppc[p] = "unlock"
  /\ mMutex' = Free
  /\ ppc' = [ppc EXCEPT ![p] = "idle"]
  /\ UNCHANGED <<mState, opc, ret>>

-----------------------------------------------------------------------------
(* The owner *)

(* get(): one exchange, not masked. *)
Get ==
  /\ opc = "run"
  /\ ret' = mState
  /\ mState' = {}
  /\ UNCHANGED <<mMutex, opc, ppc>>

WaitLock ==
  /\ opc = "run"
  /\ mMutex = Free
  /\ mMutex' = Owner
  /\ opc' = "arm"
  /\ UNCHANGED <<mState, ppc, ret>>

(* The fetch_or that enters the waiting state and reads the events. *)
WaitArm ==
  /\ opc = "arm"
  /\ mState' = mState \union {WaitFlag}
  /\ opc' = IF Pending = {} THEN "sleep" ELSE "consume"
  /\ UNCHANGED <<mMutex, ppc, ret>>

(* mCv.wait(lock): the mutex is released and the thread blocks, atomically. *)
WaitSleep ==
  /\ opc = "sleep"
  /\ opc' = "asleep"
  /\ mMutex' = Free
  /\ UNCHANGED <<mState, ppc, ret>>

(* A condition variable may wake a thread that nobody notified. *)
SpuriousWakeup ==
  /\ opc = "asleep"
  /\ opc' = "woken"
  /\ UNCHANGED <<mState, mMutex, ppc, ret>>

WaitRelock ==
  /\ opc = "woken"
  /\ mMutex = Free
  /\ mMutex' = Owner
  /\ opc' = "recheck"
  /\ UNCHANGED <<mState, ppc, ret>>

WaitRecheck ==
  /\ opc = "recheck"
  /\ opc' = IF Pending = {} THEN "sleep" ELSE "consume"
  /\ UNCHANGED <<mState, mMutex, ppc, ret>>

(* The exchange that leaves the waiting state; the result is masked. *)
WaitConsume ==
  /\ opc = "consume"
  /\ ret' = Pending
  /\ mState' = {}
  /\ opc' = "unlock"
  /\ UNCHANGED <<mMutex, ppc>>

WaitReturn ==
  /\ opc = "unlock"
  /\ mMutex' = Free
  /\ opc' = "run"
  /\ UNCHANGED <<mState, ppc, ret>>

-----------------------------------------------------------------------------
(* A poster *)

(* The fetch_or of post(): only the poster that found exactly kWaitFlag    *)
(* goes on to wake the owner, the others return.                           *)
PostFlags(p, fs) ==
  /\ ppc[p] = "idle"
  /\ mState' = mState \union fs
  /\ ppc' = [ppc EXCEPT ![p] = IF mState = {WaitFlag} THEN "lock" ELSE "idle"]
  /\ UNCHANGED <<mMutex, opc, ret>>

PostLock(p) ==
  /\ ppc[p] = "lock"
  /\ mMutex = Free
  /\ mMutex' = p
  /\ ppc' = [ppc EXCEPT ![p] = "unlock"]
  /\ UNCHANGED <<mState, opc, ret>>

PostUnlock(p) ==
  /\ ppc[p] = "unlock"
  /\ mMutex' = Free
  /\ ppc' = [ppc EXCEPT ![p] = "notify"]
  /\ UNCHANGED <<mState, opc, ret>>

(* notify_one: wakes the owner if it is blocked, otherwise does nothing. *)
PostNotify(p) ==
  /\ ppc[p] = "notify"
  /\ opc' = IF opc = "asleep" THEN "woken" ELSE opc
  /\ ppc' = [ppc EXCEPT ![p] = "idle"]
  /\ UNCHANGED <<mState, mMutex, ret>>

-----------------------------------------------------------------------------

(* The steps of wait() once it has begun, spurious wake-ups left out. *)
WaitStep ==
  \/ WaitArm
  \/ WaitSleep
  \/ WaitRelock
  \/ WaitRecheck
  \/ WaitConsume
  \/ WaitReturn

(* The steps of a post() that is on its way to wake the owner. *)
WakeStep(p) == PostLock(p) \/ PostUnlock(p) \/ PostNotify(p)

Next ==
  \/ Get
  \/ WaitLock
  \/ WaitStep
  \/ SpuriousWakeup
  \/ \E p \in Posters : WakeStep(p)
  \/ \E p \in Posters, fs \in SUBSET Flags \ {{}} : PostFlags(p, fs)

SafeSpec == Init /\ [][Next]_vars

(* Threads that are inside wait() or post() keep running; nobody is obliged *)
(* to call either function, and no wake-up is ever assumed to be spurious.  *)
Fairness ==
  /\ WF_vars(WaitStep)
  /\ \A p \in Posters : WF_vars(WakeStep(p))

Spec == SafeSpec /\ Fairness

-----------------------------------------------------------------------------
(* Properties *)

(* The types; in particular no worker is ever handed the reserved bit,     *)
(* although get() does not mask what it returns.                           *)
TypeOK ==
  /\ mState \in SUBSET (Flags \union {WaitFlag})
  /\ mMutex \in Posters \union {Owner, Free}
  /\ opc \in OwnerPlaces
  /\ ppc \in [Posters -> PosterPlaces]
  /\ ret \in SUBSET Flags

(* No lost wake-up: whenever the owner is blocked in mCv.wait although an  *)
(* event is pending, some poster is still between the fetch_or that let it *)
(* through and its notify_one.  This is what the empty critical section of *)
(* post() is for (events.cpp: "Synchronizes with mCv.wait").               *)
NoLostWakeup ==
  opc = "asleep" /\ Pending # {} =>
    \E p \in Posters : ppc[p] \in {"lock", "unlock", "notify"}

(* The reserved bit is set exactly while the owner is between the fetch_or *)
(* and the exchange of wait(), so that get(), which does not mask, cannot  *)
(* meet it, and a post() outside wait() never takes the mutex.             *)
WaitFlagOnlyInWait ==
  WaitFlag \in mState
    <=> opc \in {"sleep", "asleep", "woken", "recheck", "consume"}

(* Every wait() with a pending event returns, however the posters and the  *)
(* spurious wake-ups interleave with it.                                   *)
PendingEndsWait == (opc # "run" /\ Pending # {}) ~> (opc = "run")

(* Events implements EventChannel: the owner is waiting from the moment    *)
(* wait() has the mutex until its exchange.                                *)
Channel == INSTANCE EventChannel WITH
  pending <- Pending,
  waiting <- opc \notin {"run", "unlock"}

ImplementsChannel == Channel!Spec

=============================================================================
