---------------------------- MODULE EventsProofs ----------------------------
(***************************************************************************)
(* Proofs about module Events: its invariants, and that it implements the  *)
(* safety part of EventChannel, for every set of flags and of posters.     *)
(***************************************************************************)
EXTENDS Events, TLAPS

(* Who holds the mutex.  The posters are kept out of their critical        *)
(* section while the owner is between two tests of mState and the sleep.   *)
OwnerHolds == opc \in {"arm", "sleep", "recheck", "consume", "unlock"}

MutexInv ==
  /\ mMutex = Owner <=> OwnerHolds
  /\ \A p \in Posters : mMutex = p <=> ppc[p] = "unlock"

(* An event that came after the owner tested mState and before it sleeps   *)
(* has left its poster in front of the mutex.                              *)
SleepInv ==
  opc = "sleep" /\ Pending # {} => \E p \in Posters : ppc[p] = "lock"

(* wait() does not consume before there is something to consume. *)
ConsumeInv == opc = "consume" => Pending # {}

Inv ==
  /\ TypeOK
  /\ MutexInv
  /\ WaitFlagOnlyInWait
  /\ SleepInv
  /\ NoLostWakeup
  /\ ConsumeInv

-----------------------------------------------------------------------------

LEMMA InitInv == Init => Inv
BY EventsAssumption
   DEF Init, Inv, TypeOK, MutexInv, OwnerHolds, WaitFlagOnlyInWait, SleepInv,
       NoLostWakeup, ConsumeInv, Pending, OwnerPlaces, PosterPlaces

(* Every step of the owner and of a poster keeps the invariant. *)
LEMMA NextInv == Inv /\ [Next]_vars => Inv'
<1> SUFFICES ASSUME Inv, [Next]_vars PROVE Inv'
  OBVIOUS
<1> USE EventsAssumption
<1> USE DEF Inv, TypeOK, MutexInv, OwnerHolds, WaitFlagOnlyInWait, SleepInv,
            NoLostWakeup, ConsumeInv, Pending, OwnerPlaces, PosterPlaces
<1>1. CASE Get
  BY <1>1 DEF Get
<1>2. CASE WaitLock
  BY <1>2 DEF WaitLock
<1>3. CASE WaitArm
  BY <1>3 DEF WaitArm
<1>4. CASE WaitSleep
  BY <1>4 DEF WaitSleep
<1>5. CASE SpuriousWakeup
  BY <1>5 DEF SpuriousWakeup
<1>6. CASE WaitRelock
  BY <1>6 DEF WaitRelock
<1>7. CASE WaitRecheck
  BY <1>7 DEF WaitRecheck
<1>8. CASE WaitConsume
  BY <1>8 DEF WaitConsume
<1>9. CASE WaitReturn
  BY <1>9 DEF WaitReturn
<1>10. ASSUME NEW p \in Posters, NEW fs \in SUBSET Flags \ {{}},
              PostFlags(p, fs)
       PROVE  Inv'
  (* The first event after the owner announced its sleep puts its poster   *)
  (* on the way to the mutex; after a later one that poster is still there. *)
  <2>1. TypeOK' /\ MutexInv' /\ WaitFlagOnlyInWait' /\ ConsumeInv'
    BY <1>10 DEF PostFlags
  <2>2. CASE mState = {WaitFlag}
    <3>1. ppc'[p] = "lock"
      BY <1>10, <2>2 DEF PostFlags
    <3> QED
      BY <2>1, <3>1
  <2>3. CASE mState # {WaitFlag}
    <3>1. opc' = opc /\ ppc' = ppc
      BY <1>10, <2>3 DEF PostFlags
    <3>2. opc \in {"sleep", "asleep"} => Pending # {}
      BY <2>3
    <3> QED
      BY <2>1, <3>1, <3>2
  <2> QED
    BY <2>2, <2>3
<1>11. ASSUME NEW p \in Posters, PostLock(p) PROVE Inv'
  BY <1>11 DEF PostLock
<1>12. ASSUME NEW p \in Posters, PostUnlock(p) PROVE Inv'
  BY <1>12 DEF PostUnlock
<1>13. ASSUME NEW p \in Posters, PostNotify(p) PROVE Inv'
  BY <1>13 DEF PostNotify
<1>14. CASE UNCHANGED vars
  BY <1>14 DEF vars
<1> QED
  BY <1>1, <1>2, <1>3, <1>4, <1>5, <1>6, <1>7, <1>8, <1>9, <1>10, <1>11,
     <1>12, <1>13, <1>14 DEF Next, WaitStep, WakeStep

(* Inv holds in every reachable state; the three invariants that the run   *)
(* of module MCEvents checks are among its conjuncts.                      *)
THEOREM Invariance == Spec => []Inv
<1>1. Init => Inv
  BY InitInv
<1>2. Inv /\ [Next]_vars => Inv'
  BY NextInv
<1> QED
  BY <1>1, <1>2, PTL DEF Spec, SafeSpec

(* mState holds posted flags and the reserved bit and nothing else, and    *)
(* neither get() nor wait() ever returns the reserved bit.                 *)
THEOREM TypeCorrect == Spec => []TypeOK
<1>1. Inv => TypeOK
  BY DEF Inv
<1> QED
  BY Invariance, <1>1, PTL

(* A worker never sleeps on a pending event without a poster that is on    *)
(* its way to wake it up (events.cpp, post()).                             *)
THEOREM NoWakeupIsLost == Spec => []NoLostWakeup
<1>1. Inv => NoLostWakeup
  BY DEF Inv
<1> QED
  BY Invariance, <1>1, PTL

(* kWaitFlag is set in mState exactly while the owner is in wait(), between *)
(* the fetch_or and the exchange.                                          *)
THEOREM WaitFlagIsPrivate == Spec => []WaitFlagOnlyInWait
<1>1. Inv => WaitFlagOnlyInWait
  BY DEF Inv
<1> QED
  BY Invariance, <1>1, PTL

-----------------------------------------------------------------------------

(* Each step of Events is a step of EventChannel, or changes nothing that  *)
(* the channel can see.                                                    *)
LEMMA StepSimulation == Inv /\ [Next]_vars => [Channel!Next]_(Channel!vars)
<1> SUFFICES ASSUME Inv, [Next]_vars PROVE [Channel!Next]_(Channel!vars)
  OBVIOUS
<1> USE EventsAssumption
<1> USE DEF Channel!vars, Pending
<1>1. CASE Get
  <2>1. WaitFlag \notin mState
    BY <1>1 DEF Get, Inv, WaitFlagOnlyInWait
  <2>2. Channel!Get
    BY <1>1, <2>1 DEF Get, Channel!Get
  <2> QED
    BY <2>2 DEF Channel!Next
<1>2. CASE WaitLock
  <2>1. Channel!BeginWait
    BY <1>2 DEF WaitLock, Channel!BeginWait
  <2> QED
    BY <2>1 DEF Channel!Next
<1>3. CASE WaitConsume
  <2>1. Pending # {}
    BY <1>3 DEF WaitConsume, Inv, ConsumeInv
  <2>2. Channel!EndWait
    BY <1>3, <2>1 DEF WaitConsume, Channel!EndWait
  <2> QED
    BY <2>2 DEF Channel!Next
<1>4. ASSUME NEW p \in Posters, NEW fs \in SUBSET Flags \ {{}},
             PostFlags(p, fs)
      PROVE  [Channel!Next]_(Channel!vars)
  <2>1. Channel!Post(fs)
    BY <1>4 DEF PostFlags, Channel!Post
  <2> QED
    BY <2>1 DEF Channel!Next
<1>5. CASE WaitArm \/ WaitSleep \/ SpuriousWakeup \/ WaitRelock
             \/ WaitRecheck \/ WaitReturn
  BY <1>5 DEF WaitArm, WaitSleep, SpuriousWakeup, WaitRelock, WaitRecheck,
              WaitReturn
<1>6. ASSUME NEW p \in Posters, WakeStep(p)
      PROVE  [Channel!Next]_(Channel!vars)
  BY <1>6 DEF WakeStep, PostLock, PostUnlock, PostNotify
<1>7. CASE UNCHANGED vars
  BY <1>7 DEF vars
<1> QED
  BY <1>1, <1>2, <1>3, <1>4, <1>5, <1>6, <1>7 DEF Next, WaitStep

(* Events delivers every flag exactly once, in the order of the exchanges, *)
(* and wait() returns only with a flag: fzx::Events implements the channel. *)
THEOREM EventsImplementChannel == Spec => Channel!SafeSpec
<1>1. Init => Channel!Init
  BY EventsAssumption DEF Init, Channel!Init, Pending
<1>2. Inv /\ [Next]_vars => [Channel!Next]_(Channel!vars)
  BY StepSimulation
<1> QED
  BY Invariance, <1>1, <1>2, PTL DEF Spec, SafeSpec, Channel!SafeSpec

=============================================================================
