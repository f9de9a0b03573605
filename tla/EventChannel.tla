---------------------------- MODULE EventChannel ----------------------------
(***************************************************************************)
(* What fzx::Events (src/fzx/events.hpp) promises to the thread that owns  *)
(* it: flags posted by other threads accumulate in one set, get() takes    *)
(* the whole set without blocking, and wait() blocks until the set is not  *)
(* empty and then takes all of it.  No flag is lost, none is delivered     *)
(* twice, and a wait() for which an event is pending returns.              *)
(***************************************************************************)

CONSTANT Flags          \* the event flags a caller of post() may set

VARIABLES
  pending,              \* flags posted and not yet delivered
  waiting,              \* the owner is inside wait()
  ret                   \* what the last get() or wait() returned

vars == <<pending, waiting, ret>>

TypeOK ==
  /\ pending \in SUBSET Flags
  /\ waiting \in BOOLEAN
  /\ ret \in SUBSET Flags

Init ==
  /\ pending = {}
  /\ waiting = FALSE
  /\ ret = {}

Post(fs) ==
  /\ pending' = pending \union fs
  /\ UNCHANGED <<waiting, ret>>

Get ==
  /\ ~waiting
  /\ ret' = pending
  /\ pending' = {}
  /\ UNCHANGED waiting

BeginWait ==
  /\ ~waiting
  /\ waiting' = TRUE
  /\ UNCHANGED <<pending, ret>>

EndWait ==
  /\ waiting
  /\ pending # {}
  /\ ret' = pending
  /\ pending' = {}
  /\ waiting' = FALSE

Next ==
  \/ \E fs \in SUBSET Flags \ {{}} : Post(fs)
  \/ Get
  \/ BeginWait
  \/ EndWait

SafeSpec == Init /\ [][Next]_vars

Spec == SafeSpec /\ WF_vars(EndWait)

=============================================================================
