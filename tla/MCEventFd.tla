----------------------------- MODULE MCEventFd -----------------------------
(* EventFd for TLC: a pipe that would soon be full if it could. *)
EXTENDS EventFd
=============================================================================
