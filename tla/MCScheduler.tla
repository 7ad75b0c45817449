----------------------------- MODULE MCScheduler -----------------------------
(* The scheduler with room for MAX_PROCS - 1 processes besides the null     *)
(* process.  PIDs are never reused, so this also bounds the processes ever  *)
(* created.                                                                 *)
EXTENDS Scheduler
=============================================================================
