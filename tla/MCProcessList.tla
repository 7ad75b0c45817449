---------------------------- MODULE MCProcessList ----------------------------
(* A table of MAX_PROCS - 1 processes besides the null process, with PIDs   *)
(* added and removed in every order.                                        *)
EXTENDS ProcessList
=============================================================================
