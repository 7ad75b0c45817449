---------------------------- MODULE MCPreemption -----------------------------
(* Preemption with a few processes and short slices.                        *)
EXTENDS Preemption
=============================================================================
