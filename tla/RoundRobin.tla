----------------------------- MODULE RoundRobin ------------------------------
(***************************************************************************)
(* What a round-robin scheduler promises, with no task table, no states    *)
(* and no context: the live processes stand in a ring, the first one has   *)
(* the CPU, a time slice moves it behind all others, and a process that    *)
(* returns leaves the ring for good.                                       *)
(***************************************************************************)
EXTENDS Naturals, Sequences

CONSTANTS
  Pid,   \* PIDs a process can have
  Idle   \* the process that never returns

VARIABLES
  ring,   \* live processes, the running one first
  gone    \* processes that returned

rrVars == <<ring, gone>>

Members == {ring[i] : i \in 1 .. Len(ring)}

RRInit == ring = <<Idle>> /\ gone = {}

Spawn(p) ==
  /\ p \notin Members \cup gone
  /\ ring' = Append(ring, p)
  /\ UNCHANGED gone

\* A slice ends.  With a single process in the ring nothing changes.
Rotate ==
  /\ Len(ring) > 1
  /\ ring' = Append(Tail(ring), Head(ring))
  /\ UNCHANGED gone

\* The running process returns; somebody is always there to take over.
Exit ==
  /\ Head(ring) # Idle
  /\ Len(ring) > 1
  /\ ring' = Tail(ring)
  /\ gone' = gone \cup {Head(ring)}

RRNext == (\E p \in Pid : Spawn(p)) \/ Rotate \/ Exit

RRSpec == RRInit /\ [][RRNext]_rrVars

=============================================================================
