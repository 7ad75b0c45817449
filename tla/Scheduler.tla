------------------------------ MODULE Scheduler ------------------------------
(***************************************************************************)
(* CoopScheduler, src/task/coop_sched.rs: the methods of the trait         *)
(* Scheduling as atomic steps over the task table, the ready list and the  *)
(* PID of the running process.  Preemption splits the methods where an     *)
(* interrupt can come in between and shows that they stay atomic.          *)
(***************************************************************************)
EXTENDS ProcessList, Sequences

VARIABLES
  state,         \* Process.state of every PID in the table
  stack,         \* Process.stack is Some
  ready_list,    \* CoopScheduler.ready_list
  current_pid    \* CoopScheduler.current_pid

procVars == <<state, stack>>
schedVars == <<state, stack, ready_list, current_pid>>
vars == <<procs, next, added, state, stack, ready_list, current_pid>>

State == {"Free", "Current", "Suspended", "Ready"}

TypeOK ==
  /\ ListTypeOK
  /\ state \in [Usize -> State]
  /\ stack \in [Usize -> BOOLEAN]
  /\ ready_list \in Seq(Usize)
  /\ current_pid \in Usize

\* The PIDs in the ready list.
Queued == {ready_list[i] : i \in 1 .. Len(ready_list)}

-----------------------------------------------------------------------------
\* The table holds the null process, which is running on the boot stack.
\* PIDs that are not in the table have no process; their entries are idle.
Init ==
  /\ ListInit
  /\ state = [p \in Usize |-> IF p = NULL_PROC THEN "Current" ELSE "Suspended"]
  /\ stack = [p \in Usize |-> p = NULL_PROC]
  /\ ready_list = <<>>
  /\ current_pid = NULL_PROC

\* create: a new process is Suspended and owns a stack.  When add() returns
\* Err(-1) the `?` hands the error to the caller and nothing is created.
Create ==
  /\ Add
  /\ IF added' = Err
     THEN UNCHANGED procVars
     ELSE /\ state' = [state EXCEPT ![added'] = "Suspended"]
          /\ stack' = [stack EXCEPT ![added'] = TRUE]
  /\ UNCHANGED <<ready_list, current_pid>>

\* ready: the PID joins the ready list; Process.state is left alone.
Ready(id) ==
  /\ ready_list' = Append(ready_list, id)
  /\ UNCHANGED <<procs, next, added, state, stack, current_pid>>

\* The process taken off the list becomes the running one, unless it is
\* already.
SwitchTo(st, next_id) ==
  IF next_id # current_pid
  THEN state' = [st EXCEPT ![next_id] = "Current"] /\ current_pid' = next_id
  ELSE state' = st /\ UNCHANGED current_pid

\* Mutants of resched, which is below: the running process keeps its state,
\* is queued although it was killed, is not queued, or is queued in front;
\* the last of the list is popped.
ReschedKeepsState(st) ==
  LET queue == Append(ready_list, current_pid)
  IN ready_list' = Tail(queue) /\ SwitchTo(st, Head(queue))

ReschedQueuesKilled(st) ==
  LET queue == Append(ready_list, current_pid)
  IN /\ ready_list' = Tail(queue)
     /\ SwitchTo([st EXCEPT ![current_pid] = IF @ = "Current" THEN "Ready" ELSE @],
                 Head(queue))

ReschedForgetsPrev(st) ==
  IF ready_list = <<>>
  THEN state' = st /\ UNCHANGED <<ready_list, current_pid>>
  ELSE /\ ready_list' = Tail(ready_list)
       /\ SwitchTo([st EXCEPT ![current_pid] = IF @ = "Current" THEN "Ready" ELSE @],
                   Head(ready_list))

ReschedPopsLast(st) ==
  LET yields == st[current_pid] = "Current"
      queue == IF yields THEN <<current_pid>> \o ready_list ELSE ready_list
  IN IF ready_list = <<>>
     THEN state' = st /\ UNCHANGED <<ready_list, current_pid>>
     ELSE /\ ready_list' = SubSeq(queue, 1, Len(queue) - 1)
          /\ SwitchTo(IF yields THEN [st EXCEPT ![current_pid] = "Ready"] ELSE st,
                      queue[Len(queue)])

\* resched, started when the process states are st: the running process
\* goes to the back of the list unless it was killed, the front one runs.
ReschedFrom(st) ==
  IF ready_list = <<>>
  THEN /\ state' = st
       /\ UNCHANGED <<ready_list, current_pid>>
  ELSE LET yields == st[current_pid] = "Current"
           queue == IF yields THEN Append(ready_list, current_pid) ELSE ready_list
           st2 == IF yields THEN [st EXCEPT ![current_pid] = "Ready"] ELSE st
       IN ready_list' = Tail(queue) /\ SwitchTo(st2, Head(queue))

Resched ==
  /\ ReschedFrom(state)
  /\ UNCHANGED <<procs, next, added, stack>>

\* Mutant: kill without the resched.
KillNoResched(id) ==
  /\ id \in procs
  /\ state' = [state EXCEPT ![id] = "Free"]
  /\ stack' = [stack EXCEPT ![id] = FALSE]
  /\ UNCHANGED <<procs, next, added, ready_list, current_pid>>

\* kill: the process is marked Free and its stack dropped, then resched.
Kill(id) ==
  /\ id \in procs
  /\ ReschedFrom([state EXCEPT ![id] = "Free"])
  /\ stack' = [stack EXCEPT ![id] = FALSE]
  /\ UNCHANGED <<procs, next, added>>

-----------------------------------------------------------------------------
(* The callers.  syscall::create readies the PID it has just created, once; *)
(* process_return kills the running process, which is never the null        *)
(* process, as kmain ends in `loop {}`; the timer calls resched.            *)

NewProcess(p) == p \in procs /\ state[p] = "Suspended" /\ p \notin Queued

\* Mutant: the Err of create is not looked at.
ReadyUnchecked == Len(ready_list) < MAX_PROCS /\ Ready(added)

ReadyNew == \E p \in procs : NewProcess(p) /\ Ready(p)

ProcessReturn == current_pid # NULL_PROC /\ Kill(current_pid)

Next == Create \/ ReadyNew \/ Resched \/ ProcessReturn

\* No fairness: nothing in the code makes slices end (see SliceEnds in
\* Preemption).
Spec == Init /\ [][Next]_vars

-----------------------------------------------------------------------------
\* Exactly one process has state Current, the one current_pid names, and it
\* still owns the stack it runs on: resched never leaves two, none, or a
\* killed process running (coop_sched.rs:109-165).
OneCurrent ==
  /\ current_pid \in procs
  /\ \A p \in procs : state[p] = "Current" <=> p = current_pid
  /\ stack[current_pid]

\* The ready list holds every process that is Ready, never twice, and only
\* processes of the table that have a stack to be resumed on: none is lost
\* by a switch, and none of resched's lookups can fail.
ReadyListExact ==
  /\ Queued \subseteq procs
  /\ \A p \in Queued : state[p] \in {"Ready", "Suspended"} /\ stack[p]
  /\ \A p \in procs : state[p] = "Ready" => p \in Queued
  /\ \A i, j \in 1 .. Len(ready_list) : ready_list[i] = ready_list[j] => i = j

\* The null process is running or waiting, so whenever another process
\* returns somebody can take over: the kill in process_return never comes
\* back to the stack it has just freed (process.rs:78-92).
NullProcessAvailable == current_pid = NULL_PROC \/ NULL_PROC \in Queued

\* A killed process stays dead: no step makes it Ready or Current again.
DeadStaysDead == [][\A p \in procs : state[p] = "Free" => state'[p] = "Free"]_vars

\* Round robin: nobody overtakes.  A process that waits behind n others is
\* running after at most n + 1 switches: every switch runs the front of the
\* list and moves all the others one place forward.
NobodyOvertakes ==
  [][current_pid' # current_pid =>
       /\ current_pid' = ready_list[1]
       /\ \A i \in 2 .. Len(ready_list) : ready_list'[i - 1] = ready_list[i]]_vars

\* The ring of a round-robin scheduler: the running process followed by the
\* ready list.
RR == INSTANCE RoundRobin WITH
        Pid <- Usize,
        Idle <- NULL_PROC,
        ring <- <<current_pid>> \o ready_list,
        gone <- {p \in procs : state[p] = "Free"}

\* Every method of CoopScheduler is a step of the ring or does not change it: a
\* newcomer joins at the end, a switch moves the running process to the end, a
\* return takes it out for good.
RoundRobinSteps == RR!RRSpec
=============================================================================
