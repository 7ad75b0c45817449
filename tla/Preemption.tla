----------------------------- MODULE Preemption ------------------------------
(***************************************************************************)
(* The scheduler on the one CPU of the machine: the interrupt flag, the    *)
(* 8259 PIC, the timer handler (interrupts/irq.rs), the critical sections  *)
(* of interrupts/utils.rs, the spin locks, and the context switch of       *)
(* task/context.rs.  A timer interrupt is taken between any two steps of   *)
(* the running code at which the CPU and the PIC let it through; steps     *)
(* that run with the flag clear from end to end are one action.            *)
(***************************************************************************)
EXTENDS Scheduler, FiniteSets

CONSTANTS
  SLICE,         \* ticks before a time slice ends; 10 in timer_handler
  MAX_NESTED,    \* bound: timer handlers nested on one stack
  NEEDS_EOI      \* the PIC holds a line in service until it is told EOI, as
                 \* ICW4 = MODE_8086 selects; FALSE: the line re-arms itself

ASSUME SliceAssumption ==
  /\ SLICE \in Nat
  /\ MAX_NESTED \in Nat \ {0}
  /\ NEEDS_EOI \in BOOLEAN

VARIABLES
  iflag,        \* RFLAGS.IF
  imr,          \* both PIC mask registers: OPEN or MASKED
  in_service,   \* the PIC waits for the EOI of IRQ 0
  pit_ticks,    \* PIT_TICKS
  held,         \* spin locks that are held
  running,      \* the stack the CPU executes on, named after its process
  frames,       \* kernel calls in progress on each stack, innermost last
  ctx           \* Process.ctx: the saved flag and the stack rsp points into

kvars == <<procs, next, added, state, stack, ready_list, current_pid,
           iflag, imr, in_service, pit_ticks, held, running, frames, ctx>>
sched == <<procs, next, added, state, stack, ready_list, current_pid>>

OPEN == 0
MASKED == 255

\* The locks an interrupt handler can run into.
COM1 == <<"COM1", 0>>
TableWrite == <<"task_table.write", 0>>
TableRead == <<"task_table.read", 0>>
ListWrite == <<"ready_list.write", 0>>
ProcLock(p) == <<"process", p>>

Lock == {COM1, TableWrite, TableRead, ListWrite} \cup {ProcLock(p) : p \in Usize}

\* A call in progress: function, next step, the PIC masks its
\* disable_interrupts saved, and the switch its resched has decided on.
Frame == [fn : {"println", "create", "kill", "resched", "timer"},
          pc : {"lock", "write", "alloc", "add", "fill", "ready", "unlock", "panic",
                "mark", "drop", "returned", "switch", "swap", "tick", "restore", "iret"},
          saved : {OPEN, MASKED},
          from : Usize,
          to : Usize]

Call(f, at) == [fn |-> f, pc |-> at, saved |-> OPEN, from |-> 0, to |-> 0]

KTypeOK ==
  /\ iflag \in BOOLEAN
  /\ imr \in {OPEN, MASKED}
  /\ in_service \in BOOLEAN
  /\ pit_ticks \in 0 .. SLICE
  /\ held \subseteq Lock
  /\ running \in Usize
  /\ frames \in [Usize -> Seq(Frame)]
  /\ ctx \in [Usize -> [iflag : BOOLEAN, sp : Usize]]

-----------------------------------------------------------------------------
\* The top of a stack of calls, and what is below it.  (Those of SequencesExt
\* put its whole library before the provers.)
Last(s) == s[Len(s)]
Front(s) == SubSeq(s, 1, Len(s) - 1)

Calls == frames[running]
InBody == Calls = <<>>
At(f, at) == Calls # <<>> /\ Last(Calls).fn = f /\ Last(Calls).pc = at

Push(f) == [frames EXCEPT ![running] = Append(@, f)]
Become(f) == [frames EXCEPT ![running] = Append(Front(@), f)]
BecomeAndCall(f, g) == [frames EXCEPT ![running] = Append(Append(Front(@), f), g)]
Goto(at) == Become([Last(Calls) EXCEPT !.pc = at])
Pop == [frames EXCEPT ![running] = Front(@)]

\* Mutant: the PIC masks are left alone.
DisableOnlyCpu == iflag' = FALSE /\ UNCHANGED imr

\* disable_interrupts; the caller's frame keeps the masks it returns.
DisableInterrupts ==
  /\ iflag' = FALSE
  /\ imr' = MASKED

\* Mutant: the masks are cleared instead of restored.
RestoreOpens(saved) == imr' = OPEN /\ iflag' = TRUE

\* restore_interrupts writes the saved masks back and always ends in `sti`.
RestoreInterrupts(saved) ==
  /\ imr' = saved
  /\ iflag' = TRUE

\* An allocation or deallocation (heap_allocator.rs): the two above around
\* code that runs with the flag clear, hence one step.
HeapOp ==
  LET saved == imr IN RestoreInterrupts(saved)

\* The context of a new process: rflags is 0, rsp is on its own stack.
FreshContext(p) == [iflag |-> FALSE, sp |-> p]

\* init() has returned; the null process is in the `loop {}` of kmain.
KInit ==
  /\ Init
  /\ iflag = TRUE
  /\ imr = OPEN
  /\ in_service = FALSE
  /\ pit_ticks = 0
  /\ held = {}
  /\ running = NULL_PROC
  /\ frames = [p \in Usize |-> <<>>]
  /\ ctx = [p \in Usize |-> FreshContext(p)]

-----------------------------------------------------------------------------
(* The bodies of processes.  Any may use the heap or create processes; the  *)
(* null process neither prints nor returns: kmain ends in `loop {}`.        *)

BodyUseHeap ==
  /\ InBody
  /\ HeapOp
  /\ UNCHANGED <<sched, in_service, pit_ticks, held, running, frames, ctx>>

BodyPrint ==
  /\ InBody /\ running # NULL_PROC
  /\ frames' = Push(Call("println", "lock"))
  /\ UNCHANGED <<sched, iflag, imr, in_service, pit_ticks, held, running, ctx>>

\* syscall::create enters its critical section.
BodyCreate ==
  /\ InBody
  /\ DisableInterrupts
  /\ frames' = Push([Call("create", "alloc") EXCEPT !.saved = imr])
  /\ UNCHANGED <<sched, in_service, pit_ticks, held, running, ctx>>

\* The function returns into process_return, which calls kill(get_id())
\* without disabling interrupts.
BodyReturn ==
  /\ InBody /\ running # NULL_PROC
  /\ frames' = Push(Call("kill", "mark"))
  /\ UNCHANGED <<sched, iflag, imr, in_service, pit_ticks, held, running, ctx>>

Body == BodyUseHeap \/ BodyPrint \/ BodyCreate \/ BodyReturn

-----------------------------------------------------------------------------
(* println!: COM1 is held while the bytes go out.                           *)

PrintLock ==
  /\ At("println", "lock")
  /\ COM1 \notin held
  /\ held' = held \cup {COM1}
  /\ frames' = Goto("write")
  /\ UNCHANGED <<sched, iflag, imr, in_service, pit_ticks, running, ctx>>

PrintDone ==
  /\ At("println", "write")
  /\ held' = held \ {COM1}
  /\ frames' = Pop
  /\ UNCHANGED <<sched, iflag, imr, in_service, pit_ticks, running, ctx>>

-----------------------------------------------------------------------------
(* syscall::create: the stack and the box are allocated, the table is       *)
(* locked and extended (allocating), the process filled in (dropping its    *)
(* old name), the PID readied, and the critical section left.               *)

CreateAlloc ==
  /\ At("create", "alloc")
  /\ HeapOp
  /\ frames' = Goto("add")
  /\ UNCHANGED <<sched, in_service, pit_ticks, held, running, ctx>>

\* Mutant: the `.expect(..)` on the Err comes before the table's lock is dropped.
CreateAddPanicsLocked ==
  /\ At("create", "add")
  /\ held \cap {TableWrite, TableRead} = {}
  /\ Create
  /\ HeapOp
  /\ IF added' = Err
     THEN held' = held \cup {TableWrite} /\ frames' = Goto("panic") /\ UNCHANGED ctx
     ELSE /\ held' = held \cup {TableWrite, ProcLock(added')}
          /\ ctx' = [ctx EXCEPT ![added'] = FreshContext(added')]
          /\ frames' = Goto("fill")
  /\ UNCHANGED <<in_service, pit_ticks, running>>

\* A new table entry allocates, a failure frees the stack again; the Err then
\* meets `.expect(..)`: panic inside the critical section.
CreateAdd ==
  /\ At("create", "add")
  /\ held \cap {TableWrite, TableRead} = {}
  /\ Create
  /\ HeapOp
  /\ IF added' = Err
     THEN /\ frames' = Goto("panic")
          /\ UNCHANGED <<held, ctx>>
     ELSE /\ held' = held \cup {TableWrite, ProcLock(added')}
          /\ ctx' = [ctx EXCEPT ![added'] = FreshContext(added')]
          /\ frames' = Goto("fill")
  /\ UNCHANGED <<in_service, pit_ticks, running>>

CreateFill ==
  /\ At("create", "fill")
  /\ HeapOp
  /\ held' = held \ {TableWrite, ProcLock(added)}
  /\ frames' = Goto("ready")
  /\ UNCHANGED <<sched, in_service, pit_ticks, running, ctx>>

\* push_back allocates when the list is at its capacity.
CreateReady ==
  /\ At("create", "ready")
  /\ ListWrite \notin held
  /\ held' = held \cup {ListWrite}
  /\ Ready(added)
  /\ HeapOp \/ UNCHANGED <<iflag, imr>>
  /\ frames' = Goto("unlock")
  /\ UNCHANGED <<in_service, pit_ticks, running, ctx>>

CreateUnlock ==
  /\ At("create", "unlock")
  /\ held' = held \ {ListWrite}
  /\ frames' = Goto("restore")
  /\ UNCHANGED <<sched, iflag, imr, in_service, pit_ticks, running, ctx>>

CreateRestore ==
  /\ At("create", "restore")
  /\ RestoreInterrupts(Last(Calls).saved)
  /\ frames' = Pop
  /\ UNCHANGED <<sched, in_service, pit_ticks, held, running, ctx>>

\* panic_fmt prints and loops.
PanicLoop ==
  /\ At("create", "panic")
  /\ UNCHANGED kvars

-----------------------------------------------------------------------------
(* kill, called by process_return for the running process.                  *)

KillMark ==
  LET id == current_pid IN
  /\ At("kill", "mark")
  /\ held \cap {TableWrite, ProcLock(id)} = {}
  /\ held' = held \cup {TableRead, ProcLock(id)}
  /\ state' = [state EXCEPT ![id] = "Free"]
  /\ stack' = [stack EXCEPT ![id] = FALSE]
  /\ HeapOp                                  \* the stack is deallocated
  /\ frames' = Become([Last(Calls) EXCEPT !.pc = "drop", !.from = id])
  /\ UNCHANGED <<procs, next, added, ready_list, current_pid,
                 in_service, pit_ticks, running, ctx>>

KillDrop ==
  /\ At("kill", "drop")
  /\ held' = held \ {TableRead, ProcLock(Last(Calls).from)}
  /\ frames' = BecomeAndCall([Last(Calls) EXCEPT !.pc = "returned"], Call("resched", "lock"))
  /\ UNCHANGED <<sched, iflag, imr, in_service, pit_ticks, running, ctx>>

-----------------------------------------------------------------------------
(* resched and switch_to.                                                   *)

\* Nothing is ready: resched returns to its caller.
ReschedNothing ==
  /\ At("resched", "lock")
  /\ ListWrite \notin held
  /\ ready_list = <<>>
  /\ frames' = Pop
  /\ UNCHANGED <<sched, iflag, imr, in_service, pit_ticks, held, running, ctx>>

\* The locks resched takes: it spins until it has them all.
ReschedLocks(p, q) == {TableRead, ListWrite, ProcLock(p), ProcLock(q)}

\* push_back of the running process may allocate.
ReschedPick ==
  /\ At("resched", "lock")
  /\ ready_list # <<>>
  /\ held \cap {TableWrite, ListWrite, ProcLock(current_pid), ProcLock(Head(ready_list))} = {}
  /\ Resched
  /\ held' = held \cup ReschedLocks(current_pid, current_pid')
  /\ \/ state[current_pid] = "Current" /\ HeapOp
     \/ UNCHANGED <<iflag, imr>>
  /\ frames' = Become([Last(Calls) EXCEPT !.pc = "unlock", !.from = current_pid,
                                          !.to = current_pid'])
  /\ UNCHANGED <<in_service, pit_ticks, running, ctx>>

ReschedUnlock ==
  LET f == Last(Calls) IN
  /\ At("resched", "unlock")
  /\ held' = held \ ReschedLocks(f.from, f.to)
  /\ frames' = IF f.from # f.to THEN Goto("switch") ELSE Pop
  /\ UNCHANGED <<sched, iflag, imr, in_service, pit_ticks, running, ctx>>

\* switch_to exchanges rflags first ...
SwitchFlags ==
  LET f == Last(Calls) IN
  /\ At("resched", "switch")
  /\ ctx' = [ctx EXCEPT ![f.from].iflag = iflag]
  /\ iflag' = ctx[f.to].iflag
  /\ frames' = Goto("swap")
  /\ UNCHANGED <<sched, imr, in_service, pit_ticks, held, running>>

\* ... and the other registers, the stack pointer among them, after that.
SwitchStack ==
  LET f == Last(Calls) IN
  /\ At("resched", "swap")
  /\ ctx' = [ctx EXCEPT ![f.from].sp = running]
  /\ running' = ctx[f.to].sp
  /\ frames' = Pop
  /\ UNCHANGED <<sched, iflag, imr, in_service, pit_ticks, held>>

-----------------------------------------------------------------------------
(* timer_handler, through an interrupt gate: the flag is clear on entry.    *)

Nested(p) == Cardinality({i \in 1 .. Len(frames[p]) : frames[p][i].fn = "timer"})

TimerInterrupt ==
  /\ iflag
  /\ imr = OPEN
  /\ ~in_service
  /\ Nested(running) < MAX_NESTED
  /\ iflag' = FALSE
  /\ in_service' = NEEDS_EOI
  /\ frames' = Push(Call("timer", "tick"))
  /\ UNCHANGED <<sched, imr, pit_ticks, held, running, ctx>>

\* Mutant: the counter is compared one tick late.
TimerTickLate ==
  /\ At("timer", "tick")
  /\ COM1 \notin held
  /\ pit_ticks <= SLICE
  /\ pit_ticks' = pit_ticks + 1
  /\ frames' = Goto("iret")
  /\ UNCHANGED <<sched, iflag, imr, in_service, held, running, ctx>>

\* println! takes and drops COM1; apic::eoi() stores to a temporary and
\* reaches no register, and no EOI is sent to the PIC.
TimerTick ==
  /\ At("timer", "tick")
  /\ COM1 \notin held
  /\ pit_ticks < SLICE
  /\ pit_ticks' = pit_ticks + 1
  /\ frames' = Goto("iret")
  /\ UNCHANGED <<sched, iflag, imr, in_service, held, running, ctx>>

\* The slice is over: a critical section around resched.
TimerSlice ==
  /\ At("timer", "tick")
  /\ COM1 \notin held
  /\ pit_ticks >= SLICE
  /\ pit_ticks' = 0
  /\ DisableInterrupts
  /\ frames' = BecomeAndCall([Last(Calls) EXCEPT !.pc = "restore", !.saved = imr],
                             Call("resched", "lock"))
  /\ UNCHANGED <<sched, in_service, held, running, ctx>>

\* Mutant: the handler returns without restoring the masks.
TimerSkipsRestore ==
  /\ At("timer", "restore")
  /\ frames' = Goto("iret")
  /\ UNCHANGED <<sched, iflag, imr, in_service, pit_ticks, held, running, ctx>>

TimerRestore ==
  /\ At("timer", "restore")
  /\ RestoreInterrupts(Last(Calls).saved)
  /\ frames' = Goto("iret")
  /\ UNCHANGED <<sched, in_service, pit_ticks, held, running, ctx>>

\* iretq restores the flag of the interrupted code, which was set.
TimerReturn ==
  /\ At("timer", "iret")
  /\ iflag' = TRUE
  /\ frames' = Pop
  /\ UNCHANGED <<sched, imr, in_service, pit_ticks, held, running, ctx>>

-----------------------------------------------------------------------------
\* Kernel code that has been entered runs on.
KernelStep ==
  \/ PrintLock \/ PrintDone
  \/ CreateAlloc \/ CreateAdd \/ CreateFill \/ CreateReady \/ CreateUnlock \/ CreateRestore
  \/ KillMark \/ KillDrop
  \/ ReschedNothing \/ ReschedPick \/ ReschedUnlock \/ SwitchFlags \/ SwitchStack
  \/ TimerTick \/ TimerSlice \/ TimerRestore \/ TimerReturn

KNext == Body \/ KernelStep \/ PanicLoop \/ TimerInterrupt

KSafety == KInit /\ [][KNext]_kvars

\* The CPU executes; the PIT keeps ticking, so a tick that the PIC lets through
\* is taken.  Nothing is assumed of process bodies.
KSpec == KSafety /\ WF_kvars(KernelStep) /\ WF_kvars(TimerInterrupt)

-----------------------------------------------------------------------------
\* The timer can interrupt the code that is running now.
Interruptible == iflag /\ imr = OPEN /\ ~in_service

\* A disable_interrupts_and_then closure is in progress on stack p.
InClosure(p) ==
  \E i \in 1 .. Len(frames[p]) :
    \/ frames[p][i].fn = "create"
    \/ frames[p][i].fn = "timer" /\ frames[p][i].pc = "restore"

Panicked == \E p \in Usize : \E i \in 1 .. Len(frames[p]) : frames[p][i].pc = "panic"

\* Code that holds a spin lock is not interrupted, so the timer handler, and
\* the resched in it, never spins on a lock of the code below it.
\* (After init(): see TimerHandlerCompletes in Boot.)
NotInterruptedUnderLock == Interruptible => held = {}

\* A critical section stays closed from end to end although every allocation
\* in it ends in `sti`: the masks that its disable_interrupts wrote are
\* saved and written back by the nested pair.
ClosuresStayMasked == InClosure(running) => imr = MASKED

\* Contexts are never mixed up: rsp of a switched-out process points into
\* its own stack, and the CPU is on the stack of the current process except
\* between resched's store to current_pid and the end of switch_to.
ContextsNotMixed ==
  /\ \A p \in Usize : ctx[p].sp = p
  /\ \/ running = current_pid
     \/ \E at \in {"unlock", "switch", "swap"} :
          At("resched", at) /\ Last(Calls).from = running /\ Last(Calls).to = current_pid

\* Whenever the null process is back in its own code the interrupt flag is set
\* and the masks are open again, whatever ran in between: restore_interrupts
\* never leaves it with the masks of somebody else's critical section.  (Whether
\* the PIC then presents a tick is a matter of its in-service bit; SliceEnds.)
IdleIsInterruptible == (running = NULL_PROC /\ InBody) => (iflag /\ imr = OPEN)

\* A context switch never lands on a stack that kill has freed.
SwitchesToLiveStack == [][running' # running => stack[running']]_kvars

\* Preemption does not break the scheduler's atomicity: seen through its
\* table, list and current PID it takes the steps of Scheduler.  A process
\* is dead for Scheduler once it has been switched away from.
Atomic == INSTANCE Scheduler WITH
            state <- [p \in Usize |-> IF p = current_pid THEN "Current" ELSE state[p]],
            stack <- [p \in Usize |-> p = current_pid \/ stack[p]]

MethodsAreAtomic == Atomic!Init /\ [][Atomic!Next]_(Atomic!vars)

\* Every spin lock that is taken is dropped again: neither create, kill, resched
\* nor println! ever waits for a lock of the code it was called from or has
\* interrupted, which on one CPU would be for ever.
LocksAreReleased == (held # {}) ~> (held = {})

-----------------------------------------------------------------------------
\* interrupts/irq.rs:8-9: after more than SLICE ticks the handler "performs a
\* round-robin context switch to the next process".
SliceEnds == []~Panicked => ((Queued # {}) ~> (running # NULL_PROC))
=============================================================================
