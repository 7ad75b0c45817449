-------------------------- MODULE PreemptionProofs --------------------------
(***************************************************************************)
(* The theorems about the scheduler under preemption: they hold for every  *)
(* size of the task table, every time slice and every depth of nested      *)
(* handlers.                                                               *)
(***************************************************************************)
EXTENDS PreemptionInvariant

(***************************************************************************)
(* The task table, the ready list and the running PID under preemption:    *)
(* what is known of them in the middle of a method, and that each step is  *)
(* one of Scheduler's or changes nothing there.                            *)
(*                                                                         *)
(* The argument: between the store that kills a process and the resched    *)
(* that takes another one off the list no interrupt comes in (KInv), so    *)
(* the only process that is current without a stack is the one that runs   *)
(* these lines; and a new PID is unknown to everybody but its creator      *)
(* until it joins the list.                                                *)
(***************************************************************************)

\* The current process has been killed and has not been switched away from.
Dying ==
  /\ Len(Calls) > 0
  /\ \/ Holds(Top(Calls), "kill", "drop")
     \/ Holds(Top(Calls), "resched", "lock") /\ running # NULL_PROC

\* A process has been added to the table and not to the list.
Creating ==
  /\ Len(Calls) > 0
  /\ Holds(Top(Calls), "create", "fill") \/ Holds(Top(Calls), "create", "ready")

QueueOK ==
  /\ current_pid \in procs
  /\ \A p \in Queued : p \in procs /\ p # current_pid /\ stack[p]
  /\ \A i, j \in 1 .. Len(ready_list) : ready_list[i] = ready_list[j] => i = j
  /\ current_pid = NULL_PROC \/ NULL_PROC \in Queued

RunningOK ==
  IF Dying
  THEN state[current_pid] = "Free" /\ ~stack[current_pid] /\ current_pid # NULL_PROC
  ELSE state[current_pid] = "Current" /\ stack[current_pid]

NewOK ==
  Creating => /\ added \in procs /\ added \notin Queued /\ added # current_pid
              /\ state[added] = "Suspended" /\ stack[added]

\* The inductive invariant, beside KInv.
LInv == QueueOK /\ RunningOK /\ NewOK

-----------------------------------------------------------------------------
\* After init() the null process runs and nobody waits.
LEMMA InitLInv == KInit => LInv
<1> SUFFICES ASSUME KInit PROVE LInv
  OBVIOUS
<1>1. NULL_PROC \in Usize
  BY MaxProcsAssumption DEF Usize, USIZE_MAX, NULL_PROC
<1>2. Len(Calls) = 0
  BY <1>1 DEF KInit, Calls
<1>3. ~Dying /\ ~Creating
  BY <1>2 DEF Dying, Creating
<1>4. Queued = {} /\ Len(ready_list) = 0
  BY DEF KInit, Init, Queued
<1>5. current_pid = NULL_PROC /\ procs = {NULL_PROC}
  BY DEF KInit, Init, ListInit
<1>6. state[NULL_PROC] = "Current" /\ stack[NULL_PROC]
  BY Zenon, <1>1 DEF KInit, Init
<1> QED
  BY <1>3, <1>4, <1>5, <1>6 DEF LInv, QueueOK, RunningOK, NewOK

\* The innermost call after a push, a step and a step with a call.
LEMMA TopAfter ==
  ASSUME KInv, running' = running, NEW f \in Frame
  PROVE  /\ frames' = Push(f) => Len(Calls') > 0 /\ Top(Calls') = f
         /\ Calls # <<>> /\ frames' = Become(f) => Len(Calls') > 0 /\ Top(Calls') = f
         /\ \A g \in Frame : Calls # <<>> /\ frames' = BecomeAndCall(f, g)
              => Len(Calls') > 0 /\ Top(Calls') = g
<1>1. /\ frames \in [Usize -> Seq(Frame)] /\ running \in Usize
      /\ Calls \in Seq(Frame) /\ Len(Calls) \in Nat
  BY KTypes
<1>2. ASSUME NEW t \in Seq(Frame), NEW g \in Frame, frames'[running] = Append(t, g)
      PROVE  Len(Calls') > 0 /\ Top(Calls') = g
  <2>1. Len(t) \in Nat /\ Len(Append(t, g)) = Len(t) + 1 /\ Append(t, g)[Len(t) + 1] = g
    BY PushFacts
  <2>2. Calls' = Append(t, g)
    BY <1>2 DEF Calls
  <2> QED
    BY <2>1, <2>2 DEF Top
<1>3. frames' = Push(f) => frames'[running] = Append(Calls, f)
  BY <1>1 DEF Push, Calls
<1>4. frames' = Become(f) => frames'[running] = Append(Front(Calls), f)
  BY <1>1 DEF Become, Calls
<1>5. ASSUME NEW g \in Frame
      PROVE  frames' = BecomeAndCall(f, g) => frames'[running] = Append(Append(Front(Calls), f), g)
  BY <1>1 DEF BecomeAndCall, Calls
<1>6. Calls # <<>> => Front(Calls) \in Seq(Frame) /\ Append(Front(Calls), f) \in Seq(Frame)
  BY <1>1, FrontFacts, MoveFacts
<1> QED
  BY Zenon, <1>1, <1>2, <1>3, <1>4, <1>5, <1>6

\* The same for a call that goes to another step.
LEMMA TopAfterGoto ==
  ASSUME KInv, running' = running, Calls # <<>>, NEW at \in Pcs, frames' = Goto(at)
  PROVE  Len(Calls') > 0 /\ Holds(Top(Calls'), Top(Calls).fn, at)
<1> DEFINE f == [Top(Calls) EXCEPT !.pc = at]
<1>1. Top(Calls) \in Frame /\ Last(Calls) = Top(Calls)
  BY KTypes
<1>2. f \in Frame /\ f.fn = Top(Calls).fn /\ f.pc = at
  BY <1>1 DEF Frame, Pcs
<1>3. frames' = Become(f)
  BY <1>1 DEF Goto
<1> HIDE DEF f
<1>4. Len(Calls') > 0 /\ Top(Calls') = f
  BY <1>2, <1>3, TopAfter
<1> QED
  BY <1>2, <1>4 DEF Holds

\* Only processes are killed, and only the null process is interrupted.
LEMMA WhoCalls ==
  ASSUME KInv, Len(Calls) > 0
  PROVE  /\ Top(Calls).fn = "kill" => running # NULL_PROC
         /\ Top(Calls).fn = "timer" => running = NULL_PROC
<1>1. running \in Usize /\ Len(Calls) \in Nat
  BY KTypes
<1>2. CASE running = NULL_PROC
  <2>1. NullShape(Calls)
    BY <1>2 DEF KInv, StacksOK, Calls
  <2> QED
    BY <1>2, <2>1 DEF NullShape, Leaving, Entered, Closing
<1>3. CASE running # NULL_PROC
  <2>1. OtherShape(Calls)
    BY <1>1, <1>3 DEF KInv, StacksOK, Calls
  <2>2. Len(Calls) = 1 \/ Len(Calls) > 1
    <3>1. \A n \in Nat : n > 0 => n = 1 \/ n > 1
      OBVIOUS
    <3> QED
      BY Zenon, <1>1, <3>1
  <2>3. CASE Len(Calls) = 1
    BY <1>3, <2>1, <2>3 DEF OtherShape
  <2>4. CASE Len(Calls) > 1
    BY Zenon, <1>3, <2>1, <2>4 DEF OtherShape, Top
  <2> QED
    BY <2>2, <2>3, <2>4
<1> QED
  BY <1>2, <1>3

\* When a call returns its process is neither dying nor creating another.
LEMMA AfterPop ==
  ASSUME KInv, Calls # <<>>, frames' = Pop, running' = running
  PROVE  ~Dying' /\ ~Creating'
<1>1. /\ Calls' = Front(Calls)
      /\ Len(Calls') > 0 => Top(Calls').fn \in {"timer", "kill"} /\ ~Entered(Top(Calls'))
  BY Popped
<1>2. Calls \in Seq(Frame) /\ running \in Usize
  BY KTypes
<1>3. CASE running = NULL_PROC
  <2>1. NullShape(Calls)
    BY <1>3 DEF KInv, StacksOK, Calls
  <2>2. Len(Calls') > 0 => Top(Calls').fn # "kill"
    BY <1>1, <1>2, <2>1, FrontShapes DEF NullShape, Leaving, Closing, Entered
  <2> QED
    BY <1>1, <2>2 DEF Dying, Creating, Holds
<1>4. CASE running # NULL_PROC
  <2>1. OtherShape(Calls)
    BY <1>2, <1>4 DEF KInv, StacksOK, Calls
  <2>2. Len(Calls') > 0 => Top(Calls').fn = "kill" /\ Top(Calls').pc = "returned"
    BY <1>1, <1>2, <2>1, FrontShapes DEF Parked
  <2> QED
    BY <2>2 DEF Dying, Creating, Holds
<1> QED
  BY <1>3, <1>4

\* A step that leaves the table, the list and the PID alone keeps LInv if it
\* starts and ends no kill and starts no create.
LEMMA Unaffected ==
  ASSUME LInv, UNCHANGED sched, Dying' <=> Dying, Creating' => Creating
  PROVE  LInv'
<1>1. UNCHANGED <<procs, added, state, stack, ready_list, current_pid>>
  BY DEF sched
<1>2. Queued' = Queued
  BY <1>1 DEF Queued
<1>3. QueueOK'
  BY <1>1, <1>2 DEF LInv, QueueOK
<1>4. RunningOK'
  BY <1>1 DEF LInv, RunningOK
<1>5. NewOK'
  BY <1>1, <1>2 DEF LInv, NewOK
<1> QED
  BY <1>3, <1>4, <1>5 DEF LInv

-----------------------------------------------------------------------------
\* Bodies of processes: they call what is not yet a kill or a create.
LEMMA BodyLInv == KInv /\ LInv /\ Body => LInv'
<1> SUFFICES ASSUME KInv, LInv, Body PROVE LInv'
  OBVIOUS
<1>1. Len(Calls) = 0 /\ running' = running /\ UNCHANGED sched
  BY KTypes DEF Body, BodyUseHeap, BodyPrint, BodyCreate, BodyReturn, InBody
<1>2. ~Dying /\ ~Creating
  BY <1>1 DEF Dying, Creating
<1>3. CASE BodyUseHeap
  <2>1. Calls' = Calls
    BY <1>3 DEF BodyUseHeap, Calls
  <2> QED
    BY <1>1, <1>2, <2>1, Unaffected DEF Dying, Creating
<1>4. CASE BodyPrint \/ BodyCreate \/ BodyReturn
  <2>1. PICK f \in Frame : /\ frames' = Push(f)
                           /\ \/ f.fn = "println" \/ Holds(f, "create", "alloc")
                              \/ Holds(f, "kill", "mark")
    <3>1. /\ Call("println", "lock") \in Frame /\ Call("println", "lock").fn = "println"
          /\ Call("kill", "mark") \in Frame /\ Holds(Call("kill", "mark"), "kill", "mark")
      BY FrameFacts DEF Holds
    <3>2. Call("create", "alloc") \in Frame /\ Holds(Call("create", "alloc"), "create", "alloc")
      BY FrameFacts DEF Holds
    <3> DEFINE g == [Call("create", "alloc") EXCEPT !.saved = imr]
    <3>3. g \in Frame /\ Holds(g, "create", "alloc")
      BY Zenon, <3>2, KTypes DEF Frame, Holds
    <3> HIDE DEF g
    <3>4. BodyCreate => frames' = Push(g)
      BY DEF BodyCreate, g
    <3> QED
      BY <1>4, <3>1, <3>3, <3>4 DEF BodyPrint, BodyReturn
  <2>2. Len(Calls') > 0 /\ Top(Calls') = f
    BY <1>1, <2>1, TopAfter
  <2>3. ~Dying' /\ ~Creating'
    BY <2>1, <2>2 DEF Dying, Creating, Holds
  <2> QED
    BY <1>1, <1>2, <2>3, Unaffected
<1> QED
  BY <1>3, <1>4 DEF Body

-----------------------------------------------------------------------------
\* A call goes on, other than at the steps that LInv is about.
LEMMA GotoLInv ==
  ASSUME KInv, LInv, UNCHANGED <<sched, running>>, Calls # <<>>, NEW at \in Pcs,
         frames' = Goto(at), at \notin {"drop", "lock"}, ~Dying,
         Top(Calls).fn = "create" /\ at \in {"fill", "ready"} => Creating
  PROVE  LInv'
<1>1. Len(Calls') > 0 /\ Holds(Top(Calls'), Top(Calls).fn, at)
  BY TopAfterGoto
<1>2. ~Dying' /\ (Creating' => Creating)
  BY <1>1 DEF Dying, Creating, Holds
<1> QED
  BY <1>2, Unaffected

\* A call returns.
LEMMA PopLInv ==
  ASSUME KInv, LInv, UNCHANGED <<sched, running>>, Calls # <<>>, frames' = Pop, ~Dying
  PROVE  LInv'
<1>1. ~Dying' /\ ~Creating'
  BY AfterPop
<1> QED
  BY <1>1, Unaffected

\* println! touches nothing of the scheduler.
LEMMA PrintLInv == KInv /\ LInv /\ (PrintLock \/ PrintDone) => LInv'
<1> SUFFICES ASSUME KInv, LInv, PrintLock \/ PrintDone PROVE LInv'
  OBVIOUS
<1>1. Calls # <<>> /\ Top(Calls).fn = "println"
  BY AtTop DEF PrintLock, PrintDone, Holds
<1>2. ~Dying /\ UNCHANGED <<sched, running>>
  BY <1>1 DEF Dying, Holds, PrintLock, PrintDone
<1>3. CASE PrintLock
  <2>1. frames' = Goto("write") /\ "write" \in Pcs
    BY <1>3 DEF PrintLock, Pcs
  <2> QED
    BY <1>1, <1>2, <2>1, GotoLInv
<1>4. CASE PrintDone
  <2>1. frames' = Pop
    BY <1>4 DEF PrintDone
  <2> QED
    BY <1>1, <1>2, <2>1, PopLInv
<1> QED
  BY <1>3, <1>4

\* Nor do the steps of create around its two calls.
LEMMA CreateQuietLInv ==
  KInv /\ LInv /\ (CreateAlloc \/ CreateFill \/ CreateUnlock \/ CreateRestore) => LInv'
<1> SUFFICES ASSUME KInv, LInv, CreateAlloc \/ CreateFill \/ CreateUnlock \/ CreateRestore
             PROVE  LInv'
  OBVIOUS
<1>1. Calls # <<>> /\ Len(Calls) > 0 /\ Top(Calls).fn = "create"
  BY AtTop DEF CreateAlloc, CreateFill, CreateUnlock, CreateRestore, Holds
<1>2. ~Dying /\ UNCHANGED <<sched, running>>
  BY <1>1 DEF Dying, Holds, CreateAlloc, CreateFill, CreateUnlock, CreateRestore
<1>3. CASE CreateAlloc \/ CreateUnlock
  <2>1. PICK at \in {"add", "restore"} : frames' = Goto(at)
    BY <1>3 DEF CreateAlloc, CreateUnlock
  <2>2. at \in Pcs /\ at \notin {"drop", "lock", "fill", "ready"}
    BY DEF Pcs
  <2> QED
    BY <1>1, <1>2, <2>1, <2>2, GotoLInv
<1>4. CASE CreateFill
  <2>1. frames' = Goto("ready") /\ "ready" \in Pcs
    BY <1>4 DEF CreateFill, Pcs
  <2>2. Creating
    BY <1>1, <1>4, AtTop DEF CreateFill, Creating
  <2> QED
    BY <1>1, <1>2, <2>1, <2>2, GotoLInv
<1>5. CASE CreateRestore
  <2>1. frames' = Pop
    BY <1>5 DEF CreateRestore
  <2> QED
    BY <1>1, <1>2, <2>1, PopLInv
<1> QED
  BY <1>3, <1>4, <1>5

\* kill calls resched: the process is still dying.
LEMMA KillDropLInv == KInv /\ LInv /\ KillDrop => LInv'
<1> SUFFICES ASSUME KInv, LInv, KillDrop PROVE LInv'
  OBVIOUS
<1>1. Calls # <<>> /\ Len(Calls) > 0 /\ Holds(Top(Calls), "kill", "drop")
  BY AtTop DEF KillDrop
<1>2. running # NULL_PROC /\ Top(Calls) \in Frame /\ Last(Calls) = Top(Calls)
  BY <1>1, WhoCalls, KTypes DEF Holds
<1> DEFINE f == [Top(Calls) EXCEPT !.pc = "returned"]
           g == Call("resched", "lock")
<1>3. f \in Frame /\ g \in Frame /\ Holds(g, "resched", "lock")
  <2>1. f \in Frame
    BY <1>2 DEF Frame
  <2> QED
    BY <2>1, FrameFacts DEF Holds
<1>4. frames' = BecomeAndCall(f, g) /\ UNCHANGED <<sched, running>>
  BY <1>2 DEF KillDrop
<1> HIDE DEF f, g
<1>5. Len(Calls') > 0 /\ Top(Calls') = g
  BY <1>1, <1>3, <1>4, TopAfter
<1>6. Dying /\ Dying' /\ ~Creating'
  BY <1>1, <1>2, <1>3, <1>4, <1>5 DEF Dying, Creating, Holds
<1> QED
  BY <1>4, <1>6, Unaffected

\* The timer handler runs on the null process, so nobody is dying.
LEMMA TimerLInv ==
  KInv /\ LInv /\ (TimerInterrupt \/ TimerTick \/ TimerSlice \/ TimerRestore \/ TimerReturn)
    => LInv'
<1> SUFFICES ASSUME KInv, LInv,
                    TimerInterrupt \/ TimerTick \/ TimerSlice \/ TimerRestore \/ TimerReturn
             PROVE  LInv'
  OBVIOUS
<1>1. UNCHANGED <<sched, running>>
  BY DEF TimerInterrupt, TimerTick, TimerSlice, TimerRestore, TimerReturn
<1>2. CASE TimerInterrupt
  <2>1. running = NULL_PROC
    BY <1>2, MasksByShape, KTypes DEF TimerInterrupt
  <2>2. ~Dying
    BY <2>1, WhoCalls DEF Dying, Holds
  <2>3. Call("timer", "tick") \in Frame /\ Holds(Call("timer", "tick"), "timer", "tick")
    BY FrameFacts DEF Holds
  <2>4. Len(Calls') > 0 /\ Top(Calls') = Call("timer", "tick")
    BY <1>1, <1>2, <2>3, TopAfter DEF TimerInterrupt
  <2>5. ~Dying' /\ ~Creating'
    BY <2>3, <2>4 DEF Dying, Creating, Holds
  <2> QED
    BY <1>1, <2>2, <2>5, Unaffected
<1>3. CASE TimerTick \/ TimerSlice \/ TimerRestore \/ TimerReturn
  <2>1. Calls # <<>> /\ Len(Calls) > 0 /\ Top(Calls).fn = "timer"
    BY <1>3, AtTop DEF TimerTick, TimerSlice, TimerRestore, TimerReturn, Holds
  <2>2. running = NULL_PROC /\ ~Dying /\ Top(Calls) \in Frame /\ Last(Calls) = Top(Calls)
    BY <2>1, WhoCalls, KTypes DEF Dying, Holds
  <2>3. CASE TimerTick \/ TimerRestore
    <3>1. frames' = Goto("iret") /\ "iret" \in Pcs
      BY <2>3 DEF TimerTick, TimerRestore, Pcs
    <3> QED
      BY <1>1, <2>1, <2>2, <3>1, GotoLInv
  <2>4. CASE TimerReturn
    <3>1. frames' = Pop
      BY <2>4 DEF TimerReturn
    <3> QED
      BY <1>1, <2>1, <2>2, <3>1, PopLInv
  <2>5. CASE TimerSlice
    <3> DEFINE f == [Top(Calls) EXCEPT !.pc = "restore", !.saved = imr]
               g == Call("resched", "lock")
    <3>1. f \in Frame /\ g \in Frame /\ Holds(g, "resched", "lock")
      <4>1. f \in Frame
        BY Zenon, <2>2, KTypes DEF Frame
      <4> QED
        BY <4>1, FrameFacts DEF Holds
    <3>2. frames' = BecomeAndCall(f, g)
      BY <2>2, <2>5 DEF TimerSlice
    <3> HIDE DEF f, g
    <3>3. Len(Calls') > 0 /\ Top(Calls') = g
      BY <1>1, <2>1, <3>1, <3>2, TopAfter
    <3>4. ~Dying' /\ ~Creating'
      BY <1>1, <2>2, <3>1, <3>3 DEF Dying, Creating, Holds
    <3> QED
      BY <1>1, <2>2, <3>4, Unaffected
  <2> QED
    BY <1>3, <2>3, <2>4, <2>5
<1> QED
  BY <1>2, <1>3

\* resched finds an empty list only on the null process: somebody who has
\* been killed is always succeeded.
LEMMA ReschedQuietLInv ==
  KInv /\ LInv /\ (ReschedNothing \/ ReschedUnlock \/ SwitchFlags) => LInv'
<1> SUFFICES ASSUME KInv, LInv, ReschedNothing \/ ReschedUnlock \/ SwitchFlags PROVE LInv'
  OBVIOUS
<1>1. Calls # <<>> /\ Len(Calls) > 0 /\ Top(Calls).fn = "resched"
  BY AtTop DEF ReschedNothing, ReschedUnlock, SwitchFlags, Holds
<1>2. UNCHANGED <<sched, running>>
  BY DEF ReschedNothing, ReschedUnlock, SwitchFlags
<1>3. CASE ReschedNothing
  <2>1. frames' = Pop /\ ready_list = <<>> /\ Holds(Top(Calls), "resched", "lock")
    BY <1>3, AtTop DEF ReschedNothing
  <2>2. Queued = {}
    BY <2>1 DEF Queued
  <2>3. running = current_pid /\ current_pid = NULL_PROC
    BY <2>1, <2>2 DEF KInv, SwitchOK, LInv, QueueOK, Holds
  <2>4. ~Dying
    BY <2>1, <2>3 DEF Dying, Holds
  <2> QED
    BY <1>1, <1>2, <2>1, <2>4, PopLInv
<1>4. CASE ReschedUnlock
  <2>1. Holds(Top(Calls), "resched", "unlock")
    BY <1>4, AtTop DEF ReschedUnlock
  <2>2. ~Dying
    BY <2>1 DEF Dying, Holds
  <2>3. frames' = Goto("switch") \/ frames' = Pop
    BY <1>4 DEF ReschedUnlock
  <2>4. "switch" \in Pcs
    BY DEF Pcs
  <2> QED
    BY <1>1, <1>2, <2>2, <2>3, <2>4, GotoLInv, PopLInv
<1>5. CASE SwitchFlags
  <2>1. Holds(Top(Calls), "resched", "switch")
    BY <1>5, AtTop DEF SwitchFlags
  <2>2. ~Dying
    BY <2>1 DEF Dying, Holds
  <2>3. frames' = Goto("swap") /\ "swap" \in Pcs
    BY <1>5 DEF SwitchFlags, Pcs
  <2> QED
    BY <1>1, <1>2, <2>2, <2>3, GotoLInv
<1> QED
  BY <1>3, <1>4, <1>5

\* The switch ends on the stack of the current process, which is alive.
LEMMA SwitchEffect ==
  ASSUME KInv, LInv, SwitchStack
  PROVE  ~Dying /\ running' = current_pid /\ stack[running']
<1>1. Calls # <<>> /\ Len(Calls) > 0 /\ Holds(Top(Calls), "resched", "swap")
  BY AtTop DEF SwitchStack
<1>2. ~Dying
  BY <1>1 DEF Dying, Holds
<1>3. running' = ctx[Top(Calls).to].sp
  BY <1>1, KTypes DEF SwitchStack
<1>4. Top(Calls).to = current_pid /\ current_pid \in Usize
  BY <1>1 DEF KInv, SwitchOK, TypeOK, Holds
<1>5. running' = current_pid
  BY <1>3, <1>4 DEF KInv, SwitchOK
<1> QED
  BY <1>2, <1>5 DEF LInv, RunningOK

\* The stack that is switched to is in the middle of neither kill nor create.
LEMMA SwitchStackLInv == KInv /\ LInv /\ SwitchStack => LInv'
<1> SUFFICES ASSUME KInv, LInv, SwitchStack PROVE LInv'
  OBVIOUS
<1>1. Calls # <<>> /\ frames' = Pop /\ UNCHANGED sched
  BY AtTop DEF SwitchStack
<1>2. ~Dying /\ running' = current_pid
  BY SwitchEffect
<1>3. CASE running' = running
  BY <1>1, <1>2, <1>3, PopLInv
<1>4. CASE running' # running
  <2>1. running' \in Usize /\ running \in Usize /\ frames \in [Usize -> Seq(Frame)]
    BY <1>2, KTypes DEF KInv, TypeOK
  <2>2. Calls' = frames[running']
    BY <1>1, <1>4, <2>1 DEF Calls, Pop
  <2>3. CASE running' = NULL_PROC
    <3>1. Len(Calls') > 0 /\ Closing(Top(Calls'))
      BY <1>4, <2>2, <2>3 DEF KInv, StacksOK
    <3>2. ~Dying' /\ ~Creating'
      BY <3>1 DEF Dying, Creating, Holds, Closing
    <3> QED
      BY <1>1, <1>2, <3>2, Unaffected
  <2>4. CASE running' # NULL_PROC
    <3>1. Parked(Calls')
      BY <1>4, <2>1, <2>2, <2>4 DEF KInv, StacksOK
    <3>2. ~Dying' /\ ~Creating'
      BY <3>1 DEF Dying, Creating, Holds, Parked
    <3> QED
      BY <1>1, <1>2, <3>2, Unaffected
  <2> QED
    BY <2>3, <2>4
<1> QED
  BY <1>3, <1>4

-----------------------------------------------------------------------------
\* kill: the current process is not the null process, so that one waits.
LEMMA KillMarkLInv == KInv /\ LInv /\ KillMark => LInv'
<1> SUFFICES ASSUME KInv, LInv, KillMark PROVE LInv'
  OBVIOUS
<1> DEFINE f == [Top(Calls) EXCEPT !.pc = "drop", !.from = current_pid]
<1>1. Calls # <<>> /\ Len(Calls) > 0 /\ Holds(Top(Calls), "kill", "mark")
  BY AtTop DEF KillMark
<1>2. running # NULL_PROC /\ running = current_pid /\ current_pid \in Usize
  BY <1>1, WhoCalls DEF KInv, SwitchOK, TypeOK, Holds
<1>3. Top(Calls) \in Frame /\ Last(Calls) = Top(Calls)
  BY <1>1, KTypes
<1>4. /\ frames' = Become(f) /\ running' = running
      /\ state' = [state EXCEPT ![current_pid] = "Free"]
      /\ stack' = [stack EXCEPT ![current_pid] = FALSE]
      /\ UNCHANGED <<procs, ready_list, current_pid>>
  BY <1>3 DEF KillMark
<1>5. f \in Frame /\ Holds(f, "kill", "drop")
  BY Zenon, <1>1, <1>2, <1>3 DEF Frame, Holds
<1> HIDE DEF f
<1>6. Len(Calls') > 0 /\ Top(Calls') = f
  BY <1>1, <1>4, <1>5, TopAfter
<1>7. Dying' /\ ~Creating'
  BY <1>5, <1>6 DEF Dying, Creating, Holds
<1>8. Queued' = Queued
  BY <1>4 DEF Queued
<1>9. QueueOK'
  <2>1. \A p \in Queued : p \in procs /\ p # current_pid /\ stack'[p]
    BY <1>4 DEF KInv, TypeOK, ListTypeOK, LInv, QueueOK
  <2> QED
    BY <1>4, <1>8, <2>1 DEF LInv, QueueOK
<1>10. RunningOK'
  BY <1>2, <1>4, <1>7 DEF KInv, TypeOK, RunningOK
<1> QED
  BY <1>7, <1>9, <1>10 DEF LInv, NewOK

\* The PID that add finds is nobody's.
LEMMA AddEffect ==
  ASSUME KInv, LInv, CreateAdd, added' # Err
  PROVE  /\ added' \in Usize /\ added' \notin procs /\ procs' = procs \cup {added'}
         /\ added' \notin Queued /\ added' # current_pid
<1>1. Create
  BY DEF CreateAdd
<1>2. PICK m \in Usize : /\ m \notin procs
                         /\ \/ added' = Err
                            \/ procs' = procs \cup {m} /\ added' = m
  BY <1>1 DEF Create, Add, SearchStopsAt
<1>3. m = added' /\ procs' = procs \cup {added'}
  BY <1>2
<1> QED
  BY <1>2, <1>3 DEF LInv, QueueOK

\* create: the new process is Suspended, has a stack and is in no list.
LEMMA CreateAddLInv == KInv /\ LInv /\ CreateAdd => LInv'
<1> SUFFICES ASSUME KInv, LInv, CreateAdd PROVE LInv'
  OBVIOUS
<1>1. Calls # <<>> /\ Len(Calls) > 0 /\ Holds(Top(Calls), "create", "add")
  BY AtTop DEF CreateAdd
<1>2. /\ Create /\ running' = running /\ UNCHANGED <<ready_list, current_pid>>
      /\ frames' = IF added' = Err THEN Goto("panic") ELSE Goto("fill")
  BY DEF CreateAdd, Create
<1>3. "panic" \in Pcs /\ "fill" \in Pcs /\ ~Dying /\ Queued' = Queued
  BY <1>1, <1>2 DEF Pcs, Dying, Holds, Queued
<1>4. CASE added' = Err
  <2>1. Len(Calls') > 0 /\ Holds(Top(Calls'), "create", "panic")
    BY <1>1, <1>2, <1>3, <1>4, TopAfterGoto DEF Holds
  <2>2. ~Dying' /\ ~Creating'
    BY <2>1 DEF Dying, Creating, Holds
  <2>3. UNCHANGED <<procs, state, stack>>
    BY <1>2, <1>4, MaxProcsAssumption DEF Create, Add, procVars, Usize, USIZE_MAX, Err
  <2>4. QueueOK' /\ RunningOK'
    BY <1>2, <1>3, <2>2, <2>3 DEF LInv, QueueOK, RunningOK
  <2> QED
    BY <2>2, <2>4 DEF LInv, NewOK
<1>5. CASE added' # Err
  <2>1. Len(Calls') > 0 /\ Holds(Top(Calls'), "create", "fill")
    BY <1>1, <1>2, <1>3, <1>5, TopAfterGoto DEF Holds
  <2>2. ~Dying'
    BY <2>1 DEF Dying, Holds
  <2>3. /\ added' \in Usize /\ procs' = procs \cup {added'}
        /\ added' \notin Queued /\ added' # current_pid
    BY <1>5, AddEffect
  <2>4. /\ state' = [state EXCEPT ![added'] = "Suspended"]
        /\ stack' = [stack EXCEPT ![added'] = TRUE]
    BY <1>2, <1>5 DEF Create
  <2>5. /\ state'[added'] = "Suspended" /\ stack'[added']
        /\ \A p \in Usize \ {added'} : state'[p] = state[p] /\ stack'[p] = stack[p]
    BY <2>3, <2>4 DEF KInv, TypeOK
  <2>6. current_pid \in Usize /\ procs \subseteq Usize
    BY DEF KInv, TypeOK, ListTypeOK
  <2>7. QueueOK'
    <3>1. current_pid \in procs' /\ \A p \in Queued : p \in procs' /\ p # current_pid /\ stack'[p]
      BY <2>3, <2>5, <2>6 DEF LInv, QueueOK
    <3> QED
      BY <1>2, <1>3, <3>1 DEF LInv, QueueOK
  <2>8. RunningOK'
    BY <1>2, <1>3, <2>2, <2>3, <2>5, <2>6 DEF LInv, RunningOK
  <2>9. NewOK'
    BY <1>2, <1>3, <2>3, <2>5 DEF NewOK
  <2> QED
    BY <2>7, <2>8, <2>9 DEF LInv
<1> QED
  BY <1>4, <1>5

\* ready: it joins the list for the first time.
LEMMA CreateReadyLInv == KInv /\ LInv /\ CreateReady => LInv'
<1> SUFFICES ASSUME KInv, LInv, CreateReady PROVE LInv'
  OBVIOUS
<1> DEFINE L == Len(ready_list)
<1>1. Calls # <<>> /\ Len(Calls) > 0 /\ Holds(Top(Calls), "create", "ready")
  BY AtTop DEF CreateReady
<1>2. Creating /\ ~Dying
  BY <1>1 DEF Creating, Dying, Holds
<1>3. /\ added \in procs /\ added \notin Queued /\ added # current_pid /\ stack[added]
      /\ added \in Usize /\ ready_list \in Seq(Usize) /\ L \in Nat
  BY <1>2 DEF LInv, NewOK, KInv, TypeOK, ListTypeOK
<1>4. /\ ready_list' = Append(ready_list, added) /\ frames' = Goto("unlock")
      /\ UNCHANGED <<procs, state, stack, current_pid, running>>
  BY DEF CreateReady, Ready
<1>5. Len(Calls') > 0 /\ Holds(Top(Calls'), "create", "unlock")
  <2>1. "unlock" \in Pcs
    BY DEF Pcs
  <2> QED
    BY <1>1, <1>4, <2>1, TopAfterGoto DEF Holds
<1>6. ~Dying' /\ ~Creating'
  BY <1>5 DEF Dying, Creating, Holds
<1>7. /\ Len(ready_list') = L + 1 /\ ready_list'[L + 1] = added
      /\ \A i \in 1 .. L : ready_list'[i] = ready_list[i]
  BY <1>3, <1>4
<1>8. Queued' = Queued \cup {added}
  BY <1>3, <1>7 DEF Queued
<1>9. \A i, j \in 1 .. L + 1 : ready_list'[i] = ready_list'[j] => i = j
  <2> SUFFICES ASSUME NEW i \in 1 .. L + 1, NEW j \in 1 .. L + 1,
                      ready_list'[i] = ready_list'[j]
               PROVE  i = j
    OBVIOUS
  <2>1. \A k \in 1 .. L : ready_list'[k] # added
    BY <1>3, <1>7 DEF Queued
  <2>2. \A k \in 1 .. L + 1 : k \in 1 .. L \/ k = L + 1
    BY <1>3
  <2> QED
    BY <1>7, <2>1, <2>2 DEF LInv, QueueOK
<1>10. QueueOK'
  BY <1>3, <1>4, <1>7, <1>8, <1>9 DEF LInv, QueueOK
<1>11. RunningOK'
  BY <1>2, <1>4, <1>6 DEF LInv, RunningOK
<1> QED
  BY <1>6, <1>10, <1>11 DEF LInv, NewOK

\* What resched does: the head of the list runs; the null process, which the
\* timer has interrupted, joins the list and a killed process does not.
LEMMA PickEffect ==
  ASSUME KInv, LInv, ReschedPick
  PROVE  /\ ready_list[1] \in Queued /\ current_pid' = ready_list[1]
         /\ Len(ready_list) \in Nat /\ Len(ready_list) >= 1
         /\ \A i \in 1 .. Len(ready_list) - 1 : ready_list'[i] = ready_list[i + 1]
         /\ UNCHANGED <<procs, next, added, stack>>
         /\ Dying =>
              /\ ready_list' = Tail(ready_list) /\ Len(ready_list') = Len(ready_list) - 1
              /\ state' = [state EXCEPT ![ready_list[1]] = "Current"]
         /\ ~Dying =>
              /\ current_pid = NULL_PROC
              /\ ready_list' = Tail(Append(ready_list, current_pid))
              /\ Len(ready_list') = Len(ready_list)
              /\ ready_list'[Len(ready_list)] = current_pid
              /\ state' = [[state EXCEPT ![current_pid] = "Ready"] EXCEPT
                              ![ready_list[1]] = "Current"]
<1>1. Len(Calls) > 0 /\ Holds(Top(Calls), "resched", "lock")
  BY AtTop DEF ReschedPick
<1>2. Resched /\ ready_list # <<>>
  BY DEF ReschedPick
<1>3. running = current_pid /\ current_pid \in Usize /\ ready_list \in Seq(Usize)
  BY <1>1 DEF KInv, SwitchOK, TypeOK, Holds
<1>4. Len(ready_list) \in Nat /\ Len(ready_list) >= 1
  BY <1>2, <1>3
<1>5. ready_list[1] \in Queued /\ ready_list[1] # current_pid
  BY <1>4 DEF Queued, LInv, QueueOK
<1>6. UNCHANGED <<procs, next, added, stack>>
  BY <1>2 DEF Resched
<1>7. CASE Dying
  <2>1. state[current_pid] = "Free"
    BY <1>7 DEF LInv, RunningOK
  <2>2. /\ Head(ready_list) = ready_list[1]
        /\ Len(Tail(ready_list)) = Len(ready_list) - 1
        /\ \A i \in 1 .. Len(ready_list) - 1 : Tail(ready_list)[i] = ready_list[i + 1]
    BY <1>2, <1>3, ShortenedList
  <2>3. ready_list' = Tail(ready_list) /\ SwitchTo(state, Head(ready_list))
    BY <1>2, <2>1 DEF Resched, ReschedFrom
  <2>4. current_pid' = ready_list[1] /\ state' = [state EXCEPT ![ready_list[1]] = "Current"]
    BY <1>5, <2>2, <2>3 DEF SwitchTo
  <2> QED
    BY <1>4, <1>5, <1>6, <1>7, <2>2, <2>3, <2>4
<1>8. CASE ~Dying
  <2>1. state[current_pid] = "Current" /\ current_pid = NULL_PROC
    BY <1>1, <1>3, <1>8 DEF LInv, RunningOK, Dying
  <2> DEFINE queue == Append(ready_list, current_pid)
  <2>2. /\ Head(queue) = ready_list[1]
        /\ Len(Tail(queue)) = Len(ready_list)
        /\ \A i \in 1 .. Len(ready_list) - 1 : Tail(queue)[i] = ready_list[i + 1]
        /\ Tail(queue)[Len(ready_list)] = current_pid
    BY <1>2, <1>3, RotatedList
  <2>3. /\ ready_list' = Tail(queue)
        /\ SwitchTo([state EXCEPT ![current_pid] = "Ready"], Head(queue))
    BY <1>2, <2>1 DEF Resched, ReschedFrom
  <2> HIDE DEF queue
  <2>4. /\ current_pid' = ready_list[1]
        /\ state' = [[state EXCEPT ![current_pid] = "Ready"] EXCEPT ![ready_list[1]] = "Current"]
    BY <1>5, <2>2, <2>3 DEF SwitchTo
  <2>5. ready_list' = Tail(Append(ready_list, current_pid))
    BY <2>3 DEF queue
  <2>6. /\ Len(ready_list') = Len(ready_list)
        /\ \A i \in 1 .. Len(ready_list) - 1 : ready_list'[i] = ready_list[i + 1]
        /\ ready_list'[Len(ready_list)] = current_pid
    BY Zenon, <2>2, <2>3
  <2> QED
    BY <1>4, <1>5, <1>6, <1>8, <2>1, <2>4, <2>5, <2>6
<1> QED
  BY <1>7, <1>8

\* The list without its head, and with the null process at its end: nobody
\* is in it twice, and the null process is there or runs.
LEMMA PickQueue == ASSUME KInv, LInv, ReschedPick PROVE QueueOK'
<1> DEFINE n == ready_list[1]
           L == Len(ready_list)
<1>1. /\ n \in Queued /\ current_pid' = n /\ L \in Nat /\ L >= 1
      /\ \A i \in 1 .. L - 1 : ready_list'[i] = ready_list[i + 1]
      /\ procs' = procs /\ stack' = stack
      /\ Dying => Len(ready_list') = L - 1
      /\ ~Dying => /\ Len(ready_list') = L /\ ready_list'[L] = current_pid
                   /\ current_pid = NULL_PROC
  BY PickEffect
<1>2. \A i, j \in 1 .. L : ready_list[i] = ready_list[j] => i = j
  BY DEF LInv, QueueOK
<1>3. \A p \in Queued : p \in procs /\ p # current_pid /\ stack[p]
  BY DEF LInv, QueueOK
<1>4. \A i \in 1 .. L - 1 : ready_list'[i] \in Queued /\ ready_list'[i] # n
  <2> SUFFICES ASSUME NEW i \in 1 .. L - 1 PROVE ready_list'[i] \in Queued /\ ready_list'[i] # n
    OBVIOUS
  <2>1. i + 1 \in 1 .. L /\ 1 \in 1 .. L /\ i + 1 # 1
    BY <1>1
  <2> QED
    BY <1>1, <1>2, <2>1 DEF Queued
<1>5. \A p \in Queued : p # n => \E i \in 1 .. L - 1 : ready_list'[i] = p
  <2> SUFFICES ASSUME NEW k \in 1 .. L, ready_list[k] # n
               PROVE  \E i \in 1 .. L - 1 : ready_list'[i] = ready_list[k]
    BY DEF Queued
  <2>1. k # 1
    OBVIOUS
  <2>2. k - 1 \in 1 .. L - 1 /\ (k - 1) + 1 = k
    BY <1>1, <2>1
  <2> QED
    BY Zenon, <1>1, <2>2
<1>6. ASSUME NEW i \in 1 .. L - 1, NEW j \in 1 .. L - 1, ready_list'[i] = ready_list'[j]
      PROVE  i = j
  <2>1. i + 1 \in 1 .. L /\ j + 1 \in 1 .. L
    BY <1>1
  <2>2. ready_list[i + 1] = ready_list[j + 1]
    BY <1>1, <1>6
  <2>3. i + 1 = j + 1
    BY <1>2, <2>1, <2>2
  <2> QED
    BY <1>1, <2>3
<1> HIDE DEF n, L
<1>7. CASE Dying
  <2>1. \A p \in Queued' : p \in procs /\ p # n /\ stack[p]
    BY <1>1, <1>3, <1>4, <1>7 DEF Queued
  <2>2. n = NULL_PROC \/ NULL_PROC \in Queued'
    <3>1. NULL_PROC \in Queued
      BY <1>7 DEF LInv, QueueOK, RunningOK
    <3> QED
      BY <1>1, <1>5, <1>7, <3>1 DEF Queued
  <2> QED
    BY <1>1, <1>3, <1>6, <1>7, <2>1, <2>2 DEF QueueOK
<1>8. CASE ~Dying
  <2>1. \A i \in 1 .. L : i \in 1 .. L - 1 \/ i = L
    BY <1>1
  <2>2. L \in 1 .. L /\ current_pid \in procs /\ stack[current_pid] /\ current_pid # n
    BY <1>1, <1>3, <1>8 DEF LInv, QueueOK, RunningOK
  <2>3. \A p \in Queued' : p \in procs /\ p # n /\ stack[p]
    <3> SUFFICES ASSUME NEW i \in 1 .. L
                 PROVE  ready_list'[i] \in procs /\ ready_list'[i] # n /\ stack[ready_list'[i]]
      BY <1>1, <1>8 DEF Queued
    <3> QED
      BY <1>1, <1>3, <1>4, <1>8, <2>1, <2>2
  <2>4. NULL_PROC \in Queued'
    BY <1>1, <1>8, <2>2 DEF Queued
  <2>5. \A i, j \in 1 .. L : ready_list'[i] = ready_list'[j] => i = j
    <3>1. \A i \in 1 .. L - 1 : ready_list'[i] # current_pid
      BY <1>3, <1>4
    <3> QED
      BY <1>1, <1>6, <1>8, <2>1, <3>1
  <2> QED
    BY <1>1, <1>3, <1>8, <2>3, <2>4, <2>5 DEF QueueOK
<1> QED
  BY <1>7, <1>8

\* resched: whoever it picks is alive.
LEMMA ReschedPickLInv == KInv /\ LInv /\ ReschedPick => LInv'
<1> SUFFICES ASSUME KInv, LInv, ReschedPick PROVE LInv'
  OBVIOUS
<1> DEFINE f == [Top(Calls) EXCEPT !.pc = "unlock", !.from = current_pid, !.to = current_pid']
<1>1. Calls # <<>> /\ Len(Calls) > 0 /\ Holds(Top(Calls), "resched", "lock")
  BY AtTop DEF ReschedPick
<1>2. Top(Calls) \in Frame /\ Last(Calls) = Top(Calls)
  BY <1>1, KTypes
<1>3. ready_list[1] \in Queued /\ current_pid' = ready_list[1] /\ stack' = stack
  BY PickEffect
<1>4. /\ ready_list[1] # current_pid /\ stack[ready_list[1]]
      /\ ready_list[1] \in Usize /\ current_pid \in Usize /\ state \in [Usize -> State]
  BY <1>3 DEF LInv, QueueOK, KInv, TypeOK, ListTypeOK
<1>5. f \in Frame /\ Holds(f, "resched", "unlock")
  BY Zenon, <1>1, <1>2, <1>3, <1>4 DEF Frame, Holds
<1>6. frames' = Become(f) /\ running' = running
  BY <1>2 DEF ReschedPick
<1> HIDE DEF f
<1>7. Len(Calls') > 0 /\ Top(Calls') = f
  BY <1>1, <1>5, <1>6, TopAfter
<1>8. ~Dying' /\ ~Creating'
  BY <1>5, <1>7 DEF Dying, Creating, Holds
<1>9. state'[ready_list[1]] = "Current"
  <2>1. CASE Dying
    <3>1. state' = [state EXCEPT ![ready_list[1]] = "Current"]
      BY <2>1, PickEffect
    <3> QED
      BY <1>4, <3>1
  <2>2. CASE ~Dying
    <3>1. state' = [[state EXCEPT ![current_pid] = "Ready"] EXCEPT ![ready_list[1]] = "Current"]
      BY <2>2, PickEffect
    <3> QED
      BY <1>4, <3>1
  <2> QED
    BY <2>1, <2>2
<1>10. RunningOK'
  BY <1>3, <1>4, <1>8, <1>9 DEF RunningOK
<1> QED
  BY <1>8, <1>10, PickQueue DEF LInv, NewOK

\* Every step keeps LInv.
LEMMA StepLInv == KInv /\ LInv /\ [KNext]_kvars => LInv'
<1> SUFFICES ASSUME KInv, LInv, [KNext]_kvars PROVE LInv'
  OBVIOUS
<1>1. CASE UNCHANGED kvars
  <2>1. UNCHANGED <<sched, running>> /\ Calls' = Calls
    BY <1>1 DEF kvars, sched, Calls
  <2>2. (Dying' <=> Dying) /\ (Creating' <=> Creating)
    BY <2>1 DEF Dying, Creating
  <2> QED
    BY <2>1, <2>2, Unaffected
<1>2. CASE KernelStep
  <2>1. CASE PrintLock \/ PrintDone
    BY <2>1, PrintLInv
  <2>2. CASE CreateAlloc \/ CreateAdd \/ CreateFill \/ CreateReady \/ CreateUnlock \/ CreateRestore
    BY <2>2, CreateQuietLInv, CreateAddLInv, CreateReadyLInv
  <2>3. CASE KillMark \/ KillDrop
    BY <2>3, KillMarkLInv, KillDropLInv
  <2>4. CASE ReschedNothing \/ ReschedPick \/ ReschedUnlock \/ SwitchFlags \/ SwitchStack
    BY <2>4, ReschedQuietLInv, ReschedPickLInv, SwitchStackLInv
  <2>5. CASE TimerTick \/ TimerSlice \/ TimerRestore \/ TimerReturn
    BY <2>5, TimerLInv
  <2> QED
    BY <1>2, <2>1, <2>2, <2>3, <2>4, <2>5 DEF KernelStep
<1> QED
  BY <1>1, <1>2, BodyLInv, TimerLInv DEF KNext, PanicLoop

-----------------------------------------------------------------------------
\* The table, the list and the PID change in four steps only, and the stack
\* the CPU is on only in switch_to.
LEMMA WhoChanges ==
  KNext => /\ \/ UNCHANGED sched \/ CreateAdd \/ CreateReady \/ KillMark \/ ReschedPick
           /\ running' = running \/ SwitchStack
<1> SUFFICES ASSUME KNext
             PROVE  /\ \/ UNCHANGED sched \/ CreateAdd \/ CreateReady \/ KillMark \/ ReschedPick
                    /\ running' = running \/ SwitchStack
  OBVIOUS
<1>1. Body => UNCHANGED sched /\ running' = running
  BY Zenon DEF Body, BodyUseHeap, BodyPrint, BodyCreate, BodyReturn, sched
<1>2. TimerInterrupt \/ PanicLoop => UNCHANGED sched /\ running' = running
  BY Zenon DEF TimerInterrupt, PanicLoop, kvars, sched
<1>3. CASE KernelStep
  <2>1. PrintLock \/ PrintDone => UNCHANGED sched /\ running' = running
    BY Zenon DEF PrintLock, PrintDone, sched
  <2>2. /\ CreateAlloc \/ CreateFill \/ CreateUnlock \/ CreateRestore
           => UNCHANGED sched /\ running' = running
        /\ CreateAdd \/ CreateReady => running' = running
    BY Zenon DEF CreateAlloc, CreateAdd, CreateFill, CreateReady, CreateUnlock, CreateRestore, sched
  <2>3. (KillMark => running' = running) /\ (KillDrop => UNCHANGED sched /\ running' = running)
    BY Zenon DEF KillMark, KillDrop, sched
  <2>4. /\ ReschedNothing \/ ReschedUnlock \/ SwitchFlags => UNCHANGED sched /\ running' = running
        /\ (ReschedPick => running' = running) /\ (SwitchStack => UNCHANGED sched)
    BY Zenon DEF ReschedNothing, ReschedPick, ReschedUnlock, SwitchFlags, SwitchStack, sched
  <2>5. TimerTick \/ TimerSlice \/ TimerRestore \/ TimerReturn
          => UNCHANGED sched /\ running' = running
    BY Zenon DEF TimerTick, TimerSlice, TimerRestore, TimerReturn, sched
  <2> QED BY Zenon, <1>3, <2>1, <2>2, <2>3, <2>4, <2>5 DEF KernelStep
<1> QED BY Zenon, <1>1, <1>2, <1>3 DEF KNext

\* Only switch_to changes the stack the CPU is on, and it finds a live one.
LEMMA StepLive == KInv /\ LInv /\ [KNext]_kvars => [running' # running => stack[running']]_kvars
<1> SUFFICES ASSUME KInv, LInv, KNext, running' # running PROVE stack[running']
  BY DEF kvars
<1>1. SwitchStack
  BY WhoChanges
<1> QED
  BY <1>1, SwitchEffect

-----------------------------------------------------------------------------
(* The scheduler as seen through Atomic.                                    *)

SeenState == [p \in Usize |-> IF p = current_pid THEN "Current" ELSE state[p]]
SeenStack == [p \in Usize |-> p = current_pid \/ stack[p]]

\* After init() it is in Scheduler's initial state.
LEMMA InitAtomic == KInit => Atomic!Init
<1> SUFFICES ASSUME KInit PROVE Atomic!Init
  OBVIOUS
<1>1. /\ ListInit /\ ready_list = <<>> /\ current_pid = NULL_PROC
      /\ state = [p \in Usize |-> IF p = NULL_PROC THEN "Current" ELSE "Suspended"]
      /\ stack = [p \in Usize |-> p = NULL_PROC]
  BY DEF KInit, Init
<1>2. SeenState = state
  BY <1>1 DEF SeenState
<1>3. SeenStack = stack
  BY Zenon, <1>1 DEF SeenStack
<1> QED
  BY <1>1, <1>2, <1>3 DEF Atomic!Init, Atomic!ListInit, ListInit, SeenState, SeenStack,
       Usize, USIZE_MAX, NULL_PROC, Atomic!Usize, Atomic!USIZE_MAX, Atomic!NULL_PROC

\* The part of create that holds the table is Scheduler's create.
LEMMA AddIsCreate == KInv /\ LInv /\ CreateAdd => Atomic!Create
<1> SUFFICES ASSUME KInv, LInv, CreateAdd PROVE Atomic!Create
  OBVIOUS
<1>1. Create
  BY DEF CreateAdd
<1>2. Atomic!Add
  BY <1>1 DEF Create, Add, SearchStopsAt, SearchStart, Usize, USIZE_MAX, Err, Atomic!Add,
              Atomic!SearchStopsAt, Atomic!SearchStart, Atomic!Usize, Atomic!USIZE_MAX, Atomic!Err
<1>3. UNCHANGED <<ready_list, current_pid>>
  BY <1>1 DEF Create
<1>4. CASE added' = Err
  <2>1. state' = state /\ stack' = stack
    BY <1>1, <1>4 DEF Create, procVars
  <2>2. SeenState' = SeenState /\ SeenStack' = SeenStack
    BY <1>3, <2>1 DEF SeenState, SeenStack
  <2> QED
    BY <1>2, <1>3, <1>4, <2>2 DEF Atomic!Create, Atomic!procVars, Atomic!Err, Err,
                                  SeenState, SeenStack
<1>5. CASE added' # Err
  <2>1. added' \in Usize /\ added' # current_pid
    BY <1>5, AddEffect
  <2>2. /\ state' = [state EXCEPT ![added'] = "Suspended"]
        /\ stack' = [stack EXCEPT ![added'] = TRUE]
        /\ state \in [Usize -> State] /\ stack \in [Usize -> BOOLEAN]
    BY <1>1, <1>5 DEF Create, KInv, TypeOK
  <2>3. SeenState' = [SeenState EXCEPT ![added'] = "Suspended"]
    BY Zenon, <1>3, <2>1, <2>2 DEF SeenState
  <2>4. SeenStack' = [SeenStack EXCEPT ![added'] = TRUE]
    BY Zenon, <1>3, <2>1, <2>2 DEF SeenStack
  <2> QED
    BY <1>2, <1>3, <1>5, <2>3, <2>4 DEF Atomic!Create, Atomic!Err, Err, SeenState, SeenStack
<1> QED
  BY <1>4, <1>5

\* Its call of ready is Scheduler's: the PID is still new.
LEMMA ReadyIsReadyNew == KInv /\ LInv /\ CreateReady => Atomic!ReadyNew
<1> SUFFICES ASSUME KInv, LInv, CreateReady PROVE Atomic!ReadyNew
  OBVIOUS
<1>1. Len(Calls) > 0 /\ Holds(Top(Calls), "create", "ready")
  BY AtTop DEF CreateReady
<1>2. /\ added \in procs /\ added \notin Queued /\ added # current_pid
      /\ state[added] = "Suspended" /\ added \in Usize
  BY <1>1 DEF LInv, NewOK, Creating, KInv, TypeOK, ListTypeOK
<1>3. /\ ready_list' = Append(ready_list, added)
      /\ UNCHANGED <<procs, next, added, state, stack, current_pid>>
  BY DEF CreateReady, Ready
<1>4. SeenState' = SeenState /\ SeenStack' = SeenStack /\ SeenState[added] = "Suspended"
  BY <1>2, <1>3 DEF SeenState, SeenStack
<1>5. Atomic!NewProcess(added)
  BY <1>2, <1>4 DEF Atomic!NewProcess, Atomic!Queued, Queued, SeenState
<1>6. Atomic!Ready(added)
  BY <1>3, <1>4 DEF Atomic!Ready, SeenState, SeenStack
<1> QED
  BY <1>2, <1>5, <1>6 DEF Atomic!ReadyNew

\* Marking a process changes nothing yet: for Scheduler it runs on.
LEMMA MarkIsUnseen == KInv /\ KillMark => UNCHANGED <<SeenState, SeenStack>>
<1> SUFFICES ASSUME KInv, KillMark PROVE UNCHANGED <<SeenState, SeenStack>>
  OBVIOUS
<1>1. /\ state \in [Usize -> State] /\ stack \in [Usize -> BOOLEAN] /\ current_pid \in Usize
      /\ state' = [state EXCEPT ![current_pid] = "Free"]
      /\ stack' = [stack EXCEPT ![current_pid] = FALSE]
      /\ current_pid' = current_pid
  BY DEF KillMark, KInv, TypeOK
<1>2. SeenState' = SeenState
  BY <1>1 DEF SeenState
<1>3. SeenStack' = SeenStack
  BY <1>1 DEF SeenStack
<1> QED
  BY <1>2, <1>3

\* The resched of a time slice is Scheduler's resched, the one of a kill is
\* its whole process_return.
LEMMA PickIsAtomic == KInv /\ LInv /\ ReschedPick => Atomic!Resched \/ Atomic!ProcessReturn
<1> SUFFICES ASSUME KInv, LInv, ReschedPick PROVE Atomic!Resched \/ Atomic!ProcessReturn
  OBVIOUS
<1> DEFINE n == ready_list[1]
<1>1. /\ n \in Queued /\ current_pid' = n /\ Len(ready_list) >= 1 /\ Len(ready_list) \in Nat
      /\ UNCHANGED <<procs, next, added, stack>>
  BY PickEffect
<1>2. /\ n # current_pid /\ stack[n] /\ n \in Usize /\ current_pid \in Usize
      /\ current_pid \in procs /\ ready_list \in Seq(Usize) /\ ready_list # <<>>
      /\ state \in [Usize -> State] /\ stack \in [Usize -> BOOLEAN]
  BY <1>1 DEF LInv, QueueOK, KInv, TypeOK, ListTypeOK, ReschedPick
<1> HIDE DEF n
<1>3. CASE Dying
  <2>1. /\ ready_list' = Tail(ready_list) /\ Head(ready_list) = n
        /\ state' = [state EXCEPT ![n] = "Current"]
    BY <1>2, <1>3, PickEffect, ShortenedList DEF n
  <2>2. state[current_pid] = "Free" /\ ~stack[current_pid] /\ current_pid # NULL_PROC
    BY <1>3 DEF LInv, RunningOK
  <2> DEFINE st == [SeenState EXCEPT ![current_pid] = "Free"]
  <2>3. SeenState' = [st EXCEPT ![n] = "Current"] /\ st[current_pid] = "Free"
    BY Zenon, <1>1, <1>2, <2>1, <2>2 DEF SeenState
  <2>4. SeenStack' = [SeenStack EXCEPT ![current_pid] = FALSE]
    BY Zenon, <1>1, <1>2, <2>2 DEF SeenStack
  <2>5. ready_list # <<>> /\ st[current_pid] # "Current"
    BY <1>2, <2>3
  <2>6. Atomic!ReschedFrom(st)
    BY Zenon, <1>1, <1>2, <2>1, <2>3, <2>5 DEF Atomic!ReschedFrom, Atomic!SwitchTo, SeenState
  <2>7. Atomic!Kill(current_pid)
    BY <1>1, <1>2, <2>4, <2>6 DEF Atomic!Kill, SeenState, SeenStack
  <2> QED
    BY <2>2, <2>7 DEF Atomic!ProcessReturn, Atomic!NULL_PROC, NULL_PROC
<1>4. CASE ~Dying
  <2>1. /\ ready_list' = Tail(Append(ready_list, current_pid))
        /\ Head(Append(ready_list, current_pid)) = n
        /\ state' = [[state EXCEPT ![current_pid] = "Ready"] EXCEPT ![n] = "Current"]
    BY <1>2, <1>4, PickEffect, RotatedList DEF n
  <2>2. stack[current_pid]
    BY <1>4 DEF LInv, RunningOK
  <2> DEFINE st == [SeenState EXCEPT ![current_pid] = "Ready"]
  <2>3. SeenState' = [st EXCEPT ![n] = "Current"] /\ SeenState[current_pid] = "Current"
    BY Zenon, <1>1, <1>2, <2>1 DEF SeenState
  <2>4. SeenStack' = SeenStack
    BY <1>1, <1>2, <2>2 DEF SeenStack
  <2>5. Atomic!ReschedFrom(SeenState)
    BY Zenon, <1>1, <1>2, <2>1, <2>3 DEF Atomic!ReschedFrom, Atomic!SwitchTo, SeenState
  <2> QED
    BY <1>1, <2>4, <2>5 DEF Atomic!Resched, SeenState, SeenStack
<1> QED
  BY <1>3, <1>4

\* Every step is one of Scheduler's or changes nothing that is seen.
LEMMA StepAtomic == KInv /\ LInv /\ [KNext]_kvars => [Atomic!Next]_(Atomic!vars)
<1> SUFFICES ASSUME KInv, LInv, [KNext]_kvars PROVE Atomic!Next \/ UNCHANGED Atomic!vars
  OBVIOUS
<1>1. CASE UNCHANGED sched
  <2>1. SeenState' = SeenState /\ SeenStack' = SeenStack
    BY <1>1 DEF sched, SeenState, SeenStack
  <2> QED
    BY <1>1, <2>1 DEF Atomic!vars, sched, SeenState, SeenStack
<1>2. CASE KillMark
  <2>1. SeenState' = SeenState /\ SeenStack' = SeenStack
    BY <1>2, MarkIsUnseen
  <2> QED
    BY <1>2, <2>1 DEF Atomic!vars, KillMark, SeenState, SeenStack
<1>3. CASE CreateAdd \/ CreateReady \/ ReschedPick
  BY <1>3, AddIsCreate, ReadyIsReadyNew, PickIsAtomic DEF Atomic!Next
<1> QED
  BY <1>1, <1>2, <1>3, WhoChanges DEF kvars, sched

-----------------------------------------------------------------------------
\* The invariant holds in every state the kernel reaches.
THEOREM KInvariant == KSpec => []KInv
<1>1. KInit => KInv
  BY InitKInv
<1>2. KInv /\ [KNext]_kvars => KInv'
  BY StepKInv
<1> QED
  BY <1>1, <1>2, PTL DEF KSpec, KSafety

\* The state of the CPU, the PIC, the locks and the stacks has its type; the
\* tick counter never passes the slice.
THEOREM KTypeCorrect == KSpec => []KTypeOK
<1>1. KInv => KTypeOK
  BY DEF KInv
<1> QED
  BY <1>1, KInvariant, PTL

\* No timer interrupt reaches code that holds a spin lock (after init()), so
\* the handler and its resched never spin on a lock of the code below them.
THEOREM LocksAreNotInterrupted == KSpec => []NotInterruptedUnderLock
<1>1. KInv => NotInterruptedUnderLock
  <2> SUFFICES ASSUME KInv, imr = OPEN PROVE held = {}
    BY DEF NotInterruptedUnderLock, Interruptible
  <2>1. running = NULL_PROC /\ ~Closed(Calls)
    BY MasksByShape, KTypes DEF KInv, MasksOK, Calls
  <2>2. Calls # <<>> => Top(Calls).fn = "timer"
    BY <2>1, KTypes DEF Closed, Leaving, Entered
  <2> QED
    BY <2>2, NothingHeld DEF Holds
<1> QED
  BY <1>1, KInvariant, PTL

\* disable_interrupts_and_then keeps its promise through every allocation
\* inside of it: the masks stay closed to the end.
THEOREM SectionsStayMasked == KSpec => []ClosuresStayMasked
<1>1. KInv => ClosuresStayMasked
  <2> SUFFICES ASSUME KInv, InClosure(running) PROVE imr = MASKED
    BY DEF ClosuresStayMasked
  <2>1. CASE running # NULL_PROC
    BY <2>1, MasksByShape
  <2>2. CASE running = NULL_PROC
    <3> DEFINE s == Calls
    <3>1. NullShape(s) /\ Len(s) \in Nat
      BY <2>2, KTypes DEF KInv, StacksOK, Calls
    <3>2. PICK i \in 1 .. Len(s) : s[i].fn = "create" \/ (s[i].fn = "timer" /\ s[i].pc = "restore")
      BY DEF InClosure, Calls
    <3> HIDE DEF s
    <3>3. i = Len(s) => Closed(s)
      BY <3>1, <3>2 DEF Closed, Leaving, Entered, Top
    <3>4. i = Len(s) - 1 => Closed(s)
      <4> SUFFICES ASSUME i = Len(s) - 1 PROVE Closed(s)
        OBVIOUS
      <4>1. Len(s) > 1 /\ ~Leaving(s[Len(s) - 1])
        BY <3>1, <3>2 DEF Leaving
      <4>2. Top(s).fn = "resched"
        BY <3>1, <4>1 DEF NullShape
      <4> QED
        BY <3>1, <4>1, <4>2 DEF Closed, Leaving, Entered
    <3>5. ~(i \in 1 .. Len(s) - 2)
      BY <3>1, <3>2 DEF NullShape, Leaving
    <3>6. Closed(s)
      BY <3>1, <3>3, <3>4, <3>5
    <3> QED
      BY <2>2, <3>6 DEF KInv, MasksOK, Calls, s
  <2> QED
    BY <2>1, <2>2
<1> QED
  BY <1>1, KInvariant, PTL

\* A saved context stays on its own stack, and the CPU is on the stack of
\* the current process except in the middle of its own switch.
THEOREM StacksAreOwn == KSpec => []ContextsNotMixed
<1>1. KInv => ContextsNotMixed
  <2> SUFFICES ASSUME KInv PROVE ContextsNotMixed
    OBVIOUS
  <2>1. \A p \in Usize : ctx[p].sp = p
    BY DEF KInv, SwitchOK
  <2>2. CASE running = current_pid
    BY <2>1, <2>2 DEF ContextsNotMixed
  <2>3. CASE running # current_pid
    <3>1. /\ Len(Calls) > 0 /\ Top(Calls).fn = "resched"
          /\ Top(Calls).pc \in {"unlock", "switch", "swap"}
          /\ Top(Calls).from = running /\ Top(Calls).to = current_pid
      BY <2>3 DEF KInv, SwitchOK
    <3>2. Calls # <<>> /\ Last(Calls) = Top(Calls)
      BY <3>1, KTypes
    <3> QED
      BY <2>1, <3>1, <3>2 DEF ContextsNotMixed, At
  <2> QED
    BY <2>2, <2>3
<1> QED
  BY <1>1, KInvariant, PTL

\* kmain's loop is always interruptible when it runs, as far as the flag and
\* the masks go: no path back to it leaves one of them closed.
THEOREM IdleIsOpen == KSpec => []IdleIsInterruptible
<1>1. KInv => IdleIsInterruptible
  <2> SUFFICES ASSUME KInv, running = NULL_PROC, InBody PROVE iflag /\ imr = OPEN
    BY DEF IdleIsInterruptible
  <2>1. frames[NULL_PROC] = <<>>
    BY DEF InBody, Calls
  <2> QED
    BY <2>1, MasksByShape DEF KInv, MasksOK
<1> QED
  BY <1>1, KInvariant, PTL

-----------------------------------------------------------------------------
\* The current process is alive except on its way from kill to resched, the
\* list holds live processes, none of them twice, and a new PID is nobody
\* else's until it is readied.
THEOREM LiveInvariant == KSpec => []LInv
<1>1. KInit => LInv
  BY InitLInv
<1>2. KInv /\ LInv /\ [KNext]_kvars => LInv'
  BY StepLInv
<1> QED
  BY <1>1, <1>2, KInvariant, PTL DEF KSpec, KSafety

\* No context switch lands on a stack that kill has freed, although kill
\* frees the stack it runs on and calls resched from it.
THEOREM SwitchesAreLive == KSpec => SwitchesToLiveStack
<1>1. KInv /\ LInv /\ [KNext]_kvars => [running' # running => stack[running']]_kvars
  BY StepLive
<1> QED
  BY <1>1, KInvariant, LiveInvariant, PTL DEF KSpec, KSafety, SwitchesToLiveStack

\* Split at every point where an interrupt can come in, the methods of
\* CoopScheduler still take effect at once: Preemption implements Scheduler.
THEOREM AtomicRefinement == KSpec => MethodsAreAtomic
<1>1. KInit => Atomic!Init
  BY InitAtomic
<1>2. KInv /\ LInv /\ [KNext]_kvars => [Atomic!Next]_(Atomic!vars)
  BY StepAtomic
<1> QED
  BY <1>1, <1>2, KInvariant, LiveInvariant, PTL DEF KSpec, KSafety, MethodsAreAtomic
=============================================================================
