------------------------ MODULE PreemptionInvariant -------------------------
(***************************************************************************)
(* The invariants of the scheduler under preemption, for every size of the *)
(* task table, every time slice and every depth of nested handlers.        *)
(*                                                                         *)
(* The argument: the masks are open only while the null process runs       *)
(* outside of every critical section.  A process starts inside the         *)
(* critical section of a timer handler on the null process's stack and     *)
(* leaves the CPU only by returning, so while one runs that section is     *)
(* still open, and every pair of masks saved meanwhile is MASKED.          *)
(***************************************************************************)
EXTENDS Preemption, SchedulerProofs

Top(s) == s[Len(s)]

\* A handler on its way out, one that has just begun, and one whose critical
\* section is open and will restore open masks.
Leaving(f) == f.fn = "timer" /\ f.pc = "iret"
Entered(f) == f.fn = "timer" /\ f.pc = "tick"
Closing(f) == f.fn = "timer" /\ f.pc = "restore" /\ f.saved = OPEN

\* The null process's stack: handlers on their way out, under at most one
\* call that does something.
NullShape(s) ==
  /\ \A i \in 1 .. Len(s) - 2 : Leaving(s[i])
  /\ Len(s) > 1 => \/ Leaving(s[Len(s) - 1])
                   \/ Closing(s[Len(s) - 1]) /\ Top(s).fn = "resched"
  /\ Len(s) > 0 => \/ Leaving(Top(s)) \/ Entered(Top(s)) \/ Closing(Top(s))
                   \/ Top(s).fn = "create" /\ Top(s).saved = OPEN
                   \/ Top(s).fn = "resched" /\ Len(s) > 1 /\ Closing(s[Len(s) - 1])

\* Any other: one call, or the resched of a kill.  No handler is among them.
OtherShape(s) ==
  /\ Len(s) = 1 => \/ Top(s).fn \in {"println", "kill"}
                   \/ Top(s).fn = "create" /\ Top(s).saved = MASKED
  /\ Len(s) > 1 => /\ Len(s) = 2
                   /\ s[1].fn = "kill" /\ s[1].pc = "returned"
                   /\ s[2].fn = "resched"

\* The stack of a process that has not started or does not return.
Parked(s) == Len(s) > 0 => Top(s).fn = "kill" /\ Top(s).pc = "returned"

\* The null process is in a critical section.
Closed(s) == Len(s) > 0 /\ ~Leaving(Top(s)) /\ ~Entered(Top(s))

StacksOK ==
  /\ NullShape(frames[NULL_PROC])
  /\ \A p \in Usize \ {NULL_PROC} : OtherShape(frames[p])
  /\ \A p \in Usize \ {NULL_PROC, running} : Parked(frames[p])
  /\ running # NULL_PROC => Len(frames[NULL_PROC]) > 0 /\ Closing(Top(frames[NULL_PROC]))

MasksOK ==
  /\ imr = IF Closed(frames[NULL_PROC]) THEN MASKED ELSE OPEN
  /\ running = NULL_PROC => /\ frames[NULL_PROC] = <<>> => iflag
                            /\ Len(Calls) > 0 /\ Entered(Top(Calls)) => ~iflag

SwitchOK ==
  /\ \A p \in Usize : ctx[p].sp = p
  /\ IF Len(Calls) > 0 /\ Top(Calls).fn = "resched" /\ Top(Calls).pc \in {"unlock", "switch", "swap"}
     THEN Top(Calls).from = running /\ Top(Calls).to = current_pid
     ELSE running = current_pid

\* The locks that are held are those of the call in progress.
Holds(f, fn, pc) == f.fn = fn /\ f.pc = pc
HeldOK ==
  \/ held = {}
  \/ /\ Len(Calls) > 0
     /\ \/ Holds(Top(Calls), "println", "write") /\ held \subseteq {COM1}
        \/ Holds(Top(Calls), "create", "fill") /\ held \subseteq {TableWrite, ProcLock(added)}
        \/ Holds(Top(Calls), "create", "unlock") /\ held \subseteq {ListWrite}
        \/ Holds(Top(Calls), "kill", "drop")
             /\ held \subseteq {TableRead, ProcLock(Top(Calls).from)}
        \/ Holds(Top(Calls), "resched", "unlock")
             /\ held \subseteq ReschedLocks(Top(Calls).from, Top(Calls).to)

AddedOK ==
  Len(Calls) > 0 /\ Top(Calls).fn = "create" /\ Top(Calls).pc \in {"fill", "ready"}
    => added \in Usize

\* The inductive invariant.
KInv ==
  /\ TypeOK /\ SearchStaysInTable /\ KTypeOK
  /\ StacksOK /\ MasksOK /\ SwitchOK /\ HeldOK /\ AddedOK

-----------------------------------------------------------------------------
\* The top of a stack is a call; a stack without its top.
LEMMA FrontFacts ==
  ASSUME NEW s \in Seq(Frame), s # <<>>
  PROVE  /\ Len(s) \in Nat /\ Len(s) > 0
         /\ Top(s) \in Frame /\ Last(s) = Top(s)
         /\ Front(s) \in Seq(Frame)
         /\ Len(Front(s)) = Len(s) - 1
         /\ \A i \in 1 .. Len(s) - 1 : Front(s)[i] = s[i]
<1>1. Len(s) \in Nat /\ Len(s) > 0
  OBVIOUS
<1>2. Top(s) \in Frame /\ Last(s) = Top(s)
  BY <1>1 DEF Top, Last
<1>3. Len(s) - 1 \in Int /\ \A i \in 1 .. Len(s) - 1 : s[i] \in Frame
  BY <1>1
<1> DEFINE t == SubSeq(s, 1, Len(s) - 1)
<1>4. /\ t \in Seq(Frame)
      /\ Len(t) = IF 1 <= Len(s) - 1 THEN (Len(s) - 1) - 1 + 1 ELSE 0
      /\ \A i \in 1 .. (Len(s) - 1) - 1 + 1 : t[i] = s[1 + i - 1]
  BY <1>3
<1> HIDE DEF t
<1>5. Len(t) = Len(s) - 1
  <2>1. \A n \in Nat : n > 0 => (IF 1 <= n - 1 THEN (n - 1) - 1 + 1 ELSE 0) = n - 1
    OBVIOUS
  <2> QED
    BY Zenon, <1>1, <1>4, <2>1
<1>6. ASSUME NEW i \in 1 .. Len(s) - 1 PROVE t[i] = s[i]
  <2>1. i \in 1 .. (Len(s) - 1) - 1 + 1 /\ 1 + i - 1 = i
    BY <1>1
  <2> QED
    BY <1>4, <2>1
<1> QED
  BY <1>1, <1>2, <1>4, <1>5, <1>6 DEF Front, t

\* A stack whose top has been replaced.
LEMMA MoveFacts ==
  ASSUME NEW s \in Seq(Frame), s # <<>>, NEW f \in Frame
  PROVE  /\ Append(Front(s), f) \in Seq(Frame)
         /\ Len(Append(Front(s), f)) = Len(s)
         /\ \A i \in 1 .. Len(s) - 1 : Append(Front(s), f)[i] = s[i]
         /\ Append(Front(s), f)[Len(s)] = f
  BY FrontFacts

\* A stack with one more call.
LEMMA PushFacts ==
  ASSUME NEW s \in Seq(Frame), NEW f \in Frame
  PROVE  /\ Append(s, f) \in Seq(Frame)
         /\ Len(s) \in Nat /\ Len(Append(s, f)) = Len(s) + 1
         /\ \A i \in 1 .. Len(s) : Append(s, f)[i] = s[i]
         /\ Append(s, f)[Len(s) + 1] = f
  OBVIOUS

\* A new call, and a call at another step.
LEMMA FrameFacts ==
  /\ \A f \in {"println", "create", "kill", "resched", "timer"},
        pc \in {"lock", "write", "alloc", "add", "fill", "ready", "unlock", "panic",
                "mark", "drop", "returned", "switch", "swap", "tick", "restore", "iret"} :
        /\ Call(f, pc) \in Frame
        /\ Call(f, pc).fn = f /\ Call(f, pc).pc = pc /\ Call(f, pc).saved = OPEN
  BY MaxProcsAssumption DEF Call, Frame, Usize, USIZE_MAX

\* The states in which a call other than a handler moves on: the shapes of
\* the stacks stay, and so does what is closed.
LEMMA Moved ==
  ASSUME KInv, Calls # <<>>, NEW f \in Frame, running' = running,
         frames' = [frames EXCEPT ![running] = Append(Front(@), f)],
         Top(Calls).fn # "timer", f.fn = Top(Calls).fn, f.saved = Top(Calls).saved
  PROVE  /\ frames' \in [Usize -> Seq(Frame)]
         /\ StacksOK'
         /\ Closed(frames'[NULL_PROC]) <=> Closed(frames[NULL_PROC])
         /\ Len(Calls') > 0 /\ Top(Calls') = f
<1> DEFINE s == frames[running]
           t == Append(Front(s), f)
<1>1. frames \in [Usize -> Seq(Frame)] /\ running \in Usize /\ s \in Seq(Frame) /\ s # <<>>
  BY DEF KInv, KTypeOK, Calls
<1>2. frames' = [frames EXCEPT ![running] = t]
  OBVIOUS
<1>3. /\ t \in Seq(Frame) /\ Len(t) = Len(s) /\ Len(s) \in Nat /\ Len(s) > 0
      /\ \A i \in 1 .. Len(s) - 1 : t[i] = s[i]
      /\ t[Len(s)] = f
  BY <1>1, MoveFacts, FrontFacts
<1> HIDE DEF t
<1>4. /\ frames' \in [Usize -> Seq(Frame)]
      /\ frames'[running] = t
      /\ \A p \in Usize \ {running} : frames'[p] = frames[p]
  BY Zenon, <1>1, <1>2, <1>3
<1>5. Len(Calls') > 0 /\ Top(Calls') = f
  BY <1>3, <1>4 DEF Calls, Top
<1>6. CASE running = NULL_PROC
  <2>1. /\ NullShape(s) /\ Top(s) = s[Len(s)] /\ Top(t) = f
        /\ Top(s).fn # "timer" /\ f.fn = Top(s).fn /\ f.saved = Top(s).saved
    BY <1>3, <1>6 DEF KInv, StacksOK, Top, Calls
  <2> HIDE DEF s
  <2>2. NullShape(t)
    <3>1. \A i \in 1 .. Len(t) - 2 : Leaving(t[i])
      BY <1>3, <2>1 DEF NullShape
    <3>2. CASE Len(s) = 1
      BY <1>3, <2>1, <3>1, <3>2 DEF NullShape, Leaving, Entered, Closing
    <3>3. CASE Len(s) > 1
      <4>1. Len(s) - 1 \in 1 .. Len(s) - 1 /\ t[Len(t) - 1] = s[Len(s) - 1]
        BY <1>3, <3>3
      <4> QED
        BY <1>3, <2>1, <3>1, <3>3, <4>1 DEF NullShape, Leaving, Entered, Closing
    <3> QED
      BY <1>3, <3>2, <3>3
  <2>3. Closed(t) /\ Closed(s)
    BY <1>3, <2>1 DEF Closed, Leaving, Entered
  <2> QED
    <3>1. frames'[NULL_PROC] = t /\ frames[NULL_PROC] = s
      BY <1>4, <1>6 DEF s
    <3>2. \A p \in Usize \ {NULL_PROC} : OtherShape(frames'[p]) /\ Parked(frames'[p])
      BY <1>4, <1>6 DEF KInv, StacksOK
    <3>3. StacksOK'
      BY Zenon, <1>6, <2>2, <3>1, <3>2 DEF StacksOK
    <3> QED
      BY Zenon, <1>4, <1>5, <2>3, <3>1, <3>3
<1>7. CASE running # NULL_PROC
  <2>1. OtherShape(s) /\ Top(s) = s[Len(s)] /\ Top(t) = f
    BY <1>1, <1>3, <1>7 DEF KInv, StacksOK, Top
  <2>2. OtherShape(t)
    BY <1>3, <2>1 DEF OtherShape, Calls
  <2>3. NULL_PROC \in Usize
    BY MaxProcsAssumption DEF Usize, USIZE_MAX, NULL_PROC
  <2> QED
    BY Zenon, <1>1, <1>4, <1>5, <1>7, <2>2, <2>3 DEF KInv, StacksOK
<1> QED
  BY <1>6, <1>7

\* The types that the other lemmas use.
LEMMA KTypes ==
  ASSUME KInv
  PROVE  /\ frames \in [Usize -> Seq(Frame)] /\ running \in Usize /\ NULL_PROC \in Usize
         /\ Calls \in Seq(Frame) /\ Len(Calls) \in Nat
         /\ Calls = <<>> <=> Len(Calls) = 0
         /\ Calls # <<>> => /\ Top(Calls) \in Frame /\ Last(Calls) = Top(Calls)
                            /\ Top(Calls).saved \in {OPEN, MASKED}
         /\ imr \in {OPEN, MASKED} /\ OPEN # MASKED
<1>1. frames \in [Usize -> Seq(Frame)] /\ running \in Usize /\ imr \in {OPEN, MASKED}
  BY DEF KInv, KTypeOK
<1>2. NULL_PROC \in Usize /\ OPEN # MASKED
  BY MaxProcsAssumption DEF Usize, USIZE_MAX, NULL_PROC, OPEN, MASKED
<1>3. Calls \in Seq(Frame) /\ Len(Calls) \in Nat /\ (Calls = <<>> <=> Len(Calls) = 0)
  BY <1>1 DEF Calls
<1>4. Calls # <<>> => Top(Calls) \in Frame /\ Last(Calls) = Top(Calls)
  BY <1>3, FrontFacts
<1>5. Calls # <<>> => Top(Calls).saved \in {OPEN, MASKED}
  BY <1>4 DEF Frame
<1> QED
  BY <1>1, <1>2, <1>3, <1>4, <1>5

\* A stack keeps its shape when its top is popped.
LEMMA FrontShapes ==
  ASSUME NEW s \in Seq(Frame), s # <<>>
  PROVE  /\ NullShape(s) => NullShape(Front(s))
         /\ OtherShape(s) => OtherShape(Front(s))
         /\ OtherShape(s) => Parked(Front(s))
         /\ NullShape(s) /\ Len(Front(s)) > 0 =>
              Leaving(Top(Front(s))) \/ Closing(Top(Front(s)))
         /\ NullShape(s) /\ Top(s).fn = "resched" =>
              Len(Front(s)) > 0 /\ Closing(Top(Front(s)))
         /\ NullShape(s) /\ Top(s).fn # "resched" => ~Closed(Front(s))
<1> DEFINE t == Front(s)
<1>1. /\ Len(s) \in Nat /\ Len(s) > 0 /\ t \in Seq(Frame) /\ Len(t) = Len(s) - 1
      /\ \A i \in 1 .. Len(s) - 1 : t[i] = s[i]
  BY FrontFacts
<1> HIDE DEF t
<1>2. CASE Len(s) = 1
  <2>1. Len(t) = 0
    BY <1>1, <1>2
  <2> QED
    <3>1. NullShape(t) /\ OtherShape(t) /\ ~Closed(t)
      BY <2>1 DEF NullShape, OtherShape, Closed
    <3>2. Parked(t) /\ ~(Len(t) > 0)
      BY <2>1 DEF Parked
    <3>3. ~(NullShape(s) /\ Top(s).fn = "resched")
      BY <1>2 DEF NullShape, Leaving, Entered, Closing
    <3> QED
      BY <3>1, <3>2, <3>3 DEF t
<1>3. CASE Len(s) > 1
  <2>1. /\ Len(t) > 0 /\ Top(t) = s[Len(s) - 1]
        /\ Len(s) - 1 = Len(t)
    BY <1>1, <1>3 DEF Top
  <2>2. NullShape(s) => NullShape(t)
    <3> SUFFICES ASSUME NullShape(s) PROVE NullShape(t)
      OBVIOUS
    <3>1. \A i \in 1 .. Len(t) - 2 : Leaving(t[i])
      BY <1>1 DEF NullShape
    <3>2. Len(t) > 1 => Leaving(t[Len(t) - 1])
      BY <1>1 DEF NullShape
    <3>3. Leaving(Top(t)) \/ Closing(Top(t))
      BY <1>3, <2>1 DEF NullShape
    <3> QED
      BY <3>1, <3>2, <3>3 DEF NullShape
  <2>3. OtherShape(s) => OtherShape(t) /\ Parked(t)
    BY <1>1, <1>3, <2>1 DEF OtherShape, Parked
  <2>6. NullShape(s) => Leaving(Top(t)) \/ Closing(Top(t))
    BY <1>3, <2>1 DEF NullShape
  <2>4. NullShape(s) /\ Top(s).fn = "resched" => Closing(Top(t))
    BY <1>3, <2>1 DEF NullShape, Leaving, Entered, Closing
  <2>5. NullShape(s) /\ Top(s).fn # "resched" => ~Closed(t)
    BY <1>3, <2>1 DEF NullShape, Closed
  <2> QED
    BY <2>1, <2>2, <2>3, <2>4, <2>5, <2>6 DEF t
<1> QED
  BY <1>1, <1>2, <1>3

\* A call returns on the stack that is running.
LEMMA Popped ==
  ASSUME KInv, Calls # <<>>, frames' = Pop, running' = running
  PROVE  /\ frames' \in [Usize -> Seq(Frame)]
         /\ StacksOK'
         /\ Calls' = Front(Calls)
         /\ Len(Calls') > 0 => Top(Calls').fn \in {"timer", "kill"} /\ ~Entered(Top(Calls'))
         /\ \A p \in Usize \ {running} : frames'[p] = frames[p]
<1>1. /\ frames \in [Usize -> Seq(Frame)] /\ running \in Usize /\ NULL_PROC \in Usize
      /\ Calls \in Seq(Frame)
  BY KTypes
<1>2. Front(Calls) \in Seq(Frame)
  BY <1>1, FrontFacts
<1>3. /\ frames' \in [Usize -> Seq(Frame)]
      /\ frames'[running] = Front(Calls)
      /\ \A p \in Usize \ {running} : frames'[p] = frames[p]
  BY <1>1, <1>2 DEF Pop, Calls
<1>4. NullShape(frames'[NULL_PROC])
  BY <1>1, <1>3, FrontShapes DEF KInv, StacksOK, Calls
<1>5. \A p \in Usize \ {NULL_PROC} : OtherShape(frames'[p])
  BY <1>1, <1>3, FrontShapes DEF KInv, StacksOK, Calls
<1>6. StacksOK'
  BY <1>1, <1>3, <1>4, <1>5 DEF KInv, StacksOK
<1>7. Calls' = Front(Calls)
  BY <1>3 DEF Calls
<1>8. Len(Calls') > 0 => Top(Calls').fn \in {"timer", "kill"} /\ ~Entered(Top(Calls'))
  <2>1. CASE running = NULL_PROC
    <3>1. NullShape(Calls)
      BY <2>1 DEF KInv, StacksOK, Calls
    <3> QED
      BY <1>1, <1>7, <3>1, FrontShapes DEF Leaving, Closing, Entered
  <2>2. CASE running # NULL_PROC
    <3>1. OtherShape(Calls)
      BY <1>1, <2>2 DEF KInv, StacksOK, Calls
    <3> QED
      BY <1>1, <1>7, <3>1, FrontShapes DEF Parked, Entered
  <2> QED
    BY <2>1, <2>2
<1> QED
  BY <1>3, <1>6, <1>7, <1>8

\* The steps of a call.
Pcs == {"lock", "write", "alloc", "add", "fill", "ready", "unlock", "panic",
        "mark", "drop", "returned", "switch", "swap", "tick", "restore", "iret"}

\* A call other than a handler takes a step that leaves the masks alone.
LEMMA GotoMoved ==
  ASSUME KInv, Calls # <<>>, NEW at \in Pcs, frames' = Goto(at), running' = running,
         imr' = imr, Top(Calls).fn # "timer"
  PROVE  /\ frames' \in [Usize -> Seq(Frame)]
         /\ StacksOK' /\ MasksOK'
         /\ Len(Calls') > 0
         /\ Top(Calls').fn = Top(Calls).fn /\ Top(Calls').pc = at
         /\ Top(Calls').from = Top(Calls).from /\ Top(Calls').to = Top(Calls).to
<1> DEFINE f == [Top(Calls) EXCEPT !.pc = at]
<1>1. Top(Calls) \in Frame /\ Last(Calls) = Top(Calls)
  BY KTypes
<1>2. /\ f \in Frame
      /\ f.fn = Top(Calls).fn /\ f.pc = at /\ f.saved = Top(Calls).saved
      /\ f.from = Top(Calls).from /\ f.to = Top(Calls).to
  BY <1>1 DEF Frame, Pcs
<1>3. frames' = [frames EXCEPT ![running] = Append(Front(@), f)]
  BY <1>1 DEF Goto, Become
<1> HIDE DEF f
<1>4. /\ frames' \in [Usize -> Seq(Frame)]
      /\ StacksOK'
      /\ Closed(frames'[NULL_PROC]) <=> Closed(frames[NULL_PROC])
      /\ Len(Calls') > 0 /\ Top(Calls') = f
  BY Zenon, <1>2, <1>3, Moved
<1>5. MasksOK'
  <2>1. imr' = IF Closed(frames'[NULL_PROC]) THEN MASKED ELSE OPEN
    BY <1>4 DEF KInv, MasksOK
  <2>2. Calls' # <<>> /\ ~Entered(Top(Calls'))
    BY <1>2, <1>4 DEF Entered
  <2>3. running' = NULL_PROC => frames'[NULL_PROC] # <<>>
    BY <2>2 DEF Calls
  <2> QED
    BY <2>1, <2>2, <2>3 DEF MasksOK
<1> QED
  BY <1>2, <1>4, <1>5

\* No lock is held except at the steps that HeldOK lists.
LEMMA NothingHeld ==
  ASSUME KInv,
         Calls = <<>> \/ ~ \/ Holds(Top(Calls), "println", "write")
                           \/ Holds(Top(Calls), "create", "fill")
                           \/ Holds(Top(Calls), "create", "unlock")
                           \/ Holds(Top(Calls), "kill", "drop")
                           \/ Holds(Top(Calls), "resched", "unlock")
  PROVE  held = {}
<1>1. Calls = <<>> => ~(Len(Calls) > 0)
  BY KTypes
<1> QED
  BY <1>1 DEF KInv, HeldOK

\* After init() the invariant holds.
LEMMA InitKInv == KInit => KInv
<1> SUFFICES ASSUME KInit PROVE KInv
  OBVIOUS
<1>1. TypeOK /\ SearchStaysInTable
  BY MaxProcsAssumption DEF KInit, Init, ListInit, TypeOK, ListTypeOK, SearchStaysInTable, Usize,
                            USIZE_MAX, NULL_PROC, Err, State
<1>2. NULL_PROC \in Usize
  BY MaxProcsAssumption DEF Usize, USIZE_MAX, NULL_PROC
<1>3. ctx \in [Usize -> [iflag : BOOLEAN, sp : Usize]] /\ \A p \in Usize : ctx[p].sp = p
  BY DEF KInit, FreshContext
<1>4. frames \in [Usize -> Seq(Frame)] /\ \A p \in Usize : frames[p] = <<>> /\ Len(frames[p]) = 0
  BY DEF KInit
<1>5. KTypeOK
  <2>1. pit_ticks \in 0 .. SLICE
    BY SliceAssumption DEF KInit
  <2> QED
    BY Zenon, <1>2, <1>3, <1>4, <2>1 DEF KInit, KTypeOK
<1>6. StacksOK
  BY <1>2, <1>4 DEF KInit, StacksOK, NullShape, OtherShape, Parked
<1>7. MasksOK
  BY <1>2, <1>4 DEF KInit, MasksOK, Closed, Calls
<1>8. SwitchOK /\ HeldOK /\ AddedOK
  BY <1>2, <1>3, <1>4 DEF KInit, Init, SwitchOK, HeldOK, AddedOK, Calls
<1> QED
  BY <1>1, <1>5, <1>6, <1>7, <1>8 DEF KInv

\* While another process runs, and in the null process's body, the masks are
\* what the shapes say.
LEMMA MasksByShape ==
  ASSUME KInv
  PROVE  /\ running # NULL_PROC => imr = MASKED /\ Closed(frames[NULL_PROC])
         /\ running = NULL_PROC /\ InBody => imr = OPEN
<1>1. running # NULL_PROC => Closed(frames[NULL_PROC])
  BY DEF KInv, StacksOK, Closed, Closing, Leaving, Entered
<1>2. running = NULL_PROC /\ InBody => ~Closed(frames[NULL_PROC])
  BY KTypes DEF InBody, Calls, Closed
<1> QED
  BY <1>1, <1>2 DEF KInv, MasksOK

\* What it means that the innermost call is at a step.
LEMMA AtTop ==
  ASSUME KInv, NEW f, NEW pc, At(f, pc)
  PROVE  Calls # <<>> /\ Len(Calls) > 0 /\ Holds(Top(Calls), f, pc)
<1>1. Calls # <<>> /\ Last(Calls) = Top(Calls) /\ Len(Calls) > 0
  BY KTypes DEF At
<1> QED
  BY <1>1 DEF At, Holds

\* The table's types under create, ready and resched.
LEMMA SchedTypes ==
  ASSUME TypeOK, SearchStaysInTable,
         \/ Create \/ (\E p \in Usize : Ready(p)) \/ (Resched /\ ready_list # <<>>)
         \/ UNCHANGED sched
  PROVE  /\ TypeOK' /\ SearchStaysInTable'
         /\ Create => added' \in Usize \/ added' = Err
<1>1. CASE Create
  <2>1. ListTypeOK /\ ListNext
    BY <1>1 DEF TypeOK, Create, ListNext
  <2>2. ListTypeOK' /\ SearchStaysInTable'
    BY <2>1, StepList
  <2>3. added' \in Usize \/ added' = Err
    BY <2>2 DEF ListTypeOK
  <2>4. state' \in [Usize -> State] /\ stack' \in [Usize -> BOOLEAN]
    BY Zenon, <1>1, <2>3 DEF TypeOK, Create, procVars, State
  <2> QED
    BY <1>1, <2>2, <2>3, <2>4 DEF TypeOK, Create
<1>2. CASE \E p \in Usize : Ready(p)
  <2>1. PICK p \in Usize : Ready(p)
    BY <1>2
  <2>2. ready_list' \in Seq(Usize)
    BY <2>1 DEF Ready, TypeOK
  <2>3. TypeOK' /\ SearchStaysInTable'
    BY <2>1, <2>2 DEF Ready, TypeOK, ListTypeOK, SearchStaysInTable
  <2>4. Create => added' \in Usize \/ added' = Err
    BY <2>3 DEF TypeOK, ListTypeOK
  <2> QED
    BY <2>3, <2>4
<1>3. CASE Resched /\ ready_list # <<>>
  <2> DEFINE yields == state[current_pid] = "Current"
             queue == IF yields THEN Append(ready_list, current_pid) ELSE ready_list
             st2 == IF yields THEN [state EXCEPT ![current_pid] = "Ready"] ELSE state
  <2>1. queue \in Seq(Usize) /\ queue # <<>> /\ st2 \in [Usize -> State]
    BY <1>3 DEF TypeOK, State
  <2>2. Head(queue) \in Usize /\ Tail(queue) \in Seq(Usize)
    BY <2>1, ShortenedList
  <2>3. ready_list' = Tail(queue) /\ SwitchTo(st2, Head(queue)) /\ UNCHANGED <<procs, next, added, stack>>
    BY <1>3 DEF Resched, ReschedFrom
  <2> HIDE DEF queue, st2
  <2>4. state' \in [Usize -> State] /\ current_pid' \in Usize
    BY <2>1, <2>2, <2>3 DEF SwitchTo, TypeOK, State
  <2>5. TypeOK' /\ SearchStaysInTable'
    BY <2>2, <2>3, <2>4 DEF TypeOK, ListTypeOK, SearchStaysInTable
  <2> QED
    BY <2>5 DEF TypeOK, ListTypeOK
<1>4. CASE UNCHANGED sched
  <2>1. TypeOK' /\ SearchStaysInTable'
    BY <1>4 DEF sched, TypeOK, ListTypeOK, SearchStaysInTable
  <2> QED
    BY <2>1 DEF TypeOK, ListTypeOK
<1> QED
  BY <1>1, <1>2, <1>3, <1>4

\* A call other than a handler turns into f and leaves the masks alone.
LEMMA BecomeMoved ==
  ASSUME KInv, Calls # <<>>, NEW f \in Frame, frames' = Become(f), running' = running,
         imr' = imr, Top(Calls).fn # "timer", f.fn = Top(Calls).fn, f.saved = Top(Calls).saved
  PROVE  /\ frames' \in [Usize -> Seq(Frame)]
         /\ StacksOK' /\ MasksOK'
         /\ Len(Calls') > 0 /\ Top(Calls') = f
<1>1. /\ frames' \in [Usize -> Seq(Frame)]
      /\ StacksOK'
      /\ Closed(frames'[NULL_PROC]) <=> Closed(frames[NULL_PROC])
      /\ Len(Calls') > 0 /\ Top(Calls') = f
  BY Zenon, Moved DEF Become
<1>2. imr' = IF Closed(frames'[NULL_PROC]) THEN MASKED ELSE OPEN
  BY <1>1 DEF KInv, MasksOK
<1>3. Calls' # <<>> /\ ~Entered(Top(Calls'))
  BY <1>1 DEF Entered
<1>4. running' = NULL_PROC => frames'[NULL_PROC] # <<>>
  BY <1>3 DEF Calls
<1> QED
  BY <1>1, <1>2, <1>3, <1>4 DEF MasksOK

-----------------------------------------------------------------------------
(* The steps of process bodies, println!, create and kill.                  *)

\* A call from the body of a process: its stack is empty.
LEMMA PushedOnEmpty ==
  ASSUME KInv, InBody, NEW f \in Frame, frames' = Push(f), running' = running,
         \/ running = NULL_PROC /\ f.fn = "create" /\ f.saved = OPEN
         \/ running # NULL_PROC /\ f.fn \in {"println", "kill"}
         \/ running # NULL_PROC /\ f.fn = "create" /\ f.saved = MASKED
  PROVE  /\ frames' \in [Usize -> Seq(Frame)]
         /\ StacksOK'
         /\ Len(Calls') > 0 /\ Top(Calls') = f
         /\ running # NULL_PROC => frames'[NULL_PROC] = frames[NULL_PROC]
<1>1. /\ frames \in [Usize -> Seq(Frame)] /\ running \in Usize /\ NULL_PROC \in Usize
      /\ Calls \in Seq(Frame) /\ Len(Calls) = 0
  BY KTypes DEF InBody
<1> DEFINE t == Append(Calls, f)
<1>2. t \in Seq(Frame) /\ Len(t) = 1 /\ t[1] = f
  BY <1>1, PushFacts
<1>3. frames' = [frames EXCEPT ![running] = t]
  BY DEF Push, Calls
<1> HIDE DEF t
<1>4. /\ frames' \in [Usize -> Seq(Frame)]
      /\ frames'[running] = t
      /\ \A p \in Usize \ {running} : frames'[p] = frames[p]
  BY <1>1, <1>2, <1>3
<1>5. Len(Calls') > 0 /\ Top(Calls') = f /\ Top(t) = f
  <2>1. \A n \in Nat : n = 1 => n > 0
    OBVIOUS
  <2>2. Len(t) > 0
    BY <1>2, <2>1
  <2> QED
    BY Zenon, <1>2, <1>4, <2>2 DEF Calls, Top
<1>6. StacksOK'
  <2>1. CASE running = NULL_PROC
    <3>1. NullShape(t)
      BY <1>2, <1>5, <2>1 DEF NullShape
    <3>2. \A p \in Usize \ {NULL_PROC} : OtherShape(frames'[p]) /\ Parked(frames'[p])
      BY <1>4, <2>1 DEF KInv, StacksOK
    <3> QED
      BY <1>4, <2>1, <3>1, <3>2 DEF StacksOK
  <2>2. CASE running # NULL_PROC
    <3>1. OtherShape(t)
      BY <1>2, <1>5, <2>2 DEF OtherShape
    <3>2. frames'[NULL_PROC] = frames[NULL_PROC]
      BY <1>1, <1>4, <2>2
    <3>3. \A p \in Usize \ {NULL_PROC} : OtherShape(frames'[p])
      BY Zenon, <1>4, <2>2, <3>1 DEF KInv, StacksOK
    <3> QED
      BY <1>4, <2>2, <3>2, <3>3 DEF KInv, StacksOK
  <2> QED
    BY <2>1, <2>2
<1> QED
  BY <1>1, <1>4, <1>5, <1>6

\* An allocation in a body opens nothing.
LEMMA BodyUseHeapKInv == KInv /\ BodyUseHeap => KInv'
<1> SUFFICES ASSUME KInv, BodyUseHeap PROVE KInv'
  OBVIOUS
<1>1. /\ UNCHANGED <<sched, in_service, pit_ticks, held, running, frames, ctx, imr>>
      /\ iflag' = TRUE /\ Len(Calls) = 0
  BY KTypes DEF BodyUseHeap, HeapOp, RestoreInterrupts, InBody
<1>2. TypeOK' /\ SearchStaysInTable' /\ KTypeOK'
  BY Zenon, <1>1 DEF KInv, sched, TypeOK, ListTypeOK, SearchStaysInTable, KTypeOK
<1>3. StacksOK' /\ SwitchOK' /\ HeldOK' /\ AddedOK'
  BY Zenon, <1>1 DEF KInv, sched, StacksOK, SwitchOK, HeldOK, AddedOK, Calls
<1>4. MasksOK'
  BY <1>1 DEF KInv, MasksOK, Calls
<1> QED
  BY <1>2, <1>3, <1>4 DEF KInv

\* println! and the return of a process's function.
LEMMA BodyCallKInv == KInv /\ (BodyPrint \/ BodyReturn) => KInv'
<1> SUFFICES ASSUME KInv, BodyPrint \/ BodyReturn PROVE KInv'
  OBVIOUS
<1>1. PICK f \in Frame :
        /\ Holds(f, "println", "lock") \/ Holds(f, "kill", "mark")
        /\ frames' = Push(f)
  BY FrameFacts DEF BodyPrint, BodyReturn, Holds
<1>2. /\ InBody /\ running # NULL_PROC
      /\ UNCHANGED <<sched, iflag, imr, in_service, pit_ticks, held, running, ctx>>
  BY DEF BodyPrint, BodyReturn
<1>3. /\ frames' \in [Usize -> Seq(Frame)] /\ StacksOK'
      /\ Len(Calls') > 0 /\ Top(Calls') = f
      /\ frames'[NULL_PROC] = frames[NULL_PROC]
  BY <1>1, <1>2, PushedOnEmpty DEF Holds
<1>4. held = {}
  BY <1>2, NothingHeld DEF InBody
<1>5. TypeOK' /\ SearchStaysInTable' /\ KTypeOK'
  BY Zenon, <1>2, <1>3 DEF KInv, sched, TypeOK, ListTypeOK, SearchStaysInTable, KTypeOK
<1>6. MasksOK'
  BY Zenon, <1>2, <1>3 DEF KInv, MasksOK
<1>7. SwitchOK'
  <2>1. running = current_pid
    BY <1>2, KTypes DEF KInv, SwitchOK, InBody
  <2> QED
    BY Zenon, <1>1, <1>2, <1>3, <2>1 DEF KInv, SwitchOK, sched, Holds
<1>8. HeldOK' /\ AddedOK'
  BY Zenon, <1>1, <1>2, <1>3, <1>4 DEF HeldOK, AddedOK, Holds
<1> QED
  BY <1>3, <1>5, <1>6, <1>7, <1>8 DEF KInv

\* syscall::create closes the masks and keeps what they were.
LEMMA BodyCreateKInv == KInv /\ BodyCreate => KInv'
<1> SUFFICES ASSUME KInv, BodyCreate PROVE KInv'
  OBVIOUS
<1> DEFINE f == [Call("create", "alloc") EXCEPT !.saved = imr]
<1>1. /\ InBody /\ frames' = Push(f) /\ iflag' = FALSE /\ imr' = MASKED
      /\ UNCHANGED <<sched, in_service, pit_ticks, held, running, ctx>>
  BY DEF BodyCreate, DisableInterrupts
<1>2. f \in Frame /\ f.fn = "create" /\ f.pc = "alloc" /\ f.saved = imr
  <2>1. imr \in {OPEN, MASKED} /\ NULL_PROC \in Usize
    BY KTypes
  <2> QED
    BY <2>1 DEF Call, Frame, NULL_PROC
<1> HIDE DEF f
<1>3. /\ frames' \in [Usize -> Seq(Frame)] /\ StacksOK'
      /\ Len(Calls') > 0 /\ Top(Calls') = f
      /\ running # NULL_PROC => frames'[NULL_PROC] = frames[NULL_PROC]
  BY <1>1, <1>2, MasksByShape, PushedOnEmpty
<1>4. held = {}
  BY <1>1, NothingHeld DEF InBody
<1>5. TypeOK' /\ SearchStaysInTable' /\ KTypeOK'
  BY Zenon, <1>1, <1>3 DEF KInv, sched, TypeOK, ListTypeOK, SearchStaysInTable, KTypeOK
<1>6. Closed(frames'[NULL_PROC])
  <2>1. CASE running = NULL_PROC
    <3>1. frames'[NULL_PROC] = Calls'
      BY <1>1, <2>1 DEF Calls
    <3> QED
      BY <1>2, <1>3, <3>1 DEF Closed, Leaving, Entered
  <2>2. CASE running # NULL_PROC
    BY <1>3, <2>2, MasksByShape
  <2> QED
    BY <2>1, <2>2
<1>7. MasksOK'
  <2>1. Calls' # <<>> /\ ~Entered(Top(Calls'))
    <3>1. Calls' # <<>>
      BY <1>3
    <3> QED
      BY <1>2, <1>3, <3>1 DEF Entered
  <2>2. running' = NULL_PROC => frames'[NULL_PROC] # <<>>
    BY <2>1 DEF Calls
  <2> QED
    BY <1>1, <1>6, <2>1, <2>2 DEF MasksOK
<1>8. SwitchOK'
  <2>1. running = current_pid
    BY <1>1, KTypes DEF KInv, SwitchOK, InBody
  <2> QED
    BY Zenon, <1>1, <1>2, <1>3, <2>1 DEF KInv, SwitchOK, sched
<1>9. HeldOK' /\ AddedOK'
  BY Zenon, <1>1, <1>2, <1>3, <1>4 DEF HeldOK, AddedOK
<1> QED
  BY <1>3, <1>5, <1>7, <1>8, <1>9 DEF KInv

-----------------------------------------------------------------------------
\* println!: COM1 is taken and given back.
LEMMA PrintLockKInv == KInv /\ PrintLock => KInv'
<1> SUFFICES ASSUME KInv, PrintLock PROVE KInv'
  OBVIOUS
<1>1. Calls # <<>> /\ Len(Calls) > 0 /\ Holds(Top(Calls), "println", "lock")
  BY AtTop DEF PrintLock
<1>2. /\ frames' = Goto("write") /\ held' = held \cup {COM1}
      /\ UNCHANGED <<sched, iflag, imr, in_service, pit_ticks, running, ctx>>
  BY DEF PrintLock
<1>3. /\ frames' \in [Usize -> Seq(Frame)] /\ StacksOK' /\ MasksOK'
      /\ Len(Calls') > 0 /\ Holds(Top(Calls'), "println", "write")
  BY Zenon, <1>1, <1>2, GotoMoved DEF Holds, Pcs
<1>4. held = {}
  BY <1>1, NothingHeld DEF Holds
<1>5. TypeOK' /\ SearchStaysInTable' /\ KTypeOK'
  BY Zenon, <1>2, <1>3, <1>4 DEF KInv, sched, TypeOK, ListTypeOK, SearchStaysInTable, KTypeOK, Lock
<1>6. SwitchOK'
  BY Zenon, <1>1, <1>2, <1>3 DEF KInv, SwitchOK, sched, Holds
<1>7. HeldOK' /\ AddedOK'
  BY <1>2, <1>3, <1>4 DEF HeldOK, AddedOK, Holds
<1> QED
  BY <1>3, <1>5, <1>6, <1>7 DEF KInv

\* println! unlocks COM1 and returns.
LEMMA PrintDoneKInv == KInv /\ PrintDone => KInv'
<1> SUFFICES ASSUME KInv, PrintDone PROVE KInv'
  OBVIOUS
<1>1. Calls # <<>> /\ Len(Calls) > 0 /\ Holds(Top(Calls), "println", "write")
  BY AtTop DEF PrintDone
<1>2. /\ frames' = Pop /\ held' = held \ {COM1}
      /\ UNCHANGED <<sched, iflag, imr, in_service, pit_ticks, running, ctx>>
  BY DEF PrintDone
<1>3. /\ frames' \in [Usize -> Seq(Frame)] /\ StacksOK'
      /\ Calls' = Front(Calls)
      /\ \A p \in Usize \ {running} : frames'[p] = frames[p]
  BY <1>1, <1>2, Popped
<1>4. running # NULL_PROC
  BY Zenon, <1>1 DEF KInv, StacksOK, NullShape, Leaving, Entered, Closing, Holds, Calls
<1>5. Len(Calls') = 0
  <2>1. Len(Calls) = 1
    <3>1. OtherShape(Calls) /\ Len(Calls) \in Nat
      BY <1>4, KTypes DEF KInv, StacksOK, Calls
    <3>2. ~(Len(Calls) > 1)
      BY <1>1, <3>1 DEF OtherShape, Holds, Top
    <3>3. \A n \in Nat : n > 0 /\ ~(n > 1) => n = 1
      OBVIOUS
    <3> QED
      BY <1>1, <3>1, <3>2, <3>3
  <2> QED
    BY <1>1, <1>3, <2>1, KTypes, FrontFacts
<1>6. held' = {}
  BY <1>1, <1>2 DEF KInv, HeldOK, Holds
<1>7. TypeOK' /\ SearchStaysInTable' /\ KTypeOK'
  BY Zenon, <1>2, <1>3, <1>6 DEF KInv, sched, TypeOK, ListTypeOK, SearchStaysInTable, KTypeOK
<1>8. MasksOK'
  BY Zenon, <1>2, <1>3, <1>4, KTypes DEF KInv, MasksOK
<1>9. SwitchOK' /\ HeldOK' /\ AddedOK'
  BY <1>1, <1>2, <1>5, <1>6 DEF KInv, SwitchOK, sched, Holds, HeldOK, AddedOK
<1> QED
  BY <1>3, <1>7, <1>8, <1>9 DEF KInv

-----------------------------------------------------------------------------
\* create, inside its critical section: each allocation restores MASKED.
LEMMA CreateAllocKInv == KInv /\ CreateAlloc => KInv'
<1> SUFFICES ASSUME KInv, CreateAlloc PROVE KInv'
  OBVIOUS
<1>1. Calls # <<>> /\ Len(Calls) > 0 /\ Holds(Top(Calls), "create", "alloc")
  BY AtTop DEF CreateAlloc
<1>2. /\ frames' = Goto("add") /\ imr' = imr /\ iflag' = TRUE
      /\ UNCHANGED <<sched, in_service, pit_ticks, held, running, ctx>>
  BY DEF CreateAlloc, HeapOp, RestoreInterrupts
<1>3. /\ frames' \in [Usize -> Seq(Frame)] /\ StacksOK' /\ MasksOK'
      /\ Len(Calls') > 0 /\ Holds(Top(Calls'), "create", "add")
  BY <1>1, <1>2, GotoMoved DEF Holds, Pcs
<1>4. held = {}
  BY <1>1, NothingHeld DEF Holds
<1>5. TypeOK' /\ SearchStaysInTable' /\ KTypeOK'
  BY <1>2, <1>3, SchedTypes DEF KInv, KTypeOK
<1>6. SwitchOK'
  BY <1>1, <1>2, <1>3 DEF KInv, SwitchOK, sched, Holds
<1>7. HeldOK' /\ AddedOK'
  BY <1>2, <1>3, <1>4 DEF HeldOK, AddedOK, Holds
<1> QED
  BY <1>3, <1>5, <1>6, <1>7 DEF KInv

\* The table and the new process are locked; a failure holds no lock.
LEMMA CreateAddKInv == KInv /\ CreateAdd => KInv'
<1> SUFFICES ASSUME KInv, CreateAdd PROVE KInv'
  OBVIOUS
<1>1. Calls # <<>> /\ Len(Calls) > 0 /\ Holds(Top(Calls), "create", "add")
  BY AtTop DEF CreateAdd
<1>2. /\ Create /\ imr' = imr /\ iflag' = TRUE
      /\ IF added' = Err
         THEN frames' = Goto("panic") /\ UNCHANGED <<held, ctx>>
         ELSE /\ held' = held \cup {TableWrite, ProcLock(added')}
              /\ ctx' = [ctx EXCEPT ![added'] = FreshContext(added')]
              /\ frames' = Goto("fill")
      /\ UNCHANGED <<in_service, pit_ticks, running>>
  BY DEF CreateAdd, HeapOp, RestoreInterrupts
<1>3. PICK at \in {"panic", "fill"} : frames' = Goto(at) /\ (at = "fill" <=> added' # Err)
  BY <1>2
<1>4. /\ frames' \in [Usize -> Seq(Frame)] /\ StacksOK' /\ MasksOK'
      /\ Len(Calls') > 0 /\ Holds(Top(Calls'), "create", at)
  BY Zenon, <1>1, <1>2, <1>3, GotoMoved DEF Holds, Pcs
<1>5. held = {}
  BY <1>1, NothingHeld DEF Holds
<1>6. TypeOK' /\ SearchStaysInTable' /\ (added' \in Usize \/ added' = Err)
  BY <1>2, SchedTypes DEF KInv
<1>7. ctx' \in [Usize -> [iflag : BOOLEAN, sp : Usize]] /\ \A p \in Usize : ctx'[p].sp = p
  <2>1. CASE added' = Err
    BY Zenon, <1>2, <2>1 DEF KInv, KTypeOK, SwitchOK
  <2>2. CASE added' # Err
    <3>1. added' \in Usize /\ ctx' = [ctx EXCEPT ![added'] = [iflag |-> FALSE, sp |-> added']]
      BY <1>2, <1>6, <2>2 DEF FreshContext
    <3> QED
      BY Zenon, <3>1 DEF KInv, KTypeOK, SwitchOK
  <2> QED
    BY <2>1, <2>2
<1>8. held' \subseteq Lock
  BY <1>2, <1>5, <1>6 DEF Lock
<1>9. KTypeOK'
  BY <1>2, <1>4, <1>7, <1>8 DEF KInv, KTypeOK
<1>10. SwitchOK'
  <2>1. running = current_pid /\ current_pid' = current_pid
    BY <1>1, <1>2 DEF KInv, SwitchOK, Holds, Create
  <2> QED
    BY <1>2, <1>4, <1>7, <2>1 DEF SwitchOK, Holds
<1>11. HeldOK'
  BY <1>2, <1>3, <1>4, <1>5 DEF HeldOK
<1>12. AddedOK'
  BY <1>3, <1>4, <1>6 DEF AddedOK, Holds
<1> QED
  BY <1>4, <1>6, <1>9, <1>10, <1>11, <1>12 DEF KInv

\* They are unlocked before ready() is called.
LEMMA CreateFillKInv == KInv /\ CreateFill => KInv'
<1> SUFFICES ASSUME KInv, CreateFill PROVE KInv'
  OBVIOUS
<1>1. Calls # <<>> /\ Len(Calls) > 0 /\ Holds(Top(Calls), "create", "fill")
  BY AtTop DEF CreateFill
<1>2. /\ frames' = Goto("ready") /\ imr' = imr /\ iflag' = TRUE
      /\ held' = held \ {TableWrite, ProcLock(added)}
      /\ UNCHANGED <<sched, in_service, pit_ticks, running, ctx>>
  BY DEF CreateFill, HeapOp, RestoreInterrupts
<1>3. /\ frames' \in [Usize -> Seq(Frame)] /\ StacksOK' /\ MasksOK'
      /\ Len(Calls') > 0 /\ Holds(Top(Calls'), "create", "ready")
  BY Zenon, <1>1, <1>2, GotoMoved DEF Holds, Pcs
<1>4. held' = {}
  BY <1>1, <1>2 DEF KInv, HeldOK, Holds
<1>5. TypeOK' /\ SearchStaysInTable' /\ KTypeOK'
  BY Zenon, <1>2, <1>3, <1>4, SchedTypes DEF KInv, KTypeOK
<1>6. SwitchOK'
  BY Zenon, <1>1, <1>2, <1>3 DEF KInv, SwitchOK, sched, Holds
<1>7. HeldOK' /\ AddedOK'
  BY Zenon, <1>1, <1>2, <1>3, <1>4 DEF KInv, HeldOK, AddedOK, Holds, sched
<1> QED
  BY <1>3, <1>5, <1>6, <1>7 DEF KInv

\* ready() locks the list; its push may allocate.
LEMMA CreateReadyKInv == KInv /\ CreateReady => KInv'
<1> SUFFICES ASSUME KInv, CreateReady PROVE KInv'
  OBVIOUS
<1>1. Calls # <<>> /\ Len(Calls) > 0 /\ Holds(Top(Calls), "create", "ready")
  BY AtTop DEF CreateReady
<1>2. /\ frames' = Goto("unlock") /\ imr' = imr /\ iflag' \in {TRUE, iflag}
      /\ held' = held \cup {ListWrite} /\ Ready(added)
      /\ UNCHANGED <<in_service, pit_ticks, running, ctx>>
  BY Zenon DEF CreateReady, HeapOp, RestoreInterrupts
<1>3. /\ frames' \in [Usize -> Seq(Frame)] /\ StacksOK' /\ MasksOK'
      /\ Len(Calls') > 0 /\ Holds(Top(Calls'), "create", "unlock")
  BY Zenon, <1>1, <1>2, GotoMoved DEF Holds, Pcs
<1>4. held = {} /\ added \in Usize
  BY <1>1, NothingHeld DEF Holds, KInv, AddedOK
<1>5. TypeOK' /\ SearchStaysInTable'
  BY <1>2, <1>4, SchedTypes DEF KInv
<1>6. held' \subseteq Lock
  BY <1>2, <1>4 DEF Lock
<1>7. KTypeOK'
  BY Zenon, <1>2, <1>3, <1>6 DEF KInv, KTypeOK
<1>8. SwitchOK'
  BY Zenon, <1>1, <1>2, <1>3 DEF KInv, SwitchOK, Ready, Holds
<1>9. HeldOK' /\ AddedOK'
  BY <1>2, <1>3, <1>4 DEF HeldOK, AddedOK, Holds
<1> QED
  BY <1>3, <1>5, <1>7, <1>8, <1>9 DEF KInv

\* ... and unlocks it.
LEMMA CreateUnlockKInv == KInv /\ CreateUnlock => KInv'
<1> SUFFICES ASSUME KInv, CreateUnlock PROVE KInv'
  OBVIOUS
<1>1. Calls # <<>> /\ Len(Calls) > 0 /\ Holds(Top(Calls), "create", "unlock")
  BY AtTop DEF CreateUnlock
<1>2. /\ frames' = Goto("restore") /\ held' = held \ {ListWrite}
      /\ UNCHANGED <<sched, iflag, imr, in_service, pit_ticks, running, ctx>>
  BY DEF CreateUnlock
<1>3. /\ frames' \in [Usize -> Seq(Frame)] /\ StacksOK' /\ MasksOK'
      /\ Len(Calls') > 0 /\ Holds(Top(Calls'), "create", "restore")
  BY Zenon, <1>1, <1>2, GotoMoved DEF Holds, Pcs
<1>4. held' = {}
  BY <1>1, <1>2 DEF KInv, HeldOK, Holds
<1>5. TypeOK' /\ SearchStaysInTable' /\ KTypeOK'
  BY Zenon, <1>2, <1>3, <1>4, SchedTypes DEF KInv, KTypeOK
<1>6. SwitchOK'
  BY Zenon, <1>1, <1>2, <1>3 DEF KInv, SwitchOK, sched, Holds
<1>7. HeldOK' /\ AddedOK'
  BY Zenon, <1>3, <1>4 DEF HeldOK, AddedOK, Holds
<1> QED
  BY <1>3, <1>5, <1>6, <1>7 DEF KInv

\* Leaving the section writes back the masks that were there at its start.
LEMMA CreateRestoreKInv == KInv /\ CreateRestore => KInv'
<1> SUFFICES ASSUME KInv, CreateRestore PROVE KInv'
  OBVIOUS
<1>1. Calls # <<>> /\ Len(Calls) > 0 /\ Holds(Top(Calls), "create", "restore")
  BY AtTop DEF CreateRestore
<1>2. /\ frames' = Pop /\ imr' = Top(Calls).saved /\ iflag' = TRUE
      /\ UNCHANGED <<sched, in_service, pit_ticks, held, running, ctx>>
  BY <1>1, KTypes DEF CreateRestore, RestoreInterrupts
<1>3. /\ frames' \in [Usize -> Seq(Frame)] /\ StacksOK'
      /\ Calls' = Front(Calls)
      /\ Len(Calls') > 0 => Top(Calls').fn \in {"timer", "kill"} /\ ~Entered(Top(Calls'))
      /\ \A p \in Usize \ {running} : frames'[p] = frames[p]
  BY Zenon, <1>1, <1>2, Popped
<1>4. held = {}
  BY <1>1, NothingHeld DEF Holds
<1>5. TypeOK' /\ SearchStaysInTable' /\ KTypeOK'
  BY Zenon, <1>1, <1>2, <1>3, KTypes, SchedTypes DEF KInv, KTypeOK
<1>6. MasksOK'
  <2>1. CASE running = NULL_PROC
    <3>1. NullShape(Calls) /\ Calls \in Seq(Frame) /\ frames'[NULL_PROC] = Calls'
      BY Zenon, <1>2, <2>1, KTypes DEF KInv, StacksOK, Calls
    <3>2. Top(Calls).saved = OPEN
      BY Zenon, <1>1, <3>1 DEF NullShape, Holds, Leaving, Entered, Closing
    <3>3. ~Closed(frames'[NULL_PROC])
      BY Zenon, <1>1, <1>3, <3>1, FrontShapes DEF Holds
    <3> QED
      BY Zenon, <1>2, <1>3, <3>2, <3>3 DEF MasksOK
  <2>2. CASE running # NULL_PROC
    <3>1. OtherShape(Calls) /\ frames'[NULL_PROC] = frames[NULL_PROC] /\ Len(Calls) \in Nat
      BY Zenon, <1>3, <2>2, KTypes DEF KInv, StacksOK, Calls
    <3>2. ~(Len(Calls) > 1)
      BY <1>1, <3>1 DEF OtherShape, Holds, Top
    <3>3. \A n \in Nat : n > 0 /\ ~(n > 1) => n = 1
      OBVIOUS
    <3>4. Len(Calls) = 1
      BY Zenon, <1>1, <3>1, <3>2, <3>3
    <3>5. Top(Calls).saved = MASKED
      BY <1>1, <3>1, <3>4 DEF OtherShape, Holds
    <3> QED
      BY Zenon, <1>2, <2>2, <3>1, <3>5, MasksByShape DEF MasksOK
  <2> QED
    BY <2>1, <2>2
<1>7. SwitchOK'
  BY Zenon, <1>1, <1>2, <1>3 DEF KInv, SwitchOK, sched, Holds
<1>8. HeldOK' /\ AddedOK'
  BY Zenon, <1>2, <1>3, <1>4 DEF HeldOK, AddedOK
<1> QED
  BY <1>3, <1>5, <1>6, <1>7, <1>8 DEF KInv

-----------------------------------------------------------------------------
\* kill marks the running process, with the table and the process locked.
LEMMA KillMarkKInv == KInv /\ KillMark => KInv'
<1> SUFFICES ASSUME KInv, KillMark PROVE KInv'
  OBVIOUS
<1> DEFINE f == [Top(Calls) EXCEPT !.pc = "drop", !.from = current_pid]
<1>1. Calls # <<>> /\ Len(Calls) > 0 /\ Holds(Top(Calls), "kill", "mark")
  BY AtTop DEF KillMark
<1>2. /\ frames' = Become(f) /\ imr' = imr /\ iflag' = TRUE
      /\ held' = held \cup {TableRead, ProcLock(current_pid)}
      /\ state' = [state EXCEPT ![current_pid] = "Free"]
      /\ stack' = [stack EXCEPT ![current_pid] = FALSE]
      /\ UNCHANGED <<procs, next, added, ready_list, current_pid,
                     in_service, pit_ticks, running, ctx>>
  BY <1>1, KTypes DEF KillMark, HeapOp, RestoreInterrupts
<1>3. current_pid \in Usize
  BY DEF KInv, TypeOK
<1>4. /\ f \in Frame /\ f.fn = "kill" /\ f.pc = "drop" /\ f.from = current_pid
      /\ f.saved = Top(Calls).saved
  <2>1. Top(Calls) \in Frame
    BY Zenon, <1>1, KTypes
  <2> QED
    BY Zenon, <1>1, <1>3, <2>1 DEF Frame, Holds
<1> HIDE DEF f
<1>5. /\ frames' \in [Usize -> Seq(Frame)] /\ StacksOK' /\ MasksOK'
      /\ Len(Calls') > 0 /\ Top(Calls') = f
  BY Zenon, <1>1, <1>2, <1>4, BecomeMoved DEF Holds
<1>6. held = {}
  BY <1>1, NothingHeld DEF Holds
<1>7. TypeOK' /\ SearchStaysInTable'
  BY <1>2, <1>3 DEF KInv, TypeOK, ListTypeOK, SearchStaysInTable, State
<1>8. held' \subseteq Lock
  BY <1>2, <1>3, <1>6 DEF Lock
<1>9. KTypeOK'
  BY Zenon, <1>2, <1>5, <1>8 DEF KInv, KTypeOK
<1>10. SwitchOK'
  BY Zenon, <1>1, <1>2, <1>4, <1>5 DEF KInv, SwitchOK, Holds
<1>11. HeldOK' /\ AddedOK'
  BY Zenon, <1>2, <1>4, <1>5, <1>6 DEF HeldOK, AddedOK, Holds
<1> QED
  BY <1>5, <1>7, <1>9, <1>10, <1>11 DEF KInv

\* ... unlocks them and calls resched.
LEMMA KillDropKInv == KInv /\ KillDrop => KInv'
<1> SUFFICES ASSUME KInv, KillDrop PROVE KInv'
  OBVIOUS
<1> DEFINE f == [Top(Calls) EXCEPT !.pc = "returned"]
           g == Call("resched", "lock")
           t == Append(Append(Front(Calls), f), g)
<1>1. Calls # <<>> /\ Len(Calls) > 0 /\ Holds(Top(Calls), "kill", "drop")
  BY AtTop DEF KillDrop
<1>2. /\ frames' = [frames EXCEPT ![running] = t]
      /\ held' = held \ {TableRead, ProcLock(Top(Calls).from)}
      /\ UNCHANGED <<sched, iflag, imr, in_service, pit_ticks, running, ctx>>
  BY Zenon, <1>1, KTypes DEF KillDrop, BecomeAndCall, Calls
<1>3. /\ f \in Frame /\ f.fn = "kill" /\ f.pc = "returned"
      /\ g \in Frame /\ g.fn = "resched" /\ g.pc = "lock"
  <2>1. Top(Calls) \in Frame
    BY Zenon, <1>1, KTypes
  <2>2. f \in Frame /\ f.fn = "kill" /\ f.pc = "returned"
    BY <1>1, <2>1 DEF Frame, Holds
  <2> QED
    BY <2>2, FrameFacts
<1> HIDE DEF f, g
<1>4. /\ running # NULL_PROC /\ running \in Usize /\ NULL_PROC \in Usize
      /\ frames \in [Usize -> Seq(Frame)] /\ Calls \in Seq(Frame) /\ Len(Calls) \in Nat
  BY Zenon, <1>1, KTypes DEF KInv, StacksOK, NullShape, Leaving, Entered, Closing, Holds, Calls
<1>5. Len(Calls) = 1
  <2>1. OtherShape(Calls)
    BY <1>4 DEF KInv, StacksOK, Calls
  <2>2. ~(Len(Calls) > 1)
    BY <1>1, <2>1 DEF OtherShape, Holds, Top
  <2>3. \A n \in Nat : n > 0 /\ ~(n > 1) => n = 1
    OBVIOUS
  <2> QED
    BY Zenon, <1>1, <1>4, <2>2, <2>3
<1>6. t \in Seq(Frame) /\ Len(t) = 2 /\ t[1] = f /\ t[2] = g
  <2>1. /\ Append(Front(Calls), f) \in Seq(Frame)
        /\ Len(Append(Front(Calls), f)) = 1 /\ Append(Front(Calls), f)[1] = f
    BY Zenon, <1>1, <1>3, <1>4, <1>5, MoveFacts
  <2> QED
    BY <1>3, <2>1, PushFacts
<1> HIDE DEF t
<1>7. /\ frames' \in [Usize -> Seq(Frame)] /\ frames'[running] = t
      /\ \A p \in Usize \ {running} : frames'[p] = frames[p]
  BY Zenon, <1>2, <1>4, <1>6
<1>8. OtherShape(t) /\ Top(t) = g
  BY Zenon, <1>3, <1>6 DEF OtherShape, Top
<1>9. Calls' = t
  BY <1>2, <1>7 DEF Calls
<1>10. StacksOK'
  BY Zenon, <1>2, <1>4, <1>7, <1>8 DEF KInv, StacksOK
<1>11. held' = {}
  BY Zenon, <1>1, <1>2 DEF KInv, HeldOK, Holds
<1>12. TypeOK' /\ SearchStaysInTable' /\ KTypeOK'
  BY Zenon, <1>2, <1>7, <1>11, SchedTypes DEF KInv, KTypeOK
<1>13. MasksOK'
  BY Zenon, <1>2, <1>4, <1>7 DEF KInv, MasksOK
<1>14. SwitchOK' /\ HeldOK' /\ AddedOK'
  BY Zenon, <1>1, <1>2, <1>3, <1>8, <1>9, <1>11 DEF KInv, SwitchOK, HeldOK, AddedOK, sched, Holds
<1> QED
  BY <1>10, <1>12, <1>13, <1>14 DEF KInv

-----------------------------------------------------------------------------
(* The steps of resched, switch_to and the timer handler.                   *)

\* The masks after a resched has returned on the stack it was called on.
LEMMA ReschedPoppedMasks ==
  ASSUME KInv, Calls # <<>>, Top(Calls).fn = "resched", frames' = Pop,
         running' = running, imr' = imr
  PROVE  MasksOK'
<1>1. /\ Calls' = Front(Calls)
      /\ Len(Calls') > 0 => Top(Calls').fn \in {"timer", "kill"} /\ ~Entered(Top(Calls'))
      /\ \A p \in Usize \ {running} : frames'[p] = frames[p]
  BY Popped
<1>2. CASE running = NULL_PROC
  <2>1. NullShape(Calls) /\ Calls \in Seq(Frame) /\ frames'[NULL_PROC] = Calls'
        /\ frames[NULL_PROC] = Calls /\ Len(Calls) > 0
    BY <1>2, KTypes DEF KInv, StacksOK, Calls
  <2>2. Closed(Calls)
    BY <2>1 DEF Closed, Leaving, Entered
  <2>3. Len(Calls') > 0 /\ Closing(Top(Calls'))
    BY Zenon, <1>1, <2>1, FrontShapes
  <2>4. Closed(Calls') /\ Calls' # <<>>
    BY <2>3 DEF Closed, Closing, Leaving, Entered
  <2> QED
    BY Zenon, <1>1, <2>1, <2>2, <2>3, <2>4 DEF KInv, MasksOK
<1>3. CASE running # NULL_PROC
  BY Zenon, <1>1, <1>3, KTypes DEF KInv, MasksOK
<1> QED
  BY <1>2, <1>3

\* Nothing is ready.
LEMMA ReschedNothingKInv == KInv /\ ReschedNothing => KInv'
<1> SUFFICES ASSUME KInv, ReschedNothing PROVE KInv'
  OBVIOUS
<1>1. Calls # <<>> /\ Len(Calls) > 0 /\ Holds(Top(Calls), "resched", "lock")
  BY AtTop DEF ReschedNothing
<1>2. /\ frames' = Pop
      /\ UNCHANGED <<sched, iflag, imr, in_service, pit_ticks, held, running, ctx>>
  BY DEF ReschedNothing
<1>3. /\ frames' \in [Usize -> Seq(Frame)] /\ StacksOK'
      /\ Len(Calls') > 0 => Top(Calls').fn \in {"timer", "kill"} /\ ~Entered(Top(Calls'))
  BY <1>1, <1>2, Popped
<1>4. MasksOK'
  BY <1>1, <1>2, ReschedPoppedMasks DEF Holds
<1>5. held = {}
  BY <1>1, NothingHeld DEF Holds
<1>6. TypeOK' /\ SearchStaysInTable' /\ KTypeOK'
  BY Zenon, <1>2, <1>3, SchedTypes DEF KInv, KTypeOK
<1>7. SwitchOK'
  BY Zenon, <1>1, <1>2, <1>3 DEF KInv, SwitchOK, sched, Holds
<1>8. HeldOK' /\ AddedOK'
  BY Zenon, <1>2, <1>3, <1>5 DEF HeldOK, AddedOK
<1> QED
  BY <1>3, <1>4, <1>6, <1>7, <1>8 DEF KInv

\* The next process is chosen, with all locks held.
LEMMA ReschedPickKInv == KInv /\ ReschedPick => KInv'
<1> SUFFICES ASSUME KInv, ReschedPick PROVE KInv'
  OBVIOUS
<1> DEFINE f == [Top(Calls) EXCEPT !.pc = "unlock", !.from = current_pid, !.to = current_pid']
<1>1. Calls # <<>> /\ Len(Calls) > 0 /\ Holds(Top(Calls), "resched", "lock")
  BY AtTop DEF ReschedPick
<1>2. /\ frames' = Become(f) /\ imr' = imr /\ iflag' \in {TRUE, iflag}
      /\ held' = held \cup ReschedLocks(current_pid, current_pid')
      /\ Resched /\ ready_list # <<>>
      /\ UNCHANGED <<in_service, pit_ticks, running, ctx>>
  BY Zenon, <1>1, KTypes DEF ReschedPick, HeapOp, RestoreInterrupts
<1>3. TypeOK' /\ SearchStaysInTable'
  BY <1>2, SchedTypes DEF KInv
<1>4. current_pid \in Usize /\ current_pid' \in Usize
  BY <1>3 DEF KInv, TypeOK
<1>5. /\ f \in Frame /\ f.fn = "resched" /\ f.pc = "unlock"
      /\ f.from = current_pid /\ f.to = current_pid' /\ f.saved = Top(Calls).saved
  <2>1. Top(Calls) \in Frame
    BY <1>1, KTypes
  <2> QED
    BY Zenon, <1>1, <1>4, <2>1 DEF Frame, Holds
<1> HIDE DEF f
<1>6. /\ frames' \in [Usize -> Seq(Frame)] /\ StacksOK' /\ MasksOK'
      /\ Len(Calls') > 0 /\ Top(Calls') = f
  BY Zenon, <1>1, <1>2, <1>5, BecomeMoved DEF Holds
<1>7. held = {} /\ running = current_pid
  BY Zenon, <1>1, NothingHeld DEF KInv, SwitchOK, Holds
<1>8. held' \subseteq Lock
  BY <1>2, <1>4, <1>7 DEF Lock, ReschedLocks
<1>9. KTypeOK'
  BY Zenon, <1>2, <1>6, <1>8 DEF KInv, KTypeOK
<1>10. SwitchOK'
  BY Zenon, <1>2, <1>5, <1>6, <1>7 DEF KInv, SwitchOK
<1>11. HeldOK' /\ AddedOK'
  BY Zenon, <1>2, <1>5, <1>6, <1>7 DEF HeldOK, AddedOK, Holds
<1> QED
  BY <1>3, <1>6, <1>9, <1>10, <1>11 DEF KInv

\* The locks are dropped before the switch.
LEMMA ReschedUnlockKInv == KInv /\ ReschedUnlock => KInv'
<1> SUFFICES ASSUME KInv, ReschedUnlock PROVE KInv'
  OBVIOUS
<1>1. Calls # <<>> /\ Len(Calls) > 0 /\ Holds(Top(Calls), "resched", "unlock")
  BY Zenon, AtTop DEF ReschedUnlock
<1>2. /\ frames' = IF Top(Calls).from # Top(Calls).to THEN Goto("switch") ELSE Pop
      /\ held' = held \ ReschedLocks(Top(Calls).from, Top(Calls).to)
      /\ UNCHANGED <<sched, iflag, imr, in_service, pit_ticks, running, ctx>>
  BY Zenon, <1>1, KTypes DEF ReschedUnlock
<1>3. Top(Calls).from = running /\ Top(Calls).to = current_pid
  BY Zenon, <1>1 DEF KInv, SwitchOK, Holds
<1>4. held' = {}
  BY Zenon, <1>1, <1>2 DEF KInv, HeldOK, Holds
<1>5. TypeOK' /\ SearchStaysInTable'
  BY Zenon, <1>2, SchedTypes DEF KInv
<1>6. CASE Top(Calls).from # Top(Calls).to
  <2>1. /\ frames' \in [Usize -> Seq(Frame)] /\ StacksOK' /\ MasksOK'
        /\ Len(Calls') > 0 /\ Holds(Top(Calls'), "resched", "switch")
        /\ Top(Calls').from = Top(Calls).from /\ Top(Calls').to = Top(Calls).to
    BY Zenon, <1>1, <1>2, <1>6, GotoMoved DEF Holds, Pcs
  <2>2. KTypeOK'
    BY Zenon, <1>2, <1>4, <2>1 DEF KInv, KTypeOK
  <2>3. SwitchOK' /\ HeldOK' /\ AddedOK'
    BY Zenon, <1>2, <1>3, <1>4, <2>1 DEF KInv, SwitchOK, HeldOK, AddedOK, sched, Holds
  <2> QED
    BY <1>5, <2>1, <2>2, <2>3 DEF KInv
<1>7. CASE Top(Calls).from = Top(Calls).to
  <2>1. /\ frames' \in [Usize -> Seq(Frame)] /\ StacksOK'
        /\ Len(Calls') > 0 => Top(Calls').fn \in {"timer", "kill"} /\ ~Entered(Top(Calls'))
    BY Zenon, <1>1, <1>2, <1>7, Popped
  <2>2. MasksOK'
    BY Zenon, <1>1, <1>2, <1>7, ReschedPoppedMasks DEF Holds
  <2>3. KTypeOK'
    BY Zenon, <1>2, <1>4, <2>1 DEF KInv, KTypeOK
  <2>4. SwitchOK' /\ HeldOK' /\ AddedOK'
    BY Zenon, <1>2, <1>3, <1>4, <1>7, <2>1 DEF KInv, SwitchOK, HeldOK, AddedOK, sched
  <2> QED
    BY <1>5, <2>1, <2>2, <2>3, <2>4 DEF KInv
<1> QED
  BY <1>6, <1>7

\* switch_to exchanges the flags ...
LEMMA SwitchFlagsKInv == KInv /\ SwitchFlags => KInv'
<1> SUFFICES ASSUME KInv, SwitchFlags PROVE KInv'
  OBVIOUS
<1>1. Calls # <<>> /\ Len(Calls) > 0 /\ Holds(Top(Calls), "resched", "switch")
  BY AtTop DEF SwitchFlags
<1>2. /\ frames' = Goto("swap")
      /\ ctx' = [ctx EXCEPT ![Top(Calls).from].iflag = iflag]
      /\ iflag' = ctx[Top(Calls).to].iflag
      /\ UNCHANGED <<sched, imr, in_service, pit_ticks, held, running>>
  BY <1>1, KTypes DEF SwitchFlags
<1>3. /\ frames' \in [Usize -> Seq(Frame)] /\ StacksOK' /\ MasksOK'
      /\ Len(Calls') > 0 /\ Holds(Top(Calls'), "resched", "swap")
      /\ Top(Calls').from = Top(Calls).from /\ Top(Calls').to = Top(Calls).to
  BY <1>1, <1>2, GotoMoved DEF Holds, Pcs
<1>4. /\ Top(Calls).from = running /\ Top(Calls).to = current_pid
      /\ running \in Usize /\ current_pid \in Usize
  BY Zenon, <1>1 DEF KInv, SwitchOK, Holds, TypeOK, KTypeOK
<1>5. held = {}
  BY <1>1, NothingHeld DEF Holds
<1>6. ctx \in [Usize -> [iflag : BOOLEAN, sp : Usize]] /\ iflag \in BOOLEAN
  BY DEF KInv, KTypeOK
<1>7. /\ ctx' \in [Usize -> [iflag : BOOLEAN, sp : Usize]] /\ iflag' \in BOOLEAN
      /\ \A p \in Usize : ctx'[p].sp = ctx[p].sp
  BY <1>2, <1>4, <1>6
<1>8. TypeOK' /\ SearchStaysInTable' /\ KTypeOK'
  BY Zenon, <1>2, <1>3, <1>7, SchedTypes DEF KInv, KTypeOK
<1>9. SwitchOK'
  BY <1>2, <1>3, <1>4, <1>7 DEF KInv, SwitchOK, sched, Holds
<1>10. HeldOK' /\ AddedOK'
  BY <1>2, <1>3, <1>5 DEF HeldOK, AddedOK, Holds
<1> QED
  BY Zenon, <1>3, <1>8, <1>9, <1>10 DEF KInv

\* ... and then the stacks: the one that is left is parked, or is the null
\* process's inside the section of its handler.
LEMMA SwitchStackKInv == KInv /\ SwitchStack => KInv'
<1> SUFFICES ASSUME KInv, SwitchStack PROVE KInv'
  OBVIOUS
<1>1. Calls # <<>> /\ Len(Calls) > 0 /\ Holds(Top(Calls), "resched", "swap")
  BY AtTop DEF SwitchStack
<1>2. /\ frames' = Pop
      /\ ctx' = [ctx EXCEPT ![Top(Calls).from].sp = running]
      /\ running' = ctx[Top(Calls).to].sp
      /\ UNCHANGED <<sched, iflag, imr, in_service, pit_ticks, held>>
  BY <1>1, KTypes DEF SwitchStack
<1>3. /\ Top(Calls).from = running /\ Top(Calls).to = current_pid
      /\ running \in Usize /\ current_pid \in Usize /\ NULL_PROC \in Usize
      /\ frames \in [Usize -> Seq(Frame)] /\ Calls \in Seq(Frame)
  BY Zenon, <1>1, KTypes DEF KInv, SwitchOK, Holds, TypeOK
<1>4. running' = current_pid
  BY <1>2, <1>3 DEF KInv, SwitchOK
<1>5. /\ ctx' \in [Usize -> [iflag : BOOLEAN, sp : Usize]]
      /\ \A p \in Usize : ctx'[p].sp = p
  BY ZenonT(60), <1>2, <1>3 DEF KInv, KTypeOK, SwitchOK
<1>6. /\ frames' \in [Usize -> Seq(Frame)]
      /\ frames'[running] = Front(Calls)
      /\ \A p \in Usize \ {running} : frames'[p] = frames[p]
  BY <1>1, <1>2, <1>3, FrontFacts DEF Pop, Calls
<1>7. /\ NullShape(frames'[NULL_PROC])
      /\ Len(frames'[NULL_PROC]) > 0 /\ Closing(Top(frames'[NULL_PROC]))
  <2>1. CASE running = NULL_PROC
    <3>1. NullShape(Calls)
      BY <2>1 DEF KInv, StacksOK, Calls
    <3> QED
      BY Zenon, <1>1, <1>3, <1>6, <2>1, <3>1, FrontShapes DEF Holds
  <2>2. CASE running # NULL_PROC
    BY Zenon, <1>3, <1>6, <2>2 DEF KInv, StacksOK
  <2> QED
    BY <2>1, <2>2
<1>8. \A p \in Usize \ {NULL_PROC} : OtherShape(frames'[p]) /\ Parked(frames'[p])
  <2> SUFFICES ASSUME NEW p \in Usize \ {NULL_PROC}
               PROVE  OtherShape(frames'[p]) /\ Parked(frames'[p])
    OBVIOUS
  <2>1. CASE p = running
    <3>1. OtherShape(Calls)
      BY <2>1 DEF KInv, StacksOK, Calls
    <3> QED
      BY Zenon, <1>1, <1>3, <1>6, <2>1, <3>1, FrontShapes
  <2>2. CASE p # running
    BY Zenon, <1>6, <2>2 DEF KInv, StacksOK
  <2> QED
    BY <2>1, <2>2
<1>9. StacksOK'
  BY <1>7, <1>8 DEF StacksOK
<1>10. Len(Calls') > 0 => Top(Calls').fn \in {"timer", "kill"} /\ ~Entered(Top(Calls'))
  <2>1. CASE running' = NULL_PROC
    BY <1>7, <2>1 DEF Calls, Closing, Entered
  <2>2. CASE running' # NULL_PROC
    BY Zenon, <1>3, <1>4, <1>8, <2>2 DEF Calls, Parked, Entered
  <2> QED
    BY <2>1, <2>2
<1>11. MasksOK'
  <2>1. Closed(frames[NULL_PROC])
    <3>1. CASE running = NULL_PROC
      BY Zenon, <1>1, <3>1 DEF Closed, Holds, Leaving, Entered, Calls
    <3>2. CASE running # NULL_PROC
      BY <3>2, MasksByShape
    <3> QED
      BY <3>1, <3>2
  <2>2. Closed(frames'[NULL_PROC]) /\ frames'[NULL_PROC] # <<>>
    BY <1>7 DEF Closed, Closing, Leaving, Entered
  <2> QED
    BY <1>2, <1>10, <2>1, <2>2 DEF KInv, MasksOK
<1>12. held = {}
  BY <1>1, NothingHeld DEF Holds
<1>13. TypeOK' /\ SearchStaysInTable' /\ KTypeOK'
  BY ZenonT(60), <1>2, <1>3, <1>4, <1>5, <1>6, SchedTypes DEF KInv, KTypeOK
<1>14. SwitchOK' /\ HeldOK' /\ AddedOK'
  BY <1>2, <1>4, <1>5, <1>10, <1>12 DEF SwitchOK, HeldOK, AddedOK, sched
<1> QED
  BY <1>9, <1>11, <1>13, <1>14 DEF KInv

-----------------------------------------------------------------------------
\* Handlers run on the null process's stack only.
LEMMA HandlerStack ==
  ASSUME KInv, Calls # <<>>, Top(Calls).fn = "timer"
  PROVE  running = NULL_PROC
<1>1. running \in Usize /\ Len(Calls) \in Nat /\ Len(Calls) > 0
  BY KTypes
<1> SUFFICES ASSUME running # NULL_PROC PROVE FALSE
  OBVIOUS
<1>2. OtherShape(Calls)
  BY Zenon, <1>1 DEF KInv, StacksOK, Calls
<1>3. ~(Len(Calls) > 1)
  BY Zenon, <1>2 DEF OtherShape, Top
<1>4. \A n \in Nat : n > 0 /\ ~(n > 1) => n = 1
  OBVIOUS
<1>5. Len(Calls) = 1
  BY Zenon, <1>1, <1>3, <1>4
<1> QED
  BY <1>2, <1>5 DEF OtherShape

\* A handler that is on its way out leaves nothing closed.
LEMMA HandlerMoved ==
  ASSUME KInv, Calls # <<>>, Top(Calls).fn = "timer", NEW f \in Frame, Leaving(f),
         frames' = Become(f), running' = running
  PROVE  /\ running = NULL_PROC
         /\ frames' \in [Usize -> Seq(Frame)] /\ StacksOK'
         /\ ~Closed(frames'[NULL_PROC])
         /\ Len(Calls') > 0 /\ Top(Calls') = f
<1>1. /\ frames \in [Usize -> Seq(Frame)] /\ running \in Usize /\ NULL_PROC \in Usize
      /\ Calls \in Seq(Frame) /\ Len(Calls) \in Nat /\ Len(Calls) > 0
  BY KTypes
<1>2. running = NULL_PROC
  BY HandlerStack
<1> DEFINE s == Calls
           t == Append(Front(s), f)
<1>3. /\ t \in Seq(Frame) /\ Len(t) = Len(s)
      /\ \A i \in 1 .. Len(s) - 1 : t[i] = s[i]
      /\ t[Len(s)] = f
  BY Zenon, <1>1, MoveFacts
<1>4. frames' = [frames EXCEPT ![running] = t]
  BY DEF Become, Calls
<1>5. NullShape(s) /\ Top(s).fn = "timer"
  BY Zenon, <1>2 DEF KInv, StacksOK, Calls
<1> HIDE DEF t, s
<1>6. /\ frames' \in [Usize -> Seq(Frame)] /\ frames'[NULL_PROC] = t
      /\ \A p \in Usize \ {NULL_PROC} : frames'[p] = frames[p]
  BY Zenon, <1>1, <1>2, <1>3, <1>4
<1>7. Len(s) \in Nat /\ Len(s) > 0 /\ Top(t) = f
  BY Zenon, <1>1, <1>3 DEF s, Top
<1>8. NullShape(t)
  <2>1. \A i \in 1 .. Len(t) - 2 : Leaving(t[i])
    BY <1>3, <1>5, <1>7 DEF NullShape
  <2>2. Len(t) > 1 => Leaving(t[Len(t) - 1])
    <3> SUFFICES ASSUME Len(s) > 1 PROVE Leaving(t[Len(t) - 1])
      BY Zenon, <1>3
    <3>1. t[Len(t) - 1] = s[Len(s) - 1]
      BY <1>3, <1>7
    <3> QED
      BY Zenon, <1>5, <3>1 DEF NullShape
  <2> QED
    BY Zenon, <1>7, <2>1, <2>2 DEF NullShape
<1>9. ~Closed(t)
  BY <1>7 DEF Closed
<1>10. Len(Calls') > 0 /\ Top(Calls') = f
  BY Zenon, <1>2, <1>3, <1>6, <1>7 DEF Calls
<1>11. StacksOK'
  BY Zenon, <1>2, <1>6, <1>8 DEF KInv, StacksOK
<1> QED
  BY Zenon, <1>2, <1>6, <1>9, <1>10, <1>11

\* An interrupt comes in: the masks are open, so the null process runs, in
\* its body or in a handler on its way out.
LEMMA TimerInterruptKInv == KInv /\ TimerInterrupt => KInv'
<1> SUFFICES ASSUME KInv, TimerInterrupt PROVE KInv'
  OBVIOUS
<1> DEFINE s == Calls
           f == Call("timer", "tick")
           t == Append(s, f)
<1>1. /\ iflag /\ imr = OPEN /\ iflag' = FALSE /\ in_service' = NEEDS_EOI
      /\ frames' = [frames EXCEPT ![running] = t]
      /\ UNCHANGED <<sched, imr, pit_ticks, held, running, ctx>>
  BY DEF TimerInterrupt, Push, Calls
<1>2. f \in Frame /\ Entered(f) /\ f.fn = "timer"
  BY Zenon, FrameFacts DEF Entered
<1>3. running = NULL_PROC
  BY Zenon, <1>1, MasksByShape, KTypes
<1>4. /\ frames \in [Usize -> Seq(Frame)] /\ NULL_PROC \in Usize
      /\ s \in Seq(Frame) /\ Len(s) \in Nat /\ (s = <<>> <=> Len(s) = 0)
      /\ frames[NULL_PROC] = s /\ NullShape(s)
  BY Zenon, <1>3, KTypes DEF KInv, StacksOK, Calls
<1>5. Len(s) > 0 => Leaving(Top(s))
  BY Zenon, <1>1, <1>3, <1>4, KTypes DEF KInv, MasksOK, Closed
<1>6. /\ t \in Seq(Frame) /\ Len(t) = Len(s) + 1
      /\ \A i \in 1 .. Len(s) : t[i] = s[i]
      /\ t[Len(s) + 1] = f
  BY Zenon, <1>2, <1>4, PushFacts
<1> HIDE DEF t, f
<1>7. held = {} /\ running = current_pid
  <2>1. Len(s) > 0 => Top(s).fn = "timer"
    BY <1>5 DEF Leaving
  <2>2. held = {}
    BY Zenon, <1>4, <2>1 DEF KInv, HeldOK, Holds
  <2> QED
    BY Zenon, <2>1, <2>2 DEF KInv, SwitchOK
<1> HIDE DEF s
<1>8. /\ frames' \in [Usize -> Seq(Frame)] /\ frames'[NULL_PROC] = t
      /\ \A p \in Usize \ {NULL_PROC} : frames'[p] = frames[p]
  BY Zenon, <1>1, <1>3, <1>4, <1>6
<1>9. Len(t) > 0 /\ Top(t) = f
  BY <1>4, <1>6 DEF Top
<1>10. NullShape(t)
  <2>1. \A i \in 1 .. Len(s) : Leaving(s[i])
    <3> SUFFICES ASSUME NEW i \in 1 .. Len(s) PROVE Leaving(s[i])
      OBVIOUS
    <3>1. CASE i = Len(s)
      BY <1>4, <1>5, <3>1 DEF Top
    <3>2. CASE i = Len(s) - 1
      BY <1>4, <1>5, <3>2 DEF NullShape, Leaving
    <3>3. CASE i \in 1 .. Len(s) - 2
      BY Zenon, <1>4, <3>3 DEF NullShape
    <3> QED
      BY <1>4, <3>1, <3>2, <3>3
  <2>2. \A i \in 1 .. Len(t) - 1 : Leaving(t[i])
    BY <1>4, <1>6, <2>1
  <2>3. \A i \in 1 .. Len(t) - 2 : Leaving(t[i])
    BY <1>4, <1>6, <2>2
  <2>4. Len(t) > 1 => Leaving(t[Len(t) - 1])
    BY <1>4, <1>6, <2>2
  <2> QED
    BY Zenon, <1>2, <1>9, <2>3, <2>4 DEF NullShape
<1>11. StacksOK'
  BY Zenon, <1>1, <1>3, <1>8, <1>10 DEF KInv, StacksOK
<1>12. Calls' = t
  BY <1>1, <1>3, <1>8 DEF Calls
<1>13. MasksOK'
  BY <1>1, <1>2, <1>8, <1>9, <1>12 DEF MasksOK, Closed
<1>14. TypeOK' /\ SearchStaysInTable' /\ KTypeOK'
  BY Zenon, <1>1, <1>8, SliceAssumption, SchedTypes DEF KInv, KTypeOK
<1>15. SwitchOK' /\ HeldOK' /\ AddedOK'
  BY Zenon, <1>1, <1>2, <1>7, <1>9, <1>12 DEF KInv, SwitchOK, HeldOK, AddedOK, sched
<1> QED
  BY <1>11, <1>13, <1>14, <1>15 DEF KInv

\* A tick within the slice.
LEMMA TimerTickKInv == KInv /\ TimerTick => KInv'
<1> SUFFICES ASSUME KInv, TimerTick PROVE KInv'
  OBVIOUS
<1> DEFINE f == [Top(Calls) EXCEPT !.pc = "iret"]
<1>1. Calls # <<>> /\ Len(Calls) > 0 /\ Holds(Top(Calls), "timer", "tick")
  BY AtTop DEF TimerTick
<1>2. /\ frames' = Become(f) /\ pit_ticks < SLICE /\ pit_ticks' = pit_ticks + 1
      /\ UNCHANGED <<sched, iflag, imr, in_service, held, running, ctx>>
  BY <1>1, KTypes DEF TimerTick, Goto
<1>3. f \in Frame /\ Leaving(f) /\ f.fn = "timer" /\ f.pc = "iret"
  <2>1. Top(Calls) \in Frame
    BY <1>1, KTypes
  <2> QED
    BY <1>1, <2>1 DEF Frame, Holds, Leaving
<1> HIDE DEF f
<1>4. /\ running = NULL_PROC
      /\ frames' \in [Usize -> Seq(Frame)] /\ StacksOK'
      /\ ~Closed(frames'[NULL_PROC])
      /\ Len(Calls') > 0 /\ Top(Calls') = f
  BY <1>1, <1>2, <1>3, HandlerMoved DEF Holds
<1>5. ~Closed(frames[NULL_PROC])
  BY Zenon, <1>1, <1>4 DEF Closed, Entered, Holds, Calls
<1>6. MasksOK'
  <2>1. frames'[NULL_PROC] # <<>>
    BY <1>2, <1>4 DEF Calls
  <2> QED
    BY Zenon, <1>2, <1>3, <1>4, <1>5, <2>1 DEF KInv, MasksOK, Entered
<1>7. held = {}
  BY <1>1, NothingHeld DEF Holds
<1>8. pit_ticks' \in 0 .. SLICE
  BY <1>2, SliceAssumption DEF KInv, KTypeOK
<1>9. TypeOK' /\ SearchStaysInTable' /\ KTypeOK'
  BY Zenon, <1>2, <1>4, <1>8, SchedTypes DEF KInv, KTypeOK
<1>10. SwitchOK' /\ HeldOK' /\ AddedOK'
  BY Zenon, <1>1, <1>2, <1>3, <1>4, <1>7 DEF KInv, SwitchOK, HeldOK, AddedOK, sched, Holds
<1> QED
  BY <1>4, <1>6, <1>9, <1>10 DEF KInv

\* The end of a slice: the section opens with open masks saved.
LEMMA TimerSliceKInv == KInv /\ TimerSlice => KInv'
<1> SUFFICES ASSUME KInv, TimerSlice PROVE KInv'
  OBVIOUS
<1> DEFINE s == Calls
           f == [Top(s) EXCEPT !.pc = "restore", !.saved = imr]
           g == Call("resched", "lock")
           u == Append(Front(s), f)
           t == Append(u, g)
<1>1. Calls # <<>> /\ Len(Calls) > 0 /\ Holds(Top(Calls), "timer", "tick")
  BY AtTop DEF TimerSlice
<1>2. /\ frames' = [frames EXCEPT ![running] = t]
      /\ pit_ticks' = 0 /\ iflag' = FALSE /\ imr' = MASKED
      /\ UNCHANGED <<sched, in_service, held, running, ctx>>
  BY Zenon, <1>1, KTypes DEF TimerSlice, DisableInterrupts, BecomeAndCall, Calls
<1>3. Top(Calls) \in Frame /\ imr \in {OPEN, MASKED}
  BY <1>1, KTypes
<1>4. running = NULL_PROC
  BY <1>1, <1>3, HandlerStack DEF Holds
<1>5. /\ frames \in [Usize -> Seq(Frame)] /\ NULL_PROC \in Usize
      /\ s \in Seq(Frame) /\ s # <<>> /\ Len(s) \in Nat /\ Len(s) > 0
      /\ frames[NULL_PROC] = s /\ NullShape(s) /\ Holds(Top(s), "timer", "tick")
  BY Zenon, <1>1, <1>4, KTypes DEF KInv, StacksOK, Calls
<1>6. imr = OPEN
  BY <1>5 DEF KInv, MasksOK, Closed, Holds, Entered
<1>7. /\ f \in Frame /\ Closing(f) /\ g \in Frame /\ g.fn = "resched" /\ g.pc = "lock"
  <2>1. f \in Frame /\ Closing(f)
    BY Zenon, <1>1, <1>3, <1>6 DEF Frame, Holds, Closing
  <2> QED
    BY <2>1, FrameFacts
<1>8. held = {} /\ running = current_pid
  BY Zenon, <1>1, NothingHeld DEF KInv, SwitchOK, Holds
<1> HIDE DEF f, g, s
<1>9. /\ u \in Seq(Frame) /\ Len(u) = Len(s)
      /\ \A i \in 1 .. Len(s) - 1 : u[i] = s[i]
      /\ u[Len(s)] = f
  BY Zenon, <1>5, <1>7, MoveFacts
<1> HIDE DEF u
<1>10. /\ t \in Seq(Frame) /\ Len(t) = Len(s) + 1
       /\ \A i \in 1 .. Len(s) : t[i] = u[i]
       /\ t[Len(s) + 1] = g
  BY <1>7, <1>9, PushFacts
<1> HIDE DEF t
<1>11. /\ frames' \in [Usize -> Seq(Frame)] /\ frames'[NULL_PROC] = t
       /\ \A p \in Usize \ {NULL_PROC} : frames'[p] = frames[p]
  BY Zenon, <1>2, <1>4, <1>5, <1>10
<1>12. Len(t) > 1 /\ Len(t) > 0 /\ Top(t) = g /\ t[Len(t) - 1] = f
  <2>1. Len(t) > 1 /\ Len(t) > 0 /\ Top(t) = g
    BY <1>5, <1>10 DEF Top
  <2>2. Len(t) - 1 = Len(s) /\ Len(s) \in 1 .. Len(s)
    BY <1>5, <1>10
  <2> QED
    BY <1>9, <1>10, <2>1, <2>2
<1>13. NullShape(t)
  <2>1. \A i \in 1 .. Len(s) - 1 : Leaving(s[i])
    <3> SUFFICES ASSUME NEW i \in 1 .. Len(s) - 1 PROVE Leaving(s[i])
      OBVIOUS
    <3>1. CASE i = Len(s) - 1
      BY <1>5, <3>1 DEF NullShape, Holds
    <3>2. CASE i \in 1 .. Len(s) - 2
      BY Zenon, <1>5, <3>2 DEF NullShape
    <3> QED
      BY <1>5, <3>1, <3>2
  <2>2. \A i \in 1 .. Len(t) - 2 : Leaving(t[i])
    BY <1>5, <1>9, <1>10, <2>1
  <2> QED
    BY Zenon, <1>7, <1>12, <2>2 DEF NullShape
<1>14. Closed(t)
  BY Zenon, <1>7, <1>12 DEF Closed, Leaving, Entered
<1>15. StacksOK' /\ Calls' = t
  BY Zenon, <1>2, <1>4, <1>11, <1>13 DEF KInv, StacksOK, Calls
<1>16. MasksOK'
  <2>1. t # <<>> /\ ~Entered(Top(t))
    BY <1>7, <1>12 DEF Entered
  <2> QED
    BY Zenon, <1>2, <1>11, <1>14, <1>15, <2>1 DEF MasksOK
<1>17. TypeOK' /\ SearchStaysInTable' /\ KTypeOK'
  <2>1. 0 \in 0 .. SLICE
    BY SliceAssumption
  <2> QED
    BY Zenon, <1>2, <1>11, <2>1, SchedTypes DEF KInv, KTypeOK
<1>18. SwitchOK' /\ HeldOK' /\ AddedOK'
  BY Zenon, <1>2, <1>7, <1>8, <1>12, <1>15 DEF KInv, SwitchOK, HeldOK, AddedOK, sched
<1> QED
  BY <1>15, <1>16, <1>17, <1>18 DEF KInv

\* The section of a handler closes: it saved open masks.
LEMMA TimerRestoreKInv == KInv /\ TimerRestore => KInv'
<1> SUFFICES ASSUME KInv, TimerRestore PROVE KInv'
  OBVIOUS
<1> DEFINE f == [Top(Calls) EXCEPT !.pc = "iret"]
<1>1. Calls # <<>> /\ Len(Calls) > 0 /\ Holds(Top(Calls), "timer", "restore")
  BY AtTop DEF TimerRestore
<1>2. /\ frames' = Become(f) /\ imr' = Top(Calls).saved /\ iflag' = TRUE
      /\ UNCHANGED <<sched, in_service, pit_ticks, held, running, ctx>>
  BY <1>1, KTypes DEF TimerRestore, RestoreInterrupts, Goto
<1>3. f \in Frame /\ Leaving(f) /\ f.fn = "timer" /\ f.pc = "iret"
  <2>1. Top(Calls) \in Frame
    BY <1>1, KTypes
  <2> QED
    BY <1>1, <2>1 DEF Frame, Holds, Leaving
<1> HIDE DEF f
<1>4. /\ running = NULL_PROC
      /\ frames' \in [Usize -> Seq(Frame)] /\ StacksOK'
      /\ ~Closed(frames'[NULL_PROC])
      /\ Len(Calls') > 0 /\ Top(Calls') = f
  BY Zenon, <1>1, <1>2, <1>3, HandlerMoved DEF Holds
<1>5. imr' = OPEN
  <2>1. NullShape(Calls)
    BY Zenon, <1>4 DEF KInv, StacksOK, Calls
  <2>2. Closing(Top(Calls))
    BY Zenon, <1>1, <2>1 DEF NullShape, Leaving, Entered, Holds
  <2> QED
    BY <1>2, <2>2 DEF Closing
<1>6. MasksOK'
  BY Zenon, <1>2, <1>3, <1>4, <1>5 DEF MasksOK, Entered
<1>7. held = {}
  BY <1>1, NothingHeld DEF Holds
<1>8. TypeOK' /\ SearchStaysInTable' /\ KTypeOK'
  BY Zenon, <1>2, <1>4, <1>5, SchedTypes DEF KInv, KTypeOK
<1>9. SwitchOK' /\ HeldOK' /\ AddedOK'
  BY Zenon, <1>1, <1>2, <1>3, <1>4, <1>7 DEF KInv, SwitchOK, HeldOK, AddedOK, sched, Holds
<1> QED
  BY <1>4, <1>6, <1>8, <1>9 DEF KInv

\* A handler returns, to the null process's body or to a handler below it
\* that is on its way out too.
LEMMA TimerReturnKInv == KInv /\ TimerReturn => KInv'
<1> SUFFICES ASSUME KInv, TimerReturn PROVE KInv'
  OBVIOUS
<1>1. Calls # <<>> /\ Len(Calls) > 0 /\ Holds(Top(Calls), "timer", "iret")
  BY AtTop DEF TimerReturn
<1>2. /\ frames' = Pop /\ iflag' = TRUE
      /\ UNCHANGED <<sched, imr, in_service, pit_ticks, held, running, ctx>>
  BY DEF TimerReturn
<1>3. /\ frames' \in [Usize -> Seq(Frame)] /\ StacksOK'
      /\ Calls' = Front(Calls)
      /\ Len(Calls') > 0 => Top(Calls').fn \in {"timer", "kill"} /\ ~Entered(Top(Calls'))
  BY <1>1, <1>2, Popped
<1>4. running = NULL_PROC
  BY <1>1, HandlerStack DEF Holds
<1>5. imr = OPEN
  BY Zenon, <1>1, <1>4 DEF KInv, MasksOK, Closed, Leaving, Holds, Calls
<1>6. ~Closed(Front(Calls))
  BY Zenon, <1>1, <1>4, KTypes, FrontShapes DEF KInv, StacksOK, Holds, Calls
<1>7. frames'[NULL_PROC] = Front(Calls)
  BY <1>2, <1>3, <1>4 DEF Calls
<1>8. MasksOK'
  BY <1>2, <1>3, <1>5, <1>6, <1>7 DEF MasksOK
<1>9. held = {}
  BY <1>1, NothingHeld DEF Holds
<1>10. TypeOK' /\ SearchStaysInTable' /\ KTypeOK'
  BY Zenon, <1>2, <1>3, SchedTypes DEF KInv, KTypeOK
<1>11. SwitchOK' /\ HeldOK' /\ AddedOK'
  BY Zenon, <1>1, <1>2, <1>3, <1>9 DEF KInv, SwitchOK, HeldOK, AddedOK, sched, Holds
<1> QED
  BY <1>3, <1>8, <1>10, <1>11 DEF KInv

-----------------------------------------------------------------------------
\* Every step keeps the invariant.
LEMMA StepKInv == KInv /\ [KNext]_kvars => KInv'
<1> SUFFICES ASSUME KInv, [KNext]_kvars PROVE KInv'
  OBVIOUS
<1>1. CASE UNCHANGED kvars
  <2>1. UNCHANGED <<sched, iflag, imr, in_service, pit_ticks, held, running, frames, ctx>>
    BY <1>1 DEF kvars, sched
  <2>2. TypeOK' /\ SearchStaysInTable'
    BY <2>1, SchedTypes DEF KInv
  <2>3. KTypeOK' /\ StacksOK' /\ Calls' = Calls
    BY Zenon, <2>1 DEF KInv, KTypeOK, StacksOK, Calls
  <2>4. MasksOK'
    BY Zenon, <2>1, <2>3 DEF KInv, MasksOK
  <2>5. SwitchOK' /\ HeldOK' /\ AddedOK'
    BY Zenon, <2>1, <2>3 DEF KInv, SwitchOK, HeldOK, AddedOK, sched
  <2> QED
    BY <2>2, <2>3, <2>4, <2>5 DEF KInv
<1>2. CASE Body
  BY <1>2, BodyUseHeapKInv, BodyCallKInv, BodyCreateKInv DEF Body
<1>3. CASE KernelStep
  <2>1. CASE PrintLock \/ PrintDone
    BY <2>1, PrintLockKInv, PrintDoneKInv
  <2>2. CASE CreateAlloc \/ CreateAdd \/ CreateFill \/ CreateReady \/ CreateUnlock \/ CreateRestore
    BY <2>2, CreateAllocKInv, CreateAddKInv, CreateFillKInv, CreateReadyKInv,
       CreateUnlockKInv, CreateRestoreKInv
  <2>3. CASE KillMark \/ KillDrop
    BY <2>3, KillMarkKInv, KillDropKInv
  <2>4. CASE ReschedNothing \/ ReschedPick \/ ReschedUnlock \/ SwitchFlags \/ SwitchStack
    BY <2>4, ReschedNothingKInv, ReschedPickKInv, ReschedUnlockKInv, SwitchFlagsKInv,
       SwitchStackKInv
  <2>5. CASE TimerTick \/ TimerSlice \/ TimerRestore \/ TimerReturn
    BY <2>5, TimerTickKInv, TimerSliceKInv, TimerRestoreKInv, TimerReturnKInv
  <2> QED
    BY <1>3, <2>1, <2>2, <2>3, <2>4, <2>5 DEF KernelStep
<1>4. CASE PanicLoop
  BY <1>1, <1>4 DEF PanicLoop
<1>5. CASE TimerInterrupt
  BY <1>5, TimerInterruptKInv
<1> QED
  BY <1>1, <1>2, <1>3, <1>4, <1>5 DEF KNext
=============================================================================
