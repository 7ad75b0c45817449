--------------------------- MODULE FrameAllocator ----------------------------
(***************************************************************************)
(* AreaFrameAllocator, src/arch/x86_64/memory/area_frame_allocator.rs.     *)
(* allocate_frame calls itself until it finds a frame or runs out of       *)
(* areas: a call is the action Allocate and one action per round.  Memory  *)
(* areas, the kernel and the multiboot structure are given in bytes, as    *)
(* the boot loader reports them; frames are their PAGE_SIZE-th parts.      *)
(***************************************************************************)
EXTENDS Integers, Sequences, FiniteSetsExt

CONSTANTS
  PAGE_SIZE,
  Layouts,    \* memory layouts the kernel may be booted with
  Requests    \* frame counts callers ask for

\* A layout: memory areas (start and size), the first address of the kernel
\* and of the multiboot structure, and the end that memory::init passes for
\* each, start plus size: the first address behind it.
ASSUME LayoutAssumption ==
  /\ PAGE_SIZE \in Nat \ {0}
  /\ Requests \subseteq {0, 1}   \* every caller in the kernel asks for one
  /\ \A l \in Layouts :
       /\ \A a \in l.areas : a.start \in Nat /\ a.size \in Nat \ {0}
       /\ l.kernel_start \in Nat /\ l.kernel_end \in Nat
       /\ l.kernel_start < l.kernel_end
       /\ l.multiboot_start \in Nat /\ l.multiboot_end \in Nat
       /\ l.multiboot_start < l.multiboot_end

VARIABLES
  layout,            \* areas and the four bounds; fixed by new()
  next_free_frame,
  current_area,      \* an area of the layout, or NoArea
  request,           \* count of the call in progress; 0 when there is none
  answer,            \* what the last call returned: a frame or None
  handed,            \* history: the frame ranges returned, in order
  wasted             \* history: the frame that new() allocates and discards

faVars == <<layout, next_free_frame, current_area, request, answer, handed, wasted>>

NoArea == [start |-> 0, size |-> 0]
None == -1

\* new() itself has not returned: its allocate_frame(1) is in progress.
Booting == -2

-----------------------------------------------------------------------------
\* Frame::containing_address
FrameOf(address) == address \div PAGE_SIZE

FirstFrame(a) == FrameOf(a.start)
LastFrame(a) == FrameOf(a.start + a.size - 1)

KernelStart == FrameOf(layout.kernel_start)
KernelEnd == FrameOf(layout.kernel_end)
MultibootStart == FrameOf(layout.multiboot_start)
MultibootEnd == FrameOf(layout.multiboot_end)

\* Mutants: an area is left when its last frame is next, or never left.
CandidatesStrict(areas, n) == {a \in areas : LastFrame(a) > n}
CandidatesAll(areas, n) == areas

\* The areas choose_next_area can settle on when n is the next free frame:
\* of those that do not end below n, one with the lowest start.
Candidates(areas, n) == {a \in areas : LastFrame(a) >= n}
Lowest(areas, n) ==
  LET cs == Candidates(areas, n)
  IN {a \in cs : \A b \in cs : a.start <= b.start}

Raised(n, a) == IF n < FirstFrame(a) THEN FirstFrame(a) ELSE n

\* choose_next_area: the area and the next free frame it leaves.
ChooseNextArea(areas, n) ==
  IF Candidates(areas, n) = {}
  THEN {[area |-> NoArea, next |-> n]}
  ELSE {[area |-> a, next |-> Raised(n, a)] : a \in Lowest(areas, n)}

\* new(): the first area is chosen and allocate_frame(1) begins.
FAInit ==
  /\ layout \in Layouts
  /\ \E c \in ChooseNextArea(layout.areas, 0) :
       current_area = c.area /\ next_free_frame = c.next
  /\ request = 1
  /\ answer = None
  /\ handed = <<>>
  /\ wasted = Booting

-----------------------------------------------------------------------------
\* allocate_frames: a caller asks for count frames.
Allocate(count) ==
  /\ request = 0
  /\ request' = count
  /\ answer' = None
  /\ UNCHANGED <<layout, next_free_frame, current_area, handed, wasted>>

\* One round of allocate_frame looks at the frames Start .. End.
Start == next_free_frame
End == next_free_frame + (request - 1)

Pending == request > 0 /\ current_area # NoArea

BeyondArea == End > LastFrame(current_area)

\* Mutant: the frame of kernel_end is not skipped.
InKernelExclusive == Start >= KernelStart /\ Start < KernelEnd

InKernel ==
  \/ Start >= KernelStart /\ Start <= KernelEnd
  \/ End >= KernelStart /\ Start <= KernelEnd

InMultiboot ==
  \/ Start >= MultibootStart /\ Start <= MultibootEnd
  \/ End >= MultibootStart /\ End <= MultibootEnd

\* Mutant: None is recorded like a frame.
AnswerUnchecked(f) ==
  /\ request' = 0
  /\ answer' = f
  /\ handed' = Append(handed, [start |-> f, count |-> request])
  /\ wasted' = IF wasted = Booting THEN f ELSE wasted

\* The call returns; new() drops its frame, other callers get theirs.
Answer(f) ==
  /\ request' = 0
  /\ IF wasted = Booting
     THEN wasted' = f /\ UNCHANGED <<answer, handed>>
     ELSE /\ answer' = f
          /\ handed' = IF f = None THEN handed
                       ELSE Append(handed, [start |-> f, count |-> request])
          /\ UNCHANGED wasted

OutOfMemory ==
  /\ request > 0
  /\ current_area = NoArea
  /\ Answer(None)
  /\ UNCHANGED <<layout, next_free_frame, current_area>>

NextArea ==
  /\ Pending
  /\ BeyondArea
  /\ \E c \in ChooseNextArea(layout.areas, next_free_frame) :
       current_area' = c.area /\ next_free_frame' = c.next
  /\ UNCHANGED <<layout, request, answer, handed, wasted>>

\* Mutant: one frame too many is skipped.
SkipKernelTooFar ==
  /\ Pending
  /\ ~BeyondArea /\ InKernel
  /\ next_free_frame' = KernelEnd + 2
  /\ UNCHANGED <<layout, current_area, request, answer, handed, wasted>>

SkipKernel ==
  /\ Pending
  /\ ~BeyondArea /\ InKernel
  /\ next_free_frame' = KernelEnd + 1
  /\ UNCHANGED <<layout, current_area, request, answer, handed, wasted>>

SkipMultiboot ==
  /\ Pending
  /\ ~BeyondArea /\ ~InKernel /\ InMultiboot
  /\ next_free_frame' = MultibootEnd + 1
  /\ UNCHANGED <<layout, current_area, request, answer, handed, wasted>>

\* Mutant: next_free_frame is not advanced.
TakeNoAdvance ==
  /\ Pending
  /\ ~BeyondArea /\ ~InKernel /\ ~InMultiboot
  /\ Answer(Start)
  /\ UNCHANGED <<layout, current_area, next_free_frame>>

Take ==
  /\ Pending
  /\ ~BeyondArea /\ ~InKernel /\ ~InMultiboot
  /\ next_free_frame' = next_free_frame + 1
  /\ Answer(Start)
  /\ UNCHANGED <<layout, current_area>>

Round == OutOfMemory \/ NextArea \/ SkipKernel \/ SkipMultiboot \/ Take

FANext == Round \/ \E count \in Requests : Allocate(count)

\* A call that has begun keeps running.
FASpec == FAInit /\ [][FANext]_faVars /\ WF_faVars(Round)

\* free_frames
FreeFrames ==
  MapThenSumSet(LAMBDA a : Cardinality({f \in FirstFrame(a) .. LastFrame(a) :
                                          /\ ~(f >= KernelStart /\ f <= KernelEnd)
                                          /\ f >= next_free_frame}),
                layout.areas)

-----------------------------------------------------------------------------
\* The frames that hold the bytes from start up to, and without, end.
FramesBetween(start, end) == FrameOf(start) .. FrameOf(end - 1)

InUse(f) ==
  \/ f \in FramesBetween(layout.kernel_start, layout.kernel_end)
  \/ f \in FramesBetween(layout.multiboot_start, layout.multiboot_end)

\* new() takes both ends for inclusive bounds, so a frame that begins at one of
\* them is skipped although nobody uses it.
SkippedInVain(f) == ~InUse(f) /\ f \in {KernelEnd, MultibootEnd}

InArea(f) == \E a \in layout.areas : f \in FirstFrame(a) .. LastFrame(a)

Usable(f) == InArea(f) /\ ~InUse(f)

FramesOf(r) == r.start .. r.start + r.count - 1

Handed(f) == \E i \in 1 .. Len(handed) : f \in FramesOf(handed[i])

FATypeOK ==
  /\ layout \in Layouts
  /\ next_free_frame \in Nat
  /\ current_area \in layout.areas \cup {NoArea}
  /\ request \in Requests \cup {0, 1}
  /\ answer \in Nat \cup {None}
  /\ handed \in Seq([start : Nat, count : Nat])
  /\ wasted \in Nat \cup {None, Booting}

\* Only frames of a memory area that neither the kernel nor the multiboot
\* structure occupies are handed out.
HandsOutUsable == \A i \in 1 .. Len(handed) : \A f \in FramesOf(handed[i]) : Usable(f)

\* No frame is handed out twice, and none after new() discarded it.
NeverTwice ==
  /\ \A i, j \in 1 .. Len(handed) :
       i < j => FramesOf(handed[i]) \cap FramesOf(handed[j]) = {}
  /\ ~Handed(wasted)

\* Skipping the kernel, the multiboot structure or the rest of an area loses
\* at most two frames, the one that begins where the kernel ends and the one
\* that begins where the multiboot structure ends: every other frame below
\* next_free_frame was handed out, or is in use, or is the one new() discards.
NoFrameLost ==
  \A a \in layout.areas : \A f \in FirstFrame(a) .. LastFrame(a) :
    f < next_free_frame => Handed(f) \/ InUse(f) \/ f = wasted \/ SkippedInVain(f)

\* allocate_frame returns None only when every frame of every area is handed
\* out or in use, but for the one new() discards and the two that are skipped
\* in vain; and free_frames is then 0.
NoneMeansExhausted ==
  [][OutOfMemory =>
       /\ FreeFrames = 0
       /\ \A a \in layout.areas : \A f \in FirstFrame(a) .. LastFrame(a) :
            Handed(f) \/ InUse(f) \/ f = wasted \/ SkippedInVain(f)]_faVars

\* Every call returns.
CallsReturn == request > 0 ~> request = 0

=============================================================================
