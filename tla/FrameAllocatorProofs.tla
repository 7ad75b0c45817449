------------------------ MODULE FrameAllocatorProofs -------------------------
(***************************************************************************)
(* The frame allocator hands out usable frames only, each once, and passes *)
(* over none but the two that it skips in vain, whatever the memory areas, *)
(* the kernel and the multiboot structure look like (LayoutAssumption).    *)
(***************************************************************************)
EXTENDS FrameAllocator, SequenceTheorems, TLAPS

\* The frames handed out are single ones, in ascending order below
\* next_free_frame and above the one that new() wasted.
Ascending ==
  /\ \A i \in 1 .. Len(handed) :
       /\ handed[i].count = 1
       /\ handed[i].start < next_free_frame
       /\ wasted < handed[i].start
  /\ \A i, j \in 1 .. Len(handed) : i < j => handed[i].start < handed[j].start

\* The call that new() makes is the first one; the current area begins at or
\* below next_free_frame, and without one every area ends below it.
Progress ==
  /\ wasted = Booting => request = 1 /\ handed = <<>>
  /\ wasted < next_free_frame
  /\ current_area # NoArea => FirstFrame(current_area) <= next_free_frame
  /\ current_area = NoArea => \A a \in layout.areas : LastFrame(a) < next_free_frame

\* The inductive invariant.
FAInv == FATypeOK /\ Ascending /\ Progress /\ HandsOutUsable /\ NoFrameLost

-----------------------------------------------------------------------------
\* Frame::containing_address gives a frame number and keeps the order.
LEMMA FrameOfOrder ==
  ASSUME NEW x \in Nat, NEW y \in Nat
  PROVE  /\ FrameOf(x) \in Nat
         /\ x <= y => FrameOf(x) <= FrameOf(y)
<1>1. PAGE_SIZE \in Nat /\ PAGE_SIZE > 0
  BY LayoutAssumption
<1>2. x \div PAGE_SIZE \in Nat /\ y \div PAGE_SIZE \in Nat
  BY <1>1
<1>3. x <= y => x \div PAGE_SIZE <= y \div PAGE_SIZE
  BY <1>1
<1> QED
  BY <1>2, <1>3 DEF FrameOf

\* The frame of the last byte before an end is the frame of the end itself or,
\* when the end lies at a frame boundary, the one before it.
LEMMA FrameBeforeEnd ==
  ASSUME NEW x \in Nat, x > 0
  PROVE  /\ FrameOf(x - 1) \in Nat
         /\ FrameOf(x - 1) <= FrameOf(x)
         /\ FrameOf(x) <= FrameOf(x - 1) + 1
<1>1. PAGE_SIZE \in Nat /\ PAGE_SIZE > 0
  BY LayoutAssumption
<1>2. x - 1 \in Nat /\ x - 1 <= x /\ x - 1 + PAGE_SIZE \in Nat /\ x <= x - 1 + PAGE_SIZE
  BY <1>1
<1>3. FrameOf(x - 1) \in Nat /\ FrameOf(x - 1) <= FrameOf(x)
      /\ FrameOf(x) <= FrameOf(x - 1 + PAGE_SIZE)
  BY <1>2, FrameOfOrder
<1>4. (x - 1 + PAGE_SIZE) \div PAGE_SIZE = ((x - 1) \div PAGE_SIZE) + 1
  BY <1>1, <1>2
<1> QED
  BY <1>3, <1>4 DEF FrameOf

\* What is in use reaches from the first frame the allocator skips to the last
\* one, or to the one before it.
LEMMA InUseFrames ==
  ASSUME layout \in Layouts, NEW f \in Int
  PROVE  /\ InUse(f) => \/ KernelStart <= f /\ f <= KernelEnd
                        \/ MultibootStart <= f /\ f <= MultibootEnd
         /\ KernelStart <= f /\ f < KernelEnd => InUse(f)
         /\ MultibootStart <= f /\ f < MultibootEnd => InUse(f)
<1> DEFINE ke == layout.kernel_end
           me == layout.multiboot_end
<1>1. /\ layout.kernel_start \in Nat /\ ke \in Nat /\ ke > 0
      /\ layout.multiboot_start \in Nat /\ me \in Nat /\ me > 0
  BY LayoutAssumption
<1>2. /\ FrameOf(ke - 1) \in Nat /\ FrameOf(ke - 1) <= FrameOf(ke) /\ FrameOf(ke) <= FrameOf(ke - 1) + 1
      /\ FrameOf(me - 1) \in Nat /\ FrameOf(me - 1) <= FrameOf(me) /\ FrameOf(me) <= FrameOf(me - 1) + 1
  BY <1>1, FrameBeforeEnd
<1>3. /\ FrameOf(layout.kernel_start) \in Nat /\ FrameOf(ke) \in Nat
      /\ FrameOf(layout.multiboot_start) \in Nat /\ FrameOf(me) \in Nat
  BY <1>1, FrameOfOrder
<1> QED
  BY <1>2, <1>3 DEF InUse, FramesBetween, KernelStart, KernelEnd, MultibootStart, MultibootEnd

\* What the layout gives: areas with a first and a last frame, and frame
\* numbers for the kernel and the multiboot structure.
LEMMA LayoutFacts ==
  ASSUME layout \in Layouts
  PROVE  /\ \A a \in layout.areas :
              /\ a.start \in Nat /\ a # NoArea
              /\ FirstFrame(a) \in Nat /\ LastFrame(a) \in Nat
         /\ \A a, b \in layout.areas : a.start <= b.start => FirstFrame(a) <= FirstFrame(b)
         /\ KernelStart \in Nat /\ KernelEnd \in Nat
         /\ MultibootStart \in Nat /\ MultibootEnd \in Nat
<1>1. ASSUME NEW a \in layout.areas
      PROVE  /\ a.start \in Nat /\ a # NoArea
             /\ FirstFrame(a) \in Nat /\ LastFrame(a) \in Nat
  <2>1. a.start \in Nat /\ a.size \in Nat /\ a.size # 0
    BY LayoutAssumption
  <2>2. a.start + a.size - 1 \in Nat
    BY <2>1
  <2> QED
    BY <2>1, <2>2, FrameOfOrder DEF FirstFrame, LastFrame, NoArea
<1>2. ASSUME NEW a \in layout.areas, NEW b \in layout.areas, a.start <= b.start
      PROVE  FirstFrame(a) <= FirstFrame(b)
  BY <1>1, <1>2, FrameOfOrder DEF FirstFrame
<1>3. /\ layout.kernel_start \in Nat /\ layout.kernel_end \in Nat
      /\ layout.multiboot_start \in Nat /\ layout.multiboot_end \in Nat
  BY LayoutAssumption
<1>4. /\ KernelStart \in Nat /\ KernelEnd \in Nat
      /\ MultibootStart \in Nat /\ MultibootEnd \in Nat
  BY <1>3, FrameOfOrder DEF KernelStart, KernelEnd, MultibootStart, MultibootEnd
<1> QED
  BY <1>1, <1>2, <1>4

\* choose_next_area gives an area that begins at or below the next free
\* frame it leaves, and passes over no frame of any area.
LEMMA ChosenArea ==
  ASSUME layout \in Layouts, NEW n \in Nat,
         NEW c \in ChooseNextArea(layout.areas, n)
  PROVE  /\ c.area \in layout.areas \cup {NoArea}
         /\ c.next \in Nat /\ c.next >= n
         /\ c.area # NoArea => FirstFrame(c.area) <= c.next
         /\ c.area = NoArea => \A b \in layout.areas : LastFrame(b) < c.next
         /\ \A b \in layout.areas : \A f \in FirstFrame(b) .. LastFrame(b) :
              f < c.next => f < n
<1>1. CASE Candidates(layout.areas, n) = {}
  <2>1. c = [area |-> NoArea, next |-> n]
    BY <1>1 DEF ChooseNextArea
  <2>2. \A b \in layout.areas : LastFrame(b) < n
    BY <1>1, LayoutFacts DEF Candidates
  <2> QED
    BY <2>1, <2>2
<1>2. CASE Candidates(layout.areas, n) # {}
  <2>1. PICK a \in Lowest(layout.areas, n) : c = [area |-> a, next |-> Raised(n, a)]
    BY <1>2 DEF ChooseNextArea
  <2>2. /\ a \in layout.areas
        /\ \A b \in layout.areas : LastFrame(b) >= n => a.start <= b.start
    BY DEF Lowest, Candidates
  <2>3. FirstFrame(a) \in Nat
    BY <2>2, LayoutFacts
  <2>4. /\ c.area = a
        /\ c.next = IF n < FirstFrame(a) THEN FirstFrame(a) ELSE n
    BY <2>1 DEF Raised
  <2>5. ASSUME NEW b \in layout.areas, NEW f \in FirstFrame(b) .. LastFrame(b), f < c.next
        PROVE  f < n
    <3>1. FirstFrame(b) \in Nat /\ LastFrame(b) \in Nat
      BY LayoutFacts
    <3>2. LastFrame(b) >= n => FirstFrame(a) <= FirstFrame(b)
      BY <2>2, LayoutFacts
    <3> QED
      BY <2>3, <2>4, <2>5, <3>1, <3>2
  <2>6. a # NoArea
    BY <2>2, LayoutFacts
  <2> QED
    BY <2>2, <2>3, <2>4, <2>5, <2>6
<1> QED
  BY <1>1, <1>2

-----------------------------------------------------------------------------
\* new() establishes the invariant.
LEMMA InitFAInv == FAInit => FAInv
<1> SUFFICES ASSUME FAInit PROVE FAInv
  OBVIOUS
<1>1. layout \in Layouts /\ request = 1 /\ answer = None /\ handed = <<>> /\ wasted = Booting
  BY DEF FAInit
<1>2. PICK c \in ChooseNextArea(layout.areas, 0) : current_area = c.area /\ next_free_frame = c.next
  BY DEF FAInit
<1>3. /\ c.area \in layout.areas \cup {NoArea}
      /\ c.next \in Nat
      /\ c.area # NoArea => FirstFrame(c.area) <= c.next
      /\ c.area = NoArea => \A b \in layout.areas : LastFrame(b) < c.next
      /\ \A b \in layout.areas : \A f \in FirstFrame(b) .. LastFrame(b) :
           f < c.next => f < 0
  BY <1>1, ChosenArea
<1>4. FATypeOK
  BY <1>1, <1>2, <1>3 DEF FATypeOK, None, Booting
<1>5. Ascending /\ HandsOutUsable
  BY <1>1 DEF Ascending, HandsOutUsable
<1>6. Progress
  BY <1>1, <1>2, <1>3 DEF Progress, Booting
<1>7. NoFrameLost
  <2> SUFFICES ASSUME NEW a \in layout.areas, NEW f \in FirstFrame(a) .. LastFrame(a),
                      f < next_free_frame
               PROVE  FALSE
    BY DEF NoFrameLost
  <2> QED
    BY <1>1, <1>2, <1>3, LayoutFacts
<1> QED
  BY <1>4, <1>5, <1>6, <1>7 DEF FAInv

\* The entries of the history are frame numbers with a count.
LEMMA HandedEntries ==
  ASSUME handed \in Seq([start : Nat, count : Nat])
  PROVE  /\ Len(handed) \in Nat
         /\ \A i \in 1 .. Len(handed) : handed[i].start \in Nat
<1>1. \A i \in 1 .. Len(handed) : handed[i] \in [start : Nat, count : Nat]
  BY Zenon, ElementOfSeq
<1>2. ASSUME NEW x \in [start : Nat, count : Nat] PROVE x.start \in Nat
  OBVIOUS
<1> QED
  BY <1>1, <1>2

\* A round that only moves on, to another frame or another area, keeps the
\* invariant if the frames it passes over are in use or skipped in vain.
LEMMA MovesOn ==
  ASSUME FAInv, UNCHANGED <<layout, request, answer, handed, wasted>>,
         current_area' \in layout.areas \cup {NoArea},
         next_free_frame' \in Nat, next_free_frame' >= next_free_frame,
         current_area' # NoArea => FirstFrame(current_area') <= next_free_frame',
         current_area' = NoArea => \A a \in layout.areas : LastFrame(a) < next_free_frame',
         \A a \in layout.areas : \A f \in FirstFrame(a) .. LastFrame(a) :
           f < next_free_frame' /\ ~InUse(f) /\ ~SkippedInVain(f) => f < next_free_frame
  PROVE  FAInv'
<1>1. FATypeOK'
  BY DEF FAInv, FATypeOK
<1>2. next_free_frame \in Nat /\ handed \in Seq([start : Nat, count : Nat])
      /\ wasted \in Nat \cup {None, Booting}
  BY DEF FAInv, FATypeOK
<1>3. Ascending'
  <2>1. \A i \in 1 .. Len(handed) : handed[i].start \in Nat
    BY <1>2, HandedEntries
  <2>2. Ascending /\ handed' = handed /\ wasted' = wasted
    BY DEF FAInv
  <2>3. ASSUME NEW i \in 1 .. Len(handed) PROVE handed[i].start < next_free_frame'
    <3>1. handed[i].start < next_free_frame
      BY <2>2 DEF Ascending
    <3>2. handed[i].start \in Nat
      BY <2>1
    <3> QED
      BY <1>2, <3>1, <3>2
  <2> QED
    BY <2>2, <2>3 DEF Ascending
<1>4. Progress'
  BY <1>2 DEF FAInv, Progress, None, Booting
<1>5. HandsOutUsable'
  BY Zenon DEF FAInv, HandsOutUsable, Usable, InArea, InUse
<1>6. NoFrameLost'
  BY DEF FAInv, NoFrameLost, Handed, InUse, SkippedInVain, KernelEnd, MultibootEnd
<1> QED
  BY <1>1, <1>3, <1>4, <1>5, <1>6 DEF FAInv

\* Between two areas there is no frame of a third that was not looked at.
LEMMA NextAreaFAInv == FAInv /\ NextArea => FAInv'
<1> SUFFICES ASSUME FAInv, NextArea PROVE FAInv'
  OBVIOUS
<1>1. layout \in Layouts /\ next_free_frame \in Nat
  BY DEF FAInv, FATypeOK
<1>2. PICK c \in ChooseNextArea(layout.areas, next_free_frame) :
        current_area' = c.area /\ next_free_frame' = c.next
  BY DEF NextArea
<1> QED
  BY <1>1, <1>2, ChosenArea, MovesOn DEF NextArea

\* In a round of a single-frame request, what the kernel occupies reaches
\* from the frame in question to the one that is skipped to.
LEMMA SkipKernelFAInv == FAInv /\ SkipKernel => FAInv'
<1> SUFFICES ASSUME FAInv, SkipKernel PROVE FAInv'
  OBVIOUS
<1>1. /\ layout \in Layouts /\ next_free_frame \in Nat /\ request = 1
      /\ current_area \in layout.areas \cup {NoArea}
      /\ current_area # NoArea => FirstFrame(current_area) <= next_free_frame
      /\ current_area # NoArea
  BY LayoutAssumption DEF FAInv, FATypeOK, Progress, SkipKernel, Pending
<1>2. KernelStart \in Nat /\ KernelEnd \in Nat
  BY <1>1, LayoutFacts
<1>3. next_free_frame >= KernelStart /\ next_free_frame <= KernelEnd
  BY <1>1, <1>2 DEF SkipKernel, InKernel, Start, End
<1>4. next_free_frame' = KernelEnd + 1 /\ UNCHANGED <<layout, current_area, request, answer, handed, wasted>>
  BY DEF SkipKernel
<1>5. \A a \in layout.areas : \A f \in FirstFrame(a) .. LastFrame(a) :
        f < next_free_frame' /\ ~InUse(f) /\ ~SkippedInVain(f) => f < next_free_frame
  <2> SUFFICES ASSUME NEW a \in layout.areas, NEW f \in FirstFrame(a) .. LastFrame(a),
                      f < next_free_frame', f >= next_free_frame
               PROVE  InUse(f) \/ SkippedInVain(f)
    BY <1>1, LayoutFacts
  <2>1. f \in Int
    BY <1>1, LayoutFacts
  <2>2. KernelStart <= f /\ (f < KernelEnd \/ f = KernelEnd)
    BY <1>1, <1>2, <1>3, <1>4, <2>1
  <2> QED
    BY <1>1, <2>1, <2>2, InUseFrames DEF SkippedInVain
<1>6. /\ next_free_frame' \in Nat /\ next_free_frame' >= next_free_frame
      /\ current_area # NoArea => FirstFrame(current_area) <= next_free_frame'
  BY <1>1, <1>2, <1>3, <1>4, LayoutFacts
<1> QED
  BY <1>1, <1>4, <1>5, <1>6, MovesOn

\* The same for the multiboot structure.
LEMMA SkipMultibootFAInv == FAInv /\ SkipMultiboot => FAInv'
<1> SUFFICES ASSUME FAInv, SkipMultiboot PROVE FAInv'
  OBVIOUS
<1>1. /\ layout \in Layouts /\ next_free_frame \in Nat /\ request = 1
      /\ current_area \in layout.areas \cup {NoArea}
      /\ current_area # NoArea => FirstFrame(current_area) <= next_free_frame
      /\ current_area # NoArea
  BY LayoutAssumption DEF FAInv, FATypeOK, Progress, SkipMultiboot, Pending
<1>2. MultibootStart \in Nat /\ MultibootEnd \in Nat
  BY <1>1, LayoutFacts
<1>3. next_free_frame >= MultibootStart /\ next_free_frame <= MultibootEnd
  BY <1>1, <1>2 DEF SkipMultiboot, InMultiboot, Start, End
<1>4. /\ next_free_frame' = MultibootEnd + 1
      /\ UNCHANGED <<layout, current_area, request, answer, handed, wasted>>
  BY DEF SkipMultiboot
<1>5. \A a \in layout.areas : \A f \in FirstFrame(a) .. LastFrame(a) :
        f < next_free_frame' /\ ~InUse(f) /\ ~SkippedInVain(f) => f < next_free_frame
  <2> SUFFICES ASSUME NEW a \in layout.areas, NEW f \in FirstFrame(a) .. LastFrame(a),
                      f < next_free_frame', f >= next_free_frame
               PROVE  InUse(f) \/ SkippedInVain(f)
    BY <1>1, LayoutFacts
  <2>1. f \in Int
    BY <1>1, LayoutFacts
  <2>2. MultibootStart <= f /\ (f < MultibootEnd \/ f = MultibootEnd)
    BY <1>1, <1>2, <1>3, <1>4, <2>1
  <2> QED
    BY <1>1, <2>1, <2>2, InUseFrames DEF SkippedInVain
<1>6. /\ next_free_frame' \in Nat /\ next_free_frame' >= next_free_frame
      /\ current_area # NoArea => FirstFrame(current_area) <= next_free_frame'
  BY <1>1, <1>2, <1>3, <1>4, LayoutFacts
<1> QED
  BY <1>1, <1>4, <1>5, <1>6, MovesOn

\* The frame a round takes lies in the current area and is not in use, and it
\* is above all that were taken before.
LEMMA TakeFAInv == FAInv /\ Take => FAInv'
<1> SUFFICES ASSUME FAInv, Take PROVE FAInv'
  OBVIOUS
<1> DEFINE n == next_free_frame
           r == [start |-> n, count |-> 1]
<1>1. /\ layout \in Layouts /\ n \in Nat /\ request = 1
      /\ current_area \in layout.areas
      /\ FirstFrame(current_area) <= n /\ current_area # NoArea
      /\ handed \in Seq([start : Nat, count : Nat])
      /\ wasted \in Nat \cup {None, Booting} /\ wasted < n
      /\ answer \in Nat \cup {None}
  <2>1. FATypeOK /\ Progress /\ Pending
    BY DEF FAInv, Take
  <2>2. /\ layout \in Layouts /\ n \in Nat
        /\ handed \in Seq([start : Nat, count : Nat])
        /\ wasted \in Nat \cup {None, Booting} /\ answer \in Nat \cup {None}
    BY <2>1 DEF FATypeOK
  <2>3. request \in {0, 1} /\ current_area \in layout.areas \cup {NoArea}
    BY Zenon, <2>1, LayoutAssumption DEF FATypeOK
  <2>4. request = 1 /\ current_area \in layout.areas /\ current_area # NoArea
    BY <2>1, <2>3 DEF Pending
  <2>5. FirstFrame(current_area) <= n /\ wasted < n
    BY <2>1, <2>4 DEF Progress
  <2> QED
    BY <2>2, <2>4, <2>5
<1>2. /\ KernelStart \in Nat /\ KernelEnd \in Nat
      /\ MultibootStart \in Nat /\ MultibootEnd \in Nat
      /\ FirstFrame(current_area) \in Nat /\ LastFrame(current_area) \in Nat
  BY <1>1, LayoutFacts
<1>3. Usable(n)
  <2>1. n \in FirstFrame(current_area) .. LastFrame(current_area)
    BY <1>1, <1>2 DEF Take, BeyondArea, End
  <2>2. ~InUse(n)
    <3>1. /\ ~(KernelStart <= n /\ n <= KernelEnd)
          /\ ~(MultibootStart <= n /\ n <= MultibootEnd)
      BY <1>1, <1>2 DEF Take, InKernel, InMultiboot, Start, End
    <3> QED
      BY <1>1, <3>1, InUseFrames
  <2> QED
    BY <1>1, <2>1, <2>2 DEF Usable, InArea
<1>4. /\ n' = n + 1 /\ request' = 0 /\ layout' = layout /\ current_area' = current_area
  BY DEF Take, Answer
<1>5. /\ \A f : Usable(f)' <=> Usable(f)
      /\ \A f : InUse(f)' <=> InUse(f)
      /\ \A f : SkippedInVain(f)' <=> SkippedInVain(f)
  BY <1>4 DEF Usable, InArea, InUse, SkippedInVain, KernelEnd, MultibootEnd
<1>6. CASE wasted = Booting
  <2>1. /\ wasted' = n /\ answer' = answer /\ handed' = handed /\ handed = <<>>
    BY <1>6 DEF FAInv, Progress, Take, Answer, Start
  <2>2. FATypeOK'
    BY <1>1, <1>4, <2>1 DEF FATypeOK
  <2>3. Ascending' /\ HandsOutUsable'
    BY <2>1 DEF Ascending, HandsOutUsable
  <2>4. Progress'
    BY <1>1, <1>2, <1>4, <2>1 DEF Progress, Booting
  <2>5. NoFrameLost'
    <3> SUFFICES ASSUME NEW a \in layout.areas, NEW f \in FirstFrame(a) .. LastFrame(a),
                        f < n + 1, ~InUse(f), ~SkippedInVain(f)
                 PROVE  Handed(f)' \/ f = n
      BY <1>4, <1>5, <2>1 DEF NoFrameLost
    <3>1. f \in Int
      BY <1>1, LayoutFacts
    <3>2. f < n => Handed(f) \/ f = wasted
      BY DEF FAInv, NoFrameLost
    <3>3. ~Handed(f)
      BY <2>1 DEF Handed
    <3>4. FirstFrame(a) \in Nat
      BY <1>1, LayoutFacts
    <3> QED
      BY <1>1, <1>6, <3>1, <3>2, <3>3, <3>4 DEF Booting
  <2> QED
    BY <2>2, <2>3, <2>4, <2>5 DEF FAInv
<1>7. CASE wasted # Booting
  <2>1. /\ wasted' = wasted /\ answer' = n /\ handed' = Append(handed, r)
    BY <1>1, <1>7 DEF Take, Answer, Start, None
  <2>2. r \in [start : Nat, count : Nat] /\ r.start = n /\ r.count = 1
    BY <1>1
  <2>3. /\ handed' \in Seq([start : Nat, count : Nat])
        /\ Len(handed') = Len(handed) + 1 /\ Len(handed) \in Nat
        /\ handed'[Len(handed) + 1] = r
        /\ \A i \in 1 .. Len(handed) : handed'[i] = handed[i]
    BY <1>1, <2>1, <2>2
  <2>4. FATypeOK'
    BY <1>1, <1>4, <2>1, <2>3 DEF FATypeOK
  <2>5. Ascending'
    <3>1. Ascending
      BY DEF FAInv
    <3>2. ASSUME NEW i \in 1 .. Len(handed')
          PROVE  /\ handed'[i].count = 1 /\ handed'[i].start < n + 1
                 /\ wasted < handed'[i].start
      <4>1. CASE i = Len(handed) + 1
        BY <1>1, <2>2, <2>3, <4>1
      <4>2. CASE i \in 1 .. Len(handed)
        <5>1. handed[i].start \in Nat
          BY <1>1, <4>2, HandedEntries
        <5>2. handed'[i] = handed[i]
          BY <2>3, <4>2
        <5>3. handed[i].count = 1 /\ handed[i].start < n /\ wasted < handed[i].start
          BY <3>1, <4>2 DEF Ascending
        <5> QED
          BY <1>1, <5>1, <5>2, <5>3
      <4> QED
        BY <2>3, <4>1, <4>2
    <3>3. ASSUME NEW i \in 1 .. Len(handed'), NEW j \in 1 .. Len(handed'), i < j
          PROVE  handed'[i].start < handed'[j].start
      <4>1. i \in 1 .. Len(handed)
        BY <2>3, <3>3
      <4>2. CASE j = Len(handed) + 1
        BY <2>2, <2>3, <3>1, <4>1, <4>2 DEF Ascending
      <4>3. CASE j \in 1 .. Len(handed)
        BY Zenon, <2>3, <3>1, <3>3, <4>1, <4>3 DEF Ascending
      <4> QED
        BY <2>3, <4>2, <4>3
    <3> QED
      BY <1>4, <2>1, <3>2, <3>3 DEF Ascending
  <2>6. Progress'
    BY <1>1, <1>2, <1>4, <1>7, <2>1 DEF Progress, None, Booting
  <2>7. HandsOutUsable'
    <3> SUFFICES ASSUME NEW i \in 1 .. Len(handed'), NEW f \in FramesOf(handed'[i])
                 PROVE  Usable(f)
      BY <1>5 DEF HandsOutUsable, FramesOf
    <3>1. CASE i = Len(handed) + 1
      BY <1>1, <1>3, <2>2, <2>3, <3>1 DEF FramesOf
    <3>2. CASE i \in 1 .. Len(handed)
      BY Zenon, <2>3, <3>2 DEF FAInv, HandsOutUsable, FramesOf
    <3> QED
      BY <2>3, <3>1, <3>2
  <2>8. NoFrameLost'
    <3> SUFFICES ASSUME NEW a \in layout.areas, NEW f \in FirstFrame(a) .. LastFrame(a),
                        f < n + 1, ~InUse(f), ~SkippedInVain(f)
                 PROVE  Handed(f)' \/ f = wasted
      BY <1>4, <1>5, <2>1 DEF NoFrameLost
    <3>1. f \in Int
      BY <1>1, LayoutFacts
    <3>2. CASE f < n
      <4>1. Handed(f) \/ f = wasted
        BY <3>2 DEF FAInv, NoFrameLost
      <4>2. ASSUME NEW i \in 1 .. Len(handed), f \in FramesOf(handed[i]) PROVE Handed(f)'
        <5>1. i \in 1 .. Len(handed') /\ handed'[i] = handed[i]
          BY <2>3
        <5>2. f \in FramesOf(handed'[i])
          BY Zenon, <4>2, <5>1
        <5>3. Handed(f)' <=> \E j \in 1 .. Len(handed') : f \in FramesOf(handed'[j])
          BY Zenon DEF Handed, FramesOf
        <5> QED BY Zenon, <5>1, <5>2, <5>3
      <4> QED
        BY Zenon, <4>1, <4>2 DEF Handed
    <3>3. CASE f = n
      <4>1. Len(handed) + 1 \in 1 .. Len(handed') /\ f \in FramesOf(handed'[Len(handed) + 1])
        BY <1>1, <2>2, <2>3, <3>3 DEF FramesOf
      <4> QED
        BY <4>1 DEF Handed, FramesOf
    <3> QED
      BY <1>1, <3>1, <3>2, <3>3
  <2> QED
    BY <2>4, <2>5, <2>6, <2>7, <2>8 DEF FAInv
<1> QED
  BY <1>6, <1>7

\* None leaves the history as it is; the frame that new() wastes is then None.
LEMMA OutOfMemoryFAInv == FAInv /\ OutOfMemory => FAInv'
<1> SUFFICES ASSUME FAInv, OutOfMemory PROVE FAInv'
  OBVIOUS
<1>1. /\ layout' = layout /\ next_free_frame' = next_free_frame /\ current_area' = current_area
      /\ request' = 0 /\ handed' = handed
      /\ answer' \in {answer, None}
      /\ \/ wasted' = wasted /\ wasted # Booting
         \/ wasted' = None /\ wasted = Booting /\ handed = <<>>
  BY DEF FAInv, Progress, OutOfMemory, Answer
<1>2. next_free_frame \in Nat
  BY DEF FAInv, FATypeOK
<1>3. FATypeOK'
  BY <1>1 DEF FAInv, FATypeOK
<1>4. Ascending'
  BY <1>1 DEF FAInv, Ascending
<1>5. Progress'
  BY <1>1, <1>2 DEF FAInv, Progress, None, Booting, FirstFrame, FrameOf
<1>6. HandsOutUsable'
  BY <1>1 DEF FAInv, HandsOutUsable, Usable, InArea, InUse
<1>7. NoFrameLost'
  <2> SUFFICES ASSUME NEW a \in layout.areas, NEW f \in FirstFrame(a) .. LastFrame(a),
                      f < next_free_frame, ~InUse(f), ~SkippedInVain(f)
               PROVE  Handed(f) \/ f = wasted'
    BY <1>1 DEF NoFrameLost, Handed, InUse, SkippedInVain, KernelEnd, MultibootEnd
  <2>1. Handed(f) \/ f = wasted
    BY DEF FAInv, NoFrameLost
  <2>2. f >= 0
    BY LayoutFacts DEF FAInv, FATypeOK
  <2> QED
    BY <1>1, <2>1, <2>2 DEF Booting
<1> QED
  BY <1>3, <1>4, <1>5, <1>6, <1>7 DEF FAInv

\* A new call changes neither the area nor the next frame.
LEMMA AllocateFAInv ==
  ASSUME FAInv, NEW count \in Requests, Allocate(count)
  PROVE  FAInv'
<1>1. /\ UNCHANGED <<layout, next_free_frame, current_area, handed, wasted>>
      /\ request = 0 /\ request' \in {0, 1} /\ answer' = None
  BY LayoutAssumption DEF Allocate
<1>2. FATypeOK'
  BY <1>1 DEF FAInv, FATypeOK
<1>3. Ascending' /\ HandsOutUsable' /\ NoFrameLost'
  BY <1>1 DEF FAInv, Ascending, HandsOutUsable, NoFrameLost, Usable, InArea, InUse, Handed,
              SkippedInVain, KernelEnd, MultibootEnd
<1>4. Progress'
  BY <1>1 DEF FAInv, Progress
<1> QED
  BY <1>2, <1>3, <1>4 DEF FAInv

\* Every step keeps the invariant.
LEMMA StepFAInv == FAInv /\ [FANext]_faVars => FAInv'
<1> SUFFICES ASSUME FAInv, [FANext]_faVars PROVE FAInv'
  OBVIOUS
<1>1. CASE Round
  BY <1>1, OutOfMemoryFAInv, NextAreaFAInv, SkipKernelFAInv, SkipMultibootFAInv, TakeFAInv DEF Round
<1>2. CASE \E count \in Requests : Allocate(count)
  BY <1>2, AllocateFAInv
<1>3. CASE UNCHANGED faVars
  BY <1>3 DEF faVars, FAInv, FATypeOK, Ascending, Progress, HandsOutUsable, NoFrameLost, Usable,
              InArea, InUse, Handed, SkippedInVain, KernelEnd, MultibootEnd
<1> QED
  BY <1>1, <1>2, <1>3 DEF FANext

\* The inductive invariant holds in every reachable state.
THEOREM FAInvariant == FASpec => []FAInv
<1>1. FAInit => FAInv
  BY InitFAInv
<1>2. FAInv /\ [FANext]_faVars => FAInv'
  BY StepFAInv
<1> QED
  BY <1>1, <1>2, PTL DEF FASpec

\* The allocator's fields and answers are well typed.
THEOREM FATypeCorrect == FASpec => []FATypeOK
<1>1. FAInv => FATypeOK
  BY DEF FAInv
<1> QED
  BY <1>1, FAInvariant, PTL

\* allocate_frame returns only frames of a memory area that neither the
\* kernel nor the multiboot structure occupies.
THEOREM OnlyUsable == FASpec => []HandsOutUsable
<1>1. FAInv => HandsOutUsable
  BY DEF FAInv
<1> QED
  BY <1>1, FAInvariant, PTL

\* allocate_frame returns no frame twice, nor the one that new() wasted.
THEOREM AtMostOnce == FASpec => []NeverTwice
<1>1. FAInv => NeverTwice
  <2> SUFFICES ASSUME FAInv PROVE NeverTwice
    OBVIOUS
  <2>1. handed \in Seq([start : Nat, count : Nat]) /\ Ascending
    BY DEF FAInv, FATypeOK
  <2>2. \A i \in 1 .. Len(handed) : handed[i].start \in Nat
    BY <2>1, HandedEntries
  <2>3. \A i \in 1 .. Len(handed) : FramesOf(handed[i]) = {handed[i].start}
    BY <2>1, <2>2 DEF Ascending, FramesOf
  <2>4. wasted \in Int
    BY DEF FAInv, FATypeOK, None, Booting
  <2>5. ASSUME NEW i \in 1 .. Len(handed) PROVE handed[i].start # wasted
    BY <2>1, <2>2, <2>4 DEF Ascending
  <2>6. ASSUME NEW i \in 1 .. Len(handed), NEW j \in 1 .. Len(handed), i < j
        PROVE  handed[i].start # handed[j].start
    BY <2>1, <2>2, <2>6 DEF Ascending
  <2> QED
    BY Zenon, <2>3, <2>5, <2>6 DEF NeverTwice, Handed
<1> QED
  BY <1>1, FAInvariant, PTL

\* A frame of an area below next_free_frame that nobody uses has been handed
\* out, or new() discarded it, or it begins where the kernel or the multiboot
\* structure ends: no round passes over another one.
THEOREM NonePassedOver == FASpec => []NoFrameLost
<1>1. FAInv => NoFrameLost
  BY DEF FAInv
<1> QED
  BY <1>1, FAInvariant, PTL

\* When a call returns None every frame is handed out or in use, except for the
\* one that new() discards and the two that are skipped in vain (the part of
\* NoneMeansExhausted that is not about free_frames).
THEOREM NoneMeansNoneLeft ==
  FASpec =>
    [][OutOfMemory =>
         \A a \in layout.areas : \A f \in FirstFrame(a) .. LastFrame(a) :
           Handed(f) \/ InUse(f) \/ f = wasted \/ SkippedInVain(f)]_faVars
<1>1. FAInv /\ OutOfMemory =>
        \A a \in layout.areas : \A f \in FirstFrame(a) .. LastFrame(a) :
          Handed(f) \/ InUse(f) \/ f = wasted \/ SkippedInVain(f)
  <2> SUFFICES ASSUME FAInv, OutOfMemory,
                      NEW a \in layout.areas, NEW f \in FirstFrame(a) .. LastFrame(a)
               PROVE  Handed(f) \/ InUse(f) \/ f = wasted \/ SkippedInVain(f)
    OBVIOUS
  <2>1. layout \in Layouts /\ next_free_frame \in Nat
    BY DEF FAInv, FATypeOK
  <2>2. LastFrame(a) < next_free_frame
    BY DEF FAInv, Progress, OutOfMemory
  <2>3. f < next_free_frame
    BY <2>1, <2>2, LayoutFacts
  <2> QED
    BY <2>3 DEF FAInv, NoFrameLost
<1>2. FAInv /\ [FANext]_faVars =>
        [OutOfMemory =>
           \A a \in layout.areas : \A f \in FirstFrame(a) .. LastFrame(a) :
             Handed(f) \/ InUse(f) \/ f = wasted \/ SkippedInVain(f)]_faVars
  BY <1>1
<1> QED
  BY <1>2, FAInvariant, PTL DEF FASpec
=============================================================================
