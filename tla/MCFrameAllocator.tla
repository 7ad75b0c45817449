-------------------------- MODULE MCFrameAllocator ---------------------------
(* Small memories in every arrangement: one or two areas, adjacent, apart,  *)
(* overlapping or not frame aligned, with the kernel and the multiboot      *)
(* structure anywhere.                                                      *)
EXTENDS FrameAllocator

CONSTANT TOP   \* bound: addresses are below TOP

MCAreas == {[start |-> s, size |-> n] : s \in {0, 3, 6}, n \in {3, 6}}

MCLayouts ==
  {[areas |-> {a, b}, kernel_start |-> k, kernel_end |-> k + 3,
    multiboot_start |-> m, multiboot_end |-> m + n] :
      a \in MCAreas, b \in MCAreas, k \in {1, 4, TOP}, m \in {1, 3, 6, TOP}, n \in {1, 4}}
=============================================================================
