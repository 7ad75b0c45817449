--------------------------- MODULE MCKernelMemory ----------------------------
(* Tables of three entries: kernel, heap and stacks are below the first P4   *)
(* entry, the temporary page is below the second one, the third one is the   *)
(* recursive one.  The frame allocator may run out anywhere.                 *)
EXTENDS KernelMemory

CONSTANTS FIRST_FREE, LAST_FREE   \* frames that the kernel may get

\* Frames above LAST_FREE belong to the firmware.
MCFreeSets == {FIRST_FREE .. last : last \in FIRST_FREE - 1 .. LAST_FREE}

Section(f, flags) == [frame |-> f, flags |-> flags]

\* The old P4 table is in .bss; then .text, the VGA buffer and the multiboot
\* structure, which in the second map shares a frame with .text.
MCBootMaps ==
  {<<Section(p4_table, {"PRESENT", "WRITABLE", "NO_EXECUTE"}), Section(3, {"PRESENT"}),
     Section(4, {"WRITABLE"}), Section(m, {"PRESENT"})>> : m \in {5, 3}}

\* The RSDT lies above or partly in the RSDP area or elsewhere; the tables
\* lie on pages that are mapped; the last two APICs may share a page.
Firmware(sdt, tables, apics) ==
  [rsdp |-> <<6, 7>>, kind |-> "rsdt", sdt |-> sdt, tables |-> tables, apics |-> apics]

MCFirmwares ==
  {Firmware(<<7, 8>>, <<8, 7>>, <<>>),
   Firmware(<<36, 37>>, <<37>>, <<42, 43>>),
   Firmware(<<8, 8>>, <<6>>, <<42, 43, 43>>),
   [Firmware(<<8, 8>>, <<>>, <<>>) EXCEPT !.kind = "none"],
   [Firmware(<<8, 8>>, <<>>, <<>>) EXCEPT !.kind = "xsdt"]}
=============================================================================
