--------------------------- MODULE MCAddressSpace ---------------------------
(* Pages of two bytes: code, four of heap, three of mmap, four of stack, the
   trapframe, the trampoline; user frames for all but two of them. *)
EXTENDS AddressSpace

HeapTops == {0} \cup 4 .. 38
AllFaults == 0 .. 39
=============================================================================
