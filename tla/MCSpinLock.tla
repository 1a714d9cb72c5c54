---------------------------- MODULE MCSpinLock ----------------------------
(* The two harts of the machine (NCPU = 2) with the kernel's two nesting locks:
   list_lk of the mmap store, held by thread code while mmap_show_nodelist
   prints, and print_lk, taken by threads and by the timer handler. *)
EXTENDS SpinLock, TLC

CONSTANTS h0, h1, list_lk, print_lk

Harts == {h0, h1}
NestedLocks == {list_lk, print_lk}
PrintLock == {print_lk}
NestedRank == (list_lk :> 0) @@ (print_lk :> 1)

(* op and old are dead between two calls, old also after push_off has used it:
   states that differ in dead values only have the same behaviours. *)
View == <<locked, cpuid, sie, noff, origin, run, opened, pc, pushed, offs,
          [c \in CPU |-> [x \in Ctx |->
             <<IF pc[c][x] = "run" THEN NoLock ELSE op[c][x],
               pc[c][x] = "off" /\ old[c][x]>>]]>>
=============================================================================
