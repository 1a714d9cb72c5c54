---------------------------- MODULE AddressSpace ----------------------------
(* The user address space of the process: the heap that sys_brk moves
   (syscall/sysfunc.c, 90-113, mem/uvm.c, 84-130), the stack that page faults
   extend (uvm.c, 137-181), and between them the pages of mmap, of which only
   what PageSet promises is used.  Addresses are bytes and wrap at Wrap (2^64);
   a call is one step, for the process is the only one that can see it.

   `mapped' are the pages that user frames are mapped to; the trapframe and the
   trampoline are mapped to kernel pages, which pmem_free refuses to take for
   user pages. *)
EXTENDS Integers, FiniteSets

CONSTANTS PGSIZE, VA_MAX, Wrap,
          MMAP_BEGIN, MMAP_END,
          Frames,               \* pages of the user region of pmem
          Tops,                 \* the arguments of sys_brk
          Faults                \* the addresses of page faults

TRAMPOLINE == VA_MAX - PGSIZE
TRAPFRAME == TRAMPOLINE - PGSIZE
USER_BASE == PGSIZE
UHEAP_START == USER_BASE + PGSIZE

ASSUME LayoutAssumption ==
  /\ PGSIZE \in Nat \ {0} /\ Frames \in Nat \ {0, 1}   \* proc_make_first takes two
  /\ \A a \in {VA_MAX, Wrap, MMAP_BEGIN, MMAP_END} : a \in Nat /\ a % PGSIZE = 0
  /\ UHEAP_START <= MMAP_BEGIN /\ MMAP_BEGIN < MMAP_END /\ MMAP_END < TRAPFRAME
  /\ VA_MAX < Wrap
  /\ Tops \cup Faults \subseteq 0 .. Wrap - 1

VARIABLES heap_top, ustack_npage,  \* of the process
          mapped,                  \* the pages (their first bytes) with user frames
          frames,                  \* how many frames the process has taken
          alloc,                   \* the pages of mmap, by number
          state                    \* "run" or "panic"

vars == <<heap_top, ustack_npage, mapped, frames, alloc, state>>

PGROUNDUP(a) == LET w == (a + PGSIZE - 1) % Wrap IN w - (w % PGSIZE)
PGROUNDDOWN(a) == a - (a % PGSIZE)
Pages(from, to) == {p * PGSIZE : p \in from \div PGSIZE .. (to \div PGSIZE) - 1}
KernelPages == {TRAPFRAME, TRAMPOLINE}
UstackTop == VA_MAX - (ustack_npage + 2) * PGSIZE   \* the lowest byte of the stack

PS == INSTANCE PageSet WITH Area <- MMAP_BEGIN \div PGSIZE .. MMAP_END \div PGSIZE - 1
AllocPages == {p * PGSIZE : p \in alloc}

(* proc_make_first *)
Init == /\ heap_top = UHEAP_START
        /\ ustack_npage = 1
        /\ mapped = {USER_BASE, TRAPFRAME - PGSIZE}
        /\ frames = 2
        /\ PS!Init
        /\ state = "run"

(* The kernel stops; what the call had mapped before it is not looked at again. *)
Panic == /\ state' = "panic"
         /\ UNCHANGED <<heap_top, ustack_npage, mapped, frames, alloc>>

(* One pmem_alloc and one vm_mappages for each page; a page that is mapped
   already is mapped anew and its old frame is lost. *)
MapPages(S) == /\ frames + Cardinality(S) <= Frames
               /\ mapped' = mapped \cup S
               /\ frames' = frames + Cardinality(S)
NoFrames(S) == frames + Cardinality(S) > Frames

(* vm_unmappages with freeit, of the pages in [from, to). *)
UnmapRefused(from, to) == from < to /\ (to > VA_MAX \/ Pages(from, to) \cap KernelPages # {})
UnmapPages(S) == /\ mapped' = mapped \ S
                 /\ frames' = frames - Cardinality(mapped \cap S)

-----------------------------------------------------------------------------
(* sys_brk(new_top): a query (new_top = 0), new_top = heap_top and a heap that
   would reach into the mmap area change nothing.  pmem_alloc panics for want of
   a page, and the rollback behind it is never reached. *)
GrowTo(new_top, limit) ==
  LET old_pg == PGROUNDUP(heap_top)
      new_pg == PGROUNDUP(new_top)
  IN  /\ state = "run" /\ new_top > heap_top
      /\ new_pg <= old_pg \/ new_pg <= limit
      /\ IF NoFrames(Pages(old_pg, new_pg)) THEN Panic
         ELSE /\ MapPages(Pages(old_pg, new_pg))
              /\ heap_top' = new_top
              /\ UNCHANGED <<ustack_npage, alloc, state>>

(* Mutant: the limit of the heap is the beginning of the stack area. *)
HeapGrowThrough(new_top) == GrowTo(new_top, MMAP_END)

HeapGrow(new_top) == GrowTo(new_top, MMAP_BEGIN)

(* Mutant: the new top is rounded down, and the page it is in is freed. *)
HeapUngrowDown(new_top) ==
  /\ state = "run" /\ 0 < new_top /\ new_top < heap_top
  /\ UnmapPages(Pages(PGROUNDDOWN(new_top), PGROUNDUP(heap_top)))
  /\ heap_top' = new_top
  /\ UNCHANGED <<ustack_npage, alloc, state>>

HeapUngrow(new_top) ==
  LET old_pg == PGROUNDUP(heap_top)
      new_pg == PGROUNDUP(new_top)
  IN  /\ state = "run" /\ 0 < new_top /\ new_top < heap_top
      /\ IF UnmapRefused(new_pg, old_pg) THEN Panic
         ELSE /\ UnmapPages(Pages(new_pg, old_pg))
              /\ heap_top' = new_top
              /\ UNCHANGED <<ustack_npage, alloc, state>>

-----------------------------------------------------------------------------
(* A load or store that faults: its page is not mapped for the user, or is the
   code page, which he may not write. *)
MayFault(va) == PGROUNDDOWN(va) \notin mapped \ {USER_BASE}

OnStack(va) == MMAP_END <= va /\ va < UstackTop

(* Mutant: the loop maps one page more, the lowest of the old stack. *)
StackGrowPast(va) ==
  LET new_page == PGROUNDDOWN(va)
  IN  /\ state = "run" /\ MayFault(va) /\ OnStack(va)
      /\ ~ NoFrames(Pages(new_page, UstackTop + PGSIZE))
      /\ MapPages(Pages(new_page, UstackTop + PGSIZE))
      /\ ustack_npage' = (VA_MAX - 2 * PGSIZE - new_page) \div PGSIZE
      /\ UNCHANGED <<heap_top, alloc, state>>

(* Mutant: ustack_npage counts the pages of this fault alone. *)
StackGrowCountsNew(va) ==
  LET new_page == PGROUNDDOWN(va)
  IN  /\ state = "run" /\ MayFault(va) /\ OnStack(va)
      /\ ~ NoFrames(Pages(new_page, UstackTop))
      /\ MapPages(Pages(new_page, UstackTop))
      /\ ustack_npage' = (UstackTop - new_page) \div PGSIZE
      /\ UNCHANGED <<heap_top, alloc, state>>

(* uvm_ustack_grow: all pages from the stack down to the page of the fault. *)
StackGrow(va) ==
  LET new_page == PGROUNDDOWN(va)
  IN  /\ state = "run" /\ MayFault(va) /\ OnStack(va)
      /\ IF NoFrames(Pages(new_page, UstackTop)) THEN Panic
         ELSE /\ MapPages(Pages(new_page, UstackTop))
              /\ ustack_npage' = (VA_MAX - 2 * PGSIZE - new_page) \div PGSIZE
              /\ UNCHANGED <<heap_top, alloc, state>>

(* Any other fault kills the process, and to kill proczero is a panic. *)
FaultKills(va) == /\ state = "run" /\ MayFault(va) /\ ~ OnStack(va)
                  /\ Panic

(* mmap and munmap, as far as PageSet says what they do; the frames suffice. *)
Mmap == /\ state = "run" /\ PS!Next
        /\ LET added == {p * PGSIZE : p \in alloc' \ alloc}
               gone == {p * PGSIZE : p \in alloc \ alloc'}
           IN  /\ frames + Cardinality(added) <= Frames
               /\ mapped' = (mapped \ gone) \cup added
               /\ frames' = frames + Cardinality(added) - Cardinality(gone)
        /\ UNCHANGED <<heap_top, ustack_npage, state>>

Brk(new_top) == HeapGrow(new_top) \/ HeapUngrow(new_top)
Fault(va) == StackGrow(va) \/ FaultKills(va)

(* uvm_destroy_pgtbl: mmap, heap, the stack but its first page; then the page at
   VA_MAX - 2 * PGSIZE, which is the trapframe, not the first stack page that the
   comment names: pmem_free panics. *)
Destroy ==
  /\ state = "run"
  /\ UnmapPages(AllocPages \cup Pages(UHEAP_START, PGROUNDUP(heap_top))
                           \cup Pages(UstackTop, UstackTop + (ustack_npage - 1) * PGSIZE))
  /\ alloc' = {}
  /\ heap_top' = UHEAP_START
  /\ state' = "panic"
  /\ UNCHANGED ustack_npage

Next == \/ \E a \in Tops : Brk(a)
        \/ \E a \in Faults : Fault(a)
        \/ Mmap
        \/ Destroy

Spec == Init /\ [][Next]_vars

-----------------------------------------------------------------------------
TypeOK == /\ heap_top \in 0 .. Wrap - 1
          /\ ustack_npage \in Nat
          /\ mapped \subseteq Pages(0, TRAPFRAME)
          /\ frames \in 0 .. Frames
          /\ alloc \subseteq MMAP_BEGIN \div PGSIZE .. MMAP_END \div PGSIZE - 1
          /\ state \in {"run", "panic"}

(* README.md:222: the heap does not grow into the mmap area, nor does the stack. *)
HeapBelowMmap == PGROUNDUP(heap_top) <= MMAP_BEGIN /\ heap_top <= MMAP_BEGIN
StackAboveMmap == MMAP_END <= UstackTop

(* heap_top, ustack_npage and the mmap regions say exactly which pages the user
   has besides the code page. *)
SpaceExact ==
  state = "run" =>
    mapped = {USER_BASE} \cup Pages(UHEAP_START, PGROUNDUP(heap_top)) \cup AllocPages
                         \cup Pages(UstackTop, TRAPFRAME)

(* Each mapped page has one frame and no frame is lost: no call maps a page that
   was mapped, or unmaps one that another part of the space has. *)
FramesExact == frames = Cardinality(mapped)

Apart == TypeOK /\ HeapBelowMmap /\ StackAboveMmap

(* A fault that is answered has its page mapped, so that the instruction does
   not fault again; and the stack never shrinks (README.md:214). *)
FaultServed == [][\A va \in Faults : Fault(va) =>
                    \/ state' = "panic"
                    \/ /\ PGROUNDDOWN(va) \in mapped'
                       /\ ustack_npage' > ustack_npage]_vars
=============================================================================
