# The kernel of biglab in TLA+

The repository is LAB-5 of a RISC-V teaching kernel: two harts, spinlocks, a
physical page allocator, Sv39 page tables, one user process with a heap, a stack
and mmap regions, and the system calls that serve it. This directory holds TLA+
modules of its core, TLC configurations that check them on small instances, and
TLAPS proofs for every instance. Paths are relative to the repository;
`kernel/` stands for `src/kernel/`.

## 1. Inventory

| part | code | state | operations | what makes it correct |
|---|---|---|---|---|
| spinlock, interrupt masking | `kernel/lock/spinlock.c`, `lib/cpu.c` | `locked`, `cpuid` of a lock; `noff`, `origin` of a cpu; `sstatus.SIE` | `push_off`, `pop_off`, `spinlock_acquire`, `spinlock_release`, `spinlock_holding` | exclusion between harts and between a thread and the handler that preempts it; the asserts hold; interrupts come back as they were |
| page allocator | `kernel/mem/pmem.c` | two regions: lock, list head, counter; the links inside the free pages | `pmem_init`, `pmem_alloc`, `pmem_free` | no page lost or handed out twice; the counter is the length of the list |
| node store | `kernel/mem/mmap.c` | `node_list`, `list_head`, `list_lk` | `mmap_init`, `mmap_region_alloc`, `mmap_region_free`, `mmap_show_nodelist` | the same for nodes; a listing is the list |
| mmap, munmap | `kernel/mem/uvm.c` 184-431 | the region list of the process, its mapped pages | `uvm_mmap`, `mmap_merge`, `uvm_munmap`, `uvm_show_mmaplist` | sorted, disjoint, merged regions that say exactly what is mapped; first fit |
| user copies | `kernel/mem/uvm.c` 16-77 | none of their own | `uvm_copyin`, `uvm_copyout`, `uvm_copyin_str` | all the bytes, no others, only those the user may touch |
| heap, user stack | `kernel/mem/uvm.c` 80-181, `syscall/sysfunc.c`, `trap/trap_user.c` | `heap_top`, `ustack_npage` | `sys_brk`, page faults | heap, mmap area and stack stay apart; no frame lost |
| page tables | `kernel/mem/kvm.c`, `uvm.c` 436-454 | the tables | `vm_getpte`, `vm_mappages`, `vm_unmappages`, `pgtbl_free_recursive`, `kvm_init`, `vm_print` | the tree of tables is a map of pages; every table comes back |
| copy, destruction of a space | `kernel/mem/uvm.c` 456-608 | both processes | `uvm_destroy_pgtbl`, `uvm_copy_pgtbl` | nothing leaks, nothing is shared |
| printf, panic | `kernel/lib/print.c` | `print_lk`, `panicked` | `printf`, `panic`, `assert` | the message of a panic gets out, then silence |
| UART, PLIC | `kernel/lib/uart.c`, `trap/plic.c`, `trap/trap_kernel.c` | device registers | claim, echo, complete | every byte is echoed, once, in order, whichever hart takes the interrupt |
| timer | `kernel/trap/timer.c`, `trap.S` 88-123 | `sys_timer`, SSIP, mtimecmp | M-mode forward, S-mode handler | hart 0 alone counts, one tick for each interrupt that was served |
| boot | `kernel/main.c`, `boot/` | `started` | the start of each hart | nothing is used before it is initialised |
| process zero, traps | `kernel/proc/`, `trap/trap_user.c`, `trampoline.S` | `proczero`, trapframe, stvec, satp | creation, user trap, return | user mode is reached, and the kernel comes back with its own table and vector |
| system calls | `kernel/syscall/` | none | dispatch, arguments | |
| user program | `src/user/` | none | a fixed list of calls | |

How they interact: system calls reach `uvm.c`, which takes pages from `pmem.c`,
nodes from `mmap.c` and edits page tables through `kvm.c`. Both allocators are
shared by all harts and guarded by spinlocks; a spinlock masks the interrupts of
its hart through `push_off`. The handlers of timer and UART interrupts run on top
of whatever a hart was doing and take `sys_timer.lk` and `print_lk` themselves.
A page table, a region list and a heap belong to one process and are edited by
the hart that runs it.

What is hard: unlocked reads of a lock's two fields while other harts write them;
interrupts in the middle of `push_off`; list links that live in memory whose
owners write what they like; list surgery with nodes that are freed on the way;
operations that fail half-way; 32-bit and 64-bit sizes that wrap; loop counters
that are decremented past zero. Nothing is persistent, so there is no recovery,
and there are no messages. `PROJECT.json` lists each hazard at its line.

## 2. Modules

| module | models | a step is | abstract specification |
|---|---|---|---|
| `SpinLock` | `spinlock.c` under interrupts | one access to a shared field | `LockSpec` |
| `PMem` | `pmem.c` | one store | `PagePool` |
| `MmapStore` | `mmap.c` | one store | `PagePool` |
| `MmapRegions` | `uvm_mmap`, `uvm_munmap` | one pass of a loop | `PageSet` |
| `UserCopy` | `uvm_copyin`, `uvm_copyout`, `uvm_copyin_str` | one pass of a loop | its properties are its specification |
| `AddressSpace` | `sys_brk`, stack faults, `uvm_destroy_pgtbl`; mmap as `PageSet` | one call | its invariants |
| `PageTable` | walks, mapping, unmapping, freeing of tables | one level of a walk or one PTE | `FlatMap` |
| `Devices` | timers, UART, PLIC, as the handlers see them | one event of a device | |
| `Harts` | `main.c`, kernel interrupts, `printf`, `panic` on all harts; extends `Devices` | one statement, or one access to shared state | its properties |
| `UserTrap` | `trap_user_return`, `user_return`, `user_vector`, `trap_user_handler` | one memory access or control register | its property |
| `SpinLockProofs`, `PMemProofs`, `MmapStoreProofs`, `HartsProofs`, `UserCopyProofs`, `AddressSpaceProofs`, `PageTableProofs`, `MmapRegionsProofs` | theorems about the module they are named after | | |

They are stacked. `SpinLock` is shown to implement `LockSpec`; `PMem`, `MmapStore`
and `Harts` take their locks from `LockSpec`: in each of them a hart holds one lock
at a time, with its interrupts masked. `MmapStore` and `PMem` implement `PagePool`, of which
`MmapRegions`, `AddressSpace` and `PageTable` use what it promises: their nodes,
frames and tables. `MmapRegions` implements `PageSet`, and `AddressSpace` takes
mmap to be a `PageSet`. `Harts` ends where hart 0 enters `trap_user_return`, and
`UserTrap` begins there.

### SpinLock

Each hart has two contexts, a thread and a handler, of which `run` says which one
executes. `pc`, `op` and `old` are the program counter, the argument and the local
`old` of a context's current call. Reads and writes of `lk->locked` and
`lk->cpuid` are separate steps, so that `spinlock_holding` really reads two
fields at two times; what a hart does to its own `cpu_t` with interrupts masked is
one step. `old = intr_get()` and `intr_off()` are two steps with room for an
interrupt between them. `pushed` and `offs` are what each context has pushed:
they constrain callers to give back what they took, as all of the kernel's do.
`Rank` is the order in which locks are nested: `list_lk` before `print_lk`. Memory is
sequentially consistent; the fences of `spinlock.c` are there to make it so.

### PMem, MmapStore

A page is its number and a node its index. `head`, `word` (or `nxt`) and
`allocable` are the memory the code edits. `free` is a ghost: the list the code
means, changed in the step that changes the list. `owned` are the items callers
have; `UsePage` lets an owner write anything into his page, including numbers that
look like links. The initial state is the result of the loops of `region_setup` and
`mmap_init`. What is shown to be a `PagePool` is not the ghost but what the links in
memory reach from the head (`Reached`), so that a page unlinked by two harts, or a link
that an owner has overwritten, breaks the refinement.

### MmapRegions

Addresses are page numbers; `SpanWrap` and `AddrWrap` are where a 32-bit size and
a 64-bit address wrap. All requests are page aligned (section 5). The nodes have
the fields of `mmap_region_t`, `dummy_head` is one more node, `store` is the list of
`MmapStore`. `mmap_merge` is one step that does exactly the assignments of the
code, the faulty one included. `NextOnlyMerge` and `FullStoreSplit` say whether the
environment may make the two requests that hit the defects of section 5: the runs
in which they are FALSE show that there is no third one.

### Devices, Harts

`todo[h]` is what is left of `main()` for hart `h`; `Thread` executes its first
statement. An interrupt is taken between two statements by a hart that has turned
interrupts on (`intr`): `irq[h]` is then the next statement of
`timer_interrupt_handler` or `external_interrupt_handler`. `say[h]` and `send[h]` are
a running `printf` and the characters that a `printf` or an echo has still to send;
`put[h]` lies between the test of `panicked` and the store in THR. While a hart waits
for a lock, holds one or runs a handler it takes no interrupt: that this is so is
what `SpinLock` shows.

The kernel initialises in eight statements; `InitBeforeUse` says of each statement,
of `printf` and of the handlers which of these they rely on. Hart 0 may panic where it
asks pmem for a page (`kvm_init` and `proc_make_first`).

`ssip[h]` is set by the timer of `h` at any time, also inside the handler; `merged`
counts how often it was set already. A byte in `rx`, or the announcement `tx` that
the UART can send again, keeps the interrupt pending until some hart has claimed it.
`uart_init` turns the transmit interrupt on and nothing acknowledges it but the next
claim, so that a character that is sent costs an interrupt without a byte.

### UserTrap

The module follows the one pointer that matters, the trapframe's, through a0,
sscratch and the two page tables. `sscratch` is what the reset left in it, an
address that neither table maps; `data` is any other address of the kernel, through
which `user_vector` would save registers and fetch a stack and a jump target: the
hart is then `lost`.

### UserCopy

Every byte carries where it came from, so that the properties can say which bytes
arrived where. Any table of three pages (absent, kernel only, readable, writable),
any address, several lengths.

### AddressSpace

A call is one step: no other hart sees the space of the process. Mapped pages
are named by their addresses; `frames` counts what was taken from pmem, so that a
page that is mapped twice shows as a lost frame. A call that panics half-way leaves
the state as it was before it: nothing reads the space after a panic.

### PageTable

An entry is invalid, a table, or a physical page. A table page that pmem has free
holds junk, so that one that was not cleared shows.

## 3. Runs

| run | instance | distinct states | what it shows |
|---|---|---|---|
| `MCSpinLock` | two harts, two nested locks, handlers that print, bare push_off one deep | 61607 | exclusion, asserts, nesting, the interrupt stack, refinement of `LockSpec`, release of `print_lk` |
| `MCPMem` | two harts, regions of two pages and one page | 139977 | conservation, list, counter, refinement of `PagePool`, release |
| `MCMmapStore` | two harts, three nodes | 237744 | the same for nodes; exact listings |
| `MCMmapRegions` | three nodes, six pages, five frames, all page-aligned requests up to six pages | 207330 | the list is well formed, matches the mapping, each call does what it says, first fit, refinement of `PageSet`; no node is lost when nodes or frames run out; every call returns or panics |
| `MCUserCopy` | three pages of four bytes, lengths up to 12 | 541493 | exactness of whole-page copies and strings, access rights, termination |
| `MCAddressSpace` | 15 pages of two bytes, ten frames | 552 | the parts of the space stay apart and say what is mapped |
| `MCPageTable` | fanout two, five pages, five tables, blocks of two pages | 11463 | tree, flat map, one page per step |
| `MCHarts` | two harts; two interrupts of hart 0's timer, one of the other's; a newline, a control character and a letter typed into a FIFO of two; lines of two characters, one every second tick | 192454 | initialisation before use, exact ticks and echo, silence after a panic; every interrupt is served, every panic heard |
| `MCMmapMergeNext`, `MCMmapSplitFull`, `MCUserCopySmall`, `MCUserTrap` | | | the four findings: each violates its one property |

Bounds. Two harts are the machine's number (`NCPU`). Two nested locks are as deep as
the kernel nests. Three pages or nodes let a list be empty, have one element and have
more, with one item in flight on each hart. Six pages and three nodes leave room
for a block to join both its neighbours and a request to meet the tail of one
region, a whole region and the head of a third. The user memory of three pages
has a first, a middle and a last page. With fanout two all the levels of a table
fan out. Two interrupts of hart 0's timer are the least of which one can find the other
pending; with the other hart's one both handlers run at once. Three bytes fill the FIFO
of two and leave one to arrive while the handler runs. Deadlock is checked wherever the program may not stop; where a panic is
reachable, or the module is one call that ends, the configuration says
`CHECK_DEADLOCK FALSE`. Symmetry is used for the tables in `MCPageTable`, where all
properties are safety.

Views. `MCSpinLock` leaves `op` and `old` out of the state where they are dead;
`MCMmapRegions` and `MCMmapSplitFull` leave out the fields of nodes
that are in the store and of `dummy_head` outside a call: `mmap_region_alloc` clears
a node and both calls set `dummy_head` before they read it. States that differ only
there have the same behaviours.

Fairness. `SpinLock`: a hart keeps executing the inside of a call (weak), and a
critical section is finite: whenever a context can, again and again, release what it
has open, it does (strong, because an interrupt may take the hart away in
between). Nothing is assumed about new calls, interrupts or the winner of a
test-and-set, so that starvation of a waiter is not excluded, and it is not: the lock
is not fair. `PMem`: a hart inside a call keeps executing; its
interrupts are masked there. `Harts`: a hart executes its thread, its handler and its
output (weak), and takes an interrupt that stays pending while it has interrupts on
(weak); of the devices nothing is assumed. `UserTrap`: the hart executes. `MmapRegions` and `UserCopy`: the running call goes on.

## 4. Proofs

Each module `XProofs` extends `X` and proves, for every value of the constants that
satisfies the assumptions named in `X`, what the run `MCX` checks of safety and
refinement. All have the same shape: an invariant `IInv`, a conjunction of named
parts; one lemma per action (or per part) that the action keeps it; `Invariance`;
then a theorem for each property, which `IInv` implies. Each `IInv` was an invariant of
the run's instance before it was proved. Constant lemmas about the operators come
first in each module.

*SpinLock.* `MutualExclusion` is not inductive. The invariant says which
context can be where: a context that is not running is at rest or has been
interrupted between two steps at which interrupts are on; a lock is set exactly if
some context owns it; `cpuid` names the owner's hart between `SetOwner` and
`ClearOwner` and is `NoCPU` otherwise; `noff` counts what the running context has
pushed, and an interrupted thread has pushed nothing. From it follow
`MutualExclusion`, `NoPanic` (what `spinlock_holding` reads can be stale about other
harts but never about its own), `NestedHolds` and `IntrStack`, and that each step
is a step or a stutter of `LockSpec` (`LockRefinement`).

*PMem.* The invariant ties the memory to the ghost list: `FreeChain` inside the
critical section with the exception of the step between the link and the push, what
each program counter says about `page[c]`, that the holder of the lock is the one
hart inside the section, and that the counter is off by one exactly between the change
of the list and its update. `ConservationCorrect`,
`FreeChainCorrect` and `CountCorrect` follow, and `PoolRefinement` because the links reach exactly the pages of
the ghost list (`ReachIsList`: the first page of the list that a closed set left out
would be named by one it holds).

*MmapStore.* The same argument with two additions: a node in the hands of a call has
been cleared before the answer (`AllocExact`), and a walk of `mmap_show_nodelist` has
printed a prefix of the list and stands at its next node, which stays true because
the walk holds the lock (`ShownExact`).

*Harts.* `Order` says how much of its script each hart has left, what hart 0 has
initialised when so many statements are left, that `started` is set after all of it,
and that a hart that has interrupts on, or prints, has passed `trap_init` and
`print_init`; `InitBeforeUse` follows by looking at the next statement. `Timing` says
that the handler of a timer interrupt runs while the pending bit is set and that only
the boot hart is ever inside `timer_update`; with it `TicksExact` is inductive.
`EchoInv`: one hart at most serves the UART, exactly when the interrupt is claimed;
what it has still to send, behind what has been echoed, is the echo of what has been
read (`Echoed`), so that the echo is a prefix at every step. `Late` counts: after the
panic the characters sent late and the harts between the test of `panicked` and the
store are together fewer than the harts. That the echo of one more byte is the echo of
the bytes before it and then its own (`FlattenSeq`) needs an induction over the input;
it is done with a set of numbers and its least member, which takes no operator parameter.

*UserCopy.* The invariant says what has been moved when the loop is at the top of a
page: which bytes came from where (`Rights`: none from or to a page the user may not
touch, whatever the alignment) and, for an aligned copy of whole pages, that the offset
is a multiple of `PGSIZE` and `n` the rest of the length, so that `n` meets zero
(`Copyin`, `Copyout`). `Str` says that a string copy has moved `n` bytes, none of them a
NUL.

*AddressSpace.* `Apart` and `SpaceExact` are inductive together with the bounds of
`heap_top` and of the stack (`UstackTop` a page start above `MMAP_END`); `FramesExact`
because no call maps a page that is mapped, which follows from the parts being apart.
The theorems assume `HeapRequests`: that the arguments of brk are 0 or lie
between `UHEAP_START` and the last page of the 64-bit space. It cannot be dropped,
because `sys_brk` checks neither bound (section 5, item 7): without it `Apart` is
false. All tops in between are covered, those in the middle of a page included.
`FaultCorrect` is an action property.

*PageTable.* `Good` is `TreeShape` by levels: `Mid` and `Low` are the tables of levels 1
and 0, and no two slots of the upper tables hold the same one. `Walk` says that the
table the walk stands at is the one its address leads to from the root. A slot that is
written, or a table that is hung in, moves one page only (`PageExact`, and the
refinement of `FlatMap`): that comes down to `VA_TO_VPN`, as two pages below `VA_MAX`
with the same three indices are the same page.

*MmapRegions.* `Linked` describes a list as a set of regions: the head leads to the one
that begins first, and each region to the one that begins next. A walk reaches exactly
these (`Reaches`; one that left a region out would visit more positions than there are
nodes), so that `OnList`, a walk of at most `N_MMAP` links, is the set and no
proof looks at the walk again. `InsertLinked`, `RemoveLinked`, `PutApart` and `DropCov`
say what the surgery of the code does to the set: a node linked in at its place, a node
unlinked, a region moved or resized between its neighbours, the pages it gives up.
`IInv` says for every step that the set is linked and strictly apart, covers the mapped
pages (less what the loop of `vm_mappages` has still to map), and shares no node with the
store; and for every loop what its earlier passes have shown (`Search`: no gap below
`va`; `Overlap`: no region passed meets the request; `Place`: the request lies between
`pre` and its successor; `Munmap`: nothing of the block is left before `cur`).
`WellFormed`, `Conservation`, `MappedExact`, `CallExact`, `FirstFit` and the refinement
of `PageSet` follow. `MergeStep` is where the three merges meet.

The theorems assume `Requests`. Its first line leaves out the two defects (section 5,
items 1 and 2), whose runs show `WellFormed` and `MappedExact` false without it; the
others leave out sizes and ends that wrap (item 6). An end past the area
is covered. Split, head, tail and whole removals, failures for want of a node, and a
panic for want of a frame are all covered.

Assumptions. They are in the modules (`HartAssumption`, `SizeAssumption`,
`LayoutAssumption`, ...): finite non-empty sets where the code has arrays, sizes
greater than zero, areas in the order of `mem/type.h`, at least two frames (what
`proc_make_first` takes), inputs of the types the devices can send, copies of fewer
bytes than the address space has, an mmap area of fewer pages than a 32-bit size can
span (2^14, `kernel/mem/type.h:120`, against 2^20) and far below the end of the 64-bit
space. TLC evaluates them in every run. `HeapRequests` and `Requests` are
the only hypotheses of a theorem beside them.

Only model-checked: all liveness (`LeafReleased`, `LockReturned`, `CallReturns`,
`Returns`, `Served`, `PanicHeard`), outside the prover's reach, and the findings. Every
safety property and refinement of the passing runs is a theorem. The type
invariants of `SpinLock` and `PMem` are theorems (`TypeCorrect`), not invariants of a run.

## 5. Known defects, and what the runs do about them

Four have runs of their own:

1. `kernel/mem/uvm.c:211`: a region that touches only its successor is merged with
   it, and the freed successor is linked into the list again. The third mmap of
   `src/user/initcode.c` does it. `MCMmapMergeNext`.
2. `uvm.c:359`: munmap in the middle of a region with an empty store loses the right
   part. `MCMmapSplitFull`.
3. `uvm.c:21`, `41`: the copies move by `PGSIZE` instead of `copy_len`. A copy of less
   than a page runs on past its end and returns -1. `MCUserCopySmall`. An unaligned
   copy of whole pages returns 0 with bytes missing. `CopyinExact` and
   `CopyoutExact` are therefore about aligned whole pages; `Guarded` and
   `Returns` are about all.
4. `kernel/trap/trap_user.c:94`: the trapframe is passed to `user_return` by its
   physical address, which the user's table does not map. After the change of table
   the first load faults; `user_vector`, to which stvec points already, takes its
   frame from `sscratch`, which nothing has set, and faults at its first store, for
   ever. User mode is not reached. `MCUserTrap`. Besides, interrupts are still on
   when line 76 sets stvec: one that comes there saves the kernel's registers through
   `sscratch` (`Interrupts` = TRUE in `UserTrap`); and `sepc` is never written from the
   trapframe, so that a return from a system call would repeat it.

Others were met while modelling; their inputs are kept out of the passing runs, or the
properties say what the code does:

5. `uvm.c:481`: the destruction of a space unmaps the trapframe instead of the first
   stack page, which stays, and `pmem_free` panics (`Destroy` in `AddressSpace`). Line 485
   would then take the code page
   to be at 0; it is at `USER_BASE`.

6. `uvm.c:232` and the like: `npages * PGSIZE` is a 32-bit product, so that 2^20
   pages count as none. The runs ask for at most six pages and `SpanWrap` is 16.
7. `uvm.c:90`: a `new_top` in the last page of the 64-bit space rounds up to 0
   (line 88), is taken for one that needs no new page and becomes `heap_top`, past
   `MMAP_BEGIN`, which `README.md:222` forbids; with such a top among its constants
   `MCAddressSpace` finds `Apart` violated. A `new_top` below `UHEAP_START` unmaps the
   code page. The tops of the run and `HeapRequests` of the theorems leave out both.
8. An unaligned `begin` passes the checks of mmap and ends in an assertion of
   `vm_mappages` with the region already on the list.
9. `kernel/mem/kvm.c:157`: two pages are mapped for the kernel stack, one is allocated.
10. `mmap_init` inserts at the head, so the first listing is descending where
    `README.md:437` expects `node X index = X`.
11. `kernel/trap/type.h:29` has `ticks` go up with every timer interrupt. One that finds
    the one before it still pending (the handler clears the bit last, line 149 of
    `trap_kernel.c`) does not count: `merged` in `TicksExact`. Every hart prints `tick=N`
    when it reads a multiple of 100, 0 included, and more than once if hart 0 is slow.
12. An echo takes no lock, and comes out in the middle of another hart's line.
13. `uvm_copy_pgtbl`, which nothing calls, gives `uvm_copyin` the child's page table plus an
    offset as the buffer for the heap, so that it writes behind the root table instead of
    into the child's pages; it takes the code page for part of nothing; its `fail` path
    ends in the panic of item 5; and `p_new->mmap` is left unset when the parent has no
    region. A model of it would be one of memory it destroys.
14. The rollback of `uvm_heap_grow`, `uvm_ustack_grow` and `uvm_mmap` is dead: `pmem_alloc`
    panics instead of returning 0.

## 6. Not modelled, and the plan

Not modelled: `uvm_copy_pgtbl` (item 13); `swtch.S`, which nothing calls; what `boot/` and
`timer_init` do in M-mode before `main`, when no hart sees another; `kvm_init`, a fixed list
of mappings; the formatting of `printf`, `vm_print`; permission bits of kernel mappings;
the table lookup of `syscall` and the argument registers; `utils.c` and the headers. In
`Harts` a panic comes from hart 0's allocations only, not from the asserts of the trap
handlers and the locks (`NoPanic` shows that the latter hold).

Order of the work:

1. (done) the lock, the two allocators, mmap, the copies, the address space, the page
   table; proofs of the lock and of the page allocator.
2. (done) boot, timer, UART, PLIC and panic on both harts; the way to user mode.
3. (done) `MmapStoreProofs`, `HartsProofs`, `UserCopyProofs`, `AddressSpaceProofs`,
   `PageTableProofs`, `MmapRegionsProofs`: every safety property and refinement of the
   passing runs.
4. `Requests` without its bounds on sizes: what a request whose size wraps at 2^32 still
   keeps. Then the composition of `AddressSpace` with `MmapRegions` in place of `PageSet`.
