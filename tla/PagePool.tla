------------------------------ MODULE PagePool ------------------------------
(* What the kernel's two allocators promise, pmem.c of pages and mmap.c of
   region nodes: a set of free items per region; an allocation removes some free
   item, a free returns an item of the region that is not free already.  The
   order of the free list, the counter and the lock are not promised. *)
EXTENDS Integers

CONSTANTS Region,        \* the separate stores: kern_region and user_region; node_list
          PagesOf(_)     \* the items of a store

VARIABLE pool            \* pool[r]: the free items of store r

Init == pool = [r \in Region |-> PagesOf(r)]

Alloc(r) == \E p \in pool[r] : pool' = [pool EXCEPT ![r] = @ \ {p}]

Free(r) == \E p \in PagesOf(r) \ pool[r] : pool' = [pool EXCEPT ![r] = @ \cup {p}]

Next == \E r \in Region : Alloc(r) \/ Free(r)

Spec == Init /\ [][Next]_pool
=============================================================================
