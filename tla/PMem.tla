-------------------------------- MODULE PMem --------------------------------
(* The physical page allocator (mem/pmem.c): a kernel region and a user region,
   each a LIFO list threaded through the first word of its free pages and
   guarded by a spinlock, used by all harts at once.

   A page is its number (address / PGSIZE).  The lock is the one that SpinLock
   implements; between acquire and release each store is a step, because the
   pages themselves are visible to whoever still uses them.  The ghost `free'
   is the list the code means; nothing in the code reads it. *)
EXTENDS Integers, Sequences

CONSTANTS CPU,         \* the harts
          NoCPU,       \* nobody: the holder of a free lock
          AllocBegin,  \* first page of the kernel region (ALLOC_BEGIN)
          KernPages,   \* pages of the kernel region (KERN_PAGES)
          AllocEnd     \* the page after the user region (ALLOC_END)

ASSUME CPUAssumption == NoCPU \notin CPU
(* The asserts of pmem_init; page 0 is NULL and is never managed. *)
ASSUME RangeAssumption ==
  /\ AllocBegin \in Nat \ {0}
  /\ KernPages \in Nat
  /\ AllocEnd \in Nat
  /\ AllocBegin + KernPages <= AllocEnd

Region == {"kern", "user"}
Begin(r) == IF r = "kern" THEN AllocBegin ELSE AllocBegin + KernPages
End(r)   == IF r = "kern" THEN AllocBegin + KernPages ELSE AllocEnd
PagesOf(r) == Begin(r) .. End(r) - 1
Page == AllocBegin .. AllocEnd - 1
Null == 0

VARIABLES head,       \* region->list_head.next
          allocable,  \* region->allocable
          word,       \* the first word of each page: `next' while it is free
          holder,     \* who holds region->lk
          pc, reg,    \* where a hart is, and `region' of its call
          page,       \* `page' of its call
          owned,      \* the pages that callers have
          free        \* ghost: the free list of each region, head first

vars == <<head, allocable, word, holder, pc, reg, page, owned, free>>
local == <<reg, page>>

PC == {"run", "a_acquire", "a_pick", "a_empty", "a_unlink", "a_count",
       "a_release", "a_clear", "f_acquire", "f_link", "f_push", "f_count",
       "f_release", "panic"}
InSection == PC \ {"run", "a_acquire", "a_clear", "f_acquire", "panic"}

LK == INSTANCE LockSpec WITH Agent <- CPU, Lock <- Region, NoAgent <- NoCPU

(* region_setup pushes the pages in ascending order: the last is the head. *)
Init == /\ head = [r \in Region |-> IF Begin(r) < End(r) THEN End(r) - 1 ELSE Null]
        /\ allocable = [r \in Region |-> End(r) - Begin(r)]
        /\ word = [p \in Page |-> IF \E r \in Region : p = Begin(r) THEN Null ELSE p - 1]
        /\ LK!Init
        /\ pc = [c \in CPU |-> "run"]
        /\ reg = [c \in CPU |-> "kern"]
        /\ page = [c \in CPU |-> Null]
        /\ owned = {}
        /\ free = [r \in Region |-> [i \in 1 .. End(r) - Begin(r) |-> End(r) - i]]

Step(c, from, to) == pc[c] = from /\ pc' = [pc EXCEPT ![c] = to]

-----------------------------------------------------------------------------
(* pmem_alloc *)
CallAlloc(c, r) == /\ Step(c, "run", "a_acquire")
                   /\ reg' = [reg EXCEPT ![c] = r]
                   /\ UNCHANGED <<head, allocable, word, holder, page, owned, free>>

AllocAcquire(c) == /\ Step(c, "a_acquire", "a_pick")
                   /\ LK!Acquire(c, reg[c])
                   /\ UNCHANGED <<head, allocable, word, local, owned, free>>

AllocPick(c) == /\ Step(c, "a_pick", IF head[reg[c]] = Null THEN "a_empty" ELSE "a_unlink")
                /\ page' = [page EXCEPT ![c] = head[reg[c]]]
                /\ UNCHANGED <<head, allocable, word, holder, reg, owned, free>>

(* Mutant: the empty region panics without giving the lock back. *)
AllocEmptyKeepsLock(c) == /\ Step(c, "a_empty", "panic")
                          /\ UNCHANGED <<head, allocable, word, holder, local, owned, free>>

(* An empty region: the lock is given back before the panic. *)
AllocEmpty(c) == /\ Step(c, "a_empty", "panic")
                 /\ LK!Release(c, reg[c])
                 /\ UNCHANGED <<head, allocable, word, local, owned, free>>

(* Mutant: list_head.next is not moved to the next page. *)
AllocUnlinkForgotten(c) == /\ Step(c, "a_unlink", "a_count")
                           /\ UNCHANGED <<head, allocable, word, holder, local, owned, free>>

AllocUnlink(c) == /\ Step(c, "a_unlink", "a_count")
                  /\ head' = [head EXCEPT ![reg[c]] = word[page[c]]]
                  /\ free' = [free EXCEPT ![reg[c]] = Tail(@)]
                  /\ UNCHANGED <<allocable, word, holder, local, owned>>

AllocCount(c) == /\ Step(c, "a_count", "a_release")
                 /\ allocable' = [allocable EXCEPT ![reg[c]] = @ - 1]
                 /\ UNCHANGED <<head, word, holder, local, owned, free>>

AllocRelease(c) == /\ Step(c, "a_release", "a_clear")
                   /\ LK!Release(c, reg[c])
                   /\ UNCHANGED <<head, allocable, word, local, owned, free>>

(* memset outside the lock, then the page is the caller's. *)
AllocClear(c) == /\ Step(c, "a_clear", "run")
                 /\ word' = [word EXCEPT ![page[c]] = 0]
                 /\ owned' = owned \cup {page[c]}
                 /\ UNCHANGED <<head, allocable, holder, local, free>>

-----------------------------------------------------------------------------
(* pmem_free(p, in_kernel) of a page the caller has.  A page of the other
   region is refused by the range assert; the caller still has it. *)
CallFree(c, p, r) ==
  /\ Step(c, "run", IF p \in PagesOf(r) THEN "f_acquire" ELSE "panic")
  /\ p \in owned
  /\ reg' = [reg EXCEPT ![c] = r]
  /\ page' = [page EXCEPT ![c] = p]
  /\ owned' = IF p \in PagesOf(r) THEN owned \ {p} ELSE owned
  /\ UNCHANGED <<head, allocable, word, holder, free>>

(* Mutant: pmem_free does not wait for the region's lock. *)
FreeAcquireBarges(c) == /\ Step(c, "f_acquire", "f_link")
                        /\ holder' = [holder EXCEPT ![reg[c]] = c]
                        /\ UNCHANGED <<head, allocable, word, local, owned, free>>

FreeAcquire(c) == /\ Step(c, "f_acquire", "f_link")
                  /\ LK!Acquire(c, reg[c])
                  /\ UNCHANGED <<head, allocable, word, local, owned, free>>

(* Mutant: page->next keeps what its owner wrote there. *)
FreeLinkForgotten(c) == /\ Step(c, "f_link", "f_push")
                        /\ UNCHANGED <<head, allocable, word, holder, local, owned, free>>

FreeLink(c) == /\ Step(c, "f_link", "f_push")
               /\ word' = [word EXCEPT ![page[c]] = head[reg[c]]]
               /\ UNCHANGED <<head, allocable, holder, local, owned, free>>

FreePush(c) == /\ Step(c, "f_push", "f_count")
               /\ head' = [head EXCEPT ![reg[c]] = page[c]]
               /\ free' = [free EXCEPT ![reg[c]] = <<page[c]>> \o @]
               /\ UNCHANGED <<allocable, word, holder, local, owned>>

(* Mutant: no increment. *)
FreeCountForgotten(c) == /\ Step(c, "f_count", "f_release")
                         /\ UNCHANGED <<head, allocable, word, holder, local, owned, free>>

FreeCount(c) == /\ Step(c, "f_count", "f_release")
                /\ allocable' = [allocable EXCEPT ![reg[c]] = @ + 1]
                /\ UNCHANGED <<head, word, holder, local, owned, free>>

FreeRelease(c) == /\ Step(c, "f_release", "run")
                  /\ LK!Release(c, reg[c])
                  /\ UNCHANGED <<head, allocable, word, local, owned, free>>

-----------------------------------------------------------------------------
(* The owner of a page writes what it likes into it. *)
UsePage(p, v) == /\ p \in owned
                 /\ word' = [word EXCEPT ![p] = v]
                 /\ UNCHANGED <<head, allocable, holder, pc, local, owned, free>>

Inside(c) == \/ AllocAcquire(c) \/ AllocPick(c) \/ AllocEmpty(c) \/ AllocUnlink(c)
             \/ AllocCount(c) \/ AllocRelease(c) \/ AllocClear(c)
             \/ FreeAcquire(c) \/ FreeLink(c) \/ FreePush(c) \/ FreeCount(c)
             \/ FreeRelease(c)

Next == \/ \E c \in CPU : \/ Inside(c)
                          \/ \E r \in Region : \/ CallAlloc(c, r)
                                               \/ \E p \in Page : CallFree(c, p, r)
        \/ \E p \in Page, v \in Page \cup {Null} : UsePage(p, v)

Spec == Init /\ [][Next]_vars

(* A hart inside a call keeps executing (its interrupts are masked there). *)
FairSpec == Spec /\ \A c \in CPU : WF_vars(Inside(c))

-----------------------------------------------------------------------------
TypeOK == /\ head \in [Region -> Page \cup {Null}]
          /\ allocable \in [Region -> Nat]
          /\ word \in [Page -> Page \cup {Null}]
          /\ holder \in [Region -> CPU \cup {NoCPU}]
          /\ pc \in [CPU -> PC]
          /\ reg \in [CPU -> Region]
          /\ page \in [CPU -> Page \cup {Null}]
          /\ owned \in SUBSET Page
          /\ free \in [Region -> Seq(Page)]

Listed(r) == {free[r][i] : i \in DOMAIN free[r]}

(* The pages that are in the hands of a call and of nobody else. *)
Carries(c) == pc[c] \in {"a_count", "a_release", "a_clear",
                         "f_acquire", "f_link", "f_push"}

ListedOnce ==
  \A r \in Region : /\ Listed(r) \subseteq PagesOf(r) \ owned
                    /\ \A i, j \in DOMAIN free[r] : free[r][i] = free[r][j] => i = j
CarriedOnce ==
  /\ \A c \in CPU : Carries(c) => /\ page[c] \in Page \ owned
                                  /\ \A r \in Region : page[c] \notin Listed(r)
  /\ \A c, d \in CPU : Carries(c) /\ Carries(d) /\ page[c] = page[d] => c = d
NoneLost ==
  \A p \in Page :
    \/ p \in owned
    \/ \E r \in Region : p \in Listed(r)
    \/ \E c \in CPU : Carries(c) /\ page[c] = p

(* No page is handed out twice or lost: each is on the list of its region once,
   or carried by one hart's call, or with its caller, and never in two of these
   places, whatever owners have written into their pages. *)
Conservation == ListedOnce /\ CarriedOnce /\ NoneLost

(* The words in memory are the list: from the head, page by page, to NULL. *)
FreeChain ==
  \A r \in Region :
    LET n == Len(free[r])
    IN  /\ head[r] = IF n = 0 THEN Null ELSE free[r][1]
        /\ \A i \in 1 .. n :
             word[free[r][i]] = IF i = n THEN Null ELSE free[r][i + 1]

(* region->allocable is the length of the list whenever the lock is free, and
   never wraps below zero; an allocation panics only on an empty list. *)
CountExact ==
  /\ \A r \in Region : holder[r] = NoCPU => allocable[r] = Len(free[r])
  /\ \A c \in CPU : pc[c] = "a_empty" => Len(free[reg[c]]) = 0 /\ allocable[reg[c]] = 0

(* The pages that the links in memory reach from the list head: the least set
   that holds the first page and, with a page, the one its first word names. *)
Closed(S, h, w) == h \in S \cup {Null} /\ \A p \in S : w[p] \in S \cup {Null}
Reached(r) == {p \in Page : \A S \in SUBSET Page : Closed(S, head[r], word) => p \in S}

(* What the links in memory reach in the two regions is the pool of PagePool: a
   call adds or removes one page, at one step, and neither a hart that reads the
   head beside another nor an owner who writes into his page changes it. *)
PP == INSTANCE PagePool WITH pool <- [r \in Region |-> Reached(r)]
ImplementsPool == PP!Spec

(* The region's lock always comes back, also from the call that panics. *)
LockReturned == \A r \in Region : (holder[r] # NoCPU) ~> (holder[r] = NoCPU)
=============================================================================
