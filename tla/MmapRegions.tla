----------------------------- MODULE MmapRegions -----------------------------
(* sys_mmap and sys_munmap of one process (mem/uvm.c, 184-431): the list of
   mmap_region nodes the process holds, the store they come from, and the pages
   that are mapped.  One process makes one call at a time; a step is one pass of
   one of the loops, or the straight code between two loops.

   Addresses are pages.  `npages * PGSIZE' is a product of 32-bit operands, so
   a span wraps at 2^20 pages (SpanWrap); an address wraps at 2^52 pages
   (AddrWrap).  Every request is page-aligned: an unaligned begin ends in an
   assertion of vm_mappages.  `store' is the list of MmapStore, head first. *)
EXTENDS Integers, Sequences, FiniteSets

CONSTANTS N_MMAP,           \* nodes
          MMAP_BEGIN, MMAP_END,
          SpanWrap, AddrWrap,
          Frames,           \* user pages that pmem has for the area
          Begins, Lengths,  \* the requests: pages, 0 in Begins is `anywhere'
          NextOnlyMerge,    \* may a block be asked that touches only its successor?
          FullStoreSplit    \* may a region be split when the store is empty?

ASSUME BoundsAssumption ==
  /\ {MMAP_BEGIN, MMAP_END, AddrWrap} \subseteq Nat
  /\ 0 < MMAP_BEGIN /\ MMAP_BEGIN < MMAP_END
  /\ N_MMAP \in Nat \ {0} /\ Frames \in Nat /\ SpanWrap \in Nat \ {0}
  /\ MMAP_END - MMAP_BEGIN < SpanWrap        \* 64 * 256 pages, mem/type.h:120
  /\ MMAP_END + SpanWrap <= AddrWrap         \* below VA_MAX
  /\ Begins \subseteq 0 .. AddrWrap - 1 /\ Lengths \subseteq Nat
  /\ {NextOnlyMerge, FullStoreSplit} \subseteq BOOLEAN

Node == 1 .. N_MMAP
Null == 0
Dummy == N_MMAP + 1        \* dummy_head, on the kernel stack
Area == MMAP_BEGIN .. MMAP_END - 1
Fail == AddrWrap           \* -1 as a return value

VARIABLES begin, npages, next,  \* the fields of each node, and of dummy_head
          store,                \* the free nodes
          list,                 \* p->mmap
          mapped, frames,       \* the mapped pages; the frames taken from pmem
          pc, op, want, len,    \* where the call is; which; its arguments, in pages
          pre, cur, new, va,    \* its locals; va also stands for search_begin
          ret,                  \* its result
          before                \* ghost: the pages allocated when it began

nodes == <<begin, npages, next>>
pages == <<mapped, frames>>
args == <<op, want, len, before>>
locals == <<pre, cur, new, va>>
vars == <<nodes, store, list, pages, pc, args, locals, ret>>

Span(n) == n % SpanWrap
Plus(a, n) == (a + Span(n)) % AddrWrap
EndOf(r) == Plus(begin[r], npages[r])
End == Plus(want, len)              \* req_end, va_end, end

Goto(l) == pc' = l
Return(v) == Goto("ret") /\ ret' = v

-----------------------------------------------------------------------------
(* The pages that the regions on a list cover; a list that never ends is cut
   where it repeats. *)
Walk(from) == LET at[k \in 0 .. N_MMAP] ==
                    IF k = 0 THEN from
                    ELSE IF at[k - 1] = Null THEN Null ELSE next[at[k - 1]]
              IN  at
OnList(from) == {Walk(from)[k] : k \in 0 .. N_MMAP} \ {Null}
Covered(from) == UNION {begin[r] .. EndOf(r) - 1 : r \in OnList(from)}

(* munmap edits the list behind dummy_head and stores p->mmap at the end. *)
ListHead == IF pc = "u_walk" THEN next[Dummy] ELSE list

Init == /\ begin = [r \in Node \cup {Dummy} |-> 0]
        /\ npages = [r \in Node \cup {Dummy} |-> 0]
        /\ next = [r \in Node \cup {Dummy} |-> Null]
        /\ store = [i \in 1 .. N_MMAP |-> N_MMAP + 1 - i]
        /\ list = Null
        /\ mapped = {} /\ frames = 0
        /\ pc = "idle" /\ op = "mmap" /\ want = 0 /\ len = 0 /\ ret = 0 /\ before = {}
        /\ pre = Null /\ cur = Null /\ new = Null /\ va = 0

-----------------------------------------------------------------------------
(* The two calls.  The guards with the constants keep the environment away from
   the two defects that have runs of their own. *)
Fits(b, n) == b .. b + n - 1 \subseteq Area \ Covered(list)
Lowest(n) == IF \E b \in Area : Fits(b, n)
             THEN CHOOSE b \in Area : Fits(b, n) /\ \A a \in Area : Fits(a, n) => b <= a
             ELSE 0
TouchesNextOnly(b, n) == /\ \E r \in OnList(list) : begin[r] = Plus(b, n)
                         /\ \A r \in OnList(list) : EndOf(r) # b
SplitsARegion(b, n) == \E r \in OnList(list) : begin[r] < b /\ Plus(b, n) < EndOf(r)

CallMmap(b, n) ==
  /\ pc = "idle"
  /\ NextOnlyMerge \/ ~ TouchesNextOnly(IF b = 0 THEN Lowest(n) ELSE b, n)
  /\ op' = (IF b = 0 THEN "mmap_any" ELSE "mmap") /\ want' = b /\ len' = n
  /\ before' = Covered(list)
  /\ IF n = 0 THEN Return(Fail) ELSE Goto("m_alloc") /\ UNCHANGED ret
  /\ UNCHANGED <<nodes, store, list, pages, locals>>

CallMunmap(b, n) ==
  /\ pc = "idle"
  /\ FullStoreSplit \/ store # <<>> \/ ~ SplitsARegion(b, n)
  /\ op' = "munmap" /\ want' = b /\ len' = n
  /\ before' = Covered(list)
  /\ begin' = [begin EXCEPT ![Dummy] = 0]
  /\ npages' = [npages EXCEPT ![Dummy] = 0]
  /\ next' = [next EXCEPT ![Dummy] = list]
  /\ pre' = Dummy /\ cur' = list
  /\ IF n = 0 THEN Return(0) ELSE Goto("u_walk") /\ UNCHANGED ret
  /\ UNCHANGED <<store, list, pages, new, va>>

Finish == /\ pc = "ret" /\ Goto("idle")
          /\ pre' = Null /\ cur' = Null /\ new' = Null /\ va' = 0
          /\ op' = "mmap" /\ want' = 0 /\ len' = 0 /\ ret' = 0 /\ before' = {}
          /\ UNCHANGED <<nodes, store, list, pages>>

-----------------------------------------------------------------------------
(* uvm_mmap *)
MmapAlloc ==
  /\ pc = "m_alloc"
  /\ IF store = <<>>
     THEN Return(Fail) /\ UNCHANGED <<nodes, store, locals>>
     ELSE LET n == store[1]
          IN  /\ Goto(IF want = 0 THEN "m_search" ELSE "m_overlap")
              /\ store' = Tail(store)
              /\ begin' = [begin EXCEPT ![n] = 0]
              /\ npages' = [npages EXCEPT ![n] = len]
              /\ next' = [next EXCEPT ![n] = Null]
              /\ new' = n /\ cur' = list /\ va' = MMAP_BEGIN
              /\ UNCHANGED <<pre, ret>>
  /\ UNCHANGED <<list, pages, args>>

(* Mutant: the node of a call that fails is not given back. *)
GiveUpLeaks == UNCHANGED store /\ Return(Fail)

GiveUp == /\ store' = <<new>> \o store
          /\ Return(Fail)

(* Mutant: `<' for `<=', a gap of exactly the size is passed over. *)
MmapSearchStrict ==
  /\ pc = "m_search" /\ cur # Null
  /\ IF Plus(va, len) < begin[cur]
     THEN want' = va /\ Goto("m_bounds") /\ UNCHANGED <<cur, va>>
     ELSE va' = EndOf(cur) /\ cur' = next[cur] /\ UNCHANGED <<pc, want>>
  /\ UNCHANGED <<nodes, store, list, pages, op, len, before, pre, new, ret>>

(* The search for the first gap: before each region, then behind the last. *)
MmapSearch ==
  /\ pc = "m_search" /\ cur # Null
  /\ IF Plus(va, len) <= begin[cur]
     THEN /\ want' = va
          /\ Goto(IF va = 0 THEN "m_last" ELSE "m_bounds")
          /\ UNCHANGED <<cur, va>>
     ELSE /\ va' = EndOf(cur) /\ cur' = next[cur]
          /\ UNCHANGED <<pc, want>>
  /\ UNCHANGED <<nodes, store, list, pages, op, len, before, pre, new, ret>>

MmapSearchLast ==
  /\ pc = "m_last" \/ (pc = "m_search" /\ cur = Null)
  /\ IF Plus(va, len) <= MMAP_END
     THEN want' = va /\ Goto("m_bounds") /\ UNCHANGED <<store, ret>>
     ELSE GiveUp /\ UNCHANGED want
  /\ UNCHANGED <<nodes, list, pages, op, len, before, locals>>

(* Mutant: a block that begins before a region is not seen to overlap it. *)
MmapOverlapLeft ==
  /\ pc = "m_overlap"
  /\ IF cur = Null
     THEN Goto("m_bounds") /\ UNCHANGED <<store, cur, ret>>
     ELSE IF want < EndOf(cur) /\ want >= begin[cur]
     THEN GiveUp /\ UNCHANGED cur
     ELSE cur' = next[cur] /\ UNCHANGED <<pc, store, ret>>
  /\ UNCHANGED <<nodes, list, pages, args, pre, new, va>>

MmapOverlap ==
  /\ pc = "m_overlap"
  /\ IF cur = Null
     THEN Goto("m_bounds") /\ UNCHANGED <<store, cur, ret>>
     ELSE IF want < EndOf(cur) /\ End > begin[cur]
     THEN GiveUp /\ UNCHANGED cur
     ELSE cur' = next[cur] /\ UNCHANGED <<pc, store, ret>>
  /\ UNCHANGED <<nodes, list, pages, args, pre, new, va>>

MmapBounds ==
  /\ pc = "m_bounds"
  /\ IF want < MMAP_BEGIN \/ End > MMAP_END
     THEN GiveUp /\ UNCHANGED <<nodes, pre>>
     ELSE /\ begin' = [begin EXCEPT ![new] = want, ![Dummy] = 0]
          /\ npages' = [npages EXCEPT ![Dummy] = 0]
          /\ next' = [next EXCEPT ![Dummy] = list]
          /\ pre' = Dummy
          /\ Goto("m_place") /\ UNCHANGED <<store, ret>>
  /\ UNCHANGED <<list, pages, args, cur, new, va>>

(* Mutant: the node is put at the front of the list. *)
MmapPlaceFirst ==
  /\ pc = "m_place"
  /\ Goto("m_merge")
  /\ UNCHANGED <<nodes, store, list, pages, args, locals, ret>>

MmapPlace ==
  /\ pc = "m_place"
  /\ IF next[pre] # Null /\ begin[next[pre]] < want
     THEN pre' = next[pre] /\ UNCHANGED pc
     ELSE Goto("m_merge") /\ UNCHANGED pre
  /\ UNCHANGED <<nodes, store, list, pages, args, cur, new, va, ret>>

(* mmap_merge(pre, new) as it is written: the last IF links a node that did not
   join its predecessor in front of pre->next, also when pre->next has just been
   merged into it and freed. *)
MmapMerge ==
  /\ pc = "m_merge"
  /\ LET nx == next[pre]
         joinsPre == EndOf(pre) = begin[new]
         c == IF joinsPre THEN pre ELSE new
         np == IF joinsPre THEN [npages EXCEPT ![pre] = @ + npages[new]] ELSE npages
         joinsNext == nx # Null /\ Plus(begin[c], np[c]) = begin[nx]
         nt == IF joinsNext THEN [next EXCEPT ![c] = next[nx]] ELSE next
         freed == (IF joinsNext THEN <<nx>> ELSE <<>>) \o (IF joinsPre THEN <<new>> ELSE <<>>)
     IN  /\ npages' = IF joinsNext THEN [np EXCEPT ![c] = @ + np[nx]] ELSE np
         /\ next' = IF c = pre THEN nt ELSE [nt EXCEPT ![c] = nt[pre], ![pre] = c]
         /\ store' = freed \o store
         /\ list' = next'[Dummy]
  /\ va' = want
  /\ Goto("m_map")
  /\ UNCHANGED <<begin, pages, args, pre, cur, new, ret>>

(* pmem_alloc and vm_mappages, a page at a time; pmem_alloc panics when it has
   no page, so the rollback behind it is never reached. *)
MmapMap ==
  /\ pc = "m_map"
  /\ IF va >= End
     THEN Goto("show") /\ cur' = list /\ UNCHANGED <<pages, va>>
     ELSE IF frames = Frames
     THEN Goto("panic") /\ UNCHANGED <<pages, va, cur>>
     ELSE /\ mapped' = mapped \cup {va}
          /\ frames' = frames + 1
          /\ va' = Plus(va, 1) /\ UNCHANGED <<pc, cur>>
  /\ UNCHANGED <<nodes, store, list, args, pre, new, ret>>

(* uvm_show_mmaplist, at the end of both calls *)
ShowRegion == /\ pc = "show" /\ cur # Null
              /\ cur' = next[cur]
              /\ UNCHANGED <<nodes, store, list, pages, pc, args, pre, new, va, ret>>

ShowEnd == /\ pc = "show" /\ cur = Null
           /\ Return(IF op = "munmap" THEN 0 ELSE want)
           /\ UNCHANGED <<nodes, store, list, pages, args, locals>>

-----------------------------------------------------------------------------
(* uvm_munmap: the cases of its loop, in the order of the source. *)
Walking == pc = "u_walk" /\ cur # Null

(* vm_unmappages of n pages from a, which asserts that there is one. *)
Unmap(a, n) ==
  LET gone == mapped \cap (a .. a + Span(n) - 1)
  IN  IF Span(n) = 0 THEN Goto("panic") /\ UNCHANGED pages
      ELSE /\ mapped' = mapped \ gone
           /\ frames' = frames - Cardinality(gone)
           /\ UNCHANGED pc

Skip == pre' = cur /\ cur' = next[cur]

UnmapLeft ==
  /\ Walking /\ EndOf(cur) <= want
  /\ Skip
  /\ UNCHANGED <<nodes, store, list, pages, pc, args, new, va, ret>>

Meets == Walking /\ EndOf(cur) > want /\ begin[cur] < End

UnmapWhole ==
  /\ Meets /\ want <= begin[cur] /\ End >= EndOf(cur)
  /\ Unmap(begin[cur], npages[cur])
  /\ next' = [next EXCEPT ![pre] = next[cur]]
  /\ store' = <<cur>> \o store
  /\ cur' = next[cur]
  /\ UNCHANGED <<begin, npages, list, args, pre, new, va, ret>>

Splits == Meets /\ begin[cur] < want /\ EndOf(cur) > End

(* Mutant: the right part begins where the block begins. *)
UnmapSplitAtWant ==
  /\ Splits /\ store # <<>>
  /\ LET n == store[1]
     IN  /\ store' = Tail(store)
         /\ begin' = [begin EXCEPT ![n] = want]
         /\ npages' = [npages EXCEPT ![cur] = want - begin[cur], ![n] = EndOf(cur) - want]
         /\ next' = [next EXCEPT ![n] = next[cur], ![cur] = n]
         /\ Unmap(want, len)
         /\ new' = n /\ pre' = n /\ cur' = next[cur]
  /\ UNCHANGED <<list, args, va, ret>>

(* The region is shortened before the node of its right part is asked for: it
   stays so when the store has none. *)
UnmapSplit ==
  /\ Splits
  /\ IF store = <<>>
     THEN /\ npages' = [npages EXCEPT ![cur] = want - begin[cur]]
          /\ Return(Fail)
          /\ UNCHANGED <<begin, next, store, pages, pre, cur, new>>
     ELSE LET n == store[1]
          IN  /\ store' = Tail(store)
              /\ begin' = [begin EXCEPT ![n] = End]
              /\ npages' = [npages EXCEPT ![cur] = want - begin[cur], ![n] = EndOf(cur) - End]
              /\ next' = [next EXCEPT ![n] = next[cur], ![cur] = n]
              /\ Unmap(want, len)
              /\ new' = n /\ pre' = n /\ cur' = next[cur]
              /\ UNCHANGED ret
  /\ UNCHANGED <<list, args, va>>

(* Mutant: the node keeps its begin and its size. *)
UnmapHeadKeeps ==
  /\ Meets /\ want <= begin[cur] /\ End < EndOf(cur)
  /\ Unmap(begin[cur], End - begin[cur])
  /\ UNCHANGED <<nodes, store, list, args, locals, ret>>

UnmapHead ==
  /\ Meets /\ want <= begin[cur] /\ End < EndOf(cur)
  /\ Unmap(begin[cur], End - begin[cur])
  /\ begin' = [begin EXCEPT ![cur] = End]
  /\ npages' = [npages EXCEPT ![cur] = EndOf(cur) - End]
  /\ UNCHANGED <<next, store, list, args, locals, ret>>

(* Mutant: the pages are counted from the beginning of the region. *)
UnmapTailFromBegin ==
  /\ Meets /\ want > begin[cur] /\ End >= EndOf(cur)
  /\ Unmap(begin[cur], EndOf(cur) - want)
  /\ npages' = [npages EXCEPT ![cur] = want - begin[cur]]
  /\ Skip
  /\ UNCHANGED <<begin, next, store, list, args, new, va, ret>>

UnmapTail ==
  /\ Meets /\ want > begin[cur] /\ End >= EndOf(cur)
  /\ Unmap(want, EndOf(cur) - want)
  /\ npages' = [npages EXCEPT ![cur] = want - begin[cur]]
  /\ Skip
  /\ UNCHANGED <<begin, next, store, list, args, new, va, ret>>

(* Behind the list, or at a region on the right of the block. *)
UnmapEnd ==
  /\ pc = "u_walk"
  /\ cur # Null => EndOf(cur) > want /\ begin[cur] >= End
  /\ list' = next[Dummy]
  /\ cur' = next[Dummy]
  /\ Goto("show")
  /\ UNCHANGED <<nodes, store, pages, args, pre, new, va, ret>>

-----------------------------------------------------------------------------
InCall == \/ MmapAlloc \/ MmapSearch \/ MmapSearchLast \/ MmapOverlap \/ MmapBounds
          \/ MmapPlace \/ MmapMerge \/ MmapMap
          \/ UnmapLeft \/ UnmapWhole \/ UnmapSplit
          \/ UnmapHead \/ UnmapTail \/ UnmapEnd
          \/ ShowRegion \/ ShowEnd \/ Finish

Next == \/ \E b \in Begins, n \in Lengths : CallMmap(b, n) \/ CallMunmap(b, n)
        \/ InCall

Spec == Init /\ [][Next]_vars

(* The kernel runs the call it is in. *)
FairSpec == Spec /\ WF_vars(InCall)

-----------------------------------------------------------------------------
TypeOK == /\ begin \in [Node \cup {Dummy} -> 0 .. AddrWrap - 1]
          /\ npages \in [Node \cup {Dummy} -> Nat]
          /\ next \in [Node \cup {Dummy} -> Node \cup {Null}]
          /\ store \in Seq(Node)
          /\ list \in Node \cup {Null}
          /\ mapped \subseteq 0 .. AddrWrap - 1 /\ frames \in 0 .. Frames
          /\ pc \in {"idle", "m_alloc", "m_search", "m_last", "m_overlap", "m_bounds",
                     "m_place", "m_merge", "m_map", "show", "u_walk", "ret", "panic"}
          /\ op \in {"mmap", "mmap_any", "munmap"}
          /\ want \in 0 .. AddrWrap - 1 /\ len \in Nat /\ before \subseteq Nat
          /\ {pre, cur, new} \subseteq Node \cup {Dummy, Null}
          /\ va \in 0 .. AddrWrap - 1 /\ ret \in 0 .. AddrWrap

(* README.md:453 and 457: the list of the process is in address order and ends,
   its regions lie in the area, and no two of them touch or overlap. *)
WellFormed ==
  /\ TypeOK
  /\ pc \in {"idle", "ret"} =>
       \A r \in OnList(list) :
         /\ MMAP_BEGIN <= begin[r] /\ npages[r] > 0 /\ begin[r] + npages[r] <= MMAP_END
         /\ next[r] # Null => begin[r] + npages[r] < begin[next[r]]

(* No node is lost or in two places: each is in the store once or on the list of
   the process, except the one the running call has taken. *)
Conservation ==
  /\ \A i, j \in DOMAIN store : store[i] = store[j] => i = j
  /\ OnList(ListHead) \cap {store[i] : i \in DOMAIN store} = {}
  /\ Len(store) + Cardinality(OnList(ListHead)) + (IF pc \in {"m_search", "m_last", "m_overlap",
       "m_bounds", "m_place", "m_merge"} THEN 1 ELSE 0) = N_MMAP

(* Between two calls the regions say exactly which pages are mapped, and each of
   these pages has one frame. *)
MappedExact == pc \in {"idle", "ret"} => /\ mapped = Covered(list)
                                         /\ frames = Cardinality(mapped)

(* A call does what it returns: mmap adds the block that it names, and only if it
   was free; munmap removes the pages of the block; a call that fails changes
   nothing.  `want' is the block of an mmap of any address when it returns. *)
CallExact ==
  pc = "ret" =>
    LET block == want .. want + len - 1
    IN  IF ret = Fail THEN Covered(list) = before
        ELSE IF op = "munmap" THEN Covered(list) = before \ block
        ELSE /\ ret = want /\ block \subseteq Area \ before
             /\ Covered(list) = before \cup block

(* README.md:463: with begin = 0 the block is the first gap that is large enough;
   such a call fails only for want of a gap or of a node. *)
FirstFit ==
  pc = "ret" /\ op = "mmap_any" /\ len > 0 =>
    LET Gap(b) == b .. b + len - 1 \subseteq Area \ before
    IN  IF ret = Fail THEN store = <<>> \/ \A b \in Area : ~ Gap(b)
                      ELSE \A b \in Area : Gap(b) => ret <= b

(* The regions on the list are a set of pages that grows by free blocks and
   shrinks by blocks, at one step of a call each. *)
PS == INSTANCE PageSet WITH alloc <- Covered(ListHead)
ImplementsPageSet == PS!Spec

(* Every call returns, or panics: no walk of the list goes on forever. *)
CallReturns == (pc # "idle") ~> (pc \in {"idle", "panic"})
=============================================================================
