----------------------------- MODULE PageTable -----------------------------
(* An Sv39 page table as kvm.c edits it: vm_getpte walks three levels and, when
   asked to, hangs in the tables that are missing; vm_mappages and
   vm_unmappages call it for every page of a block (mem/kvm.c, 15-120), and
   pgtbl_free_recursive gives the tables back (mem/uvm.c, 439-453).  A step is
   one level of a walk or the write of one PTE.

   Addresses are page numbers.  An entry is Invalid (no PTE_V), a table (no
   PTE_R, W or X) or a physical page.  One thread edits a page table at a time:
   the boot hart the kernel's, the process its own. *)
EXTENDS Integers, FiniteSets

CONSTANTS Table,       \* the kernel pages that tables are made of
          Root,        \* the table of level 2
          Fanout,      \* entries of a table (512)
          VA_MAX,      \* virtual pages
          PPage,       \* physical pages
          Invalid, Nowhere,
          MaxLen       \* the longest block that is mapped or unmapped at once

ASSUME SizeAssumption ==
  /\ Root \in Table /\ Invalid \notin Table \cup PPage
  /\ Fanout \in Nat \ {0} /\ VA_MAX \in 1 .. Fanout * Fanout * Fanout
  /\ PPage \subseteq Nat /\ PPage # {} /\ Table \cap PPage = {} /\ MaxLen \in Nat

VPage == 0 .. VA_MAX - 1
Slot == 0 .. Fanout - 1

VARIABLES entry,           \* entry[t][i]: slot i of table t
          free,            \* the kernel pages that pmem has
          pc, op,          \* "idle", "walk", "panic", "destroyed"; the call
          curr_va, end_va, curr_pa,
          level, pgtbl     \* of vm_getpte

vars == <<entry, free, pc, op, curr_va, end_va, curr_pa, level, pgtbl>>
block == <<op, end_va>>

Empty == [i \in Slot |-> Invalid]
Junk == [i \in Slot |-> CHOOSE p \in PPage : TRUE]   \* what a free page holds

Init == /\ entry = [t \in Table |-> IF t = Root THEN Empty ELSE Junk]
        /\ free = Table \ {Root}
        /\ pc = "idle" /\ op = "map"
        /\ curr_va = 0 /\ end_va = 0 /\ curr_pa = 0
        /\ level = 2 /\ pgtbl = Root

(* Mutant: level 2 is shifted by as many bits as level 1. *)
VA_TO_VPN_Short(va, l) == (IF l = 0 THEN va ELSE va \div Fanout) % Fanout

VA_TO_VPN(va, l) ==
  (CASE l = 0 -> va [] l = 1 -> va \div Fanout [] l = 2 -> va \div (Fanout * Fanout)) % Fanout

Pte == entry[pgtbl][VA_TO_VPN(curr_va, level)]
SetPte(e) == entry' = [entry EXCEPT ![pgtbl][VA_TO_VPN(curr_va, level)] = e]

-----------------------------------------------------------------------------
(* vm_mappages and vm_unmappages of n pages, n > 0, from va; the asserts on the
   block are guards. *)
Call(o, va, n, pa) ==
  /\ pc = "idle" /\ pc' = "walk"
  /\ n > 0 /\ va + n <= VA_MAX
  /\ op' = o /\ curr_va' = va /\ end_va' = va + n /\ curr_pa' = pa
  /\ level' = 2 /\ pgtbl' = Root
  /\ UNCHANGED <<entry, free>>

(* On to the page after this one, or back to the caller. *)
NextPage == /\ level' = 2 /\ pgtbl' = Root
            /\ IF curr_va + 1 = end_va
               THEN pc' = "idle" /\ curr_va' = 0 /\ curr_pa' = 0 /\ end_va' = 0
               ELSE /\ curr_va' = curr_va + 1 /\ curr_pa' = curr_pa + 1
                    /\ UNCHANGED <<pc, end_va>>

(* vm_getpte, above level 0 *)
Descend ==
  /\ pc = "walk" /\ level > 0 /\ Pte \in Table
  /\ pgtbl' = Pte /\ level' = level - 1
  /\ UNCHANGED <<entry, free, pc, curr_va, curr_pa, block>>

(* Mutant: a table is hung in, but pmem keeps it on its list. *)
AddTableFree ==
  /\ pc = "walk" /\ level > 0 /\ Pte = Invalid /\ op = "map"
  /\ \E t \in free : /\ entry' = [entry EXCEPT ![pgtbl][VA_TO_VPN(curr_va, level)] = t,
                                               ![t] = Empty]
                     /\ pgtbl' = t /\ level' = level - 1
  /\ UNCHANGED <<free, pc, curr_va, curr_pa, block>>

(* A missing table is allocated, cleared by pmem_alloc, and hung in. *)
AddTable ==
  /\ pc = "walk" /\ level > 0 /\ Pte = Invalid /\ op = "map"
  /\ \E t \in free : /\ entry' = [entry EXCEPT ![pgtbl][VA_TO_VPN(curr_va, level)] = t,
                                               ![t] = Empty]
                     /\ free' = free \ {t}
                     /\ pgtbl' = t /\ level' = level - 1
  /\ UNCHANGED <<pc, curr_va, curr_pa, block>>

(* pmem_alloc panics when the kernel region is empty; vm_mappages, when a slot of
   an upper level holds no table. *)
NoTable == /\ pc = "walk" /\ level > 0 /\ op = "map"
           /\ IF Pte = Invalid THEN free = {} ELSE Pte \notin Table
           /\ pc' = "panic"
           /\ UNCHANGED <<entry, free, curr_va, curr_pa, block, level, pgtbl>>

(* Without the right to allocate, a missing table is a page that is not mapped. *)
SkipPage == /\ pc = "walk" /\ level > 0 /\ Pte \notin Table /\ op = "unmap"
            /\ NextPage
            /\ UNCHANGED <<entry, free, op>>

SetLeaf == /\ pc = "walk" /\ level = 0 /\ op = "map"
           /\ SetPte(curr_pa)
           /\ NextPage
           /\ UNCHANGED <<free, op>>

(* Mutant: the PTE that is cleared is the first of the table. *)
ClearFirst == /\ pc = "walk" /\ level = 0 /\ op = "unmap"
              /\ entry' = [entry EXCEPT ![pgtbl][0] = Invalid]
              /\ NextPage
              /\ UNCHANGED <<free, op>>

ClearLeaf == /\ pc = "walk" /\ level = 0 /\ op = "unmap"
             /\ SetPte(Invalid)
             /\ NextPage
             /\ UNCHANGED <<free, op>>

-----------------------------------------------------------------------------
(* The tables below the table t. *)
Children(t) == {entry[t][i] : i \in Slot} \cap Table
Below(S) == UNION {Children(t) : t \in S}
Tree == {Root} \cup Below({Root}) \cup Below(Below({Root}))

(* pgtbl_free_recursive(pgtbl, 2): a table after those that hang in it. *)
Destroy == /\ pc = "idle" /\ pc' = "destroyed"
           /\ free' = free \cup Tree
           /\ UNCHANGED <<entry, op, curr_va, end_va, curr_pa, level, pgtbl>>

Next == \/ \E va \in VPage, n \in 1 .. MaxLen :
             \/ Call("unmap", va, n, 0)
             \/ \E pa \in PPage : pa .. pa + n - 1 \subseteq PPage /\ Call("map", va, n, pa)
        \/ Descend \/ AddTable \/ NoTable \/ SkipPage \/ SetLeaf \/ ClearLeaf
        \/ Destroy

Spec == Init /\ [][Next]_vars

-----------------------------------------------------------------------------
TypeOK == /\ entry \in [Table -> [Slot -> Table \cup PPage \cup {Invalid}]]
          /\ free \subseteq Table
          /\ pc \in {"idle", "walk", "panic", "destroyed"}
          /\ op \in {"map", "unmap"}
          /\ curr_va \in VPage /\ end_va \in 0 .. VA_MAX /\ curr_pa \in Nat
          /\ level \in 0 .. 2 /\ pgtbl \in Table

(* The tables are a tree: those of the two upper levels hold tables only, those
   of the lowest physical pages only, and no table hangs in two slots; every
   kernel page is either in the tree or free, and all are free again when the
   table has been destroyed. *)
TreeShape ==
  LET upper == {Root} \cup Below({Root})
      lower == Below(Below({Root}))
  IN  /\ TypeOK
      /\ \A t \in upper, i \in Slot : entry[t][i] \in Table \cup {Invalid}
      /\ \A t \in lower, i \in Slot : entry[t][i] \in PPage \cup {Invalid}
      /\ Root \notin Below(upper)
      /\ \A t, u \in upper, i, j \in Slot :
           entry[t][i] = entry[u][j] /\ entry[t][i] \in Table => t = u /\ i = j
      /\ free = IF pc = "destroyed" THEN Table ELSE Table \ Tree

(* The walk as the hardware does it. *)
Lookup(v) ==
  LET t1 == entry[Root][VA_TO_VPN(v, 2)]
      t0 == IF t1 \in Table THEN entry[t1][VA_TO_VPN(v, 1)] ELSE Invalid
      p  == IF t0 \in Table THEN entry[t0][VA_TO_VPN(v, 0)] ELSE Invalid
  IN  IF p \in PPage THEN p ELSE Nowhere

(* The tree is a flat map from virtual to physical pages: each step of each call
   changes one page of it, the one the call is at, or none. *)
FM == INSTANCE FlatMap WITH Unmapped <- Nowhere, m <- [v \in VPage |-> Lookup(v)]
ImplementsMap == FM!Spec

(* A step changes the translation of the page the call is at and of no other,
   and when the call leaves the page it is mapped to the physical page that
   belongs to it, or not mapped, whatever was there and whatever tables were
   missing. *)
PageExact ==
  [][\A v \in VPage :
       IF v # curr_va THEN Lookup(v)' = Lookup(v)
       ELSE pc = "walk" /\ (pc' = "idle" \/ (pc' = "walk" /\ curr_va' # v)) =>
              Lookup(v)' = IF op = "map" THEN curr_pa ELSE Nowhere]_vars
=============================================================================
