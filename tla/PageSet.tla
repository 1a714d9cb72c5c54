------------------------------- MODULE PageSet -------------------------------
(* What mmap and munmap are for: a set of allocated pages of a fixed area, to
   which mmap adds a block of free pages and from which munmap removes the pages
   of a block.  Regions, their list and their nodes are not in it. *)
EXTENDS Integers

CONSTANT Area     \* the pages that may be allocated, an interval

VARIABLE alloc    \* the pages that are

Block(b, n) == b .. b + n - 1

Init == alloc = {}

Map(b, n) == /\ Block(b, n) \subseteq Area \ alloc
             /\ alloc' = alloc \cup Block(b, n)

Unmap(b, n) == alloc' = alloc \ Block(b, n)

Next == \E p, q \in Area : Map(p, q - p + 1) \/ Unmap(p, q - p + 1)

Spec == Init /\ [][Next]_alloc
=============================================================================
