------------------------------- MODULE FlatMap -------------------------------
(* What a page table is for: a partial function from virtual pages to physical
   pages, set and cleared a page at a time. *)
CONSTANTS VPage, PPage, Unmapped

VARIABLE m      \* m[v]: the physical page of v, or Unmapped

Init == m = [v \in VPage |-> Unmapped]

MapPage(v, p) == m' = [m EXCEPT ![v] = p]
UnmapPage(v) == m' = [m EXCEPT ![v] = Unmapped]

Next == \E v \in VPage : UnmapPage(v) \/ \E p \in PPage : MapPage(v, p)

Spec == Init /\ [][Next]_m
=============================================================================
