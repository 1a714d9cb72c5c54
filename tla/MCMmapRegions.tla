--------------------------- MODULE MCMmapRegions ---------------------------
(* An area of six pages holds at most three regions apart: with three nodes the
   store runs empty, and a fourth node is never needed to split one.  Five frames
   are one page too few for the area.  The runs on the two defects have fewer
   nodes, or ask for the blocks that this one leaves out. *)
EXTENDS MmapRegions

AreaBegin == 3
AreaEnd == 9
AnyBegin == {0} \cup (AreaBegin - 1) .. AreaEnd
UpToSix == 0 .. 6

(* The fields of free nodes, and of dummy_head outside a call, are never read in
   a run whose invariant Conservation holds: they are left out of the state. *)
InUse == IF pc \in {"idle", "ret"} THEN Node \ {store[i] : i \in DOMAIN store}
         ELSE (Node \cup {Dummy}) \ {store[i] : i \in DOMAIN store}
View == <<[r \in InUse |-> <<begin[r], npages[r], next[r]>>], store, list, pages, pc,
          args, locals, ret>>
=============================================================================
