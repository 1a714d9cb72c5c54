----------------------------- MODULE MCMmapStore -----------------------------
(* Two harts on a store of three nodes: it runs empty with nodes in flight. *)
EXTENDS MmapStore

CONSTANTS h0, h1
Harts == {h0, h1}
=============================================================================
