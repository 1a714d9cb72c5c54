------------------------------- MODULE MCPMem -------------------------------
(* Two harts on a kernel region of two pages and a user region of one, so that
   lists run empty, regions meet and a wrong region can be named. *)
EXTENDS PMem

CONSTANTS h0, h1
Harts == {h0, h1}
=============================================================================
