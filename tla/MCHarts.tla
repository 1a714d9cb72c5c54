------------------------------ MODULE MCHarts ------------------------------
(* The two harts of the machine; the timer of hart 0 fires twice, that of the
   other once; a newline, a control character and a letter are typed. *)
EXTENDS Harts

CONSTANTS h0, h1

TwoHarts == {h0, h1}
Input == <<"nl", "ctl", "key">>
Firings == [h \in TwoHarts |-> IF h = h0 THEN 2 ELSE 1]
============================================================================
