----------------------------- MODULE MCUserCopy -----------------------------
(* Three pages of four bytes with every combination of access rights, one NUL
   anywhere or none. *)
EXTENDS UserCopy

AnyLength == {0, 1, 3, 4, 5, 8, 12}
=============================================================================
