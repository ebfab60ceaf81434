------------------------------ MODULE MCCanOta ------------------------------
(* Instances of CanOta for TLC: image A is two whole pages and a partial one, image B is one partial page. *)
EXTENDS CanOta, TLC

CONSTANTS A, B

MCImages == {A, B}
MCSize == (A :> 5) @@ (B :> 1)
=============================================================================
