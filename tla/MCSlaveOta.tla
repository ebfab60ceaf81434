----------------------------- MODULE MCSlaveOta -----------------------------
(* An image long enough for a stall to be noticed before it is sent, and one of a single block. *)
EXTENDS SlaveOta, TLC
CONSTANTS A, B
MCImages == {A, B}
MCSize == (A :> 4) @@ (B :> 1)
=============================================================================
