---------------------------- MODULE MCKeyRotation ----------------------------
(* A small release machine: two keys in use, one revoked. *)
EXTENDS KeyRotation, TLC
CONSTANTS A, B, R
Order(signer, current, previous, window, counter) ==
    [signer |-> signer, current |-> current, previous |-> previous, window |-> window, counter |-> counter]
\* To and fro between the two keys, with and without overlap, and one to the revoked key.
MCOrders ==
    {Order(A, B, A, 2, 1), Order(B, A, B, 2, 2), Order(B, A, NoKey, 0, 3), Order(A, R, A, 1, 2), Order(A, A, NoKey, 1, 3)}
MCSymmetry == Permutations(Boards)
=============================================================================
