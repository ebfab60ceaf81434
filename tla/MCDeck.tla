------------------------------- MODULE MCDeck -------------------------------
(***************************************************************************)
(* Instances of Deck for TLC.                                              *)
(***************************************************************************)
EXTENDS Deck

CONSTANTS a, b

MCValues == {a, b}
=============================================================================
