---------------------------- MODULE MCNodePicker ----------------------------
(* Two boards, with one address or two.                                    *)
EXTENDS NodePicker

CONSTANTS b1, b2

MCBoards == {b1, b2}
MCJumpers == {[b \in MCBoards |-> 2], [b \in MCBoards |-> IF b = b1 THEN 2 ELSE 5]}
=============================================================================
