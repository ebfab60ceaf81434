--------------------------- MODULE FirmwareUpdate ---------------------------
(***************************************************************************)
(* What an over-the-air update promises, without frames, pages or timeouts *)
(* (the module comment of flasher_protocol.py, the labels of the window):  *)
(* one update runs at a time; the board changes its image only to one that *)
(* was handed over whole; "done" is only said of an image that is on the   *)
(* board.  An update that is given up after it was handed over may still   *)
(* land.                                                                   *)
(***************************************************************************)
CONSTANTS Images, Factory

VARIABLES
    installed,  \* the image the board starts
    wanted,     \* the image of the update that runs or ran last
    handed,     \* the images handed over whole
    outcome     \* "none", "running", "done" or "failed"

Init == installed = Factory /\ wanted = Factory /\ handed = {} /\ outcome = "none"

Start(i) ==
    /\ outcome # "running"
    /\ wanted' = i /\ outcome' = "running"
    /\ UNCHANGED <<installed, handed>>

HandOver ==
    /\ outcome = "running"
    /\ handed' = handed \cup {wanted}
    /\ UNCHANGED <<installed, wanted, outcome>>

\* The board's step: it may come late, or never.
Install ==
    /\ installed' \in handed
    /\ UNCHANGED <<wanted, handed, outcome>>

Succeed ==
    /\ outcome = "running" /\ installed = wanted
    /\ outcome' = "done"
    /\ UNCHANGED <<installed, wanted, handed>>

GiveUp ==
    /\ outcome = "running"
    /\ outcome' = "failed"
    /\ UNCHANGED <<installed, wanted, handed>>

Next == (\E i \in Images : Start(i)) \/ HandOver \/ Install \/ Succeed \/ GiveUp

Spec == Init /\ [][Next]_<<installed, wanted, handed, outcome>>

=============================================================================
