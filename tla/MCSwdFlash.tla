----------------------------- MODULE MCSwdFlash -----------------------------
(* Two probes, two programmers, two paths; a bootloader that fits the main board alone, one that fits both chips, an *)
(* application of the main board.                                                                                    *)
EXTENDS SwdFlash
CONSTANTS p, q, fb, fa, mb, sb, ma
MCProbes == {p, q}
MCTools == {"pyocd", "cube"}
MCFiles == {fb, fa}
MCImages == {mb, sb, ma}
MCSuits == [i \in MCImages |->
    CASE i = mb -> {<<"boot", "master">>}
      [] i = sb -> {"boot"} \X {"master", "slave"}
      [] OTHER -> {<<"app", "master">>}]
MCHeld == [f \in MCFiles |-> IF f = fb THEN mb ELSE ma]
=============================================================================
