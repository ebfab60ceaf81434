---------------------------- MODULE MCImageFiles ----------------------------
(* Two names, one in firmware/ and one picked by hand; two images for the main board, one for the slave, one for neither. *)
EXTENDS ImageFiles

CONSTANTS kept, picked, m1, m2, s, bad

MCNames == {kept, picked}
MCFolder == {kept}
MCImages == {m1, m2, s, bad}
MCFits == [i \in MCImages |-> CASE i \in {m1, m2} -> {"master"} [] i = s -> {"slave"} [] OTHER -> {}]

Bare(i) == [img |-> i, sha |-> None, man |-> None, rec |-> None]
Man(i, b) == [of |-> i, board |-> b, hmac |-> TRUE]
Full(i, b) == [img |-> i, sha |-> i, man |-> Man(i, b), rec |-> None]

\* Nothing; a release of the main board; an own build; a release for another
\* hardware; an old digest left beside a new image; a manifest of another
\* image, one without a digest and one that names no board and has no HMAC; a
\* slave image with and without its record; a file that is no image.
MCKits == [n \in MCNames |->
    IF n = picked THEN {Full(m1, "master"), Bare(bad)}
    ELSE {Bare(None), Full(m1, "master"), Bare(m1), Full(m1, "other"),
          [Bare(m2) EXCEPT !.sha = m1], [Full(m2, "master") EXCEPT !.man.of = m1],
          [Bare(m1) EXCEPT !.man = Man(None, "master")],
          [Full(m1, None) EXCEPT !.man.hmac = FALSE],
          Full(s, "slave"), [Full(s, "slave") EXCEPT !.rec = s]}]
MCPublished == {Full(m2, "master"), [Bare(m2) EXCEPT !.sha = m2], Full(s, "slave")}
=============================================================================
