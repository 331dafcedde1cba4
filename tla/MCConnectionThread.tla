------------------------- MODULE MCConnectionThread -------------------------
(* ConnectionThread with bodies of up to six units, longer than a buffer,   *)
(* an int of three values and an unsigned int of six: a length of six is    *)
(* cut to nothing, and a body of three is one unit longer than the length   *)
(* assumed where none is announced.  One unit is a line end, which a line   *)
(* read out of step stops at.  The peers of a tunnel send two kinds of      *)
(* unit, and what a peer can be sent unread is less than one recv() call    *)
(* may bring: send() blocks half way.                                       *)
EXTENDS ConnectionThread
=============================================================================
