------------------------- MODULE MCHislipSessions -------------------------
(* Two clients of one instrument; the ids are the even numbers from 0 up.  *)
EXTENDS HislipSessions

CONSTANTS c1, c2
=============================================================================
