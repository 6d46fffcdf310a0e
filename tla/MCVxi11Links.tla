--------------------------- MODULE MCVxi11Links ---------------------------
(* Two core connections and two links to one instrument.                   *)
EXTENDS Vxi11Links

CONSTANTS c1, c2
=============================================================================
