----------------------------- MODULE MCVxi11Io -----------------------------
(* Two connections, each with its instrument; see Vxi11Io.cfg. *)
EXTENDS Vxi11Io
CONSTANTS c, d
=============================================================================
