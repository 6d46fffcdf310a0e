----------------------------- MODULE MCPrograms -----------------------------
(* Two capture clients, two USB ports; see Programs.cfg. *)
EXTENDS Programs
CONSTANTS c1, c2, p1, p2
=============================================================================
