-------------------------- MODULE MCHislipExchange --------------------------
(* A short exchange: both modes, messages of two parts, replies of two     *)
(* chunks and two device clears.                                           *)
EXTENDS HislipExchange
=============================================================================
