--------------------------- MODULE MCLockRegistry ---------------------------
(* Two holders: s1 and a1 are the two channels of one HiSLIP session, t2   *)
(* is a VXI-11 connection.                                                 *)
EXTENDS LockRegistry, TLC

CONSTANTS h1, h2, t2, s1, a1

TwoChannels == (s1 :> h1) @@ (a1 :> h1) @@ (t2 :> h2)
=============================================================================
