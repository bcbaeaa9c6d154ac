----------------------------- MODULE OutputPoolMC -----------------------------
(* Three messages of one client. *)
EXTENDS OutputPool, TLC

CONSTANTS c1, m1, m2, m3

MCConn == {c1}
MCMsg == {m1, m2, m3}
=============================================================================
