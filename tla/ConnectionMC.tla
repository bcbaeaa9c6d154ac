---------------------------- MODULE ConnectionMC ----------------------------
(* Two output messages, so that one can wait for the write of the other. *)
EXTENDS Connection, TLC

CONSTANTS m1, m2

MCMsg == {m1, m2}
=============================================================================
