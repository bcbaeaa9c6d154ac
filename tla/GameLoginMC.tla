----------------------------- MODULE GameLoginMC -----------------------------
(* Three clients for one character. *)
EXTENDS GameLogin, TLC

CONSTANTS p1, p2, p3

MCProtocol == {p1, p2, p3}
=============================================================================
