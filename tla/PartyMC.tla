------------------------------- MODULE PartyMC -------------------------------
(* Three players and two parties at a time. *)
EXTENDS Party, TLC

CONSTANTS p1, p2, p3, a1, a2, here, there

MCPlayer == {p1, p2, p3}
MCAddress == {a1, a2}
MCAreas == {here, there}
Symmetry == Permutations(MCPlayer) \cup Permutations(MCAddress) \cup Permutations(MCAreas)
=============================================================================
