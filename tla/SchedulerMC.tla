---------------------------- MODULE SchedulerMC ----------------------------
(* The dispatcher's thread, which stops events, and a network thread, which *)
(* throws the ids away; three events.                                       *)
EXTENDS Scheduler, TLC

CONSTANTS dispatcher, network, e1, e2, e3

MCClient == {dispatcher, network}
MCStopper == {dispatcher}
MCEvent == {e1, e2, e3}
Symmetry == Permutations(MCEvent)
=============================================================================
