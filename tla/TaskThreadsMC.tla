--------------------------- MODULE TaskThreadsMC ---------------------------
(* The dispatcher, the scheduler and one network thread; one event, and two *)
(* tasks of which one expires.                                              *)
EXTENDS TaskThreads, TLC

CONSTANTS network, t1, t2, e1

MCCaller == {network, SchedulerSelf}
MCClient == {network, Self}
MCStopper == {Self}
MCEvent == {e1}
MCTask == {t1, t2, ShutdownTask} \cup MCEvent
MCTimed == {t2}
=============================================================================
