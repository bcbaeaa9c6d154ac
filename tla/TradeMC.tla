------------------------------- MODULE TradeMC -------------------------------
(* Three players, a container, a stack of coins and a letter. *)
EXTENDS Trade, TLC

CONSTANTS p1, p2, p3, bag, coins, letter

MCPlayer == {p1, p2, p3}
MCItem == {bag, coins, letter}
Symmetry == Permutations(MCPlayer)

\* No step depends on a version or a text: the properties ask only whether a step changes one.
View == <<online, trade, tradeItems, place, writeItem>>
=============================================================================
