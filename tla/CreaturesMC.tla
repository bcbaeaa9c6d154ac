----------------------------- MODULE CreaturesMC -----------------------------
(****************************************************************************)
(* A player and two monsters.  Hunt: a spawn of one block, and no summons.  *)
(* Tame: the monster of a spawn may be convinced.  Summon: a player or a    *)
(* wild monster summons the other one.  Order: and what the player attacks, *)
(* its summons attack.  Banish: a script removes one of them.               *)
(****************************************************************************)
EXTENDS Creatures

CONSTANTS p, m1, m2

MCVectors == {{p}, {m1}, {m2}, {p, m1, m2}}
MCOrder == <<m1, p, m2>>

HuntScene == [blocks |-> {1}, summons |-> 0, births |-> 2,
              mortal |-> {p, m1, m2}, kicked |-> {p}, orders |-> TRUE]
TameScene == [blocks |-> {1}, summons |-> 1, births |-> 1,
              mortal |-> {p, m1, m2}, kicked |-> {p, m1, m2}, orders |-> TRUE]
SummonScene == [blocks |-> {}, summons |-> 2, births |-> 2,
                mortal |-> {m1, m2}, kicked |-> {p}, orders |-> FALSE]
OrderScene == [blocks |-> {}, summons |-> 2, births |-> 2,
               mortal |-> {m1}, kicked |-> {}, orders |-> TRUE]
BanishScene == [blocks |-> {}, summons |-> 2, births |-> 2,
                mortal |-> {p}, kicked |-> {m1}, orders |-> FALSE]

MCScenes == {HuntScene, TameScene, SummonScene, OrderScene, BanishScene}
=============================================================================
