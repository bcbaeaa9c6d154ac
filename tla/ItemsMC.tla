------------------------------- MODULE ItemsMC -------------------------------
(****************************************************************************)
(* Money: coins in the hand and in a bag, as much as can be carried.        *)
(* Ring: a ring that has been worn.  Corpse: monsters die.                  *)
(* Bags: a bag in a bag.  Crowd: a bag with room for one thing.             *)
(****************************************************************************)
EXTENDS Items

CONSTANTS o1, o2, o3, o4, o5

MCObj == {o1, o2, o3, o4, o5}

MoneyScene == [limit |-> 3, capacity |-> 3, room |-> 2, things |->
  << <<"bag", 1, "player", Backpack>>, <<"gold", 1, "player", Hand>>, <<"gold", 1, "in", 1>> >>]

RingScene == [limit |-> 0, capacity |-> 3, room |-> 2, things |->
  << <<"bag", 1, "player", Backpack>>, <<"gold", 1, "player", Hand>>, <<"ring", 7, "in", 1>> >>]

CorpseScene == [limit |-> 2, capacity |-> 3, room |-> 2, things |-> << <<"bag", 1, "player", Backpack>> >>]

BagsScene == [limit |-> 1, capacity |-> 3, room |-> 2, things |->
  << <<"bag", 1, "player", Backpack>>, <<"bag", 1, "in", 1>>, <<"gold", 1, "in", 2>> >>]

CrowdScene == [limit |-> 5, capacity |-> 5, room |-> 1, things |->
  << <<"bag", 1, "player", Backpack>>, <<"gold", 1, "player", Hand>>, <<"gold", 2, "in", 1>> >>]

MCScenes == {MoneyScene, RingScene, CorpseScene, BagsScene, CrowdScene}

\* Which object stands for which item makes no difference: the states that have the
\* same view differ in that only.
DecayList(b) == IF b = Buckets THEN world.toDecay ELSE world.bucket[b]

RECURSIVE Item(_)
Item(o) ==
  << <<world.type[o], world.count[o], world.duration[o], world.total[o], world.refs[o]>>,
     <<world.decaying[o], world.offer = o, o \in world.lost, o \in world.crowded>>,
     [b \in {b \in 0..Buckets : DecayList(b) # <<>>} |->
        {i \in DOMAIN DecayList(b) : DecayList(b)[i] = o}],
     [i \in DOMAIN world.list[o] |->
        <<world.parent[world.list[o][i]] = o, Item(world.list[o][i])>>] >>

View ==
  LET loose == {o \in Obj : Exists(world, o) /\ world.parent[o] \notin Obj \cup {"player", "tile"}}
      shape == [o \in loose |-> Item(o)]
  IN  << [i \in DOMAIN world.list["tile"] |-> Item(world.list["tile"][i])],
         [s \in Slots |-> IF world.slot[s] = NoObj THEN 0 ELSE Item(world.slot[s])],
         {<<shape[o], Cardinality({p \in loose : shape[p] = shape[o]})>> : o \in loose},
         <<world.carried, world.ability, world.last, world.worn>>,
         <<world.limit, world.capacity, world.owed, world.dropped, world.unnoticed>> >>
=============================================================================
