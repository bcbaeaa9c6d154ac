------------------------------ MODULE Creatures ------------------------------
(****************************************************************************)
(* The life of creatures: how they are placed, seen, checked, die and are   *)
(* removed and freed (game.cpp, creature.cpp, monster.cpp), with the        *)
(* monsters that are idle while nobody is near, summons and their masters,  *)
(* and a spawn that replaces what was killed (spawn.cpp).                   *)
(*                                                                          *)
(* Places lie on a line; creatures see each other up to the distance Sight. *)
(* Every handler is one task of the dispatcher and so one step, which works *)
(* on the world as a whole.  The spectators of an event are told of it in   *)
(* the order in which the addresses of the objects are hashed.              *)
(****************************************************************************)
EXTENDS Integers, FiniteSets

LOCAL INSTANCE SequencesExt
LOCAL INSTANCE FiniteSetsExt
LOCAL INSTANCE Folds
LOCAL INSTANCE Functions

CONSTANTS
  Players, Monsters,  \* objects of these classes
  Nobody,             \* a NULL pointer
  Places,             \* a range of integers; monsters are spawned at 0
  Sight,              \* how far a creature sees
  Reach,              \* how far a master may go from its summons
  Zone,               \* radius of the spawn
  Roam,               \* despawnRadius
  Order,              \* in which spectators are told, a sequence of the creatures
  RateSpawn,          \* RATE_SPAWN of the configuration
  Vectors,            \* what the vectors of creatures may hold that checkCreatures() visits
  Scenes              \* what there is at the beginning: blocks, the ids of the spawn's blocks;
                      \* summons, how many a player or a monster may have (maxSummons); and
                      \* births, which bounds how many creatures come to the map; to keep the
                      \* scenes small, mortal are those who may be hurt, kicked those whom
                      \* a handler may remove, and orders says whether players give any

ASSUME CreaturesAssumption ==
  /\ Players \cap Monsters = {} /\ Nobody \notin Players \cup Monsters
  /\ 0 \in Places /\ Sight \in Nat /\ Reach >= Sight
  /\ RateSpawn \in Nat \ {0}
  /\ UNION Vectors = Players \cup Monsters
  /\ \A scene \in Scenes : scene.blocks \subseteq Nat \ {0} /\ {scene.summons, scene.births} \subseteq Nat

VARIABLES world

(* A world has                                                               *)
(*   cr        for every creature                                            *)
(*     life      "none" (no such object), "placed" or "removed"              *)
(*     at        its position, which it keeps when it is removed             *)
(*     alive     health > 0                                                  *)
(*     master, summons, attacked, refs (useCount), idle (isIdle)             *)
(*     near      isMasterInRange                                             *)
(*     home      whether spawn # NULL                                        *)
(*     targets, friends    targetList and friendList, as sets                *)
(*     listed    whether it is in a vector of creatures to check, or waits   *)
(*               in toAddCheckCreatureVector to be put there first thing     *)
(*     check     creatureCheck                                               *)
(*     ignored   opponents that were there when it was sent home             *)
(*   free      how often a creature occurs in ToReleaseThings                *)
(*   spawned   spawnedMap: pairs of an id and a monster                      *)
(*   looking   whether checkSpawnEvent # 0                                   *)
(*   taken     entries of spawnedMap taken out since the spawn last looked   *)
(*   births    how many creatures may still come                             *)
(*   scene     one of Scenes                                                 *)

Creatures == Players \cup Monsters

Unborn ==
  [life |-> "none", at |-> 0, alive |-> TRUE, master |-> Nobody, summons |-> {},
   attacked |-> Nobody, refs |-> 0, idle |-> TRUE, near |-> FALSE, home |-> FALSE,
   targets |-> {}, friends |-> {}, listed |-> FALSE, check |-> FALSE, ignored |-> {}]

----------------------------------------------------------------------------
(* Who sees and who knows whom *)

Sees(a, b) == a - b <= Sight /\ b - a <= Sight

Exists(w, c) == w.cr[c].life # "none"
Placed(w) == {c \in Creatures : w.cr[c].life = "placed"}

Spectators(w, place) == {c \in Placed(w) : Sees(w.cr[c].at, place)}

\* The summon of a player.
Tame(w, m) == w.cr[m].master \in Players

IsFriend(w, m, c) ==
  IF Tame(w, m) THEN w.cr[m].master \in {c, w.cr[c].master}
  ELSE c \in Monsters /\ w.cr[c].master = Nobody

IsOpponent(w, m, c) ==
  IF Tame(w, m) THEN c # w.cr[m].master
  ELSE c \in Players \/ Tame(w, c)

\* Tells all in S of an event.
Told(Handler(_, _), w, S) ==
  FoldLeft(LAMBDA v, s : Handler(v, s), w, SelectSeq(Order, LAMBDA s : s \in S))

----------------------------------------------------------------------------
(* References *)

Use(w, c) == [w EXCEPT !.cr[c].refs = @ + 1]

\* releaseThing2().  A creature that is deleted releases its summons, which have no master
\* any more, its targets and its friends.
RECURSIVE Release(_, _)
Release(w, c) ==
  IF w.cr[c].refs > 1 THEN [w EXCEPT !.cr[c].refs = @ - 1]
  ELSE LET dead  == w.cr[c]
           freed == [w EXCEPT !.cr = [x \in Creatures |->
                       IF x = c THEN Unborn
                       ELSE IF x \in dead.summons THEN [w.cr[x] EXCEPT !.master = Nobody, !.attacked = Nobody]
                       ELSE w.cr[x]]]
       IN  FoldLeft(LAMBDA v, x : Release(v, x), freed,
                    SetToSeq(dead.targets) \o SetToSeq(dead.friends) \o SetToSeq(dead.summons))

ReleaseAll(w, S) == FoldSet(LAMBDA x, v : Release(v, x), w, S)

FreeThing(w, c) == [w EXCEPT !.free[c] = @ + 1]

\* Game::cleanup()
RECURSIVE Cleanup(_)
Cleanup(w) ==
  LET freed == {c \in Creatures : w.free[c] > 0}
  IN  IF freed = {} THEN w
      ELSE LET c == CHOOSE x \in freed : TRUE
           IN  Cleanup(Release([w EXCEPT !.free[c] = @ - 1], c))

----------------------------------------------------------------------------
(* Being checked, being idle *)

\* Game::addCreatureCheck()
AddCheck(w, c) ==
  CASE w.cr[c].life = "removed" -> w
    [] w.cr[c].listed -> [w EXCEPT !.cr[c].check = TRUE]
    [] OTHER -> Use([w EXCEPT !.cr[c].check = TRUE, !.cr[c].listed = TRUE], c)

\* Mutant: the targets are kept.
ClearFriendsOnly(w, m) == ReleaseAll([w EXCEPT !.cr[m].friends = {}], w.cr[m].friends)

ClearLists(w, m) ==
  ReleaseAll(ReleaseAll([w EXCEPT !.cr[m].targets = {}, !.cr[m].friends = {}],
                        w.cr[m].targets),
             w.cr[m].friends)

\* Monster::setIdle(), with Game::removeCreatureCheck().
SetIdle(w, m, idle) ==
  CASE w.cr[m].life = "removed" \/ ~w.cr[m].alive -> w
    [] ~idle -> AddCheck([w EXCEPT !.cr[m].idle = FALSE], m)
    [] OTHER -> [ClearLists(w, m) EXCEPT !.cr[m].idle = TRUE, !.cr[m].check = FALSE]

UpdateIdleStatus(w, m) ==
  LET master == w.cr[m].master
  IN  SetIdle(w, m, IF master = Nobody THEN w.cr[m].targets = {}
                    ELSE ~w.cr[m].near \/ (master \in Monsters /\ w.cr[master].idle))

----------------------------------------------------------------------------
(* What a monster knows of those around it *)

OnCreatureFound(w, m, c) ==
  LET known == IF IsFriend(w, m, c) /\ c \notin w.cr[m].friends
               THEN Use([w EXCEPT !.cr[m].friends = @ \cup {c}], c) ELSE w
      aimed == IF IsOpponent(w, m, c) /\ c \notin w.cr[m].targets
               THEN Use([known EXCEPT !.cr[m].targets = @ \cup {c}, !.cr[m].ignored = @ \ {c}], c)
               ELSE known
  IN  UpdateIdleStatus(aimed, m)

OnCreatureEnter(w, m, c) ==
  OnCreatureFound(IF w.cr[m].master = c THEN UpdateIdleStatus([w EXCEPT !.cr[m].near = TRUE], m) ELSE w,
                  m, c)

MasterLeft(w, m, c) ==
  IF w.cr[m].master = c THEN UpdateIdleStatus([w EXCEPT !.cr[m].near = FALSE], m)
  ELSE [w EXCEPT !.cr[m].ignored = @ \ {c}]

FriendLeft(w, m, c) ==
  IF IsFriend(w, m, c) /\ c \in w.cr[m].friends
  THEN Release([w EXCEPT !.cr[m].friends = @ \ {c}], c) ELSE w

\* Mutant: the reference is kept.
TargetErased(w, m, c) ==
  IF IsOpponent(w, m, c) THEN [w EXCEPT !.cr[m].targets = @ \ {c}] ELSE w

TargetLeft(w, m, c) ==
  LET left == Release([w EXCEPT !.cr[m].targets = @ \ {c}], c)
  IN  IF ~IsOpponent(w, m, c) \/ c \notin w.cr[m].targets THEN w
      ELSE IF w.cr[m].targets = {c} THEN UpdateIdleStatus(left, m)
      ELSE left

\* Who the creature is to the monster is asked when it leaves, and may have changed.
OnCreatureLeave(w, m, c) == TargetLeft(FriendLeft(MasterLeft(w, m, c), m, c), m, c)

UpdateTargetList(w, m) ==
  LET gone(S) == {c \in S : ~w.cr[c].alive \/ ~Sees(w.cr[m].at, w.cr[c].at)}
      kept == [w EXCEPT !.cr[m].targets = @ \ gone(@), !.cr[m].friends = @ \ gone(@)]
  IN  FoldSet(LAMBDA c, v : OnCreatureFound(v, m, c),
              ReleaseAll(ReleaseAll(kept, gone(w.cr[m].friends)), gone(w.cr[m].targets)),
              Spectators(w, w.cr[m].at) \ {m})

\* setAttackedCreature(): the summons attack what their master attacks, and have no
\* summons of their own.
SetAttacked(w, c, target) ==
  LET attacks(s) == IF target = Nobody \/ Sees(w.cr[s].at, w.cr[target].at) THEN target ELSE Nobody
  IN  IF attacks(c) # target THEN [w EXCEPT !.cr[c].attacked = Nobody]
      ELSE [w EXCEPT !.cr = [s \in Creatures |->
              IF s \in {c} \cup w.cr[c].summons THEN [w.cr[s] EXCEPT !.attacked = attacks(s)]
              ELSE w.cr[s]]]

Forget(w, c, target) ==
  IF w.cr[c].attacked = target THEN SetAttacked(w, c, Nobody) ELSE w

\* selectTarget(): a monster attacks one of its targets.
SelectTarget(w, m, c) ==
  IF w.cr[c].life = "placed" /\ c \in w.cr[m].targets THEN SetAttacked(w, m, c) ELSE w

AddSummon(w, master, m) ==
  Use([w EXCEPT !.cr[m].master = master, !.cr[master].summons = @ \cup {m}], m)

RemoveSummon(w, master, m) ==
  IF m \in w.cr[master].summons
  THEN Release([w EXCEPT !.cr[m].master = Nobody, !.cr[master].summons = @ \ {m}], m)
  ELSE w

----------------------------------------------------------------------------
(* Placing and removing *)

\* A monster that has appeared or moved looks for its master and for others.
LookedAround(w, m) ==
  LET near == IF w.cr[m].master = Nobody THEN w.cr[m].near
              ELSE Sees(w.cr[m].at, w.cr[w.cr[m].master].at)
  IN  UpdateIdleStatus(UpdateTargetList([w EXCEPT !.cr[m].near = near], m), m)

OnCreatureAppear(w, s, c) ==
  CASE s \in Players -> w
    [] s # c -> OnCreatureEnter(w, s, c)
    [] OTHER -> LookedAround(w, s)

\* internalPlaceCreature()
InternalPlace(w, c, place) ==
  Use([w EXCEPT !.cr[c].life = "placed", !.cr[c].at = place], c)

PlaceCreature(w, c, place) ==
  LET placed == InternalPlace([w EXCEPT !.births = @ - 1], c, place)
  IN  AddCheck(Told(LAMBDA v, s : OnCreatureAppear(v, s, c), placed,
                    Spectators(placed, place)), c)

OnCreatureDisappear(w, s, c) ==
  LET forgot == Forget(w, s, c)
      master == w.cr[c].master
  IN  CASE s # c /\ s \in Players -> forgot
        [] s # c -> OnCreatureLeave(forgot, s, c)
        [] c \in Players -> forgot
        [] OTHER ->
             LET free == IF master # Nobody /\ w.cr[master].life # "removed"
                         THEN RemoveSummon(forgot, master, c) ELSE forgot
             IN  SetIdle([free EXCEPT !.looking = @ \/ w.cr[c].home], c, TRUE)

RemoveAlone(w, c) ==
  FreeThing([Told(LAMBDA v, s : OnCreatureDisappear(v, s, c), w,
                  Spectators(w, w.cr[c].at))
               EXCEPT !.cr[c].life = "removed", !.cr[c].check = FALSE], c)

\* Game::removeCreature(): the summons go with their master.
RemoveCreature(w, c) ==
  IF w.cr[c].life = "removed" THEN w
  ELSE FoldLeft(LAMBDA v, s : RemoveAlone(v, s), w, <<c>> \o SetToSeq(w.cr[c].summons))

----------------------------------------------------------------------------
(* Moving *)

\* A master that has gone too far loses its summons.
LeftBehind(w, c) ==
  FoldSet(LAMBDA m, v : RemoveCreature(v, m), w,
          {m \in w.cr[c].summons : ~(w.cr[m].at - w.cr[c].at \in -Reach..Reach)})

\* Nobody attacks what it does not see.
LostSight(w, s, c) ==
  LET prey == w.cr[s].attacked
  IN  IF prey # Nobody /\ c \in {s, prey} /\ ~Sees(w.cr[s].at, w.cr[prey].at)
      THEN SetAttacked(w, s, Nobody) ELSE w

\* The master of a summon is near if it is seen now, and a wild monster without anybody to
\* follow attacks an opponent that moves.
Reacted(w, m, c) ==
  IF w.cr[m].attacked = Nobody /\ w.cr[m].master = Nobody /\ IsOpponent(w, m, c)
  THEN SelectTarget(w, m, c) ELSE w

NearAgain(w, m, c, sees) ==
  UpdateIdleStatus([w EXCEPT !.cr[m].near = @ \/ (sees /\ w.cr[m].master = c)], m)

\* What a monster does when another creature moves.
Noticed(w, m, c, from) ==
  LET sees == Sees(w.cr[m].at, w.cr[c].at)
      saw  == Sees(w.cr[m].at, from)
      met  == CASE sees /\ ~saw -> OnCreatureEnter(w, m, c)
                [] ~sees /\ saw -> OnCreatureLeave(w, m, c)
                [] OTHER -> w
  IN  Reacted(NearAgain(met, m, c, sees), m, c)

OnCreatureMove(w, s, c, from) ==
  CASE s # c /\ s \in Players -> LostSight(w, s, c)
    [] s # c -> Noticed(LostSight(w, s, c), s, c, from)
    [] c \in Players -> LostSight(LeftBehind(w, c), c, c)
    [] OTHER -> LookedAround(LostSight(LeftBehind(w, c), c, c), c)

MoveCreature(w, c, place) ==
  LET moved == [w EXCEPT !.cr[c].at = place]
  IN  Told(LAMBDA v, s : OnCreatureMove(v, s, c, w.cr[c].at), moved,
           Spectators(w, w.cr[c].at) \cup Spectators(moved, place))

----------------------------------------------------------------------------
(* Dying and thinking *)

\* Creature::changeHealth(), for a monster after setIdle(FALSE).
ChangeHealth(w, c, alive) ==
  [(IF c \in Monsters THEN SetIdle(w, c, FALSE) ELSE w) EXCEPT !.cr[c].alive = @ /\ alive]

\* The summons of a monster die with it, and without a master.
DestroySummons(w, m) ==
  FoldSet(LAMBDA s, v : Release([ChangeHealth(v, s, FALSE) EXCEPT !.cr[s].master = Nobody], s),
          [w EXCEPT !.cr[m].summons = {}], w.cr[m].summons)

\* Monster::death()
Death(w, c) ==
  IF c \in Players THEN w ELSE ClearLists(DestroySummons(SetAttacked(w, c, Nobody), c), c)

\* Creature::onDeath(), where no place is in a PvP zone.
OnDeath(w, c) ==
  LET dead   == Death(w, c)
      master == w.cr[c].master
  IN  RemoveCreature(IF master = Nobody THEN dead ELSE RemoveSummon(dead, master, c), c)

Summon(w, master, m) ==
  PlaceCreature(AddSummon(w, master, m), m, w.cr[master].at)

\* Monster::despawn(), of a monster that went too far from where it was spawned.
GoneTooFar(w, m) == w.cr[m].home /\ ~(w.cr[m].at \in -Roam..Roam)

\* It is idle at home whoever is there.
Settled(w, m) == SetIdle([w EXCEPT !.cr[m].ignored = w.cr[m].targets], m, TRUE)

SentHome(w, m) == Settled(MoveCreature(w, m, 0), m)

\* searchTarget() finds a target among those the monster has, pick; a summon attacks what
\* its master attacks.
Aims(w, m, pick) ==
  LET master == w.cr[m].master
      target == IF master = Nobody THEN pick ELSE w.cr[master].attacked
  IN  IF w.cr[m].attacked = Nobody /\ target # Nobody THEN SelectTarget(w, m, target) ELSE w

MaySummon(w, c) == Cardinality(w.cr[c].summons) < w.scene.summons
Spare(w) == {m \in Monsters : ~Exists(w, m) /\ w.births > 0}
NewMonster(w) == CHOOSE m \in Spare(w) : TRUE

\* A wild monster may call another for help.
Called(w, m, calls) ==
  IF calls /\ w.cr[m].master = Nobody /\ MaySummon(w, m) /\ Spare(w) # {}
  THEN Summon(w, m, NewMonster(w)) ELSE w

Awake(w, m, pick, calls) == IF w.cr[m].idle THEN w ELSE Called(Aims(w, m, pick), m, calls)

\* Monster::onThink()
OnThink(w, m, pick, calls) ==
  CASE m \in Players -> w
    [] GoneTooFar(w, m) -> SentHome(w, m)
    [] OTHER -> Awake(UpdateIdleStatus(w, m), m, pick, calls)

\* What checkCreatures() does with a creature in the vector it visits.
Check(w, c, pick, calls) ==
  CASE ~w.cr[c].check -> FreeThing([w EXCEPT !.cr[c].listed = FALSE], c)
    [] w.cr[c].check /\ w.cr[c].alive -> OnThink(w, c, pick, calls)
    [] OTHER -> OnDeath(w, c)

Visit(w, V, pick, calls) ==
  Cleanup(FoldLeft(LAMBDA v, c : Check(v, c, pick, calls), w, SetToSeq(V)))

----------------------------------------------------------------------------
(* The spawn *)

InSpawn(w, id) == \E e \in w.spawned : e[1] = id

SpawnMonster(w, id, m) ==
  [Use(w, m) EXCEPT !.cr[m].home = TRUE, !.spawned = @ \cup {<<id, m>>}]

\* Spawn::cleanup().  What left the zone no longer stands for its block.
SpawnCleanup(w) ==
  LET gone  == {e \in w.spawned : w.cr[e[2]].life = "removed"}
      stray == {e \in w.spawned \ gone : ~(w.cr[e[2]].at \in -Zone..Zone)}
  IN  ReleaseAll([w EXCEPT !.spawned = (@ \ (gone \cup stray)) \cup {<<0, e[2]>> : e \in stray}],
                 {e[2] : e \in gone})

\* Whether findPlayer() finds one near a block.
Watched(w) == Spectators(w, 0) \cap Players # {}

\* Mutant: a block somebody watches ends the check.
RespawnedUnwatched(w, due) ==
  LET clean  == SpawnCleanup(w)
      empty  == {id \in due : ~InSpawn(clean, id)}
      filled == FoldSet(LAMBDA id, v :
                          IF Cardinality(empty \cap 1..id) > RateSpawn \/ Spare(v) = {} THEN v
                          ELSE LET m == NewMonster(v)
                               IN  SpawnMonster(PlaceCreature(v, m, 0), id, m),
                        clean, IF Watched(clean) THEN {} ELSE empty)
  IN  [filled EXCEPT !.looking = ~Watched(clean) /\ Cardinality(filled.spawned) < Cardinality(w.scene.blocks),
                     !.taken = 0]

\* Spawn::checkSpawn(), at a time when the blocks due have waited long enough.
Respawned(w, due) ==
  LET clean  == SpawnCleanup(w)
      empty  == {id \in due : ~InSpawn(clean, id)}
      filled == FoldSet(LAMBDA id, v :
                          IF Cardinality(empty \cap 1..id) > RateSpawn \/ Spare(v) = {} THEN v
                          ELSE LET m == NewMonster(v)
                               IN  SpawnMonster(PlaceCreature(v, m, 0), id, m),
                        clean, IF Watched(clean) THEN {} ELSE empty)
  IN  [filled EXCEPT !.looking = Cardinality(filled.spawned) < Cardinality(w.scene.blocks), !.taken = 0]

\* Mutant: only the idle status is looked at again.
OnCreatureConvincedIdly(w, s, p, m) ==
  IF s \in Monsters /\ (IsFriend(w, s, m) \/ IsOpponent(w, s, m))
  THEN UpdateIdleStatus(w, s) ELSE w

\* Monster::onCreatureConvinced()
OnCreatureConvinced(w, s, p, m) ==
  IF s \in Monsters /\ (IsFriend(w, s, m) \/ IsOpponent(w, s, m))
  THEN UpdateIdleStatus(UpdateTargetList(w, s), s) ELSE w

\* Monster::convinceCreature(), of a monster that is nobody's or another monster's.
Convinced(w, p, m) ==
  LET master == w.cr[m].master
      ours == AddSummon(IF master = Nobody THEN w ELSE RemoveSummon(w, master, m), p, m)
      tame == [DestroySummons(SetAttacked(ours, m, Nobody), m) EXCEPT !.cr[m].near = TRUE]
      told == Told(LAMBDA v, s : OnCreatureConvinced(v, s, p, m),
                   UpdateIdleStatus(UpdateTargetList(tame, m), m),
                   Spectators(w, w.cr[m].at) \cup Spectators(w, w.cr[p].at))
      entries == {e \in w.spawned : e[2] = m}
  IN  IF ~w.cr[m].home THEN told
      ELSE ReleaseAll([told EXCEPT !.cr[m].home = FALSE, !.spawned = @ \ entries,
                                   !.taken = @ + Cardinality(entries)],
                      {e[2] : e \in entries})

----------------------------------------------------------------------------
(* The handlers *)

Living == {c \in Placed(world) : world.cr[c].alive}

\* Spawns::startup() fills the blocks, when nobody is there to be told.  Without any, a
\* script has placed a monster.
Started(empty, first) ==
  FoldSet(LAMBDA id, w : SpawnMonster(InternalPlace(w, first[id], 0), id, first[id]), empty, DOMAIN first)

Init ==
  \E scene \in Scenes :
    LET empty == [cr |-> [c \in Creatures |-> Unborn], free |-> [c \in Creatures |-> 0],
                  spawned |-> {}, looking |-> FALSE, taken |-> 0,
                  scene |-> scene, births |-> scene.births]
    IN  IF scene.blocks = {} THEN \E m \in Monsters : world = AddCheck(InternalPlace(empty, m, 0), m)
        ELSE \E first \in Injection(scene.blocks, Monsters) : world = Started(empty, first)

\* What searchTarget() may find.
Wanted(V) ==
  LET targets == UNION {world.cr[m].targets : m \in V}
  IN  IF targets = {} THEN {Nobody} ELSE targets

\* Game::checkCreatures(), for the vector that holds V.
CheckCreatures(V) ==
  LET there == {c \in V : world.cr[c].listed}
  IN  /\ there # {}
      /\ \E pick \in Wanted(there), calls \in {FALSE} \cup {Spare(world) # {}} :
           world' = Visit(world, there, pick, calls)

CheckSpawn ==
  /\ world.looking
  /\ \E due \in SUBSET world.scene.blocks : world' = Respawned(world, due)

\* Game::checkCreatureWalk(); a monster that is idle does not walk.
CheckCreatureWalk ==
  \E c \in Living : \E place \in {world.cr[c].at - 1, world.cr[c].at + 1} \cap Places :
    /\ c \in Monsters => ~world.cr[c].idle
    /\ world' = Cleanup(MoveCreature(world, c, place))

\* A player goes through a teleport.
Teleport ==
  \E p \in Living \cap Players, place \in Places :
    /\ place # world.cr[p].at
    /\ world' = MoveCreature(world, p, place)

\* Game::updateCreatureWalk(): a summon that finds no way gives its target up.
UpdateCreatureWalk ==
  \E m \in Living \cap Monsters :
    LET target == world.cr[m].attacked
    IN  /\ world.cr[m].master # Nobody /\ target \in world.cr[m].targets
        /\ world' = Release([world EXCEPT !.cr[m].targets = @ \ {target}], target)

\* Game::combatChangeHealth()
CombatChangeHealth ==
  \E c \in Living \cap world.scene.mortal, alive \in BOOLEAN : world' = ChangeHealth(world, c, alive)

PlayerSetAttackedCreature ==
  \E p \in Players \cap Placed(world), c \in Placed(world) \cup {Nobody} :
    /\ world.scene.orders /\ c # p /\ (c # Nobody => Sees(world.cr[p].at, world.cr[c].at))
    /\ world' = SetAttacked(world, p, c)

SummonCreature ==
  \E p \in Living \cap Players :
    /\ MaySummon(world, p) /\ Spare(world) # {}
    /\ world' = Summon(world, p, NewMonster(world))

ConvinceCreature ==
  \E p \in Living \cap Players, m \in Monsters \cap Placed(world) :
    /\ MaySummon(world, p) /\ ~Tame(world, m) /\ Sees(world.cr[p].at, world.cr[m].at)
    /\ world' = Convinced(world, p, m)

Login ==
  \E p \in Players, place \in Places :
    /\ ~Exists(world, p) /\ world.births > 0
    /\ world' = PlaceCreature(world, p, place)

\* A player logs out, a script removes a monster.
RemovedByHandler ==
  \E c \in Placed(world) \cap world.scene.kicked : world' = RemoveCreature(world, c)

\* The tail of Game::checkDecay().
CheckDecay == world' = Cleanup(world)

Next ==
  \/ \E V \in Vectors : CheckCreatures(V)
  \/ CheckSpawn
  \/ CheckCreatureWalk
  \/ Teleport
  \/ UpdateCreatureWalk
  \/ CombatChangeHealth
  \/ PlayerSetAttackedCreature
  \/ SummonCreature
  \/ ConvinceCreature
  \/ Login
  \/ RemovedByHandler
  \/ CheckDecay

Spec == Init /\ [][Next]_world

----------------------------------------------------------------------------
(* Properties *)

TypeOK ==
  /\ \A c \in Creatures :
       LET r == world.cr[c]
       IN  /\ r.life \in {"none", "placed", "removed"}
           /\ r.at \in Places /\ r.refs \in Nat
           /\ {r.alive, r.idle, r.near, r.home, r.check, r.listed} \subseteq BOOLEAN
           /\ {r.master, r.attacked} \subseteq Creatures \cup {Nobody}
           /\ r.summons \cup r.targets \cup r.friends \cup r.ignored \subseteq Creatures
           /\ world.free[c] \in Nat
  /\ world.spawned \subseteq (world.scene.blocks \cup {0}) \X Monsters
  /\ world.looking \in BOOLEAN /\ {world.taken, world.births} \subseteq Nat

\* Every reference that is counted is held by something: the map, a vector, the spawn, a
\* master, the lists of a monster, or what cleanup() will release.
ReferencesAreHeld ==
  \A c \in Creatures :
    LET Holders(field(_)) == Cardinality({x \in Creatures : Exists(world, x) /\ c \in field(world.cr[x])})
    IN  world.cr[c].refs =
          (IF world.cr[c].life = "placed" THEN 1 ELSE 0) + (IF world.cr[c].listed THEN 1 ELSE 0)
            + world.free[c] + Cardinality({e \in world.spawned : e[2] = c})
            + Holders(LAMBDA r : r.summons) + Holders(LAMBDA r : r.targets) + Holders(LAMBDA r : r.friends)

\* No object points to one that was deleted, and a creature on the map attacks and follows
\* only what is on the map.
PointersAreAlive ==
  \A c \in Creatures : Exists(world, c) =>
    /\ world.cr[c].master # Nobody => Exists(world, world.cr[c].master)
    /\ c \in Placed(world) => {world.cr[c].master, world.cr[c].attacked} \subseteq Placed(world) \cup {Nobody}

\* A summon is in the list of its master and of no other.
SummonsAreMutual ==
  \A m \in Monsters, c \in Creatures :
    Exists(world, m) => (m \in world.cr[c].summons <=> world.cr[m].master = c)

\* A monster that is awake, and every creature that is dying, will be visited.
AwakeIsChecked ==
  \A c \in Placed(world) :
    ~world.cr[c].alive \/ ~world.cr[c].idle => world.cr[c].check /\ world.cr[c].listed

\* A living monster targets nothing that is gone or that it does not see, but a summon that
\* had lost its master when it left.
TargetsArePresent ==
  \A m \in Monsters \cap Placed(world) : \A c \in world.cr[m].targets :
    world.cr[m].alive =>
      /\ Sees(world.cr[m].at, world.cr[c].at)
      /\ c \in Placed(world) \/ (c \in Monsters /\ world.cr[c].master = Nobody)

\* The objects in S, those they hold, and what these hold.
HeldBy(S) ==
  LET held(X) == X \cup UNION {world.cr[c].summons \cup world.cr[c].targets \cup world.cr[c].friends : c \in X}
  IN  held(held(held(S)))

\* Objects that hold each other and that nothing else holds are never freed.
Forgotten ==
  {c \in Creatures : Exists(world, c)}
    \ HeldBy({c \in Creatures : \/ world.cr[c].life = "placed" \/ world.cr[c].listed
                                \/ world.free[c] > 0 \/ \E e \in world.spawned : e[2] = c})

\* No creature is forgotten so (thing.h:107), but monsters that were dying when their master
\* went away from them, which leave the map without clearing their lists (monster.cpp:542),
\* and those they hold.
NoneIsForgotten ==
  Forgotten \subseteq HeldBy({m \in Forgotten \cap Monsters : ~world.cr[m].alive})

\* Creatures: what is counted, listed and pointed to agrees (thing.h:107, creature.cpp:105).
Inv ==
  /\ TypeOK
  /\ ReferencesAreHeld
  /\ PointersAreAlive
  /\ SummonsAreMutual
  /\ AwakeIsChecked
  /\ TargetsArePresent

\* A wild monster is idle only when it sees no opponent (monster.cpp:557) but those who
\* were there when it was sent home, whose setIdle(true) does not ask.
IdleSeesNobody ==
  \A m \in Monsters \cap Living, c \in Living :
    /\ world.cr[m].idle /\ world.cr[m].master = Nobody /\ c \notin world.cr[m].ignored
    /\ Sees(world.cr[m].at, world.cr[c].at)
    => ~IsOpponent(world, m, c)

\* A spawn that does not look for empty blocks any more has lost no monster since it
\* looked, but those that were convinced (spawn.cpp:405, monster.cpp:154).
SpawnGoesOnLooking ==
  ~world.looking =>
    /\ \A e \in world.spawned : e[2] \in Placed(world)
    /\ Cardinality(world.spawned) + world.taken >= Cardinality(world.scene.blocks)
=============================================================================
