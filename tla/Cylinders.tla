------------------------------ MODULE Cylinders ------------------------------
(****************************************************************************)
(* The cylinders that hold items (cylinder.h): containers (container.cpp),  *)
(* the equipment of a player (player.cpp) and the tile the player stands on *)
(* (tile.cpp).  Each answers the same questions, __queryAdd(),              *)
(* __queryMaxCount(), __queryDestination(), and obeys the same orders,      *)
(* __addThing(), __updateThing(), __removeThing(), __replaceThing().        *)
(*                                                                          *)
(* A world w is a record with everything about the items of one player and  *)
(* one tile.  Operators take a world and return an answer, or the world     *)
(* that results.                                                            *)
(****************************************************************************)
EXTENDS Integers, Sequences, FiniteSets

LOCAL INSTANCE SequencesExt
LOCAL INSTANCE FiniteSetsExt

CONSTANTS
  Obj,        \* Item objects: bounds those that exist at a time
  NoObj,      \* the NULL pointer
  StackMax,   \* how many coins make a full stack: 100 in the code
  RingTime, CorpseTime  \* ItemType::decayTime of a ring that is worn, of a corpse

ASSUME CylindersAssumption ==
  /\ IsFiniteSet(Obj) /\ NoObj \notin Obj
  /\ {StackMax, RingTime, CorpseTime} \subseteq Nat \ {0}

Backpack == 1
Hand == 2
RingSlot == 3
Slots == Backpack..RingSlot   \* in the order of the loops over SLOT_FIRST..SLOT_LAST

Anywhere == -1                \* INDEX_WHEREEVER
MoveUp == 254

\* What the data file says of an item.
Types == {"bag", "gold", "platinum", "ring", "wornRing", "corpse", "bones"}
IsContainerType(t) == t \in {"bag", "corpse"}
StackableType(t) == t \in {"gold", "platinum"}
IsPickupable(t) == t \notin {"corpse", "bones"}
Fits(t, s) ==
  \/ s = Hand
  \/ s = Backpack /\ t = "bag"
  \/ s = RingSlot /\ t \in {"ring", "wornRing"}

(* The fields of a world:                                                    *)
(*   type, count, parent, duration, decaying, refs   of each object; "none"  *)
(*              is the type of an object that does not exist, refs leaves    *)
(*              out what is already in ToReleaseThings                       *)
(*   list       of each object and of the tile: what is in it, in order      *)
(*   room       Container::capacity()                                        *)
(*   total      Container::totalWeight of each object                        *)
(*   slot       Player::inventory                                            *)
(*   capacity, carried   Player::capacity, inventoryWeight                   *)
(*   ability    Player::isItemAbilityEnabled() of the ring's slot            *)
(*   offer      Player::tradeItem                                            *)
(* and those of Items.                                                       *)

IsContainer(w, o) == IsContainerType(w.type[o])
Stackable(w, o) == StackableType(w.type[o])
Exists(w, o) == w.type[o] # "none"

RECURSIVE AboveWithin(_, _, _)
AboveWithin(w, x, n) ==
  LET c == w.parent[x]
  IN  IF n = 0 \/ c \notin Obj THEN {c} \ {"none"} ELSE {c} \cup AboveWithin(w, c, n - 1)

\* The cylinders x is in, directly or not.
Above(w, x) == AboveWithin(w, x, Cardinality(Obj))

IsRemoved(w, x) == Above(w, x) \cap {"tile", "player"} = {}

\* Is the player the top parent of c?
Carried(w, c) == c = "player" \/ (c \in Obj /\ "player" \in Above(w, c))

Holds(w, c, x) ==
  IF c = "player" THEN \E s \in Slots : w.slot[s] = x ELSE x \in ToSet(w.list[c])

\* __getIndexOfThing(), of a thing that is there.
IndexOf(w, c, x) ==
  IF c = "player" THEN CHOOSE s \in Slots : w.slot[s] = x
  ELSE CHOOSE i \in 0..Len(w.list[c]) - 1 : w.list[c][i + 1] = x

Weight(w, x) ==
  IF Stackable(w, x) THEN w.count[x]
  ELSE IF IsContainer(w, x) THEN 1 + w.total[x] ELSE 1

\* updateInventoryWeight().
Weighed(w) ==
  [w EXCEPT !.carried =
    MapThenSumSet(LAMBDA s : IF w.slot[s] = NoObj THEN 0 ELSE Weight(w, w.slot[s]), Slots)]

\* Mutant: what is already carried counts again, what is not does not count.
HasCapacityAlways(w, x, count) == TRUE

HasCapacity(w, x, count) ==
  \/ Carried(w, w.parent[x])
  \/ w.carried + (IF Stackable(w, x) THEN count ELSE Weight(w, x)) <= w.capacity

\* Another stack that x may be merged into.
CanStack(w, x, y) ==
  /\ y # NoObj /\ Stackable(w, x)
  /\ w.type[y] = w.type[x] /\ w.count[y] < StackMax

----------------------------------------------------------------------------
(* __queryAdd() *)

QueryAddContainer(w, c, index, x, count) ==
  IF \/ ~IsPickupable(w.type[x]) \/ x = c \/ x \in Above(w, c)
     \/ index = Anywhere /\ Len(w.list[c]) >= w.room
     \/ Carried(w, c) /\ ~HasCapacity(w, x, count)
  THEN "no" ELSE "ok"

QueryAddPlayer(w, s, x, count) ==
  IF \/ ~IsPickupable(w.type[x])
     \/ s \in Slots /\ ~Fits(w.type[x], s)
  THEN "no"
  ELSE IF s \in Slots /\ w.slot[s] # NoObj
          /\ (~Stackable(w, w.slot[s]) \/ w.type[w.slot[s]] # w.type[x])
  THEN "exchange"
  ELSE IF s \notin Slots \/ ~HasCapacity(w, x, count) THEN "no" ELSE "ok"

QueryAdd(w, c, index, x, count) ==
  IF c = "tile" THEN "ok"
  ELSE IF c = "player" THEN QueryAddPlayer(w, index, x, count)
  ELSE QueryAddContainer(w, c, index, x, count)

----------------------------------------------------------------------------
(* __queryMaxCount(): how many fit, and whether that is enough *)

MaxCountContainer(w, c, index, x, count) ==
  LET free == IF Len(w.list[c]) < w.room THEN w.room - Len(w.list[c]) ELSE 0
      left(i) ==
        LET y == w.list[c][i + 1]
            rest == StackMax - w.count[y]
        IN  IF CanStack(w, x, y) /\ QueryAddContainer(w, c, i, x, rest) = "ok"
            THEN rest ELSE 0
      others == {i \in 0..Len(w.list[c]) - 1 :
                   IF index = Anywhere THEN w.list[c][i + 1] # x ELSE i = index}
      max == IF Stackable(w, x) THEN free * StackMax + MapThenSumSet(left, others)
             ELSE free
  IN  [max |-> max, enough |-> IF Stackable(w, x) THEN max >= count ELSE max > 0]

\* The containers in c, at any depth.
ContainersIn(w, c) == {d \in Obj : IsContainer(w, d) /\ c \in Above(w, d)}

MaxCountPlayer(w, s, x, count) ==
  LET fit(n) == IF s \in Slots THEN count ELSE w.count[x]
      inSlot(t) ==
        LET y == w.slot[t]
        IN  IF y = NoObj
            THEN IF QueryAddPlayer(w, t, x, fit(t)) # "ok" THEN 0
                 ELSE IF Stackable(w, x) THEN StackMax ELSE 1
            ELSE IF s = Anywhere /\ IsContainer(w, y)
            THEN MapThenSumSet(
                   LAMBDA c : MaxCountContainer(w, c, Anywhere, x, w.count[x]).max,
                   {y} \cup ContainersIn(w, y))
            ELSE IF /\ CanStack(w, x, y)
                    /\ \/ s \in Slots
                       \/ QueryAddPlayer(w, t, x, StackMax - w.count[y]) = "ok"
            THEN StackMax - w.count[y] ELSE 0
      max == MapThenSumSet(inSlot, IF s \in Slots THEN {s} ELSE Slots)
      emptySlot == s \in Slots /\ w.slot[s] = NoObj /\ max > 0
  IN  [max |-> max, enough |-> emptySlot \/ max >= count]

MaxCount(w, c, index, x, count) ==
  IF c = "tile" THEN [max |-> IF count > 1 THEN count ELSE 1, enough |-> TRUE]
  ELSE IF c = "player" THEN MaxCountPlayer(w, index, x, count)
  ELSE MaxCountContainer(w, c, index, x, count)

----------------------------------------------------------------------------
(* __queryDestination(): a cylinder, a position in it, and the item x may be *)
(* merged into or exchanged with *)

Dest(c, index, y) == [cyl |-> c, index |-> index, to |-> y]

\* The first stack in c that x may be merged into, from the front.
StacksIn(w, c, x) ==
  {i \in 1..Len(w.list[c]) : w.list[c][i] # x /\ CanStack(w, x, w.list[c][i])}

DestContainer(w, c, asked, x, carriedTo) ==
  LET reset == asked >= w.room
      index == IF reset THEN Anywhere ELSE asked
      here == IF index \in 0..Len(w.list[c]) - 1 THEN w.list[c][index + 1]
              ELSE IF reset THEN NoObj ELSE carriedTo
      stacks == StacksIn(w, c, x)
  IN  IF asked = MoveUp
      THEN Dest(IF w.parent[c] \in Obj THEN w.parent[c] ELSE c, Anywhere, NoObj)
      ELSE IF stacks # {} /\ w.parent[x] # c
      THEN Dest(c, Min(stacks) - 1, w.list[c][Min(stacks)])
      ELSE IF index # Anywhere /\ here # NoObj /\ IsContainer(w, here)
      THEN Dest(here, Anywhere, NoObj)
      ELSE Dest(c, index, here)

RECURSIVE SearchIn(_, _, _)
\* Player::__queryDestination(): breadth first through the containers carried.  The
\* items passed over are not counted; capacity() - size() is unsigned.
SearchIn(w, x, queue) ==
  IF queue = <<>> THEN Dest("player", Anywhere, NoObj)
  ELSE
    LET c == Head(queue)
        seen == IF Stackable(w, x)
                THEN SelectSeq(w.list[c], LAMBDA y : y \notin {w.offer, x}) ELSE w.list[c]
        stacks == {i \in 1..Len(seen) : CanStack(w, x, seen[i])}
        inner == SelectSeq(seen, LAMBDA y : IsContainer(w, y))
    IN  IF stacks # {} THEN Dest(c, Min(stacks) - 1, seen[Min(stacks)])
        ELSE IF /\ IF Stackable(w, x) THEN Len(seen) < w.room ELSE Len(seen) # w.room
                /\ QueryAddContainer(w, c, Len(seen), x, w.count[x]) = "ok"
        THEN Dest(c, Len(seen), NoObj)
        ELSE SearchIn(w, x, Tail(queue) \o inner)

\* What the loop over the slots finds at once: an empty one, a stack, a container.
SlotTakes(w, s, x) ==
  LET y == w.slot[s]
  IN  IF y = NoObj THEN QueryAddPlayer(w, s, x, w.count[x]) = "ok"
      ELSE /\ y \notin {w.offer, x}
           /\ IF Stackable(w, x)
              THEN CanStack(w, x, y) /\ QueryAddPlayer(w, s, x, w.count[x]) = "ok"
              ELSE IsContainer(w, y)
                   /\ QueryAddContainer(w, y, Anywhere, x, w.count[x]) = "ok"

Search(w, x) ==
  LET takes == {s \in Slots : SlotTakes(w, s, x)}
      s == Min(takes)
      queue == SelectSeq([t \in Slots |-> w.slot[t]],
                 LAMBDA y : y \notin {NoObj, w.offer, x} /\ IsContainer(w, y))
  IN  IF takes = {} THEN SearchIn(w, x, queue)
      ELSE IF w.slot[s] # NoObj /\ IsContainer(w, w.slot[s])
      THEN Dest(w.slot[s], Anywhere, NoObj)
      ELSE Dest("player", s, w.slot[s])

DestPlayer(w, s, x, carriedTo) ==
  IF s \notin Slots THEN Search(w, x)
  ELSE IF w.slot[s] = NoObj THEN Dest("player", s, carriedTo)
  ELSE IF IsContainer(w, w.slot[s]) THEN Dest(w.slot[s], Anywhere, NoObj)
  ELSE Dest("player", s, w.slot[s])

QueryDestination(w, c, index, x, carriedTo) ==
  IF c = "tile" THEN
     Dest(c, index, IF w.list["tile"] = <<>> THEN NoObj ELSE Head(w.list["tile"]))
  ELSE IF c = "player" THEN DestPlayer(w, index, x, carriedTo)
  ELSE DestContainer(w, c, index, x, carriedTo)

RECURSIVE Destination(_, _, _)
\* The loop at the beginning of internalMoveItem().
Destination(w, x, d) ==
  LET next == QueryDestination(w, d.cyl, d.index, x, d.to)
  IN  IF next.cyl = d.cyl THEN next ELSE Destination(w, x, next)

----------------------------------------------------------------------------
(* The orders *)

\* onAddContainerItem(), onUpdate...(), onRemove...(): the trade is called off if
\* x is what is offered or is in it, or if x goes and holds it, or is
\* taken from a container that holds it further down.
Notified(w, x, goes) ==
  IF \/ x = w.offer \/ w.offer \in Above(w, x)
     \/ /\ goes /\ w.offer # NoObj
        /\ \/ x \in Above(w, w.offer)
           \/ w.parent[x] \in (Above(w, w.offer) \cap Obj) \ {w.parent[w.offer]}
  THEN [w EXCEPT !.offer = NoObj] ELSE w

\* totalWeight of c and, by updateItemWeight(), of the containers c is in.
Heavier(w, c, diff) ==
  IF c \notin Obj THEN w
  ELSE FoldSet(LAMBDA o, v : [v EXCEPT !.total[o] = @ + diff],
               w, {c} \cup (Above(w, c) \cap Obj))

\* A position that does not exist is ignored, and so is x.
AddThing(w, c, index, x) ==
  IF c = "player" THEN
     IF index \in Slots THEN [w EXCEPT !.parent[x] = c, !.slot[index] = x] ELSE w
  ELSE IF c = "tile" THEN [w EXCEPT !.parent[x] = c, !.list[c] = <<x>> \o @]
  ELSE IF index >= w.room THEN w
  ELSE LET put == [w EXCEPT !.parent[x] = c, !.list[c] = <<x>> \o @]
       IN  Notified(Heavier(put, c, Weight(w, x)), x, FALSE)

\* Takes count of the stack x away, or all of x.
RemoveThing(w, x, count) ==
  LET c == w.parent[x]
      all == ~Stackable(w, x) \/ count = w.count[x]
      told == Notified(w, x, all)
      lighter == Heavier(told, c, -(IF all THEN Weight(w, x) ELSE count))
  IN  IF ~all THEN [lighter EXCEPT !.count[x] = @ - count]
      ELSE IF c = "player"
      THEN [told EXCEPT !.parent[x] = "none", !.slot[IndexOf(w, c, x)] = NoObj]
      ELSE [lighter EXCEPT !.parent[x] = "none", !.list[c] = SelectSeq(@, LAMBDA y : y # x)]

DecayTime(t) == IF t = "wornRing" THEN RingTime ELSE IF t = "corpse" THEN CorpseTime ELSE 0

\* setID(): a ring keeps what is left of its time (stopTime), and DECAYING with it.
SetId(w, x, t) ==
  LET renew == DecayTime(t) > 0 /\ (w.type[x] # "ring" \/ w.duration[x] = 0)
      reset == renew \/ t \notin {"ring", "wornRing", "corpse"}
  IN  [w EXCEPT !.type[x] = t,
        !.decaying[x] = IF reset THEN FALSE ELSE @,
        !.duration[x] = IF renew THEN DecayTime(t) ELSE IF reset THEN 0 ELSE @]

UpdateThing(w, x, t, count) ==
  LET new == [SetId(w, x, t) EXCEPT !.count[x] = count]
  IN  Notified(Heavier(new, w.parent[x], Weight(new, x) - Weight(w, x)), x, FALSE)

\* y takes the place of x on the tile.
ReplaceThing(w, x, y) ==
  LET at == IndexOf(w, "tile", x) + 1
  IN  [Notified(w, x, TRUE) EXCEPT
        !.list["tile"][at] = y, !.parent[y] = "tile", !.parent[x] = "none"]

\* Item::CreateItem(): one reference for whoever keeps the item.
Spare(w) == {o \in Obj : ~Exists(w, o)}

NewObj(w) == CHOOSE o \in Spare(w) : TRUE

Create(w, t, count) ==
  [w EXCEPT !.type[NewObj(w)] = t, !.count[NewObj(w)] = count, !.refs[NewObj(w)] = 1,
            !.duration[NewObj(w)] = DecayTime(t)]

\* FreeThing(): one reference will be given back at the next cleanup().
FreeThing(w, x) == [w EXCEPT !.refs[x] = @ - 1]
=============================================================================
