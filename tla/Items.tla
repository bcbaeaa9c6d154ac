-------------------------------- MODULE Items --------------------------------
(****************************************************************************)
(* Moving, adding, removing, transforming and decaying items (game.cpp), on *)
(* the cylinders of Cylinders.  Every handler is one task of the dispatcher *)
(* and so one step; the references that FreeThing() gives up are returned   *)
(* by a later cleanup(), when objects without any are deleted.              *)
(*                                                                          *)
(* There is one player, on one tile.  A ring changes its kind when it is    *)
(* put on or taken off (movement.cpp) and decays while it is worn; a corpse *)
(* turns into bones.                                                        *)
(****************************************************************************)
EXTENDS Cylinders

LOCAL INSTANCE SequencesExt
LOCAL INSTANCE FiniteSetsExt
LOCAL INSTANCE Folds

CONSTANTS
  Scenes,     \* what there is at the beginning: the things, as sequences of
              \* <<type, count, "tile", 0>>, <<type, count, "player", slot>> or, in what was
              \* the n-th of them, <<type, count, "in", n>>, for a ring its time in the
              \* place of a count; the player's capacity, the containers'; and limit, which
              \* bounds what scripts give
  Amounts,    \* of money or of coins a script gives or takes
  Interval,   \* EVENT_DECAYINTERVAL; all times are in units of 125 ms
  Buckets,    \* EVENT_DECAY_BUCKETS
  Second      \* 1000 ms

ASSUME ItemsAssumption == {Interval, Buckets, Second} \subseteq Nat \ {0}

VARIABLES world

(* Further fields of a world:                                                *)
(*   toDecay, bucket, last    Game::toDecayItems, decayItems, lastBucket     *)
(*   limit      of the scene                                                 *)
(*   owed       what the money in the world should be worth                  *)
(*   dropped    what of it was lost because of an offer: see AddItem         *)
(*   unnoticed  coins that were put on a stack without a notification, ditto *)
(*   crowded    containers that got more than fits in them, likewise         *)
(*   lost       objects nothing refers to that were never freed              *)
(*   worn       for how many rounds of checkDecay() this ring has been worn  *)

Empty ==
  [type |-> [o \in Obj |-> "none"], count |-> [o \in Obj |-> 0],
   parent |-> [o \in Obj |-> "none"], duration |-> [o \in Obj |-> 0],
   decaying |-> [o \in Obj |-> FALSE], refs |-> [o \in Obj |-> 0],
   list |-> [c \in Obj \cup {"tile"} |-> <<>>], total |-> [o \in Obj |-> 0],
   slot |-> [s \in Slots |-> NoObj], capacity |-> 0, room |-> 0, carried |-> 0, ability |-> FALSE, offer |-> NoObj,
   toDecay |-> <<>>, bucket |-> [b \in 0..Buckets - 1 |-> <<>>], last |-> 0,
   limit |-> 0, owed |-> 0, dropped |-> 0, unnoticed |-> 0, crowded |-> {}, lost |-> {}, worn |-> 0]

----------------------------------------------------------------------------
(* Rings that are put on and off, transforming, removing *)

RECURSIVE PostAdd(_, _, _), PostRemove(_, _, _, _, _), StartDecay(_, _)

\* The part of transformItem() for an item that stays the same object: it is taken from
\* the position at, not completely, and added again.
Retyped(w, x, t, at) ==
  PostAdd(UpdateThing(IF w.parent[x] = "player" /\ at = RingSlot
                      THEN [w EXCEPT !.ability = FALSE] ELSE w, x, t, w.count[x]),
          w.parent[x], x)

\* transformItem(), of a ring into another.
Transform(w, x, t) ==
  IF w.type[x] = t \/ w.parent[x] = "none" THEN w
  ELSE Retyped(w, x, t, IndexOf(w, w.parent[x], x))

\* MoveEvent::EquipItem(), for the slot of the ring.
Equip(w, x) ==
  IF w.ability THEN w
  ELSE IF w.type[x] = "ring" THEN StartDecay(Transform(w, x, "wornRing"), x)
  ELSE [w EXCEPT !.ability = TRUE]

\* MoveEvent::DeEquipItem(), of a ring that is gone from its slot.
DeEquip(w, x) ==
  IF w.ability /\ w.type[x] = "wornRing"
  THEN StartDecay(Transform([w EXCEPT !.ability = FALSE], x, "ring"), x)
  ELSE [w EXCEPT !.ability = FALSE]

\* postAddNotification() of the cylinder c that x was added to.
PostAdd(w, c, x) ==
  IF ~Carried(w, c) THEN w
  ELSE Weighed(IF c = "player" /\ w.slot[RingSlot] = x THEN Equip(w, x) ELSE w)

\* postRemoveNotification() of c, where x was at the position at.
PostRemove(w, c, x, at, complete) ==
  IF ~Carried(w, c) THEN w
  ELSE Weighed(IF c = "player" /\ at = RingSlot /\ complete THEN DeEquip(w, x) ELSE w)

\* Does RemoveThing() of count take x away completely?
AllOf(w, x, count) == ~Stackable(w, x) \/ count = w.count[x]

\* internalRemoveItem() of count of the stack x, or of all of x.
RemoveItem(w, x, count) ==
  LET c == w.parent[x]
      less == RemoveThing(w, x, count)
  IN  IF c = "none" \/ ~Holds(w, c, x) THEN w
      ELSE PostRemove(IF AllOf(w, x, count) THEN FreeThing(less, x) ELSE less,
                      c, x, IndexOf(w, c, x), AllOf(w, x, count))

----------------------------------------------------------------------------
(* Decay *)

Round == Interval * Buckets

CanDecay(w, x) == ~IsRemoved(w, x) /\ DecayTime(w.type[x]) > 0

Worth(w, x) ==
  IF w.type[x] = "gold" THEN w.count[x]
  ELSE IF w.type[x] = "platinum" THEN StackMax * w.count[x] ELSE 0

Money(w, S) == MapThenSumSet(LAMBDA x : Worth(w, x), S)

\* transformItem() of a corpse: bones take its place.  The tile's notifications change
\* nothing of a world.
Rot(w, x) == FreeThing(ReplaceThing(Create(w, "bones", 1), x, NewObj(w)), x)

\* internalDecayItem().  What is in a corpse goes with it.
InternalDecay(w, x) ==
  IF w.type[x] = "corpse"
  THEN StartDecay(Rot([w EXCEPT !.owed = @ - Money(w, {y \in Obj : x \in Above(w, y)})], x),
                  NewObj(w))
  ELSE RemoveItem(w, x, w.count[x])

\* Mutant: the item is entered again each time.
StartDecayAgain(w, x) ==
  IF x = NoObj \/ ~CanDecay(w, x) THEN w
  ELSE [w EXCEPT !.refs[x] = @ + 1, !.decaying[x] = TRUE, !.toDecay = Append(@, x)]

StartDecay(w, x) ==
  IF x = NoObj \/ ~CanDecay(w, x) \/ w.decaying[x] THEN w
  ELSE IF w.duration[x] > 0
  THEN [w EXCEPT !.refs[x] = @ + 1, !.decaying[x] = TRUE, !.toDecay = Append(@, x)]
  ELSE InternalDecay(w, x)

\* Mutant: a ring that is not worn any more keeps DECAYING_TRUE.
CheckEntryKeeps(w, b, x) ==
  LET out == [w EXCEPT !.bucket[b] = Tail(@)]
      rest == IF w.duration[x] > Round THEN w.duration[x] - Round ELSE 0
      older == [out EXCEPT !.duration[x] = rest]
      b2 == (b + (rest + Interval \div 2) \div Second) % Buckets
  IN  IF ~CanDecay(w, x) THEN FreeThing(out, x)
      ELSE IF rest = 0 \/ (rest < Round /\ b2 = b) THEN FreeThing(InternalDecay(older, x), x)
      ELSE [older EXCEPT !.bucket[IF rest < Round THEN b2 ELSE b] = Append(@, x)]

\* One entry of the bucket b that checkDecay() works off.
CheckEntry(w, b, x) ==
  LET out == [w EXCEPT !.bucket[b] = Tail(@)]
      rest == IF w.duration[x] > Round THEN w.duration[x] - Round ELSE 0
      older == [out EXCEPT !.duration[x] = rest]
      b2 == (b + (rest + Interval \div 2) \div Second) % Buckets
  IN  IF ~CanDecay(w, x) THEN FreeThing([out EXCEPT !.decaying[x] = FALSE], x)
      ELSE IF rest = 0 \/ (rest < Round /\ b2 = b) THEN FreeThing(InternalDecay(older, x), x)
      ELSE [older EXCEPT !.bucket[IF rest < Round THEN b2 ELSE b] = Append(@, x)]

\* An object without references is deleted; a container gives its contents up.
Delete(w, o) ==
  FoldSet(LAMBDA x, v : [v EXCEPT !.parent[x] = "none", !.refs[x] = @ - 1],
    [w EXCEPT !.type[o] = "none", !.count[o] = 0, !.duration[o] = 0, !.decaying[o] = FALSE,
              !.total[o] = 0, !.list[o] = <<>>, !.crowded = @ \ {o}],
    ToSet(w.list[o]))

RECURSIVE Released(_)
Released(w) ==
  LET dead == {o \in Obj : Exists(w, o) /\ w.refs[o] = 0}
  IN  IF dead = {} THEN w ELSE Released(FoldSet(LAMBDA o, v : Delete(v, o), w, dead))

\* cleanup().
Cleanup(w) ==
  LET b(x) == IF w.duration[x] >= Round THEN w.last
              ELSE (w.last + 1 + w.duration[x] \div Second) % Buckets
  IN  [Released(w) EXCEPT !.toDecay = <<>>,
        !.bucket = FoldLeft(LAMBDA bs, x : [bs EXCEPT ![b(x)] = Append(@, x)], @, w.toDecay)]

----------------------------------------------------------------------------
(* Moving an item *)

\* What is asked again after y is where x was, and x is to be put where y was.
Asked(w, x, d, count) == [w |-> w, ret |-> QueryAdd(w, d.cyl, d.index, x, count), to |-> NoObj]

\* The notifications that o was added, if it is in c.
Told(w, c, o) == IF o # NoObj /\ Holds(w, c, o) THEN PostAdd(w, c, o) ELSE w

\* x cannot go to where y is: y goes first to where x is.
Exchange(w, x, y, d, count) ==
  LET from == w.parent[x]
      put == AddThing(RemoveThing(w, y, w.count[y]), from, 0, y)
      full == LET room == MaxCount(w, from, Anywhere, y, w.count[y])
              IN  ~room.enough /\ room.max = 0
  IN  IF QueryAdd(w, from, IndexOf(w, from, x), y, w.count[y]) # "ok" \/ full
      THEN [w |-> w, ret |-> "no", to |-> y]
      ELSE Asked(Told(PostRemove(put, d.cyl, y, IndexOf(w, d.cyl, y), TRUE), from, y),
                 x, d, count)

\* How much of x goes: at most what fits, none if nothing does.
Amount(w, x, fit, count) ==
  IF ~fit.enough /\ fit.max = 0 THEN 0
  ELSE IF Stackable(w, x) /\ count < fit.max THEN count ELSE fit.max

Merges(w, x, y) == y # NoObj /\ Stackable(w, x) /\ w.type[y] = w.type[x]

\* After x was taken from the position at: new, if there is anything new, is added.
Settled(w, x, from, at, all, d, new) ==
  LET freed == IF Stackable(w, x) /\ all THEN FreeThing(w, x) ELSE w
  IN  Told(PostRemove(IF new = NoObj THEN freed ELSE AddThing(freed, d.cyl, d.index, new),
                      from, x, at, all),
           d.cyl, new)

\* Mutant: what does not fit into the other stack is forgotten.
MovedMerges(w, x, d, y, m) ==
  LET merged == IF Merges(w, x, y) THEN Min({StackMax - w.count[y], m}) ELSE 0
  IN  IF merged = 0 THEN w
      ELSE PostAdd(
        Settled(UpdateThing(RemoveThing(w, x, m), y, w.type[y], w.count[y] + merged), x,
                w.parent[x], IndexOf(w, w.parent[x], x), AllOf(w, x, m), d, NoObj),
        d.cyl, y)

\* Coins that are moved are new objects, or part of the stack y they are merged into.
Moved(w, x, d, y, m) ==
  LET merged == IF Merges(w, x, y) THEN Min({StackMax - w.count[y], m}) ELSE 0
      split == Stackable(w, x) /\ m > merged
      new == IF ~Stackable(w, x) THEN x ELSE IF split THEN NewObj(w) ELSE NoObj
      grown(v) == IF merged = 0 THEN v ELSE UpdateThing(v, y, w.type[y], w.count[y] + merged)
      made(v) == IF split THEN Create(v, w.type[x], m - merged) ELSE v
      moved == Settled(made(grown(RemoveThing(w, x, m))), x,
                       w.parent[x], IndexOf(w, w.parent[x], x), AllOf(w, x, m), d, new)
  IN  IF m = 0 \/ (Stackable(w, x) /\ m > w.count[x]) THEN w
      ELSE IF Merges(w, x, y) THEN PostAdd(moved, d.cyl, y) ELSE moved

\* The rest of internalMoveItem().
Transfer(w, x, d, y, count) ==
  Moved(w, x, d, y, Amount(w, x, MaxCount(w, d.cyl, d.index, x, count), count))

Finished(e, x, d, count) ==
  IF d.to = x \/ e.ret # "ok" THEN e.w ELSE Transfer(e.w, x, d, e.to, count)

MoveTo(w, x, d, count) ==
  LET ret == QueryAdd(w, d.cyl, d.index, x, count)
  IN  Finished(IF ret = "exchange" THEN Exchange(w, x, d.to, d, count)
               ELSE [w |-> w, ret |-> ret, to |-> d.to], x, d, count)

\* internalMoveItem().
Move(w, x, c, index, count) == MoveTo(w, x, Destination(w, x, Dest(c, index, NoObj)), count)

----------------------------------------------------------------------------
(* Adding new items, giving and taking money *)

\* AddThing() and the notification, by internalAddItem(): the container may become
\* overfull if it holds the item that the player offers in a trade, see AddItem.
Put(w, c, index, x) ==
  LET put == AddThing(w, c, index, x)
  IN  PostAdd(IF c \in Obj /\ w.offer # NoObj /\ w.parent[w.offer] = c
              THEN [put EXCEPT !.crowded = @ \cup {c}] ELSE put, c, x)

\* Coins that the code forgets while the player offers something in a trade.
Forgotten(w, t, n) ==
  [w EXCEPT !.dropped = IF w.offer = NoObj THEN @
                        ELSE IF t = "platinum" THEN @ + n * StackMax ELSE @ + n]

RECURSIVE AddItem(_, _, _)

Added(w, left) == [w |-> w, ok |-> TRUE, left |-> left]

\* The rest of the stack x, as item, was added with the result r; n of it are in d.
RestAdded(w, r, x, item, rest, d, n) ==
  IF r.ok THEN Added([Forgotten(r.w, w.type[x], r.left) EXCEPT !.lost = @ \cup {x}], 0)
  ELSE Added([FreeThing(r.w, item) EXCEPT
                !.lost = @ \cup {x},
                !.unnoticed = IF Carried(w, d.cyl) /\ w.offer # NoObj THEN @ + n ELSE @], rest)

AddAt(w, c, x, d) ==
  LET n == IF Merges(w, x, d.to) THEN Min({StackMax - w.count[d.to], w.count[x]}) ELSE 0
      rest == w.count[x] - n
      grown == UpdateThing(w, d.to, w.type[x], w.count[d.to] + n)
  IN  IF \/ QueryAdd(w, d.cyl, d.index, x, w.count[x]) # "ok"
         \/ ~MaxCount(w, c, Anywhere, x, w.count[x]).enough
      THEN [w |-> w, ok |-> FALSE, left |-> 0]
      ELSE IF n = 0 THEN Added(Put(w, d.cyl, d.index, x), 0)
      ELSE IF rest = 0 THEN Added(PostAdd(FreeThing(grown, x), d.cyl, d.to), 0)
      ELSE RestAdded(w, AddItem(Create(grown, w.type[x], rest), c, NewObj(w)),
                     x, NewObj(w), rest, d, n)

\* internalAddItem() of x anywhere in c: the world, whether it returns RET_NOERROR, and
\* remainderCount.  Whether x fits is asked of c; where it goes, of its cylinders, and
\* the search of a player passes the offered item over: what c has room for may find
\* none, and a full container that holds the offer may get one item more.
AddItem(w, c, x) == AddAt(w, c, x, QueryDestination(w, c, Anywhere, x, NoObj))

Grounded(w, x, r) ==
  IF ~r.ok THEN AddItem(w, "tile", x).w
  ELSE IF r.left > 0 THEN AddItem(Create(r.w, w.type[x], r.left), "tile", NewObj(r.w)).w
  ELSE r.w

\* internalPlayerAddItem(): what does not fit is put on the ground.
PlayerAddItem(w, x) == Grounded(w, x, AddItem(w, "player", x))

CoinsAdded(w, x, r) ==
  IF r.ok THEN Forgotten(r.w, w.type[x], r.left) ELSE AddItem(w, "tile", x).w

\* One stack of addMoney(), which does not ask for remainderCount.
AddCoins(w, t, count) ==
  LET made == Create(w, t, count)
  IN  IF count = 0 THEN w
      ELSE CoinsAdded(made, NewObj(w), AddItem(made, "player", NewObj(w)))

\* addMoney(), of less than a stack of platinum coins is worth.
AddMoney(w, money) ==
  AddCoins(AddCoins(w, "platinum", money \div StackMax), "gold", money % StackMax)

RECURSIVE Belongings(_, _)
\* What the loops of removeMoney() and removeItemOfType() come by, breadth first.
Belongings(w, queue) ==
  IF queue = <<>> THEN <<>>
  ELSE LET x == Head(queue)
       IN  IF IsContainer(w, x) THEN Belongings(w, Tail(queue) \o w.list[x])
           ELSE <<x>> \o Belongings(w, Tail(queue))

Owned(w) == Belongings(w, SelectSeq([s \in Slots |-> w.slot[s]], LAMBDA x : x # NoObj))

RECURSIVE TakeMoney(_, _, _)
\* The loop of removeMoney() over the multimap: the least worth first.
TakeMoney(w, S, money) ==
  LET least == Min({Worth(w, S[i]) : i \in DOMAIN S})
      i == Min({j \in DOMAIN S : Worth(w, S[j]) = least})
      less == RemoveItem(w, S[i], w.count[S[i]])
  IN  IF money = 0 THEN w
      ELSE IF least > money THEN AddMoney(less, least - money)
      ELSE TakeMoney(less, RemoveAt(S, i), money - least)

RECURSIVE TakeItems(_, _, _)
\* The loops of removeItemOfType(), for a stackable type.
TakeItems(w, S, count) ==
  IF count = 0 THEN w
  ELSE LET x == Head(S)
           n == Min({count, w.count[x]})
       IN  TakeItems(RemoveItem(w, x, n), Tail(S), count - n)

----------------------------------------------------------------------------
(* The program *)

\* Objects for what an action creates, and for the bones a corpse turns into.
MayCreate(n) ==
  Cardinality(Spare(world)) >= n + Cardinality({o \in Obj : world.type[o] = "corpse"})

Do(w) ==
  world' = [w EXCEPT
    !.worn = IF w.slot[RingSlot] = world.slot[RingSlot] /\ w.ability THEN @ ELSE 0,
    !.crowded = {c \in @ : Len(w.list[c]) > w.room}]

RECURSIVE Placed(_, _, _)
Placed(w, made, scene) ==
  IF scene = <<>> THEN [Weighed(w) EXCEPT !.owed = Money(w, Obj)]
  ELSE
    LET p == Head(scene)
        c == IF p[3] = "in" THEN made[p[4]] ELSE p[3]
        o == NewObj(w)
        new == IF p[1] = "ring" THEN [Create(w, p[1], 1) EXCEPT !.duration[o] = p[2]]
               ELSE Create(w, p[1], p[2])
    IN  Placed(AddThing(new, c, IF p[3] = "in" THEN 0 ELSE p[4], o), Append(made, o), Tail(scene))

Init ==
  world \in
    {Placed([Empty EXCEPT !.limit = s.limit, !.capacity = s.capacity, !.room = s.room], <<>>, s.things) : s \in Scenes}

\* Where a client may ask for an item to be put: room stands for any position that
\* does not exist.
Targets ==
  {<<"tile", Anywhere>>} \cup ({"player"} \X (Slots \cup {Anywhere}))
  \cup ({c \in Obj : IsContainer(world, c) /\ ~IsRemoved(world, c)} \X (0..world.room \cup {MoveUp}))

\* Of what lies on the tile only the topmost can be moved.
Movable(x) ==
  /\ Exists(world, x) /\ IsPickupable(world.type[x]) /\ ~IsRemoved(world, x)
  /\ world.parent[x] = "tile" => x = Head(world.list["tile"])

PlayerMoveItem ==
  \E x \in Obj :
    /\ MayCreate(1) /\ Movable(x)
    /\ \E t \in Targets, count \in 1..world.count[x] : Do(Move(world, x, t[1], t[2], count))

\* Scripts and shops: doPlayerAddItem(), doPlayerAddMoney() and so on.
GiveCoins ==
  \E n \in Amounts :
    /\ MayCreate(3) /\ world.owed + n <= world.limit /\ n <= StackMax
    /\ LET made == Create(world, "gold", n)
       IN  Do([PlayerAddItem(made, NewObj(world)) EXCEPT !.owed = @ + n])

GiveMoney ==
  \E n \in Amounts :
    /\ MayCreate(2) /\ world.owed + n <= world.limit
    /\ Do([AddMoney(world, n) EXCEPT !.owed = @ + n])

TakeMoneyAway ==
  \E n \in Amounts :
    LET S == SelectSeq(Owned(world), LAMBDA x : Worth(world, x) > 0)
    IN  /\ MayCreate(2) /\ Money(world, ToSet(S)) >= n
        /\ Do([TakeMoney(world, S, n) EXCEPT !.owed = @ - n])

TakeCoins ==
  \E n \in Amounts :
    LET S == SelectSeq(Owned(world), LAMBDA x : world.type[x] = "gold")
    IN  /\ Money(world, ToSet(S)) >= n
        /\ Do([TakeItems(world, S, n) EXCEPT !.owed = @ - n])

CorpseLies(w) == StartDecay(AddItem(Create(w, "corpse", 1), "tile", NewObj(w)).w, NewObj(w))

Looted(w, corpse, n) == AddItem(Create(w, "gold", n), corpse, NewObj(w)).w

\* A monster dies: its corpse, and money in it.
DropCorpse ==
  \E n \in Amounts :
    /\ MayCreate(3) /\ world.owed + n <= world.limit /\ n <= StackMax
    /\ \A o \in Obj : world.type[o] \notin {"corpse", "bones"}
    /\ Do([Looted(CorpseLies(world), NewObj(world), n) EXCEPT !.owed = @ + n])

\* The player offers something in a trade, or the trade ends.
OfferItem ==
  \E x \in Obj :
    /\ world.offer = NoObj
    /\ Exists(world, x) /\ IsPickupable(world.type[x]) /\ ~IsRemoved(world, x)
    /\ world' = [world EXCEPT !.offer = x]

CloseTrade == world.offer # NoObj /\ world' = [world EXCEPT !.offer = NoObj]

\* checkDecay(), one bucket every EVENT_DECAYINTERVAL.
CheckDecay ==
  LET b == (world.last + 1) % Buckets
      decayed == FoldLeft(LAMBDA w, x : CheckEntry(w, b, x), world, world.bucket[b])
      older == [decayed EXCEPT !.last = b, !.worn = IF world.ability THEN @ + 1 ELSE 0]
  IN  Do(Cleanup(older))

\* The cleanup() after a creature walked or was checked.
CleanupNow == Do(Cleanup(world))

Next ==
  \/ PlayerMoveItem
  \/ GiveCoins \/ GiveMoney \/ TakeMoneyAway \/ TakeCoins \/ DropCorpse
  \/ OfferItem \/ CloseTrade
  \/ CheckDecay \/ CleanupNow

Spec == Init /\ [][Next]_world

----------------------------------------------------------------------------
(* Properties *)

TypeOK ==
  world \in
    [type : [Obj -> Types \cup {"none"}], count : [Obj -> 0..StackMax],
     parent : [Obj -> Obj \cup {"tile", "player", "none"}],
     duration : [Obj -> Nat], decaying : [Obj -> BOOLEAN], refs : [Obj -> Nat],
     list : [Obj \cup {"tile"} -> Seq(Obj)], total : [Obj -> Nat],
     slot : [Slots -> Obj \cup {NoObj}], capacity : Nat, room : Nat, carried : Nat,
     ability : BOOLEAN, offer : Obj \cup {NoObj},
     toDecay : Seq(Obj), bucket : [0..Buckets - 1 -> Seq(Obj)], last : 0..Buckets - 1,
     limit : Nat, owed : Nat, dropped : Nat, unnoticed : Nat,
     crowded : SUBSET Obj, lost : SUBSET Obj, worn : Nat]

Places(o) ==
  {<<"slot", s>> : s \in {s \in Slots : world.slot[s] = o}}
  \cup UNION {{<<c, i>> : i \in {i \in DOMAIN world.list[c] : world.list[c][i] = o}} :
                c \in Obj \cup {"tile"}}

\* An item is in one place, the one its parent says, and in nothing that is in it.
Tree ==
  \A o \in Obj :
    /\ o \notin Above(world, o)
    /\ IF world.parent[o] = "none" THEN Places(o) = {}
       ELSE /\ Exists(world, o) /\ Cardinality(Places(o)) = 1
            /\ Holds(world, world.parent[o], o)

\* Containers are not overfilled, unless a trade's offer was in them; stacks are
\* neither empty nor too large; the equipment fits.
Full ==
  /\ \A c \in Obj : Len(world.list[c]) > world.room => c \in world.crowded
  /\ \A o \in Obj : Exists(world, o) => world.count[o] \in 1..StackMax
  /\ \A s \in Slots : world.slot[s] # NoObj => Fits(world.type[world.slot[s]], s)

Entries(o) ==
  LET all == FoldLeft(LAMBDA a, b : a \o b, world.toDecay,
                      [b \in 1..Buckets |-> world.bucket[b - 1]])
  IN  Cardinality({i \in DOMAIN all : all[i] = o})

One(P) == IF P THEN 1 ELSE 0

\* Every reference is somebody's: an object is not deleted while something refers to
\* it, and is once nothing does.  What is to decay is in one bucket, once.
Counted ==
  \A o \in Obj :
    /\ world.refs[o] = One(world.parent[o] # "none" \/ o \in world.lost) + Entries(o)
    /\ Entries(o) = One(world.decaying[o])

\* A ring that works is on its finger and decays, and one that is not does neither.
RingWorks ==
  /\ world.ability <=> (world.slot[RingSlot] # NoObj)
  /\ \A o \in Obj : world.type[o] = "wornRing" =>
       (IsRemoved(world, o) \/ world.slot[RingSlot] = o) /\ world.decaying[o]

\* The data structures agree with each other after every handler.
Inv == TypeOK /\ Tree /\ Full /\ Counted /\ RingWorks

\* The weights that containers and the player remember are right, and the player
\* never carries more than it may, but for coins that it got unnoticed while it
\* offered an item in a trade.
CarriesWhatItMay ==
  /\ \A c \in Obj : world.total[c] =
       MapThenSumSet(LAMBDA o : Weight(world, o), ToSet(world.list[c]))
  /\ Weighed(world).carried - world.carried \in 0..world.unnoticed
  /\ world.carried <= world.capacity + world.unnoticed

\* Whatever is moved, split, merged, exchanged, given or taken, and whatever does not
\* fit: the money there is is worth what scripts gave and did not take (game.cpp
\* internalMoveItem(), internalAddItem(), removeMoney()); only while the player offers
\* an item in a trade coins may be forgotten.
NothingMadeOrLost ==
  Money(world, {o \in Obj : ~IsRemoved(world, o)}) + world.dropped = world.owed

\* A ring that is worn without a break is used up after the time it had, whatever
\* bucket it was left in when it was worn before: at most one time around the buckets
\* late (checkDecay(), cleanup()).
WornOut ==
  world.worn <= Buckets * ((RingTime + Round - 1) \div Round) + 1
=============================================================================
