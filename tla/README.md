# A verification project for The Forgotten Server (OTServ, SVN era)

TLA+ models of the parts of this game server whose correctness depends on the
order of things: threads, connections, messages, logins, waiting clients,
parties, trades, items, creatures, the market, houses and mail.  TLC checks each
model on a small instance.  For the threads, the life of connections and of
players, the output messages, the waiting list, parties, trades, the market and
houses, TLAPS proves the safety properties for every instance, with any number of
threads, clients, messages, items, offers and houses, and that the dispatcher
implements its abstract specification.

`src/` below is the root of the server's sources.  `PROJECT.json` lists, per
definition, the lines it translates; per property, the run that checks it and a
plausible bug (a *mutant*, an operator marked `Mutant:` in the modules) that
the run finds; and the hazards of the code, each at its line.

## 1. The system

The server is one process with three threads of its own:

* the **network thread** runs the completion handlers of boost::asio
  (`connection.cpp`, `server.cpp`);
* the **dispatcher's thread** (`tasks.cpp`) runs tasks, one after the other.
  All game state is touched here, without locks;
* the **scheduler's thread** (`scheduler.cpp`) posts tasks to the dispatcher
  when their time has come.

What the game does is therefore a sequence of short, atomic handlers; what is
hard is what happens *between* them: objects kept alive by counts and by the
order of the task queue, results looked at in one task and used in a later one,
pointers in both directions between objects with different life times, and the
database, which changes at other times than memory does.  What is hard *within*
one is a handler that notifies others half-way, or that fails half-way.

| Component | State | Operations | What is hard |
|---|---|---|---|
| Task dispatcher (`tasks.cpp`) | queue, thread state | `addTask`, `dispatcherThread`, `stop`, `shutdown`, `flush` | wake-ups notified after the unlock; tasks run by `flush()` under the lock |
| Event scheduler (`scheduler.cpp`) | priority queue, set of live ids, last id | `addEvent`, `stopEvent`, `schedulerThread`, `stop`, `shutdown` | an event stopped while it is taken; an earlier event added while the thread sleeps for a later one; the id read after the unlock |
| Start and shutdown (`game.cpp` `setGameState`, `Game::shutdown`, end of `main()`) | both thread states | two `stop()`, two `shutdown()`, two `join()` | the order of the four calls, with tasks and events arriving meanwhile |
| Connection and protocol life time (`connection.cpp`, `protocol.cpp`) | connection state, pending reads and writes, timers, reference counts, tasks under way | accept, read, write, time out, close, release | closing from either thread with operations under way; deletion of two objects that refer to each other |
| Output message pool, locks of the network layer (`outputmessage.cpp`) | auto-send list, list of waiting messages, three locks | `getOutputMessage`, `send`, `sendAll`, `autoSend`, `releaseMessage`, `stop` | locks taken in both orders; order of waiting messages; a buffer the game still writes to |
| Login and takeover (`protocolgame.cpp`, `game.cpp`) | which protocol controls which Player, use counts, the check vector, `ToReleaseThings` | `login`, `connect`, `releaseProtocol`, `deleteProtocolTask`, logout, kick, death, `checkCreatures`, `cleanup` | several clients that take over one character; events bound to clients that hang up |
| Waiting list (`waitlist.cpp`) | list with time-outs | `clientLogin`, `cleanUpList` | retries racing time-outs; priorities; places reserved for those ahead |
| Parties (`party.cpp`) | leader, members, invitations, shared experience | invite, join, revoke, leave, pass, disband, share | mutual pointers through logouts and the end of a party; a cached decision |
| Trade (`game.cpp`, `player.cpp`) | per player state, partner, item; the map of items on offer | request, accept, close, notifications | items offered in one task and exchanged in a later one, while the world may touch them |
| Items, containers, tiles (`game.cpp`, `container.cpp`, `player.cpp`, `tile.cpp`) | the tree of cylinders, stacks, cached weights, reference counts | move, exchange, add, remove, pay, transform | moves that are tested and then done in parts; recursive calls; notifications in the middle |
| Decay (`game.cpp` `checkDecay`) | buckets by time, `toDecayItems` | start, stop, visit, cleanup | items that change or vanish while they are in a bucket |
| Creatures, monsters, spawns (`creature.cpp`, `monster.cpp`, `spawn.cpp`) | the vectors of creatures to check, lists of friends and targets, masters and summons, the map of spawned monsters | appear, move, think, attack, die, convince, summon, spawn | idle monsters that nobody visits; lists that hold references; relations that change while they are listed |
| Market (`game.cpp`, `iomarket.cpp`) | rows of offers, balances and goods in memory and in the database | create, cancel, accept, expire | owners on- or offline; two writes with a crash between them; loads and saves that fail |
| Houses and beds (`house.cpp`, `housetile.cpp`, `beds.cpp`) | owner, guests, warnings, sleeper, a sale under way | buy, sell, give, pay rent, invite, sleep, wake up | owners who are offline; windows and trades answered after the house changed hands |
| Mail, depots, inboxes (`mailbox.cpp`) | what is in the inbox, in memory or in the database | deliver | receivers who are offline, loads and saves that fail |
| Chat, guilds, bans, kills | channels, invitations, rows | join, leave, invite, expire | private channels of owners who leave |
| NPCs, raids, combat, spells, conditions, path finding | data files, random numbers | think, attack, cast | little interleaving; large formulas |
| Databases, world and data loading, Lua, status/admin protocols, encryption, Windows dialogs | | | wrappers, parsers, algorithms |

How they interact: the network thread parses a packet and posts a task bound to
the protocol object (or to `Game` with a player's id); the task changes game
state and writes to an output message, which refers to connection and protocol
until it was sent, and after each task the dispatcher sends what was written
(`sendAll()`); periodic work (`checkCreatures`, decay, spawns, expired market
offers, retries of `releaseConnection()` and `releaseProtocol()`) goes through
the scheduler back into the dispatcher.  `ProtocolGame` and `Player` point at
each other; `Player` and `Party` too, a monster and its master, a monster and
those it targets; an offer of the market and a house name their owners by a
database id.

## 2. Modules

| Module | Models | Code behind it |
|---|---|---|
| `TaskQueue` | the promise of the dispatcher: accepted tasks are taken in order, once, one at a time (abstract) | `tasks.h`, callers |
| `Dispatcher` | `tasks.cpp` in full | `addTask()` … `flush()` |
| `Scheduler` | `scheduler.cpp` in full | `addEvent()` … `shutdown()` |
| `TaskThreads` | both threads composed, with the network thread, up to the joins | `game.cpp` 197 ff., `otserv.cpp` |
| `TaskThreads_proofs` | theorems about the two threads, each alone and together | |
| `Lists`, `Lists_proofs` | lists with members left out, and in which order two stand; what `Append`, `\o`, `Reverse`, `RemoveAt`, `InsertAt` and leaving out keep | the loops over lists of `OutputPool` and `WaitList` |
| `Connection` | one connection, its protocol object, its messages | `connection.cpp`, `protocol.cpp`, `outputmessage.cpp` |
| `Connection_proofs` | theorems about it | |
| `OutputPool` | the pool of messages between the two threads, and the locks | `outputmessage.cpp`, `tasks.cpp`, `connection.cpp` |
| `OutputPool_proofs` | theorems about it | |
| `GameLogin` | the clients of one character and the objects they leave | `protocolgame.cpp`, `game.cpp` |
| `WaitList` | the waiting list | `waitlist.cpp` |
| `Logins_proofs` | theorems about `GameLogin` and `WaitList` | |
| `Party` | parties, invitations, shared experience | `party.cpp`, `game.cpp` |
| `Party_proofs` | theorems about it | |
| `Trade` | trades and what calls them off | `game.cpp`, `player.cpp` |
| `Trade_proofs` | theorems about it | |
| `Cylinders` | containers, equipment and tiles: what they answer and what they obey | `container.cpp`, `player.cpp`, `tile.cpp` |
| `Items` | moves, stacks, money, rings, decay, on top of `Cylinders` | `game.cpp`, `item.cpp`, `movement.cpp` |
| `Creatures` | monsters, summons, spawns, idleness, death and deletion | `creature.cpp`, `monster.cpp`, `spawn.cpp`, `game.cpp` |
| `Market` | offers, balances, goods, crashes | `game.cpp`, `iomarket.cpp` |
| `Houses` | houses, beds, rent, mail, on top of the accounts of `Market` | `house.cpp`, `beds.cpp`, `mailbox.cpp`, `commands.cpp` |
| `Houses_proofs` | theorems about houses and the market together | |

A module `XMC` gives the constants of `X` small sets.  `TaskThreads` EXTENDS
`Dispatcher` and `Scheduler`, whose variables are disjoint (prefixes `d_` and
`s_`), and conjoins their actions: handing over an event *is* an `addTask()` of
the scheduler's thread.  `Dispatcher` instantiates `TaskQueue` under the
mapping `pending <- m_taskList, status <- outcome`.  `Items` EXTENDS `Cylinders`,
and `Houses` EXTENDS `Market`: rent is taken from the balance the market uses,
and what a house, a letter or an offer yields goes to the same inboxes.

Conventions.  An action is a whole handler, or a whole critical section where
two threads meet.  Variables that only record what happened (`outcome`,
`fate`, `stopped`, `faults`, `owed`, `lost`, `taken`, `hasty`, …) are said to be so
in their comments.  Bounds are constants named in the module's CONSTANTS with the
word *bound*.  In `Cylinders`, `Items` and `Creatures`, whose handlers call each
other and recurse, a handler is an operator from world to world, as in
`Connection`, and an action applies it.  `Items`, `Creatures` and `Houses` start
in one of several *scenes*: small initial situations, each of which allows part
of what may happen, so that every interesting combination occurs in one of them
without all of them occurring in all.

### Dispatcher and TaskQueue

A critical section under `m_taskLock` is one step; the notification after it is
another (`Notify`), lost unless the thread waits.  `WakeUp` returns from the
wait without testing the queue in a loop, as the code does, and may be
spurious.  `flush()` runs task bodies while `shutdown()` holds the lock, so its
steps are separate and nobody else takes the lock meanwhile; a flushed task
that posts (`FlushedTaskPosts`) locks a plain mutex its own thread holds: the
thread stays there.  `start()` is the initial state, `join()` the end.

### Scheduler

The heap is the set of its events; `Top` is any of the earliest (the heap
decides ties arbitrarily).  `stopEvent()` only removes the id, the thread finds
the event later and deletes it.  `addEvent()` reads the id from the event after
the unlock and the notification (`ReturnId`), when the event may already have
been taken, run and deleted.  Ids wrap around at `MaxId`.

### Connection

`conn` is one record; methods are functions of it, so that a handler applies
them in the order the code does.  The network thread's handlers hold the
connection's lock throughout and are atomic; the reference counts are changed
by the dispatcher's thread without that lock, so `internalReleaseMessage()` is
two steps and a change by the other thread in between may be lost
(`AfterUnRef`), as the compiled read-modify-write can.  A timer that expired
before `cancel()` still runs its handler.

### OutputPool

`owner` says who holds which of `m_outputPoolLock`, the connections' locks and
`m_taskLock` between two steps; a step that needs a lock waits until it is free,
and a lock taken and given back within one step does not appear.  `m_outputPoolLock`
and `m_connectionLock` are recursive, `m_taskLock` is not.  A message is on
`autoSend` or `toAdd`, being written, in a thread's hands, or on its way back to
the pool: the network thread's handler gives it back only after it has released the
lock of its connection (`NetReleases`), by a task (`ReleaseMessage`).  Age is counted in
frames of 10 ms, and ten seconds are `DropAge` frames.  The number of message
objects is bounded; `MayWrite` keeps one for a handler of the network thread, as
the pool itself grows on demand.  `issued` remembers what was written for a client
and in which order, `together` which messages waited at the same time.  Liveness is
stated of one message, `Watched`; nothing tells messages apart.

### GameLogin

`queue` holds the tasks bound to protocol objects in the dispatcher's order; a
`connect()` scheduled a second later becomes due in the order it was scheduled
in, at any time.  What refuses a login (bans, passwords, a full server) is one
choice.  A `Player` object's use count is changed where the code changes it:
by protocols, the map, the check vector and `ToReleaseThings`.

### WaitList

`CleanUp` leaves the entries that have time left, in their order; the handlers that
call `cleanUpList()` go on from there.  Time in units of 5 seconds.  A client is away,
was told to come back, or plays.  `Patient` clients come back when they were told to;
others whenever they like or never.

### Party

Every `playerXxxParty` handler with the checks in front of the `Party` method,
logins, logouts, moves between areas, level changes, and the points of members
that decide on shared experience.  An address is free again once its party
deleted itself, so that stale pointers would meet a different party.

### Trade

An item is on the ground, in a slot, in a backpack, in a container or gone.
`version` changes with its count or its kind, of which the notifications are told
(`Changed`).  `text` is what is written on it, by whom and when: using something to
read opens a window (`UseItem`), and the answer (`PlayerWriteItem`) changes the text
and calls no trade off, unless the item can be written on once and so becomes another
kind.  Windows are answered late; `writeItem` remembers on what a player may write.  No
step depends on `version` or `text`, which matter only as changed or not, so the run's
VIEW leaves them out.  A step on the map that takes a player out of range is `Move`.

### Cylinders and Items

One world record holds all objects of one player (a backpack, a hand and a ring
finger) and the tile it stands on.  `Cylinders` has the questions (`QueryAdd`,
`QueryMaxCount`, `QueryDestination`, …) and the orders (`AddThing`, `UpdateThing`,
`RemoveThing`, …) per kind of cylinder, with the weights that containers and the player
cache and the references that are counted; `Items` has the handlers that ask and
then order: `internalMoveItem()` with exchange and merge, `internalAddItem()`
with its recursive remainder, `removeMoney()` and `addMoney()` with change,
`transformItem()`, `startDecay()`, `checkDecay()`, `cleanup()`, and an item that is on
offer in a trade, which some queries pass over.  `owed` is what scripts gave
minus what they took.

Kinds: bags, gold and platinum coins, a ring that is another kind while worn, a corpse that turns
into bones.  Net changes of reference counts are taken instead of their ups
and downs within a handler.  `MayCreate` bounds the objects.  There are `Buckets` = 2
instead of 4 and times are halved.  The run's VIEW merges states that differ
only in which object stands for which item; it keeps everything else, and the
properties do not name objects.

### Creatures

Places lie on a line, sight and reach are distances, and the spectators of an
event are told in the order of the hash of their addresses (`Order`).  A world
record holds every creature with its master, summons, targets, friends, what it
attacks, whether it is idle and whether `checkCreatures()` visits it, the
references that are counted and those that `cleanup()` will release; the map
of spawned monsters, and whether the spawn's event is scheduled.  Handlers are
applied as the code calls them: moving somebody tells the spectators, who
update their targets, fall idle or wake up.  Whether a blocked time has passed
(`due`) is a choice.  What `checkCreatures()` finds in `toAddCheckCreatureVector` is
merged with the vectors (`listed`).  For a wild monster, the creature it follows is the
one it attacks.  Left out: paths, floors, conditions, combat
values, PvP and protection zones, invisibility, fleeing, parties, and a
summon for which no place is found.  `births` bounds how many monsters come to be.

### Market

Offers are rows, identified by ids that are not used twice.  What a player that
is online owns is `mem`, what the database says is `db`; a save copies one to
the other.  A handler with two writes to the database is two steps, with `row`
and `sweep` holding what the running task has still to do, during which only a
crash may happen.  `faults` records what went wrong.

### Houses

A house has an owner, guests, goods on its tiles, warnings, and a sleeper if it
has a bed.  Handlers are operators on a record of accounts and houses:
`SetHouseOwner` sends what is inside to the old owner (`TransferToDepot`, loading
and saving one that is offline), puts everybody out, wakes the sleeper and
clears the list of guests.  `PayHouses` and `CloseServer` make the rent of every
house `due`; one turn of the loop of `payHouses()` is a step (`PayHouse`), and nothing
else runs before the last.  A turn loads an owner that is offline and saves it *as
it was loaded*.  Which load and which save fails is one parameter of a handler.  A window to edit the
guests or to go to bed is `editing` or `bedside` between the task that opens it and
the one that answers it; a house offered in a trade is `sale`, of which `Trade` has
the rest.  Where there are houses nothing crashes (how houses are saved with the
map is not modelled) and the market is closed; where there are none the market is
open.  Where a player is when it logs in is a choice.

## 3. Runs

States are those TLC finds distinct; every run ends within about three minutes on
two workers.  Each passing run checks a type invariant as part of its `Inv`.

| Run | Instance | Checks | States |
|---|---|---|---|
| `TaskThreads` | the dispatcher, the scheduler, one network thread; 1 event, 2 tasks of which one expires, the shutdown task | no lost wake-up, nothing abandoned; implements `TaskQueue`; the late read of the id meets a live event, no event is refused before `stop()`; accepted tasks and events run; both threads end | 135 thousand |
| `Scheduler` | 3 events, ids 1..3, delays up to 2, clock to 3; a client that stops events and one that does not | ids are those of the waiting events, a time-out finds a due event; no event waits for a later one; a stopped event never runs | 1.3 million |
| `Connection` | 2 messages, 1 task, counts raced | closed once, released when closed, counts are references, messages keep their owners, tasks find their protocol; no message is cut off; a close completes | 330 thousand |
| `OutputPool` | 3 messages of one client | a message is in one place and written to only before it is sent; threads lock each other out in two ways only; order kept but for two ways; every message leaves the lists | 427 thousand |
| `GameLogin` | 3 clients of one character | use counts, no dangling pointer; one client in control; removed players are freed; takeovers are decided | 79 thousand |
| `WaitList` | 3 clients of either kind, two of them patient, and a member of staff; 2 places | premium first, places are kept; room for those ahead; nobody is overtaken; patient clients get in | 29 thousand |
| `WaitList_place` | 3 clients, 1 place | **violated**: see finding | |
| `Party` | 3 players, 2 parties at a time, levels 2, 3, 4, 2 areas | membership and invitations are mutual, a party has a purpose; shared experience is due | 222 thousand |
| `Trade` | 3 players, a bag, a stack of coins, a letter | partners are mutual, offers are disjoint; offers stay as they are but for a text, which nobody else writes on what its owner has; swap or nothing | 39 thousand |
| `Items` | 5 objects at most, stacks of 3, capacities of 3 and 5, five scenes: money, a ring, corpses, a bag in a bag, a bag with room for one thing | the tree, stacks, counts and buckets agree; cached weights are right and nobody carries too much; no money is made or lost; a worn ring wears out | 116 thousand |
| `Creatures` | a player and 2 monsters on 4 places, sight 1 and reach 2, five scenes: a spawn, a spawn and a convincer, summons, orders to summons, a script that removes one | references, masters, lists and vectors agree; a monster is idle only when it sees nobody; a spawn goes on looking; no object is forgotten but in one known way | 318 thousand |
| `Houses` | 2 players; 2 offers of 1 or 2 pieces at 1 or 2 gold; a house with rent 2 and one warning; a house with rent, goods and mail; a house with guests and a bed; 2 houses; one fault | offers are covered, houses, beds and players agree; every change of hands is at the price of an offer, by mail or through a house; offline players lose nothing but rent | 780 thousand |

Why these bounds.  *TaskThreads*: a lost wake-up needs a task posted between the
test of the queue and the wait, and another posted to a queue that is no longer
empty: two tasks of two threads; one event is enough for every order of
hand-over, stop and shutdown.  *Scheduler*: a late event needs one the thread
sleeps for, one that comes earlier, and one between; ids of 3 wrap only after all
events were added (a wrap that collides with a waiting id breaks
`StoppedNeverRuns`; with 2^32 ids that takes an event older than four billion
others).  *Connection*: a second message waits for the first.  *OutputPool*: one
message is being written while two wait, in which order they come back is then
told; the two threads have only to meet at one connection, and at the pool.
*GameLogin*: a third client arrives while the second one's `connect()` is due.
*WaitList*: a premium client, an ordinary one before and one behind it, one that
gave up.  *Party*: leader, member and invited player; a second party for players
invited to both.  *Trade*: a third player asks for what two are trading, or
writes on it; a bag with something in it.  *Items*: a stack that is full, one that is not, and a
remainder; a bag in the bag that is moved; stacks and capacities of three let
merges, splits and change occur, at the limit and below it.  *Creatures*: four
places tell "sees", "reaches but does not see" and "neither" apart; with two monsters there is a
spawned one and its successor, a summon and its target, a master that is
a monster, or two in each other's lists.  *Houses*: buyer and seller; two offers of one owner or of both; amounts
that can be sold in parts; one warning is the last but one step to an eviction; a
second house only matters to who owns two.  Levels 2, 3, 4 lie on both sides of the
limit (two thirds of the highest level) that shared experience sets.

`CHECK_DEADLOCK FALSE` is set where the system may stop: after a shutdown, when
threads have locked each other out, when the clock of the model has reached its
bound, when everything was deleted, or when all offers were used.

Symmetry is used only in runs without liveness properties, over players, events,
areas or offers that nothing tells apart.

### Fairness

* TaskThreads: the operating system schedules threads that can run (weak fairness
  of each thread and of a pending notification), task bodies return, and time
  passes.  No fairness of posting threads, of the choice to shut down, or of
  spurious wake-ups.  One assumption is strong (`SF` of `Timeout`): of a timed wait
  whose deadline lies in the past, wake-ups do not win the race for ever; each
  lap of the loop calls `timed_wait()` with that deadline again.
* Connection: boost::asio completes the operations of a socket that was closed
  and runs the handler of an armed timer; the dispatcher runs its queue; the
  retries after 50 ms run again and again (strong fairness, since messages may
  be added in between).  No fairness of the client, which may never answer.
* OutputPool: the network thread goes on (weak fairness), and a write ends or times
  out.  The dispatcher's steps have strong fairness: each needs a lock that the
  network thread takes and gives back again and again, and a thread that
  waits for a mutex that is free infinitely often gets it some time; a task
  ends; and tasks go on coming with time between them, which the scheduler's
  periodic events see to.
* GameLogin: the dispatcher runs its queue, scheduled events come due,
  `checkCreatures()` comes round for every vector.
* WaitList: time passes, patient clients come back when told, and players log
  out some day.  The last two are assumptions about clients, without which the
  claim would be false.

The other modules state safety only.  That a spawn replaces what was killed and that idle monsters
wake up is said by `SpawnGoesOnLooking`, `IdleSeesNobody` and
`AwakeIsChecked` as state predicates: who will act is on the list of those who
do.  That a worn ring is used up is a bound on a counter (`WornOut`).  Leads-to
properties over these worlds are beyond what TLC evaluates in minutes.

## 4. What is proved

TLAPS checks every theorem for all values of the constants that satisfy the
assumptions the modules state.  Each safety property, and each action property, of the
runs `Scheduler`, `TaskThreads`, `Connection`, `OutputPool`, `GameLogin`, `WaitList`,
`Party`, `Trade` and `Houses` is the conclusion of one of them.  What the assumptions leave out:

| Module | Assumes, besides the kinds of its constants |
|---|---|
| `Dispatcher` | the shutdown task is a task without an expiration; the dispatcher's own thread is not among the callers |
| `Scheduler` | the stoppers are clients, `NoEvent` is not an event, there is at least one id |
| `TaskThreads` | an event is a task without an expiration; the scheduler's thread is one of those that post, and only the dispatcher's stops events, as in the code |
| `Connection` | messages are finitely many and none is one of the two other tasks |
| `OutputPool` | locks have names of their own; a message is not too old at once |
| `GameLogin` | clients are finitely many; `None` is none of them |
| `WaitList` | clients are finitely many; staff and patient clients are clients |
| `Trade` | containers are finitely many and do not come in stacks; containers, stacks and what can be read are items; `None` is neither a player nor an item |
| `Party` | `None` is neither a player nor an address nor an area; there are levels and areas |
| `Market` | ids are finitely many; prices and amounts are positive, a fee is at least `MinFee` and at most `MaxFee`; `None` and `Gone` are neither ids nor players, nor records of the kinds that stand in the same places |
| `Houses` | what a scene names are houses, and only houses have beds; `None` is neither a house nor a sale |

Two hypotheses are no assumptions of a module, but stand in the theorems that need
them and are false without: `IdsSuffice` (no more events are created than there are ids)
and `SelfInvites = FALSE` (see section 5).

### Threads (`TaskThreads_proofs`)

| Theorem | Says |
|---|---|
| `DispatcherIsSafe` | `DispatcherInv`, the conjunction of the four that follow |
| `TypeCorrect` | `DispatcherTypeOK` is an invariant |
| `NoTaskLost` | the queue holds exactly the accepted tasks not taken yet, each once |
| `WakeUpOnItsWay` | `NoLostWakeUp` is an invariant |
| `ShutdownLeavesNothing` | `NothingAbandoned` is an invariant |
| `DispatcherImplementsTaskQueue` | every behaviour of `DispatcherSpec` is one of `TaskQueue` |
| `SchedulerTypeCorrect` | `SchedulerTypeOK` is an invariant |
| `SleepsPastNoEvent` | `NoLateEvent` is an invariant |
| `TimeoutIsJustified` | `TimeoutFindsDueEvent` is an invariant |
| `StoppedEventNeverRuns` | if `IdsSuffice`, `StoppedNeverRuns` is an invariant |
| `SchedulerIsSafe` | if `IdsSuffice`, so is `SchedulerInv` |
| `DispatcherInServer` | in the composition the dispatcher's thread keeps to `DispatcherSpec` |
| `SchedulerInServer` | and the scheduler's thread to `SchedulerSpec` |
| `DispatcherIsSafeInServer`, `ServerImplementsTaskQueue`, `StoppedNeverRunsInServer` | hence what was proved of each alone holds of the whole |
| `ThreadsAreSafe` | if `IdsSuffice`, `ThreadsInv`: the dispatcher's thread reads the id from a live event, and no event is refused before `stop()` |

*Dispatcher.*  None of the properties is inductive alone.  `IInv` adds to them
that a task counts as taken exactly while the loop or `flush()` has it in hand
(`TakenInHand`), and that `flush()` runs only inside the shutdown task and never
has the task of the loop in hand (`FlushInShutdown`).  Without the first, the task
that a step finishes might be one the queue still holds; without the second, the
loop and `flush()` might finish the same one.  The refinement maps posting to
`TaskQueue`'s posting, taking from the queue (by the loop and by `flush()`) to its
taking, and everything else to its finishing or to a stutter.

*Scheduler.*  `SleepInv` is about the queue and the sleep: an event counts as queued
exactly while it stands in `m_eventList` or the thread has it in hand, a client that
has yet to notify is inside `addEvent()`, and the event a timed wait was started
for, or an earlier one, stays in the queue, because `stopEvent()` takes none out.
If a new event is not the top although the thread sleeps too long for it, the thread
sleeps too long for the top as well, for which a wake-up is on its way by
induction.  `IdInv` adds the ids: no two events share one (counted against the
number of events), an event is left out only if it was stopped, and while a client is
inside `addEvent()` nobody else can stop its event and, if the client keeps the id,
nobody has deleted it.  The last is where the code's order matters: `addEvent()` reads
the id after the unlock, and a thread that keeps it must be the one that runs and
deletes the events.

*Together.*  A step of the composition is a step or a stutter of each thread's own
specification.  For the scheduler that needs an invariant of both: the dispatcher
refuses an event only after the scheduler was stopped (`setGameState` and
`Game::shutdown` stop the scheduler first), and no shutdown task runs
while the dispatcher's thread is inside an `addEvent()` (`CallsInTask`,
`EventsArePosted`, `StopOrder`).

### Connections and messages (`Connection_proofs`, `OutputPool_proofs`)

| Theorem | Says |
|---|---|
| `ConnectionIsSafe` | `Inv` of `Connection`: `closeConnectionTask` once, release once and with the socket closed, counts that are the references, tasks that find their protocol |
| `LastMessageIsWritten` | `LastMessageNotCutOff` |
| `OutputPoolIsSafe` | `Inv` of `OutputPool`: one place per message, and the game writes only before it is sent |
| `OnlyTheseDeadlocks` | `OnlyKnownDeadlocks` |
| `ClientsGetItInOrder` | `OrderKept` |

A handler of `Connection` is a function from connection to connection, so the proof
goes method by method: a lemma per method says that it keeps `Sound`, and the actions
compose them.  `Sound` adds to `Inv` that an operation on an open socket is pending,
that the protocol's tasks stand before `closeConnectionTask` in the queue
(`QueueTells`), and that the protocol is released by that task and the connection at
its end (`StateTells`).  That messages are finitely many makes a count a number;
what they refer to (`References`) is said as long as the two threads did
not change a count at once (`raced`).

The invariant of `OutputPool` has two halves.  `ThreadsSound`, the locks that each
place in the code holds, gives the deadlocks: `LocksHeld` determines from the two
threads' places who has which lock.  `DataSound` says where a message is: at exactly
one of eight places (`Placed`), on no list twice, and, for the order, that the
auto-send list keeps the order of writing except among messages put back together
(`ListInOrder`), and that those put aside were due (`AsideIsDue`), so that they come back
in front.

### Logins (`Logins_proofs`)

| Theorem | Says |
|---|---|
| `GameLoginIsSafe` | `Inv` of `GameLogin`: use counts are owners, nothing points at a deleted `Player`, tasks find their protocol |
| `AtMostOneInControl` | `OneClientInControl` |
| `WaitListIsSafe` | `WaitListInv`: one entry per client, premium first, kept for those who come in time |
| `PlacesAreKeptFree` | `RoomForThoseAhead` |
| `InOrder` | `NobodyIsOvertaken` |

`IInv` of `GameLogin` ties the objects to the queue of tasks: a protocol's tasks stand
in their order and last of them its deletion (`QueueInOrder`); a reference keeps it
while a `connect()` is scheduled or posted (`ConnectIsOnItsWay`); a protocol with a
connection is the client of its player, and a client's player is that one
(`PlayerOfProtocol`, `ClientOfPlayer`).  `isConnecting` is justified by
`SomebodyWillConnect`: of those that took a player over, one finds the former client
gone when its `connect()` runs, because that one's closing stands before it in the queue,
or, if it was closed already, because the task that lets it go is due before.

In `WaitList`, `PlaceIsKept` alone is not inductive: an entry with time left may
have none a tick later.  `Kept` says that it has 15 seconds more than are left until the
client is expected.  `PremiumFirst` and one entry per client are said of any two entries of
which one stands before the other (`Ordered`), which each of the operations keeps: leaving
out, taking one out, putting one in.  So is `NoneOvertaken`, from which
`NobodyIsOvertaken` follows.  `RoomForThoseAhead` needs that only one client gets in per step.

### Parties and trades (`Party_proofs`, `Trade_proofs`)

| Theorem | Says |
|---|---|
| `PartiesAreSound` | players and parties agree on members, the invited know, no party outlives its purpose, with or without `SelfInvites` |
| `PartyIsSafe` | if not `SelfInvites`, `Inv` of `Party`: they agree on invitations as well |
| `SharedExperienceFollows` | `SharedExperienceIsDue` |
| `TradeIsSafe` | `Inv` of `Trade`: two sides, both online; `tradeItems` holds exactly the offers, each in reach and none in another |
| `OffersAreLeftAlone` | `OfferStaysAsItIs`: what is on offer, and what is in it, stays where it is in the same count and kind; on what its owner has, nobody else writes |
| `BothOrNothing` | `SwapOrNothing` |

The invariant of `Party` is a conjunction over parties (`PartyGood`): one party and
the players that point at it.  A handler works on one party while
`GoodBut` says that all others are as they should be, and ends with `disbandParty()`
or the update of shared experience, after which `Good` holds again.

That no container holds itself, at any depth, is the core of the proofs about trades:
`Holders` is the least set closed under "is in", and the lemmas say what moving
one thing does to it.  `IInv` adds to `Inv` only this (`Acyclic`) and that
who has not offered anything has nothing on offer.

### Houses and the market (`Houses_proofs`)

| Theorem | Says |
|---|---|
| `HousesIsSafe` | `HousesInv`: offers are covered, houses, beds and players agree, whatever crashes or cannot be loaded or saved |
| `HousesIsFair` | `FairDealing`: without a fault, every change of hands is at the price of an offer, by mail, or through a house |
| `HousesKeepsWorth` | `OfflineKeepsItsWorth`: who is offline loses nothing but by its own offers and its rent |

What a player is worth is what it has (in memory if it is online, else in the database)
plus a sum over its offers.  The proof about sums comes first: the sum over a
function on a finite set does not depend on the order, and changes by as much as one of its values does
(`SumChanges`).  Each handler of the market changes one offer, and with it one term, so
`Worth` of one or two players changes by a known amount (`CreateKeeps`, `CancelKeeps`, …);
the two writes of a handler that crosses to the database are two steps, between which the row
that is still to be changed counts as sold (`Left`).

Houses are records of accounts and houses, and the handlers operators on such records, as in
`Connection`.  `TransferToDepot` and `SetHouseOwner` have lemmas that say who gets what,
for an owner that is online, offline, cannot be loaded, or cannot be saved.  The inductive
invariant adds to `HousesInv` that only houses of the scene have anybody in them or are
for sale (`InTheScene`), that nobody takes part in two sales (`SalesAreApart`), and that who is
offered a house has none, unless it bought one since (`BuyersHaveNone`): `SellHouse` looks
when the trade starts, and without the last, `ExecuteTransfer` would give it a second one.
`OneEach` says `OneHouseEach` without counting.  TLC checked this invariant on the run's
instance before it was proved.

### Only model-checked

Liveness (`AcceptedTaskRuns`, `EventRuns`, `BothThreadsEnd`, `CloseCompletes`,
`EverythingLeaves`, `RemovedIsFreed`, `TakeOverIsDecided`, `WaitingGetsIn`): it needs
fairness, which is outside of the prover's reach.  `Items` and `Creatures`: they and
`Cylinders` declare RECURSIVE operators, which the prover cannot use.


## 5. Findings and known divergences

* **A premium client that joins a list without ordinary clients gets no entry**
  (run `WaitList_place`).  The comment at `waitlist.cpp:71` says an entry lasts
  15 seconds longer than the expected retry; `waitlist.cpp:109` inserts a premium
  client only in front of an entry that is not premium, so with none on the list
  nothing is inserted, and the client is told place -1.

Others met while modelling, each excluded from a property where its comment says
so.

Threads, connections and messages:

* `Scheduler::shutdown()` notifies nobody (`scheduler.cpp:66`): a scheduler
  asleep on an empty list never ends and `main()` waits in `join()`
  (`BothThreadsEnd` allows it).
* A task that `flush()` runs and that posts another locks its own thread out
  (`tasks.cpp:158`; `AcceptedTaskRuns`, `BothThreadsEnd` and
  `OnlyKnownDeadlocks` allow it).
* The scheduler's list is not "already empty" at shutdown, as the comment at
  `scheduler.cpp:221` says: waiting events are discarded.
* Reference counts of connections and protocols are changed by two threads
  without a common lock (`connection.h:142`): the properties about counts hold
  until that happens (`raced`).
* `closeConnection()` on a dispatcher that was stopped leaves the connection in
  REQUEST_CLOSE for ever (`connection.cpp:107`).
* `sendAll()` holds `m_outputPoolLock` when it takes the lock of a connection, and a
  handler of that connection holds its lock when it takes a message from the pool:
  the two threads can wait for each other for ever (`outputmessage.cpp:138`).
  `OnlyKnownDeadlocks` says that this and `flush()` are the only ways.
* A client's messages can overtake each other in two ways (`OrderKept`): those
  that waited at the same time are put back one in front of the other, which
  reverses them (`outputmessage.cpp:119`); and while one is put aside in `sendAll()`, as a
  write is under way, that write may end before the next one comes up, which is then
  sent first.

Game:

* A player can invite itself to its own party; the invitation outlives the
  party (`party.cpp:110`).  The run sets `SelfInvites` to FALSE.
* The result of the second move of a trade is ignored (`game.cpp:3112`); a stack
  that would only fit on another stack may stay, and one player has both items.
  `SwapOrNothing` leaves stackable second items out.
* A new text calls no trade off: `playerWriteItem()` sets or clears text, writer and
  date of an item and tells nobody (`game.cpp:2883-2897`); only what can be written on once
  becomes another kind, which ends the trade (`game.cpp:2899`).  So the owner
  may rewrite a letter that the other player has looked at and accepted, one in an
  offered bag too, and on the ground anybody near it may.  `OfferStaysAsItIs`
  says that count, kind and place stay, and that nobody else writes on what the owner
  has, as the answer of a window opened earlier is checked again (`game.cpp:2871`).
  Attributes that scripts set and the time an item has left before it decays, of which
  nobody is told either, are not in the model.

Items:

* `internalAddItem()` that can place only part of a stack never frees the
  original item (`game.cpp:1736`): its object stays (`lost`).
* `Player::__queryDestination()` passes over an item that is on offer in a trade,
  while `__queryMaxCount()` counts the room on it.  Change that does not fit elsewhere is
  then dropped without a word (`dropped`); coins that are merged by an exchange get
  no notification and the weight the player remembers is too small
  (`unnoticed`); and a full container that holds the offer may get one
  item more than it has room for (`crowded`).
* The recursive call for the remainder discards the remainder's remainder
  (`game.cpp:1741`), which the query before it usually excludes.
* An item that stops decaying stays in its bucket; put on again before the
  bucket is worked off it is charged by the wrong interval, up to a round early or late.
  A ring that is worn only between two visits of its bucket costs nothing.
* `Player::__addThing()` at index 0, and an explicit slot with a full stack, would
  lose an item; no caller does that.

Creatures:

* `despawn()` makes a monster idle without asking who is there (`monster.cpp:596`):
  it stands still before players that saw it come home (`ignored`).
* A convinced or summoned monster that is dying when its master goes away leaves the map with its
  lists (`setIdle()` returns early, `monster.cpp:542`): the references in them form
  cycles, and neither the monster nor a player in its list is ever freed.
  `NoneIsForgotten` says that nothing else is.
* A summon that is killed or left behind loses its master before others are
  told, who then take it for somebody else and keep it as a target
  (`TargetsArePresent`).  A monster that is dying when a player in its list of targets
  convinces it keeps this target, although it is its master now, while the master
  goes out of its sight; so the property is about living monsters.
* Whether somebody is a friend or an opponent is asked again when it leaves, and
  `updateTargetList()` enters creatures that are dying but still on the map.
* A monster that is convinced leaves its spawn without starting the spawn's event
  (`taken`), while one that wandered off still counts against the
  blocks of the spawn (`spawn.cpp:405`).
* An idle summon whose master dies is woken up by the damage that kills it
  (`Monster::changeHealth()`), without which it would not be removed.

Market, houses and mail:

* Market: a crash after an offer was created and before its owner was saved
  leaves both the offer and what it was made from (`game.cpp:5730`); a buyer that
  cannot be loaded costs the seller's goods and pays it all the same
  (`game.cpp:5914`); goods of a player whose save fails are lost
  (`game.cpp:5956`).  `FairDealing` speaks of behaviours without such faults,
  `OfflineKeepsItsWorth` of all but failed saves.
* **An owner evicted while offline loses what was in the house**: `payHouses()`
  loads the owner, `setHouseOwner(0)` loads a second copy, gives it the things and
  saves it, and `payHouses()` then saves the first copy (`house.cpp:951-960`), whose
  inbox is still as it was.  `FairDealing` names the case (`Evicted`).
* The rent is charged at every `payHouses()`: `paidUntil` is written and never
  read; paying does not take warnings back.
* `sellHouse()` looks at the buyer's houses when the trade starts
  (`commands.cpp:834`): a buyer that buys another house before it accepts owns two
  (`hasty`).  `executeTransfer()` does not look whether the seller still owns the
  house: after an eviction or a change by a game master it hands over somebody
  else's.
* Windows are not checked again when they are answered: a former owner edits the
  list of guests (`game.cpp:2915`), and who is not invited any more goes to bed
  (`beds.cpp:154`), inside until it is kicked (`InsideIsInvited`).
* An owner or receiver that cannot be loaded gets nothing: mail stays with the
  sender, but what is in a house is left to the next owner, as the
  result of `transferToDepot()` is ignored (`house.cpp:72`).
* A player that lies down in a second bed before it is kicked would leave one of
  the two taken; there is one bed in the run.

## 6. Not modelled, and why

Inside modelled components: texts, checksums and encryption of packets; the
checks that refuse a login, the distances and the room for an item in a trade,
and whether a load or a save succeeds are choices; players that monsters ignore
(`PlayerFlag_IgnoredByMonsters`, `monster.cpp:323`, `spawn.cpp:314`): a player of the
models is one they attack; clones and the account manager, for whom a login always
makes a new `Player` (`protocolgame.cpp:129`); the history and statistics of the
market; `push_front` of `addTask()`, which no caller uses; `closeAll()`; browsing,
icons and messages.
Of items: more than one hand, hangable and always-on-top items,
magic fields, and mailboxes, bins and teleports on a tile.  Of creatures: see
Creatures above.  Of houses: subowners and doors (more lists of the same kind),
prices (coins, which are in `Items`), players that may edit every house, and
houses that belong to no town (`house.cpp:274`): what is in such a house stays
there when its owner goes, while in the model every house has a town.

Components: see `PROJECT.json`.  Wrappers of databases, Lua and Windows, parsers of
data files, published algorithms, and combat formulas have no control worth a
state machine; they are most of the code by lines.  Chat channels and guilds
do, and are planned.

## 7. Plan

Done, in this order: the threads (abstract specification first), connection,
login, waiting list, party, trade, market; the dispatcher and the scheduler proved; the
output pool with its locks; items with decay; creatures with spawns; houses and mail on
top of the market; login, connection, trade, output pool, the composition of the
threads, parties and the waiting list proved; the market and houses proved.

Next models:

1. Chat channels and guilds: private channels, invitations and ranks over logouts.
2. Conditions with their timers (`condition.cpp`), added, merged and ended while a
   creature is checked, on top of `Creatures`.
3. NPCs and raids as timed events that may be stopped.
4. The saving of houses with the map, so that `Houses` may crash.

Next theorems:

1. `Creatures` without RECURSIVE operators: the deletion of creatures in rounds, of which
   there are at most as many as creatures.  First that references are held
   (`ReferencesAreHeld`), on which all else rests, then `IdleSeesNobody`.
2. `Cylinders` and `Items`: the tree of items first (`Tree`), with the lemmas about what
   moving one thing does to what is above it that `Trade_proofs` has.

`Cylinders`, `Items` and `Creatures` declare RECURSIVE operators, as their
handlers call themselves; they are for TLC alone.
