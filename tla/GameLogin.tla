------------------------------ MODULE GameLogin ------------------------------
(****************************************************************************)
(* Clients that log in to the same character (protocolgame.cpp), and the    *)
(* Player and ProtocolGame objects they leave behind (game.cpp).  The first *)
(* login creates the Player and places it on the map; a later one takes it  *)
(* over: it hangs up on the client that is there and connects a second      *)
(* later.  A Player is freed when its use count reaches 0, a ProtocolGame   *)
(* when nothing refers to it after its connection was closed, and the two   *)
(* point at each other.                                                     *)
(*                                                                          *)
(* All of it runs in tasks; `queue' holds the tasks that are bound to a     *)
(* protocol object, so that their order is the dispatcher's.  A Player is   *)
(* named after the protocol whose login() created it.                       *)
(****************************************************************************)
EXTENDS Integers, Sequences, FiniteSets

CONSTANTS
  Protocol,     \* the ProtocolGame objects, one per connection
  None          \* the NULL pointer

ASSUME GameLoginAssumption == IsFiniteSet(Protocol) /\ None \notin Protocol

VARIABLES
  queue,      \* tasks: what to do, for which protocol
  prot,       \* per protocol
  plr,        \* per Player object
  toRelease   \* per Player object: how often ToReleaseThings holds it

vars == <<queue, prot, plr, toRelease>>

Player == Protocol

Init ==
  /\ queue = <<>>
  /\ prot = [p \in Protocol |->
       [object |-> "none",       \* "live", "released" (to be deleted), "deleted"
        connection |-> "none",   \* "open", "closing" (asked to close), "gone"
        player |-> None,         \* ProtocolGame::player
        eventConnect |-> None,   \* the player connect() was scheduled for
        timer |-> FALSE,         \* the scheduler still has that event
        after |-> {},            \* it is due after the retries of these protocols
        refCount |-> 0]]         \* of its own addRef(), not those of messages
  /\ plr = [w \in Player |->
       [state |-> "none",        \* "fresh", "online", "removed", "deleted"
        client |-> None, useCount |-> 0, isConnecting |-> FALSE,
        creatureCheck |-> FALSE, inCheckVector |-> FALSE]]
  /\ toRelease = [w \in Player |-> 0]

\* getPlayerByName(): the player that is online, if any.
Online == {w \in Player : plr[w].state = "online"}

----------------------------------------------------------------------------
(* Pieces that several handlers share *)

\* closeConnection(), when the protocol still has a connection and it was not
\* asked before: the task it posts.
CloseTasks(p) == IF prot[p].connection = "open" THEN << <<"close", p>> >> ELSE <<>>

Closing(p) == [prot[p] EXCEPT !.connection = IF @ = "open" THEN "closing" ELSE @]

Pop == Tail(queue)

IsNext(what, p) == queue # <<>> /\ Head(queue) = <<what, p>>

\* The Player after removeCreature(): off the list, and never to think again.
Removed(w) == [plr[w] EXCEPT !.state = "removed", !.creatureCheck = FALSE]

----------------------------------------------------------------------------
(* The network thread *)

\* A first packet with a good password.
ReceiveLogin(p) ==
  /\ prot[p].object = "none"
  /\ prot' = [prot EXCEPT ![p].object = "live", ![p].connection = "open"]
  /\ queue' = Append(queue, <<"login", p>>)
  /\ UNCHANGED <<plr, toRelease>>

\* The client hangs up, is silent for too long, or asks for it (0x0F).
HangUp(p) ==
  /\ prot[p].connection = "open"
  /\ prot' = [prot EXCEPT ![p] = Closing(p)]
  /\ queue' = queue \o CloseTasks(p)
  /\ UNCHANGED <<plr, toRelease>>

----------------------------------------------------------------------------
(* ProtocolGame::login() *)

\* Turned away: banned, not loaded, on the waiting list, ...  The new Player
\* stays with the protocol.
LoginRefused(p) ==
  /\ IsNext("login", p) /\ Online = {}
  /\ plr' = [plr EXCEPT ![p] = [@ EXCEPT !.state = "fresh", !.client = p, !.useCount = 1]]
  /\ prot' = [prot EXCEPT ![p] = [Closing(p) EXCEPT !.player = p]]
  /\ queue' = Pop \o CloseTasks(p)
  /\ UNCHANGED toRelease

\* One use for the protocol, one for the map, one for the check vector.
LoginPlaced(p) ==
  /\ IsNext("login", p) /\ Online = {}
  /\ plr' = [plr EXCEPT ![p] =
       [@ EXCEPT !.state = "online", !.client = p, !.useCount = 3,
                 !.creatureCheck = TRUE, !.inCheckVector = TRUE]]
  /\ prot' = [prot EXCEPT ![p].player = p]
  /\ queue' = Pop
  /\ UNCHANGED toRelease

\* A login script says no: kickPlayer() from within placeCreature().
LoginKicked(p) ==
  /\ IsNext("login", p) /\ Online = {}
  /\ plr' = [plr EXCEPT ![p] =
       [@ EXCEPT !.state = "removed", !.client = p, !.useCount = 3,
                 !.inCheckVector = TRUE]]
  /\ toRelease' = [toRelease EXCEPT ![p] = @ + 1]
  /\ prot' = [prot EXCEPT ![p] = [Closing(p) EXCEPT !.player = p]]
  /\ queue' = Pop \o CloseTasks(p)

\* REPLACE_KICK_ON_LOGIN is off; it can be reloaded while the server runs.
AlreadyLoggedIn(p) ==
  /\ IsNext("login", p) /\ Online # {}
  /\ prot' = [prot EXCEPT ![p] = Closing(p)]
  /\ queue' = Pop \o CloseTasks(p)
  /\ UNCHANGED <<plr, toRelease>>

\* A retry of releaseProtocol() comes within SCHEDULER_MINTICKS (50 ms), connect()
\* after 1000 ms: the retries that are pending now come first.
Retrying == {q \in Protocol : prot[q].object = "released"}

\* Mutant: nothing keeps the protocol until connect() has run.
TakeOverWithoutRef(p) ==
  /\ IsNext("login", p) /\ Online # {}
  /\ \E w \in Online :
       /\ plr[w].client # None
       /\ plr' = [plr EXCEPT ![w].isConnecting = TRUE]
       /\ prot' = [prot EXCEPT ![plr[w].client] = Closing(plr[w].client),
                               ![p] = [prot[p] EXCEPT !.eventConnect = w, !.timer = TRUE,
                                                      !.after = Retrying]]
       /\ queue' = Pop \o CloseTasks(plr[w].client)
  /\ UNCHANGED toRelease

\* The client that is there is asked to go; connect() follows a second later.
TakeOver(p) ==
  /\ IsNext("login", p) /\ Online # {}
  /\ \E w \in Online :
       /\ plr[w].client # None
       /\ plr' = [plr EXCEPT ![w].isConnecting = TRUE]
       /\ prot' = [prot EXCEPT ![plr[w].client] = Closing(plr[w].client),
                               ![p] = [prot[p] EXCEPT !.eventConnect = w, !.timer = TRUE,
                                                      !.after = Retrying, !.refCount = @ + 1]]
       /\ queue' = Pop \o CloseTasks(plr[w].client)
  /\ UNCHANGED toRelease

\* connect(), for a player that is online without a client.
Connected(p, w) ==
  /\ plr' = [plr EXCEPT ![w] = [plr[w] EXCEPT !.useCount = @ + 1,
                                              !.isConnecting = FALSE, !.client = p]]
  /\ prot' = [prot EXCEPT ![p].player = w, ![p].eventConnect = None,
                          ![p].refCount = IF IsNext("connect", p) THEN @ - 1 ELSE @]
  /\ queue' = Pop

LoginConnects(p) ==
  /\ IsNext("login", p) /\ Online # {}
  /\ \E w \in Online : plr[w].client = None /\ Connected(p, w)
  /\ UNCHANGED toRelease

----------------------------------------------------------------------------
(* ProtocolGame::connect(), from the scheduler *)

ConnectDue(p) ==
  /\ prot[p].timer
  /\ prot[p].after = {}
  /\ prot' = [prot EXCEPT ![p].timer = FALSE]
  /\ queue' = Append(queue, <<"connect", p>>)
  /\ UNCHANGED <<plr, toRelease>>

\* Mutant: whoever connected meanwhile is replaced without a word.
ConnectAnyway(p) ==
  /\ IsNext("connect", p)
  /\ LET w == prot[p].eventConnect
     IN  IF plr[w].state = "online"
         THEN Connected(p, w)
         ELSE /\ prot' = [prot EXCEPT ![p] = [Closing(p) EXCEPT !.refCount = @ - 1,
                                                                !.eventConnect = None]]
              /\ queue' = Pop \o CloseTasks(p)
              /\ UNCHANGED plr
  /\ UNCHANGED toRelease

\* Mutant: a connect() that comes to nothing leaves its client without an answer.
ConnectGivesUp(p) ==
  /\ IsNext("connect", p)
  /\ LET w == prot[p].eventConnect
     IN  IF plr[w].state = "online" /\ plr[w].client = None
         THEN Connected(p, w)
         ELSE /\ prot' = [prot EXCEPT ![p] = [@ EXCEPT !.refCount = @ - 1,
                                                       !.eventConnect = None]]
              /\ queue' = Pop
              /\ UNCHANGED plr
  /\ UNCHANGED toRelease

\* Somebody may have connected meanwhile, or the player may be gone.
Connect(p) ==
  /\ IsNext("connect", p)
  /\ LET w == prot[p].eventConnect
     IN  IF plr[w].state = "online" /\ plr[w].client = None
         THEN Connected(p, w)
         ELSE /\ prot' = [prot EXCEPT ![p] = [Closing(p) EXCEPT !.refCount = @ - 1,
                                                                !.eventConnect = None]]
              /\ queue' = Pop \o CloseTasks(p)
              /\ UNCHANGED plr
  /\ UNCHANGED toRelease

----------------------------------------------------------------------------
(* The end of a protocol *)

\* p is now `after'; no connect() has to wait for its retry any more.
Retried(p, after) ==
  [q \in Protocol |-> IF q = p THEN after ELSE [prot[q] EXCEPT !.after = @ \ {p}]]

\* releaseProtocol(); when nothing refers to the protocol (`now': no message
\* does) deleteProtocolTask(), otherwise the scheduler tries again.
ReleaseProtocol(p, now) ==
  LET w == prot[p].player
      gone == [prot[p] EXCEPT !.connection = "gone"]
  IN  /\ plr' = IF w # None /\ plr[w].client = p
                THEN [plr EXCEPT ![w].client = None] ELSE plr
      /\ IF now /\ prot[p].refCount = 0
         THEN /\ prot' = Retried(p, [gone EXCEPT !.object = "deleted", !.player = None])
              /\ toRelease' = IF w = None THEN toRelease
                              ELSE [toRelease EXCEPT ![w] = @ + 1]
         ELSE /\ prot' = Retried(p, [gone EXCEPT !.object = "released"])
              /\ UNCHANGED toRelease

CloseConnectionTask(p) ==
  /\ IsNext("close", p)
  /\ \E now \in BOOLEAN : ReleaseProtocol(p, now)
  /\ queue' = Pop

ReleaseRetries(p, now) ==
  /\ prot[p].object = "released"
  /\ ReleaseProtocol(p, now)
  /\ UNCHANGED queue

----------------------------------------------------------------------------
(* The end of a player: these run in tasks of others *)

\* Mutant: the creature's check is not called off.
LeaveStillThinking(w) ==
  /\ plr[w].state = "online"
  /\ plr' = [plr EXCEPT ![w].state = "removed"]
  /\ toRelease' = [toRelease EXCEPT ![w] = @ + 1]
  /\ LET p == plr[w].client
     IN  IF p # None
         THEN prot' = [prot EXCEPT ![p] = Closing(p)] /\ queue' = queue \o CloseTasks(p)
         ELSE ~plr[w].isConnecting /\ UNCHANGED <<prot, queue>>

\* logout() closes the connection and removes the player, at the client's wish or
\* for a minute of silence; without a client it takes the latter, and only when
\* nobody is about to connect.
Leave(w) ==
  /\ plr[w].state = "online"
  /\ plr' = [plr EXCEPT ![w] = Removed(w)]
  /\ toRelease' = [toRelease EXCEPT ![w] = @ + 1]
  /\ LET p == plr[w].client
     IN  IF p # None
         THEN prot' = [prot EXCEPT ![p] = Closing(p)] /\ queue' = queue \o CloseTasks(p)
         ELSE ~plr[w].isConnecting /\ UNCHANGED <<prot, queue>>

\* Kicked without a client, or dead: the connection, if there is one, stays.
RemoveCreature(w) ==
  /\ plr[w].state = "online"
  /\ plr' = [plr EXCEPT ![w] = Removed(w)]
  /\ toRelease' = [toRelease EXCEPT ![w] = @ + 1]
  /\ UNCHANGED <<prot, queue>>

\* cleanup(), with `freed' added to ToReleaseThings just before.
Cleanup(freed) ==
  /\ plr' = [w \in Player |->
       LET rest == plr[w].useCount - toRelease[w] - (IF w \in freed THEN 1 ELSE 0)
           dropped == toRelease[w] > 0 \/ w \in freed
       IN  [plr[w] EXCEPT !.useCount = rest,
                          !.inCheckVector = @ /\ w \notin freed,
                          !.state = IF dropped /\ rest <= 0 THEN "deleted" ELSE @]]
  /\ toRelease' = [w \in Player |-> 0]
  /\ UNCHANGED <<queue, prot>>

\* checkCreatures() lets go of the removed ones in this round's vector.
CheckCreatures ==
  \E freed \in SUBSET {w \in Player : plr[w].inCheckVector /\ ~plr[w].creatureCheck} :
    Cleanup(freed) /\ plr' # plr

----------------------------------------------------------------------------
Login(p) ==
  \/ LoginRefused(p) \/ LoginPlaced(p) \/ LoginKicked(p)
  \/ AlreadyLoggedIn(p) \/ TakeOver(p) \/ LoginConnects(p)

Task(p) == Login(p) \/ Connect(p) \/ CloseConnectionTask(p)

Next ==
  \/ \E p \in Protocol :
       \/ ReceiveLogin(p) \/ HangUp(p) \/ Task(p) \/ ConnectDue(p)
       \/ \E now \in BOOLEAN : ReleaseRetries(p, now)
  \/ \E w \in Player : Leave(w) \/ RemoveCreature(w)
  \/ CheckCreatures

Spec == Init /\ [][Next]_vars

\* The dispatcher works through its queue, the scheduler's events come due, messages
\* are released and the check of every vector comes round.
FairSpec ==
  /\ Spec
  /\ WF_vars(\E p \in Protocol : Task(p))
  /\ WF_vars(\E p \in Protocol : ConnectDue(p))
  /\ WF_vars(\E p \in Protocol : ReleaseRetries(p, TRUE))
  /\ WF_vars(CheckCreatures)

----------------------------------------------------------------------------
TaskKinds == {"login", "connect", "close"}

ProtocolRecords ==
  [object : {"none", "live", "released", "deleted"},
   connection : {"none", "open", "closing", "gone"},
   player : Player \cup {None}, eventConnect : Player \cup {None},
   timer : BOOLEAN, after : SUBSET Protocol, refCount : {0, 1}]

PlayerRecords ==
  [state : {"none", "fresh", "online", "removed", "deleted"},
   client : Protocol \cup {None}, useCount : Nat, isConnecting : BOOLEAN,
   creatureCheck : BOOLEAN, inCheckVector : BOOLEAN]

\* The type invariant.
TypeOK ==
  /\ queue \in Seq(TaskKinds \X Protocol)
  /\ prot \in [Protocol -> ProtocolRecords]
  /\ plr \in [Player -> PlayerRecords]
  /\ toRelease \in [Player -> Nat]

\* The use count of a Player is the number of its owners: the protocols that
\* point at it, the map, the check vector, and the releases still to be done.
UseCountIsOwners ==
  \A w \in Player :
    plr[w].state \in {"fresh", "online", "removed"} =>
      plr[w].useCount =
        Cardinality({p \in Protocol : prot[p].player = w})
        + (IF plr[w].state = "online" THEN 1 ELSE 0)
        + (IF plr[w].inCheckVector THEN 1 ELSE 0)
        + toRelease[w]

\* Nothing points at a Player that was deleted: no protocol, no vector, and no
\* entry of ToReleaseThings that would delete it a second time.
DeletedIsForgotten ==
  \A w \in Player : plr[w].state = "deleted" =>
    /\ \A p \in Protocol : prot[p].player # w
    /\ ~plr[w].inCheckVector
    /\ toRelease[w] = 0

\* A player's client is a protocol that exists, belongs to it and is not waiting
\* to be deleted: everything the game sends goes through this pointer.
ClientIsAlive ==
  \A w \in Player :
    (plr[w].state # "deleted" /\ plr[w].client # None) =>
      prot[plr[w].client].object \in {"live", "released"} /\ prot[plr[w].client].player = w

\* The tasks and the event that are bound to a protocol find it in memory.
BoundTaskFindsProtocol ==
  \A p \in Protocol :
    (prot[p].timer \/ \E i \in 1..Len(queue) : queue[i][2] = p) =>
      prot[p].object \in {"live", "released"}

\* However many clients ask for the character at once, at most one is in control:
\* the others were hung up on or never got the player.
OneClientInControl ==
  \A p, q \in Protocol :
    (/\ prot[p].connection = "open" /\ prot[q].connection = "open"
     /\ prot[p].player # None /\ prot[q].player # None
     /\ plr[prot[p].player].state = "online" /\ plr[prot[q].player].state = "online")
    => p = q

\* isConnecting keeps a player without a client from being logged out: it is set
\* only while somebody is still going to connect, so that no character is left
\* online for ever.
SomebodyIsConnecting ==
  \A w \in Player :
    (plr[w].state = "online" /\ plr[w].isConnecting) =>
      \E p \in Protocol : prot[p].eventConnect = w

\* Whose Player objects there are, who holds them, who is about to, and that no
\* pointer between players, protocols and tasks dangles.
Inv ==
  /\ TypeOK
  /\ UseCountIsOwners
  /\ DeletedIsForgotten
  /\ SomebodyIsConnecting
  /\ ClientIsAlive
  /\ BoundTaskFindsProtocol

\* A player that was removed is freed, once the clients that look at its death
\* have gone.
RemovedIsFreed ==
  \A w \in Player :
    plr[w].state = "removed" ~>
      (plr[w].state = "deleted"
       \/ \E p \in Protocol : prot[p].player = w /\ prot[p].connection = "open")

\* A client that asked for an occupied character gets it or is hung up on.
TakeOverIsDecided ==
  \A p \in Protocol :
    prot[p].eventConnect # None ~>
      (prot[p].eventConnect = None
        /\ (prot[p].player # None \/ prot[p].connection # "open"))
=============================================================================
