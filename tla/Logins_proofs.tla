---------------------------- MODULE Logins_proofs ----------------------------
(****************************************************************************)
(* Logging in, for any number of clients.  Those of one character           *)
(* (GameLogin): no pointer between players, protocols and tasks dangles,    *)
(* use counts are right, at most one client is in control, and a player     *)
(* waits only for somebody who connects.  Those of a full server            *)
(* (WaitList): one entry per client, premium first, kept until the client   *)
(* is expected; the places of those ahead are kept free; nobody is          *)
(* overtaken.                                                               *)
(****************************************************************************)
EXTENDS GameLogin, WaitList, Lists_proofs, FiniteSetTheorems, TLAPS

----------------------------------------------------------------------------
(* PART 1: THE CLIENTS OF ONE CHARACTER *)

Tasks == TaskKinds \X Protocol

----------------------------------------------------------------------------
(* The dispatcher's queue: what is in it, and what comes before what *)

In(s, t) == \E i \in 1..Len(s) : s[i] = t

EachOnce(s) == \A i, j \in 1..Len(s) : s[i] = s[j] => i = j

Ahead(s, t, u) == \A i, j \in 1..Len(s) : (s[i] = t /\ s[j] = u) => i < j

\* addTask(): the new task comes last.
LEMMA PostedLast ==
  ASSUME NEW s \in Seq(Tasks), NEW t \in Tasks
  PROVE  /\ Append(s, t) \in Seq(Tasks)
         /\ \A u : In(Append(s, t), u) <=> In(s, u) \/ u = t
         /\ EachOnce(s) /\ ~In(s, t) => EachOnce(Append(s, t))
         /\ \A u, v : (Ahead(s, u, v) /\ u # v /\ (u = t => ~In(s, v))) =>
              Ahead(Append(s, t), u, v)
<1> DEFINE q == Append(s, t)
<1>1. /\ q \in Seq(Tasks) /\ Len(q) = Len(s) + 1 /\ Len(s) \in Nat
      /\ \A i \in 1..Len(s) : q[i] = s[i]
      /\ q[Len(s) + 1] = t
  OBVIOUS
<1> HIDE DEF q
<1>2. ASSUME NEW u PROVE In(q, u) <=> In(s, u) \/ u = t
  <2>1. ASSUME In(q, u) PROVE In(s, u) \/ u = t
    <3>1. PICK i \in 1..Len(q) : q[i] = u
      BY <2>1 DEF In
    <3>2. CASE i = Len(s) + 1
      BY <1>1, <3>1, <3>2
    <3>3. CASE i \in 1..Len(s)
      BY <1>1, <3>1, <3>3 DEF In
    <3>4. QED
      BY <1>1, <3>2, <3>3
  <2>2. ASSUME In(s, u) PROVE In(q, u)
    <3>1. PICK i \in 1..Len(s) : s[i] = u
      BY <2>2 DEF In
    <3>2. i \in 1..Len(q) /\ q[i] = u
      BY <1>1, <3>1
    <3>3. QED
      BY <3>2 DEF In
  <2>3. ASSUME u = t PROVE In(q, u)
    <3>1. Len(s) + 1 \in 1..Len(q)
      BY <1>1
    <3>2. QED
      BY <1>1, <2>3, <3>1 DEF In
  <2>4. QED
    BY <2>1, <2>2, <2>3
<1>3. ASSUME EachOnce(s), ~In(s, t) PROVE EachOnce(q)
  <2> SUFFICES ASSUME NEW i \in 1..Len(q), NEW j \in 1..Len(q), q[i] = q[j]
               PROVE  i = j
    BY DEF EachOnce
  <2>1. CASE i \in 1..Len(s) /\ j \in 1..Len(s)
    BY <1>1, <1>3, <2>1 DEF EachOnce
  <2>2. CASE i = Len(s) + 1 /\ j = Len(s) + 1
    BY <2>2
  <2>3. CASE i \in 1..Len(s) /\ j = Len(s) + 1
    BY <1>1, <1>3, <2>3 DEF In
  <2>4. CASE i = Len(s) + 1 /\ j \in 1..Len(s)
    BY <1>1, <1>3, <2>4 DEF In
  <2>5. QED
    BY <1>1, <2>1, <2>2, <2>3, <2>4
<1>4. ASSUME NEW u, NEW v, Ahead(s, u, v), u # v, u = t => ~In(s, v)
      PROVE  Ahead(q, u, v)
  <2> SUFFICES ASSUME NEW i \in 1..Len(q), NEW j \in 1..Len(q), q[i] = u, q[j] = v
               PROVE  i < j
    BY DEF Ahead
  <2>1. CASE i \in 1..Len(s) /\ j \in 1..Len(s)
    BY <1>1, <1>4, <2>1 DEF Ahead
  <2>2. CASE i = Len(s) + 1 /\ j = Len(s) + 1
    BY <1>4, <2>2
  <2>3. CASE i \in 1..Len(s) /\ j = Len(s) + 1
    BY <1>1, <2>3
  <2>4. CASE i = Len(s) + 1 /\ j \in 1..Len(s)
    BY <1>1, <1>4, <2>4 DEF In
  <2>5. QED
    BY <1>1, <2>1, <2>2, <2>3, <2>4
<1>5. QED
  BY <1>1, <1>2, <1>3, <1>4 DEF q

\* dispatcherThread(): the first task is taken.
LEMMA TakenFirst ==
  ASSUME NEW s \in Seq(Tasks), s # <<>>, EachOnce(s)
  PROVE  /\ Tail(s) \in Seq(Tasks) /\ Head(s) \in Tasks
         /\ In(s, Head(s))
         /\ EachOnce(Tail(s))
         /\ \A u : In(Tail(s), u) <=> In(s, u) /\ u # Head(s)
         /\ \A u, v : Ahead(s, u, v) => Ahead(Tail(s), u, v)
         /\ \A u : Ahead(s, u, Head(s)) => ~In(s, u)
<1> DEFINE q == Tail(s)
<1>1. /\ q \in Seq(Tasks) /\ Len(s) \in Nat \ {0} /\ Len(q) = Len(s) - 1
      /\ Head(s) = s[1] /\ s[1] \in Tasks
      /\ \A i \in 1..Len(q) : q[i] = s[i + 1]
  OBVIOUS
<1> HIDE DEF q
<1>2. In(s, Head(s))
  BY <1>1 DEF In
<1>3. EachOnce(q)
  BY <1>1 DEF EachOnce
<1>4. ASSUME NEW u PROVE In(q, u) <=> In(s, u) /\ u # Head(s)
  <2>1. ASSUME In(q, u) PROVE In(s, u) /\ u # Head(s)
    <3>1. PICK i \in 1..Len(q) : q[i] = u
      BY <2>1 DEF In
    <3>2. i + 1 \in 1..Len(s) /\ s[i + 1] = u /\ i + 1 # 1
      BY <1>1, <3>1
    <3>3. QED
      BY <1>1, <3>2 DEF In, EachOnce
  <2>2. ASSUME In(s, u), u # Head(s) PROVE In(q, u)
    <3>1. PICK i \in 1..Len(s) : s[i] = u
      BY <2>2 DEF In
    <3>2. i - 1 \in 1..Len(q) /\ q[i - 1] = u
      BY <1>1, <2>2, <3>1
    <3>3. QED
      BY <3>2 DEF In
  <2>3. QED
    BY <2>1, <2>2
<1>5. ASSUME NEW u, NEW v, Ahead(s, u, v) PROVE Ahead(q, u, v)
  <2> SUFFICES ASSUME NEW i \in 1..Len(q), NEW j \in 1..Len(q), q[i] = u, q[j] = v
               PROVE  i < j
    BY DEF Ahead
  <2>1. i + 1 \in 1..Len(s) /\ j + 1 \in 1..Len(s) /\ s[i + 1] = u /\ s[j + 1] = v
    BY <1>1
  <2>2. i + 1 < j + 1
    BY <1>5, <2>1 DEF Ahead
  <2>3. QED
    BY <1>1, <2>2
<1>6. ASSUME NEW u, Ahead(s, u, Head(s)) PROVE ~In(s, u)
  BY <1>1, <1>6 DEF Ahead, In
<1>7. QED
  BY <1>1, <1>2, <1>3, <1>4, <1>5, <1>6 DEF q

----------------------------------------------------------------------------
(* How many protocols point at a player *)

Owners(protocols, w) == {p \in Protocol : protocols[p].player = w}

Count(protocols, w) == Cardinality(Owners(protocols, w))

LEMMA CountIsNat ==
  ASSUME NEW f, NEW w
  PROVE  /\ IsFiniteSet(Owners(f, w)) /\ Count(f, w) \in Nat
         /\ (\E p \in Protocol : f[p].player = w) => Count(f, w) > 0
<1>1. IsFiniteSet(Owners(f, w))
  BY FS_Subset, GameLoginAssumption DEF Owners
<1>2. Count(f, w) \in Nat /\ (Count(f, w) = 0 <=> Owners(f, w) = {})
  BY <1>1, FS_CardinalityType, FS_EmptySet DEF Count
<1>3. QED
  BY <1>1, <1>2 DEF Owners

LEMMA CountKept ==
  ASSUME NEW w, \A p \in Protocol : prot[p].player = w <=> prot'[p].player = w
  PROVE  Count(prot', w) = Count(prot, w)
<1>1. Owners(prot', w) = Owners(prot, w)
  BY DEF Owners
<1>2. QED
  BY <1>1 DEF Count

LEMMA CountGrows ==
  ASSUME NEW w, NEW p \in Protocol, prot[p].player # w, prot'[p].player = w,
         \A q \in Protocol \ {p} : prot[q].player = w <=> prot'[q].player = w
  PROVE  Count(prot', w) = Count(prot, w) + 1
<1>1. Owners(prot', w) = Owners(prot, w) \cup {p} /\ p \notin Owners(prot, w)
  BY DEF Owners
<1>2. IsFiniteSet(Owners(prot, w))
  BY CountIsNat
<1>3. Cardinality(Owners(prot, w) \cup {p}) = Cardinality(Owners(prot, w)) + 1
  BY <1>1, <1>2, FS_AddElement
<1>4. QED
  BY <1>1, <1>3 DEF Count

LEMMA CountShrinks ==
  ASSUME NEW w, NEW p \in Protocol, prot[p].player = w, prot'[p].player # w,
         \A q \in Protocol \ {p} : prot[q].player = w <=> prot'[q].player = w
  PROVE  Count(prot, w) = Count(prot', w) + 1
<1>1. Owners(prot, w) = Owners(prot', w) \cup {p} /\ p \notin Owners(prot', w)
  BY DEF Owners
<1>2. IsFiniteSet(Owners(prot', w))
  BY CountIsNat
<1>3. Cardinality(Owners(prot', w) \cup {p}) = Cardinality(Owners(prot', w)) + 1
  BY <1>1, <1>2, FS_AddElement
<1>4. QED
  BY <1>1, <1>3 DEF Count


----------------------------------------------------------------------------
(* The inductive invariant *)

UseCounts(players, protocols, release) ==
  \A w \in Player :
    players[w].state \in {"fresh", "online", "removed"} =>
      players[w].useCount =
        Count(protocols, w)
        + (IF players[w].state = "online" THEN 1 ELSE 0)
        + (IF players[w].inCheckVector THEN 1 ELSE 0)
        + release[w]

LEMMA UseCountsAre ==
  /\ UseCountIsOwners <=> UseCounts(plr, prot, toRelease)
  /\ UseCountIsOwners' <=> UseCounts(plr', prot', toRelease')
BY DEF UseCountIsOwners, UseCounts, Count, Owners

QueueInOrder ==
  /\ queue \in Seq(Tasks)
  /\ EachOnce(queue)
  /\ \A p \in Protocol : Ahead(queue, <<"login", p>>, <<"close", p>>)

\* A protocol lives as long as its connection was not closed, and is asked to close
\* by one task.
ConnectionTellsObject ==
  \A p \in Protocol :
    /\ prot[p].object = "none" <=> prot[p].connection = "none"
    /\ prot[p].object = "live" <=> prot[p].connection \in {"open", "closing"}
    /\ prot[p].connection = "closing" <=> In(queue, <<"close", p>>)

\* Before its login() has run a protocol has nothing.
NewHasNothing ==
  \A p \in Protocol :
    /\ In(queue, <<"login", p>>) => prot[p].object = "live"
    /\ prot[p].object = "none" \/ In(queue, <<"login", p>>) =>
         /\ prot[p].player = None /\ prot[p].eventConnect = None
         /\ plr[p].state = "none"

\* A reference keeps the protocol while connect() is scheduled or posted.
ConnectIsOnItsWay ==
  \A p \in Protocol :
    /\ prot[p].refCount = 1 <=> prot[p].eventConnect # None
    /\ prot[p].eventConnect # None <=> prot[p].timer \/ In(queue, <<"connect", p>>)
    /\ ~(prot[p].timer /\ In(queue, <<"connect", p>>))
    /\ prot[p].eventConnect # None =>
         prot[p].player = None /\ prot[p].object \in {"live", "released"}

\* A protocol with a connection is the client of its player.
PlayerOfProtocol ==
  \A p \in Protocol : prot[p].player # None =>
    /\ plr[prot[p].player].state \in {"fresh", "online", "removed"}
    /\ prot[p].object \in {"live", "released"}
    /\ prot[p].object = "live" => plr[prot[p].player].client = p

ClientOfPlayer ==
  \A w \in Player : plr[w].state # "deleted" /\ plr[w].client # None =>
    prot[plr[w].client].player = w

StateTellsChecks ==
  \A w \in Player :
    /\ plr[w].creatureCheck <=> plr[w].state = "online"
    /\ plr[w].state = "online" => plr[w].inCheckVector
    /\ plr[w].inCheckVector => plr[w].state \in {"online", "removed"}
    /\ plr[w].state \in {"none", "deleted"} => toRelease[w] = 0
    /\ plr[w].state = "none" => ~plr[w].isConnecting

OneOnline == \A w, x \in Player : plr[w].state = "online" /\ plr[x].state = "online" => w = x

\* The client that is there is gone before p connects: because it is, or its closing
\* was posted before, or p waits until it was released.
WillConnect(p, w) ==
  /\ prot[p].eventConnect = w
  /\ LET c == plr[w].client
     IN  \/ c = None
         \/ prot[c].connection = "closing" /\ Ahead(queue, <<"close", c>>, <<"connect", p>>)
         \/ prot[c].object = "released" /\ prot[p].timer /\ c \in prot[p].after

\* Of those that took a player over, the last will get it if nobody else does.
SomebodyWillConnect ==
  \A w \in Player : plr[w].state = "online" /\ plr[w].isConnecting =>
    \E p \in Protocol : WillConnect(p, w)

IInv ==
  /\ TypeOK
  /\ UseCountIsOwners
  /\ QueueInOrder
  /\ ConnectionTellsObject
  /\ NewHasNothing
  /\ ConnectIsOnItsWay
  /\ PlayerOfProtocol
  /\ ClientOfPlayer
  /\ StateTellsChecks
  /\ OneOnline
  /\ SomebodyWillConnect

----------------------------------------------------------------------------
\* closeConnection(): the task comes last, and is posted once.
LEMMA CloseIsPosted ==
  ASSUME NEW s \in Seq(Tasks), EachOnce(s), NEW p \in Protocol,
         prot[p].connection = "open" => ~In(s, <<"close", p>>)
  PROVE  /\ s \o CloseTasks(p) \in Seq(Tasks)
         /\ EachOnce(s \o CloseTasks(p))
         /\ \A u : In(s \o CloseTasks(p), u) <=>
              In(s, u) \/ (u = <<"close", p>> /\ prot[p].connection = "open")
         /\ \A u, v : /\ Ahead(s, u, v) /\ u # v
                      /\ u = <<"close", p>> /\ prot[p].connection = "open" => ~In(s, v)
                      => Ahead(s \o CloseTasks(p), u, v)
<1> DEFINE t == <<"close", p>>
<1>1. t \in Tasks
  BY DEF Tasks, TaskKinds
<1>2. CASE prot[p].connection = "open"
  <2>1. s \o CloseTasks(p) = Append(s, t)
    BY <1>1, <1>2 DEF CloseTasks
  <2>2. QED
    BY <1>1, <1>2, <2>1, PostedLast
<1>3. CASE prot[p].connection # "open"
  <2>1. s \o CloseTasks(p) = s
    BY <1>3 DEF CloseTasks
  <2>2. QED
    BY <1>3, <2>1
<1>4. QED
  BY <1>2, <1>3

\* Assigning to one object leaves the others alone.
LEMMA ProtocolSet ==
  ASSUME NEW f \in [Protocol -> ProtocolRecords], NEW p \in Protocol,
         NEW r \in ProtocolRecords, NEW g, g = [f EXCEPT ![p] = r]
  PROVE  g \in [Protocol -> ProtocolRecords] /\ g[p] = r /\ \A q \in Protocol \ {p} : g[q] = f[q]
OBVIOUS

LEMMA PlayerSet ==
  ASSUME NEW f \in [Player -> PlayerRecords], NEW w \in Player,
         NEW r \in PlayerRecords, NEW g, g = [f EXCEPT ![w] = r]
  PROVE  g \in [Player -> PlayerRecords] /\ g[w] = r /\ \A x \in Player \ {w} : g[x] = f[x]
OBVIOUS

\* What the types say of the objects.
LEMMA ProtocolFields ==
  ASSUME NEW r \in ProtocolRecords
  PROVE  /\ r.object \in {"none", "live", "released", "deleted"}
         /\ r.connection \in {"none", "open", "closing", "gone"}
         /\ r.player \in Player \cup {None}
         /\ r.eventConnect \in Player \cup {None}
         /\ r.timer \in BOOLEAN
         /\ r.after \in SUBSET Protocol
         /\ r.refCount \in {0, 1}
BY DEF ProtocolRecords

LEMMA PlayerFields ==
  ASSUME NEW r \in PlayerRecords
  PROVE  /\ r.state \in {"none", "fresh", "online", "removed", "deleted"}
         /\ r.client \in Protocol \cup {None}
         /\ r.useCount \in Nat
         /\ r.isConnecting \in BOOLEAN
         /\ r.creatureCheck \in BOOLEAN
         /\ r.inCheckVector \in BOOLEAN
BY DEF PlayerRecords

LEMMA Types ==
  ASSUME TypeOK
  PROVE  /\ queue \in Seq(Tasks)
         /\ prot \in [Protocol -> ProtocolRecords] /\ plr \in [Player -> PlayerRecords]
         /\ toRelease \in [Player -> Nat]
         /\ \A p \in Protocol :
              /\ prot[p] \in ProtocolRecords
              /\ prot[p].object \in {"none", "live", "released", "deleted"}
              /\ prot[p].connection \in {"none", "open", "closing", "gone"}
              /\ prot[p].player \in Player \cup {None}
              /\ prot[p].eventConnect \in Player \cup {None}
              /\ prot[p].timer \in BOOLEAN
              /\ prot[p].after \in SUBSET Protocol
              /\ prot[p].refCount \in {0, 1}
         /\ \A w \in Player :
              /\ plr[w] \in PlayerRecords
              /\ plr[w].state \in {"none", "fresh", "online", "removed", "deleted"}
              /\ plr[w].client \in Protocol \cup {None}
              /\ plr[w].useCount \in Nat
              /\ plr[w].isConnecting \in BOOLEAN
              /\ plr[w].creatureCheck \in BOOLEAN
              /\ plr[w].inCheckVector \in BOOLEAN
              /\ toRelease[w] \in Nat
<1>1. \A p \in Protocol : prot[p] \in ProtocolRecords
  BY DEF TypeOK
<1>2. \A w \in Player : plr[w] \in PlayerRecords /\ toRelease[w] \in Nat
  BY DEF TypeOK
<1>3. QED
  BY <1>1, <1>2, ProtocolFields, PlayerFields DEF TypeOK, Tasks

\* A protocol whose connection is asked to close is otherwise the same.
LEMMA ClosingFields ==
  ASSUME NEW p \in Protocol, prot[p] \in ProtocolRecords
  PROVE  /\ Closing(p) \in ProtocolRecords
         /\ Closing(p).connection =
              IF prot[p].connection = "open" THEN "closing" ELSE prot[p].connection
         /\ Closing(p).object = prot[p].object
         /\ Closing(p).player = prot[p].player
         /\ Closing(p).eventConnect = prot[p].eventConnect
         /\ Closing(p).timer = prot[p].timer
         /\ Closing(p).after = prot[p].after
         /\ Closing(p).refCount = prot[p].refCount
<1> DEFINE r == prot[p]
<1>1. /\ r \in ProtocolRecords
      /\ Closing(p) = [r EXCEPT !.connection = IF r.connection = "open" THEN "closing" ELSE r.connection]
  BY DEF Closing
<1> HIDE DEF r
<1>2. /\ Closing(p) \in ProtocolRecords
      /\ Closing(p).connection = IF r.connection = "open" THEN "closing" ELSE r.connection
      /\ Closing(p).object = r.object
      /\ Closing(p).player = r.player
      /\ Closing(p).eventConnect = r.eventConnect
      /\ Closing(p).timer = r.timer
      /\ Closing(p).after = r.after
      /\ Closing(p).refCount = r.refCount
  BY <1>1 DEF ProtocolRecords
<1>3. QED
  BY <1>2 DEF r

----------------------------------------------------------------------------
LEMMA InitEstablishes == Init => IInv
<1> SUFFICES ASSUME Init PROVE IInv
  OBVIOUS
<1> USE DEF Init, Player
<1>1. \A u : ~In(queue, u)
  BY DEF In
<1>2. TypeOK
  <2>1. queue \in Seq(TaskKinds \X Protocol)
    OBVIOUS
  <2>2. QED
    BY <2>1 DEF TypeOK, ProtocolRecords, PlayerRecords
<1>3. QueueInOrder
  BY <1>2, Types DEF QueueInOrder, EachOnce, Ahead
<1>4. UseCountIsOwners
  BY DEF UseCountIsOwners
<1>5. ConnectionTellsObject /\ NewHasNothing /\ ConnectIsOnItsWay
  BY <1>1, GameLoginAssumption DEF ConnectionTellsObject, NewHasNothing, ConnectIsOnItsWay
<1>6. PlayerOfProtocol /\ ClientOfPlayer /\ StateTellsChecks /\ OneOnline /\ SomebodyWillConnect
  BY DEF PlayerOfProtocol, ClientOfPlayer, StateTellsChecks, OneOnline, SomebodyWillConnect
<1>7. QED
  BY <1>2, <1>3, <1>4, <1>5, <1>6 DEF IInv

\* The next task is taken from the queue ...
LEMMA NextTask ==
  ASSUME QueueInOrder, NEW what, NEW p \in Protocol, IsNext(what, p)
  PROVE  /\ Pop \in Seq(Tasks) /\ EachOnce(Pop) /\ In(queue, <<what, p>>)
         /\ \A u : In(Pop, u) <=> In(queue, u) /\ u # <<what, p>>
         /\ \A u, v : Ahead(queue, u, v) => Ahead(Pop, u, v)
         /\ \A u : Ahead(queue, u, <<what, p>>) => ~In(queue, u)
BY TakenFirst DEF IsNext, Pop, QueueInOrder

\* ... and a connection is asked to close while it runs.
LEMMA NextTaskCloses ==
  ASSUME QueueInOrder, ConnectionTellsObject, NEW what, NEW p \in Protocol, IsNext(what, p),
         NEW c \in Protocol, queue' = Pop \o CloseTasks(c)
  PROVE  /\ queue' \in Seq(Tasks) /\ EachOnce(queue')
         /\ \A u : In(queue', u) <=> \/ In(queue, u) /\ u # <<what, p>>
                                     \/ u = <<"close", c>> /\ prot[c].connection = "open"
         /\ \A u, v : /\ Ahead(queue, u, v) /\ u # v
                      /\ u = <<"close", c>> => prot[c].connection # "open"
                      => Ahead(queue', u, v)
<1>1. /\ Pop \in Seq(Tasks) /\ EachOnce(Pop)
      /\ \A u : In(Pop, u) <=> In(queue, u) /\ u # <<what, p>>
      /\ \A u, v : Ahead(queue, u, v) => Ahead(Pop, u, v)
  BY NextTask
<1>2. prot[c].connection = "open" => ~In(Pop, <<"close", c>>)
  BY <1>1 DEF ConnectionTellsObject
<1>3. /\ Pop \o CloseTasks(c) \in Seq(Tasks) /\ EachOnce(Pop \o CloseTasks(c))
      /\ \A u : In(Pop \o CloseTasks(c), u) <=>
           In(Pop, u) \/ (u = <<"close", c>> /\ prot[c].connection = "open")
      /\ \A u, v : /\ Ahead(Pop, u, v) /\ u # v
                   /\ u = <<"close", c>> /\ prot[c].connection = "open" => ~In(Pop, v)
                   => Ahead(Pop \o CloseTasks(c), u, v)
  BY <1>1, <1>2, CloseIsPosted
<1>4. QED
  BY <1>1, <1>3

\* A new protocol has nothing while its login() waits.
LEMMA NextLogin ==
  ASSUME IInv, NEW p \in Protocol, IsNext("login", p)
  PROVE  /\ prot[p].object = "live" /\ prot[p].connection \in {"open", "closing"}
         /\ prot[p].player = None /\ prot[p].eventConnect = None
         /\ prot[p].timer = FALSE /\ prot[p].refCount = 0
         /\ ~In(queue, <<"connect", p>>)
         /\ plr[p].state = "none" /\ ~plr[p].isConnecting /\ toRelease[p] = 0
         /\ \A w \in Player : plr[w].state # "deleted" => plr[w].client # p
         /\ \A q \in Protocol : prot[q].player # p
<1> USE DEF IInv
<1>1. In(queue, <<"login", p>>)
  BY NextTask
<1>2. /\ prot[p].object = "live" /\ prot[p].player = None /\ prot[p].eventConnect = None
      /\ plr[p].state = "none"
  BY <1>1 DEF NewHasNothing
<1>3. prot[p].connection \in {"open", "closing"}
  BY <1>2 DEF ConnectionTellsObject
<1>4. ~In(queue, <<"connect", p>>) /\ prot[p].timer = FALSE /\ prot[p].refCount = 0
  BY <1>2, Types DEF ConnectIsOnItsWay
<1>5. ~plr[p].isConnecting /\ toRelease[p] = 0
  BY <1>2 DEF StateTellsChecks, Player
<1>6. p # None /\ \A w \in Player : w # None
  BY GameLoginAssumption DEF Player
<1>7. \A w \in Player : plr[w].state # "deleted" => plr[w].client # p
  BY <1>2, <1>6 DEF ClientOfPlayer
<1>8. ASSUME NEW q \in Protocol, prot[q].player = p PROVE FALSE
  <2>1. prot[q].player # None
    BY <1>6, <1>8 DEF Player
  <2>2. plr[prot[q].player].state \in {"fresh", "online", "removed"}
    BY <2>1 DEF PlayerOfProtocol
  <2>3. QED
    BY <1>2, <1>8, <2>2
<1>9. QED
  BY <1>2, <1>3, <1>4, <1>5, <1>7, <1>8

\* parseFirstPacket(): a new protocol, with its login() behind everything posted so far.
LEMMA ReceiveLoginKeeps ==
  ASSUME IInv, NEW p \in Protocol, ReceiveLogin(p)
  PROVE  IInv'
<1> USE DEF IInv
<1> DEFINE t == <<"login", p>>
           r == [prot[p] EXCEPT !.object = "live", !.connection = "open"]
<1>1. /\ prot[p].object = "none" /\ queue' = Append(queue, t) /\ UNCHANGED <<plr, toRelease>>
      /\ prot' = [prot EXCEPT ![p] = r]
  BY Types DEF ReceiveLogin
<1>2. /\ r \in ProtocolRecords /\ r.object = "live" /\ r.connection = "open"
      /\ r.player = prot[p].player /\ r.eventConnect = prot[p].eventConnect
      /\ r.timer = prot[p].timer /\ r.after = prot[p].after /\ r.refCount = prot[p].refCount
  BY Types DEF ProtocolRecords
<1> HIDE DEF r
<1>3. /\ prot' \in [Protocol -> ProtocolRecords]
      /\ prot'[p].object = "live" /\ prot'[p].connection = "open"
      /\ \A q \in Protocol \ {p} : prot'[q] = prot[q]
      /\ \A q \in Protocol :
           /\ prot'[q].player = prot[q].player /\ prot'[q].eventConnect = prot[q].eventConnect
           /\ prot'[q].timer = prot[q].timer /\ prot'[q].after = prot[q].after
           /\ prot'[q].refCount = prot[q].refCount
  BY <1>1, <1>2, ProtocolSet, Types
<1>4. t \in Tasks /\ ~In(queue, t) /\ ~In(queue, <<"close", p>>) /\ prot[p].connection = "none"
  BY <1>1 DEF Tasks, TaskKinds, NewHasNothing, ConnectionTellsObject
<1>5. /\ queue' \in Seq(Tasks) /\ EachOnce(queue')
      /\ \A u : In(queue', u) <=> In(queue, u) \/ u = t
      /\ \A u, v : (Ahead(queue, u, v) /\ u # v /\ (u = t => ~In(queue, v))) => Ahead(queue', u, v)
  BY <1>1, <1>4, PostedLast DEF QueueInOrder
<1>6. TypeOK'
  BY <1>1, <1>3, <1>5, Types DEF TypeOK, Tasks
<1>7. QueueInOrder'
  BY <1>4, <1>5 DEF QueueInOrder
<1>8. UseCountIsOwners'
  BY <1>1, <1>3, CountKept DEF UseCountIsOwners, Count, Owners
<1>9. ConnectionTellsObject'
  BY <1>3, <1>4, <1>5 DEF ConnectionTellsObject
<1>10. NewHasNothing'
  <2> SUFFICES ASSUME NEW q \in Protocol PROVE NewHasNothing!(q)'
    BY DEF NewHasNothing
  <2>1. QED
    BY <1>1, <1>3, <1>4, <1>5 DEF NewHasNothing
<1>11. ConnectIsOnItsWay'
  <2>1. \A q \in Protocol : In(queue', <<"connect", q>>) <=> In(queue, <<"connect", q>>)
    BY <1>5
  <2>2. \A q \in Protocol : prot[q].object \in {"live", "released"} => prot'[q].object \in {"live", "released"}
    BY <1>3
  <2>3. QED
    BY <1>3, <2>1, <2>2 DEF ConnectIsOnItsWay
<1>12. PlayerOfProtocol' /\ ClientOfPlayer'
  BY <1>1, <1>3, Types DEF PlayerOfProtocol, ClientOfPlayer, NewHasNothing
<1>13. StateTellsChecks' /\ OneOnline'
  BY <1>1 DEF StateTellsChecks, OneOnline
<1>14. SomebodyWillConnect'
  <2> SUFFICES ASSUME NEW w \in Player, plr'[w].state = "online", plr'[w].isConnecting
               PROVE  \E q \in Protocol : WillConnect(q, w)'
    BY DEF SomebodyWillConnect
  <2>1. PICK q \in Protocol : WillConnect(q, w)
    BY <1>1 DEF SomebodyWillConnect
  <2>2. plr[w].client # p /\ plr[w].client \in Protocol \cup {None}
    <3>1. prot[p].player = None /\ plr[w].state = "online"
      BY <1>1 DEF NewHasNothing
    <3>2. w # None /\ p # None
      BY GameLoginAssumption DEF Player
    <3>3. QED
      BY <3>1, <3>2, Types DEF ClientOfPlayer
  <2>3. WillConnect(q, w)'
    BY <1>1, <1>3, <1>5, <2>1, <2>2 DEF WillConnect
  <2>4. QED
    BY <2>3
<1>15. QED
  BY <1>6, <1>7, <1>8, <1>9, <1>10, <1>11, <1>12, <1>13, <1>14

\* A connection is asked to close and nothing else happens: its protocol will be told by
\* a task.
AskedToClose(p) ==
  /\ prot[p].object = "live"
  /\ prot' = [prot EXCEPT ![p] = Closing(p)] /\ UNCHANGED <<plr, toRelease>>
  /\ queue' \in Seq(Tasks) /\ EachOnce(queue')
  /\ \A q \in Protocol : In(queue', <<"login", q>>) => In(queue, <<"login", q>>)
  /\ \A q \in Protocol : In(queue', <<"connect", q>>) <=> In(queue, <<"connect", q>>)
  /\ \A q \in Protocol \ {p} : In(queue', <<"close", q>>) <=> In(queue, <<"close", q>>)
  /\ In(queue', <<"close", p>>)
  /\ \A q \in Protocol : Ahead(queue', <<"login", q>>, <<"close", q>>)
  /\ \A q, c \in Protocol :
       Ahead(queue, <<"close", c>>, <<"connect", q>>) /\ In(queue, <<"close", c>>) =>
         Ahead(queue', <<"close", c>>, <<"connect", q>>)

LEMMA AskedToCloseKeeps ==
  ASSUME IInv, NEW p \in Protocol, AskedToClose(p)
  PROVE  IInv'
<1> USE DEF IInv
<1>1. /\ prot' \in [Protocol -> ProtocolRecords] /\ prot'[p].connection = "closing"
      /\ \A q \in Protocol \ {p} : prot'[q] = prot[q]
      /\ \A q \in Protocol :
           /\ prot'[q].object = prot[q].object
           /\ prot'[q].player = prot[q].player /\ prot'[q].eventConnect = prot[q].eventConnect
           /\ prot'[q].timer = prot[q].timer /\ prot'[q].after = prot[q].after
           /\ prot'[q].refCount = prot[q].refCount
  <2>1. prot' \in [Protocol -> ProtocolRecords] /\ prot'[p] = Closing(p)
        /\ \A q \in Protocol \ {p} : prot'[q] = prot[q]
    BY ClosingFields, ProtocolSet, Types DEF AskedToClose
  <2>2. prot'[p].connection = "closing"
    BY <2>1, ClosingFields, Types DEF AskedToClose, ConnectionTellsObject
  <2>3. QED
    BY <2>1, <2>2, ClosingFields, Types
<1>2. /\ prot[p].object = "live" /\ UNCHANGED <<plr, toRelease>>
      /\ queue' \in Seq(Tasks) /\ EachOnce(queue')
      /\ \A q \in Protocol : In(queue', <<"login", q>>) => In(queue, <<"login", q>>)
      /\ \A q \in Protocol : In(queue', <<"connect", q>>) <=> In(queue, <<"connect", q>>)
      /\ \A q \in Protocol \ {p} : In(queue', <<"close", q>>) <=> In(queue, <<"close", q>>)
      /\ In(queue', <<"close", p>>)
      /\ \A q \in Protocol : Ahead(queue', <<"login", q>>, <<"close", q>>)
      /\ \A q, c \in Protocol :
           Ahead(queue, <<"close", c>>, <<"connect", q>>) /\ In(queue, <<"close", c>>) =>
             Ahead(queue', <<"close", c>>, <<"connect", q>>)
  BY DEF AskedToClose
<1>3. TypeOK' /\ QueueInOrder'
  BY <1>1, <1>2, Types DEF TypeOK, QueueInOrder, Tasks
<1>4. UseCountIsOwners'
  BY <1>1, <1>2, CountKept, UseCountsAre DEF UseCounts
<1>5. ConnectionTellsObject'
  <2>1. ASSUME NEW q \in Protocol PROVE ConnectionTellsObject!(q)'
    <3>1. CASE q = p
      BY <1>1, <1>2, <3>1
    <3>2. CASE q # p
      BY <1>1, <1>2, <3>2 DEF ConnectionTellsObject
    <3>3. QED
      BY <3>1, <3>2
  <2>2. QED
    BY <2>1 DEF ConnectionTellsObject
<1>6. NewHasNothing' /\ ConnectIsOnItsWay'
  BY <1>1, <1>2 DEF NewHasNothing, ConnectIsOnItsWay
<1>7. ClientOfPlayer'
  BY <1>1, <1>2, Types DEF ClientOfPlayer
<1>8. PlayerOfProtocol' /\ StateTellsChecks' /\ OneOnline'
  BY <1>1, <1>2 DEF PlayerOfProtocol, StateTellsChecks, OneOnline
<1>9. SomebodyWillConnect'
  <2> SUFFICES ASSUME NEW w \in Player, plr'[w].state = "online", plr'[w].isConnecting
               PROVE  \E q \in Protocol : WillConnect(q, w)'
    BY DEF SomebodyWillConnect
  <2>1. PICK q \in Protocol : WillConnect(q, w)
    BY <1>2 DEF SomebodyWillConnect
  <2>2. plr[w].client \in Protocol \cup {None}
    BY Types
  <2>3. prot[plr[w].client].connection = "closing" /\ plr[w].client # None =>
          In(queue, <<"close", plr[w].client>>)
    BY <2>2 DEF ConnectionTellsObject
  <2>4. WillConnect(q, w)'
    BY <1>1, <1>2, <2>1, <2>2, <2>3 DEF WillConnect
  <2>5. QED
    BY <2>4
<1>10. QED
  BY <1>3, <1>4, <1>5, <1>6, <1>7, <1>8, <1>9

\* The client hangs up.
LEMMA HangUpKeeps ==
  ASSUME IInv, NEW p \in Protocol, HangUp(p)
  PROVE  IInv'
<1> USE DEF IInv
<1>1. prot[p].connection = "open" /\ queue' = queue \o CloseTasks(p)
  BY DEF HangUp
<1>2. prot[p].object = "live" /\ ~In(queue, <<"close", p>>)
  BY <1>1 DEF ConnectionTellsObject
<1>3. /\ queue' \in Seq(Tasks) /\ EachOnce(queue')
      /\ \A u : In(queue', u) <=> In(queue, u) \/ u = <<"close", p>>
      /\ \A u, v : Ahead(queue, u, v) /\ u # v /\ u # <<"close", p>> => Ahead(queue', u, v)
  BY <1>1, <1>2, CloseIsPosted DEF QueueInOrder
<1>4. AskedToClose(p)
  BY <1>2, <1>3 DEF AskedToClose, HangUp, QueueInOrder
<1>5. QED
  BY <1>4, AskedToCloseKeeps

\* Turned away, because the character is online.
LEMMA AlreadyLoggedInKeeps ==
  ASSUME IInv, NEW p \in Protocol, AlreadyLoggedIn(p)
  PROVE  IInv'
<1> USE DEF IInv
<1>1. IsNext("login", p) /\ queue' = Pop \o CloseTasks(p)
  BY DEF AlreadyLoggedIn
<1>2. prot[p].object = "live" /\ prot[p].connection \in {"open", "closing"}
  BY <1>1, NextLogin
<1>3. /\ queue' \in Seq(Tasks) /\ EachOnce(queue')
      /\ \A u : In(queue', u) <=> \/ In(queue, u) /\ u # <<"login", p>>
                                  \/ u = <<"close", p>> /\ prot[p].connection = "open"
      /\ \A u, v : /\ Ahead(queue, u, v) /\ u # v
                   /\ u = <<"close", p>> => prot[p].connection # "open"
                   => Ahead(queue', u, v)
  BY <1>1, NextTaskCloses
<1>4. prot[p].connection = "closing" <=> In(queue, <<"close", p>>)
  BY DEF ConnectionTellsObject
<1>5. AskedToClose(p)
  <2>1. \A q, c \in Protocol :
          Ahead(queue, <<"close", c>>, <<"connect", q>>) /\ In(queue, <<"close", c>>) =>
            Ahead(queue', <<"close", c>>, <<"connect", q>>)
    BY <1>2, <1>3, <1>4
  <2>2. /\ \A q \in Protocol : In(queue', <<"login", q>>) => In(queue, <<"login", q>>)
        /\ \A q \in Protocol : In(queue', <<"connect", q>>) <=> In(queue, <<"connect", q>>)
        /\ \A q \in Protocol \ {p} : In(queue', <<"close", q>>) <=> In(queue, <<"close", q>>)
        /\ In(queue', <<"close", p>>)
    BY <1>2, <1>3, <1>4
  <2>3. \A q \in Protocol : Ahead(queue', <<"login", q>>, <<"close", q>>)
    BY <1>3 DEF QueueInOrder
  <2>4. QED
    BY <1>2, <1>3, <2>1, <2>2, <2>3 DEF AskedToClose, AlreadyLoggedIn
<1>6. QED
  BY <1>5, AskedToCloseKeeps

\* login() creates the Player; its protocol may be asked to close at once.
NewPlayer(p) ==
  /\ IsNext("login", p) /\ Online = {}
  /\ prot' \in [Protocol -> ProtocolRecords] /\ plr' \in [Player -> PlayerRecords]
  /\ toRelease' \in [Player -> Nat]
  /\ \A q \in Protocol \ {p} : prot'[q] = prot[q]
  /\ \A w \in Player \ {p} : plr'[w] = plr[w] /\ toRelease'[w] = toRelease[w]
  /\ plr'[p].client = p /\ ~plr'[p].isConnecting
  /\ plr'[p].state \in {"fresh", "online", "removed"}
  /\ plr'[p].creatureCheck <=> plr'[p].state = "online"
  /\ plr'[p].state = "online" => plr'[p].inCheckVector
  /\ plr'[p].inCheckVector => plr'[p].state \in {"online", "removed"}
  /\ plr'[p].useCount = 1 + (IF plr'[p].state = "online" THEN 1 ELSE 0)
                          + (IF plr'[p].inCheckVector THEN 1 ELSE 0) + toRelease'[p]
  /\ prot'[p].player = p /\ prot'[p].object = "live" /\ prot'[p].eventConnect = None
  /\ prot'[p].timer = FALSE /\ prot'[p].refCount = 0
  /\ \/ prot'[p].connection = prot[p].connection /\ queue' = Pop
     \/ prot'[p].connection = "closing" /\ queue' = Pop \o CloseTasks(p)

LEMMA NewPlayerKeeps ==
  ASSUME IInv, NEW p \in Protocol, NewPlayer(p)
  PROVE  IInv'
<1> USE DEF IInv
<1>1. /\ IsNext("login", p)
      /\ prot[p].object = "live" /\ prot[p].connection \in {"open", "closing"}
      /\ prot[p].player = None /\ prot[p].eventConnect = None
      /\ ~In(queue, <<"connect", p>>)
      /\ plr[p].state = "none"
      /\ \A w \in Player : plr[w].state # "deleted" => plr[w].client # p
      /\ \A q \in Protocol : prot[q].player # p
  BY NextLogin DEF NewPlayer
<1>2. /\ prot' \in [Protocol -> ProtocolRecords]
      /\ \A q \in Protocol \ {p} : prot'[q] = prot[q]
      /\ prot'[p].player = p /\ prot'[p].object = "live" /\ prot'[p].eventConnect = None
      /\ prot'[p].timer = FALSE /\ prot'[p].refCount = 0
      /\ prot'[p].connection \in {"open", "closing"}
  BY <1>1 DEF NewPlayer
<1>3. /\ queue' \in Seq(Tasks) /\ EachOnce(queue')
      /\ \A q \in Protocol : In(queue', <<"login", q>>) <=> In(queue, <<"login", q>>) /\ q # p
      /\ \A q \in Protocol : In(queue', <<"connect", q>>) <=> In(queue, <<"connect", q>>)
      /\ \A q \in Protocol \ {p} : In(queue', <<"close", q>>) <=> In(queue, <<"close", q>>)
      /\ In(queue', <<"close", p>>) <=> prot'[p].connection = "closing"
      /\ \A q \in Protocol : Ahead(queue', <<"login", q>>, <<"close", q>>)
  <2>1. CASE prot'[p].connection = prot[p].connection /\ queue' = Pop
    BY <1>1, <2>1, NextTask DEF QueueInOrder, ConnectionTellsObject
  <2>2. CASE prot'[p].connection = "closing" /\ queue' = Pop \o CloseTasks(p)
    <3>1. /\ queue' \in Seq(Tasks) /\ EachOnce(queue')
          /\ \A u : In(queue', u) <=> \/ In(queue, u) /\ u # <<"login", p>>
                                      \/ u = <<"close", p>> /\ prot[p].connection = "open"
          /\ \A u, v : /\ Ahead(queue, u, v) /\ u # v
                       /\ u = <<"close", p>> => prot[p].connection # "open"
                       => Ahead(queue', u, v)
      BY <1>1, <2>2, NextTaskCloses
    <3>2. QED
      BY <1>1, <2>2, <3>1 DEF QueueInOrder, ConnectionTellsObject
  <2>3. QED
    BY <2>1, <2>2 DEF NewPlayer
<1>4. p \in Player /\ p # None /\ \A w \in Player : w # None
  BY GameLoginAssumption DEF Player
<1>5. /\ plr' \in [Player -> PlayerRecords] /\ toRelease' \in [Player -> Nat]
      /\ \A w \in Player \ {p} : plr'[w] = plr[w] /\ toRelease'[w] = toRelease[w]
      /\ plr'[p].client = p /\ ~plr'[p].isConnecting
      /\ plr'[p].state \in {"fresh", "online", "removed"}
      /\ plr'[p].creatureCheck <=> plr'[p].state = "online"
      /\ plr'[p].state = "online" => plr'[p].inCheckVector
      /\ plr'[p].inCheckVector => plr'[p].state \in {"online", "removed"}
  BY DEF NewPlayer
<1>6. TypeOK' /\ QueueInOrder'
  BY <1>2, <1>3, <1>5 DEF TypeOK, QueueInOrder, Tasks
<1>7. UseCountIsOwners'
  <2>1. Count(prot', p) = 1
    <3>1. Owners(prot, p) = {}
      BY <1>1 DEF Owners
    <3>2. Count(prot, p) = 0
      BY <3>1, FS_EmptySet DEF Count
    <3>3. /\ prot[p].player # p /\ prot'[p].player = p
          /\ \A q \in Protocol \ {p} : prot[q].player = p <=> prot'[q].player = p
      BY <1>1, <1>2
    <3>4. QED
      BY <3>2, <3>3, CountGrows
  <2>2. ASSUME NEW w \in Player \ {p} PROVE Count(prot', w) = Count(prot, w)
    <3>1. \A q \in Protocol : prot[q].player = w <=> prot'[q].player = w
      BY <1>1, <1>2, <1>4
    <3>2. QED
      BY <3>1, CountKept
  <2>3. plr'[p].useCount = 1 + (IF plr'[p].state = "online" THEN 1 ELSE 0)
                             + (IF plr'[p].inCheckVector THEN 1 ELSE 0) + toRelease'[p]
    BY DEF NewPlayer
  <2>4. UseCounts(plr', prot', toRelease')
    BY <1>5, <2>1, <2>2, <2>3, UseCountsAre DEF UseCounts
  <2>5. QED
    BY <2>4, UseCountsAre
<1>8. ConnectionTellsObject'
  BY <1>1, <1>2, <1>3 DEF ConnectionTellsObject
<1>9. NewHasNothing' /\ ConnectIsOnItsWay'
  <2>1. ASSUME NEW q \in Protocol PROVE NewHasNothing!(q)'
    <3>1. CASE q = p
      BY <1>1, <1>2, <1>3, <3>1
    <3>2. CASE q # p
      BY <1>2, <1>3, <1>5, <3>2 DEF NewHasNothing, Player
    <3>3. QED
      BY <3>1, <3>2
  <2>2. ASSUME NEW q \in Protocol PROVE ConnectIsOnItsWay!(q)'
    BY <1>1, <1>2, <1>3 DEF ConnectIsOnItsWay
  <2>3. QED
    BY <2>1, <2>2 DEF NewHasNothing, ConnectIsOnItsWay
<1>10. PlayerOfProtocol' /\ ClientOfPlayer'
  <2>1. ASSUME NEW q \in Protocol PROVE PlayerOfProtocol!(q)'
    <3>1. CASE q = p
      BY <1>2, <1>4, <1>5, <3>1
    <3>2. CASE q # p
      BY <1>1, <1>2, <1>5, <3>2, Types DEF PlayerOfProtocol
    <3>3. QED
      BY <3>1, <3>2
  <2>2. ASSUME NEW w \in Player PROVE ClientOfPlayer!(w)'
    <3>1. CASE w = p
      BY <1>2, <1>5, <3>1
    <3>2. CASE w # p
      <4>1. plr'[w] = plr[w] /\ plr[w].client \in Protocol \cup {None}
        BY <1>5, <3>2, Types
      <4>2. plr[w].state # "deleted" => plr[w].client # p
        BY <1>1
      <4>3. QED
        BY <1>2, <4>1, <4>2 DEF ClientOfPlayer
    <3>3. QED
      BY <3>1, <3>2
  <2>3. QED
    BY <2>1, <2>2 DEF PlayerOfProtocol, ClientOfPlayer
<1>11. StateTellsChecks' /\ OneOnline' /\ SomebodyWillConnect'
  <2>1. \A w \in Player \ {p} : plr'[w].state # "online"
    BY <1>5 DEF NewPlayer, Online
  <2>2. OneOnline' /\ SomebodyWillConnect'
    BY <1>5, <2>1 DEF OneOnline, SomebodyWillConnect
  <2>3. ASSUME NEW w \in Player PROVE StateTellsChecks!(w)'
    BY <1>4, <1>5, <2>1 DEF StateTellsChecks
  <2>4. QED
    BY <2>2, <2>3 DEF StateTellsChecks
<1>12. QED
  BY <1>6, <1>7, <1>8, <1>9, <1>10, <1>11

LEMMA NewLoginKeeps ==
  ASSUME IInv, NEW p \in Protocol, LoginRefused(p) \/ LoginPlaced(p) \/ LoginKicked(p)
  PROVE  IInv'
<1> USE DEF IInv
<1> DEFINE open == prot[p]
           old == plr[p]
<1>1. IsNext("login", p) /\ Online = {}
  BY DEF LoginRefused, LoginPlaced, LoginKicked
<1>2. /\ open \in ProtocolRecords /\ open.object = "live" /\ open.eventConnect = None
      /\ open.timer = FALSE /\ open.refCount = 0 /\ open.connection \in {"open", "closing"}
      /\ old \in PlayerRecords /\ ~old.isConnecting /\ ~old.creatureCheck /\ ~old.inCheckVector
      /\ toRelease[p] = 0 /\ p \in Player
      /\ [toRelease EXCEPT ![p] = 0] = toRelease
  <2>1. /\ open \in ProtocolRecords /\ old \in PlayerRecords /\ p \in Player
        /\ toRelease \in [Player -> Nat]
    BY Types DEF Player
  <2>2. ~old.creatureCheck /\ ~old.inCheckVector
    BY <1>1, <2>1, NextLogin DEF StateTellsChecks
  <2>3. [toRelease EXCEPT ![p] = 0] = toRelease
    BY <1>1, <2>1, NextLogin
  <2>4. QED
    BY <1>1, <2>1, <2>2, <2>3, NextLogin
<1>3. DEFINE closing == [Closing(p) EXCEPT !.player = p]
<1>4. /\ closing \in ProtocolRecords /\ closing.player = p
      /\ closing.object = "live" /\ closing.eventConnect = None
      /\ closing.timer = FALSE /\ closing.refCount = 0 /\ closing.connection = "closing"
  <2> DEFINE c == Closing(p)
  <2>1. /\ c \in ProtocolRecords /\ c.object = "live" /\ c.eventConnect = None
        /\ c.timer = FALSE /\ c.refCount = 0 /\ c.connection = "closing"
    BY <1>2, ClosingFields
  <2> HIDE DEF c
  <2>2. /\ [c EXCEPT !.player = p] \in ProtocolRecords /\ [c EXCEPT !.player = p].player = p
        /\ [c EXCEPT !.player = p].object = c.object
        /\ [c EXCEPT !.player = p].eventConnect = c.eventConnect
        /\ [c EXCEPT !.player = p].timer = c.timer
        /\ [c EXCEPT !.player = p].refCount = c.refCount
        /\ [c EXCEPT !.player = p].connection = c.connection
    BY <2>1 DEF ProtocolRecords, Player
  <2>3. QED
    BY <2>1, <2>2 DEF c
<1>5. CASE LoginRefused(p)
  <2> DEFINE s == [old EXCEPT !.state = "fresh", !.client = p, !.useCount = 1]
  <2>1. /\ s \in PlayerRecords /\ s.state = "fresh" /\ s.client = p /\ s.useCount = 1
        /\ ~s.isConnecting /\ ~s.creatureCheck /\ ~s.inCheckVector
    <3> HIDE DEF old
    <3> QED BY <1>2 DEF PlayerRecords
  <2>2. /\ plr' = [plr EXCEPT ![p] = s] /\ toRelease' = [toRelease EXCEPT ![p] = 0]
        /\ prot' = [prot EXCEPT ![p] = closing] /\ queue' = Pop \o CloseTasks(p)
    BY <1>2, <1>5 DEF LoginRefused
  <2> HIDE DEF s, closing
  <2>3. /\ prot' \in [Protocol -> ProtocolRecords] /\ plr' \in [Player -> PlayerRecords]
        /\ prot'[p] = closing /\ plr'[p] = s
        /\ \A q \in Protocol \ {p} : prot'[q] = prot[q] /\ plr'[q] = plr[q]
    BY <1>4, <2>1, <2>2, ProtocolSet, PlayerSet, Types DEF Player
  <2>4. /\ toRelease' \in [Player -> Nat] /\ toRelease'[p] = 0
        /\ \A q \in Protocol \ {p} : toRelease'[q] = toRelease[q]
    BY <2>2, Types DEF Player
  <2>5. NewPlayer(p)
    BY <1>1, <1>4, <2>1, <2>2, <2>3, <2>4 DEF NewPlayer
  <2>6. QED
    BY <2>5, NewPlayerKeeps
<1>6. CASE LoginKicked(p)
  <2> DEFINE s == [old EXCEPT !.state = "removed", !.client = p, !.useCount = 3,
                              !.inCheckVector = TRUE]
  <2>1. /\ s \in PlayerRecords /\ s.state = "removed" /\ s.client = p /\ s.useCount = 3
        /\ ~s.isConnecting /\ ~s.creatureCheck /\ s.inCheckVector
    <3> HIDE DEF old
    <3> QED BY <1>2 DEF PlayerRecords
  <2>2. /\ plr' = [plr EXCEPT ![p] = s] /\ toRelease' = [toRelease EXCEPT ![p] = 1]
        /\ prot' = [prot EXCEPT ![p] = closing] /\ queue' = Pop \o CloseTasks(p)
    BY <1>2, <1>6 DEF LoginKicked
  <2> HIDE DEF s, closing
  <2>3. /\ prot' \in [Protocol -> ProtocolRecords] /\ plr' \in [Player -> PlayerRecords]
        /\ prot'[p] = closing /\ plr'[p] = s
        /\ \A q \in Protocol \ {p} : prot'[q] = prot[q] /\ plr'[q] = plr[q]
    BY <1>4, <2>1, <2>2, ProtocolSet, PlayerSet, Types DEF Player
  <2>4. /\ toRelease' \in [Player -> Nat] /\ toRelease'[p] = 1
        /\ \A q \in Protocol \ {p} : toRelease'[q] = toRelease[q]
    BY <2>2, Types DEF Player
  <2>5. NewPlayer(p)
    BY <1>1, <1>4, <2>1, <2>2, <2>3, <2>4 DEF NewPlayer
  <2>6. QED
    BY <2>5, NewPlayerKeeps
<1>7. CASE LoginPlaced(p)
  <2> DEFINE s == [old EXCEPT !.state = "online", !.client = p, !.useCount = 3,
                              !.creatureCheck = TRUE, !.inCheckVector = TRUE]
             r == [open EXCEPT !.player = p]
  <2>1. /\ s \in PlayerRecords /\ s.state = "online" /\ s.client = p /\ s.useCount = 3
        /\ ~s.isConnecting /\ s.creatureCheck /\ s.inCheckVector
    <3> HIDE DEF old
    <3> QED BY <1>2 DEF PlayerRecords
  <2>2. /\ r \in ProtocolRecords /\ r.player = p /\ r.connection = open.connection
        /\ r.object = "live" /\ r.eventConnect = None
        /\ r.timer = FALSE /\ r.refCount = 0
    <3> HIDE DEF open
    <3> QED BY <1>2 DEF ProtocolRecords, Player
  <2>3. /\ plr' = [plr EXCEPT ![p] = s] /\ toRelease' = [toRelease EXCEPT ![p] = 0]
        /\ prot' = [prot EXCEPT ![p] = r] /\ queue' = Pop
    BY <1>2, <1>7 DEF LoginPlaced
  <2> HIDE DEF s, r
  <2>4. /\ prot' \in [Protocol -> ProtocolRecords] /\ plr' \in [Player -> PlayerRecords]
        /\ prot'[p] = r /\ plr'[p] = s
        /\ \A q \in Protocol \ {p} : prot'[q] = prot[q] /\ plr'[q] = plr[q]
    BY <2>1, <2>2, <2>3, ProtocolSet, PlayerSet, Types DEF Player
  <2>5. /\ toRelease' \in [Player -> Nat] /\ toRelease'[p] = 0
        /\ \A q \in Protocol \ {p} : toRelease'[q] = toRelease[q]
    BY <2>3, Types DEF Player
  <2>6. NewPlayer(p)
    BY <1>1, <2>1, <2>2, <2>3, <2>4, <2>5 DEF NewPlayer
  <2>7. QED
    BY <2>6, NewPlayerKeeps
<1>8. QED
  BY <1>5, <1>6, <1>7

\* The client that is there is asked to go, and connect() is scheduled.
LEMMA TakeOverKeeps ==
  ASSUME IInv, NEW p \in Protocol, TakeOver(p)
  PROVE  IInv'
<1> USE DEF IInv
<1>1. PICK w \in Online :
        /\ plr[w].client # None
        /\ plr' = [plr EXCEPT ![w].isConnecting = TRUE]
        /\ prot' = [prot EXCEPT ![plr[w].client] = Closing(plr[w].client),
                                ![p] = [prot[p] EXCEPT !.eventConnect = w, !.timer = TRUE,
                                                       !.after = Retrying, !.refCount = @ + 1]]
        /\ queue' = Pop \o CloseTasks(plr[w].client)
  BY DEF TakeOver
<1> DEFINE c == plr[w].client
<1>2. IsNext("login", p) /\ UNCHANGED toRelease
  BY DEF TakeOver
<1>3. /\ prot[p].object = "live" /\ prot[p].player = None /\ prot[p].eventConnect = None
      /\ prot[p].timer = FALSE /\ prot[p].refCount = 0 /\ ~In(queue, <<"connect", p>>)
  BY <1>2, NextLogin
<1>4. /\ w \in Player /\ plr[w].state = "online" /\ c \in Protocol /\ c # p
      /\ prot[c].player = w /\ w # None
      /\ prot[c].object \in {"live", "released"}
  <2>1. w \in Player /\ plr[w].state = "online" /\ c \in Protocol /\ w # None
    BY <1>1, Types, GameLoginAssumption DEF Online, Player
  <2>2. prot[c].player = w
    BY <1>1, <2>1 DEF ClientOfPlayer
  <2>3. c # p /\ prot[c].object \in {"live", "released"}
    BY <1>3, <2>1, <2>2 DEF PlayerOfProtocol
  <2>4. QED
    BY <2>1, <2>2, <2>3
<1>5. /\ prot' \in [Protocol -> ProtocolRecords]
      /\ prot'[c].connection = IF prot[c].connection = "open" THEN "closing" ELSE prot[c].connection
      /\ prot'[c].object = prot[c].object /\ prot'[c].player = prot[c].player
      /\ prot'[c].eventConnect = prot[c].eventConnect /\ prot'[c].timer = prot[c].timer
      /\ prot'[c].after = prot[c].after /\ prot'[c].refCount = prot[c].refCount
      /\ prot'[p].eventConnect = w /\ prot'[p].timer = TRUE /\ prot'[p].after = Retrying
      /\ prot'[p].refCount = 1 /\ prot'[p].player = None /\ prot'[p].object = "live"
      /\ prot'[p].connection = prot[p].connection
      /\ \A q \in Protocol \ {p, c} : prot'[q] = prot[q]
  <2> DEFINE f == [prot EXCEPT ![c] = Closing(c)]
             old == prot[p]
             k == old.refCount + 1
             r == [old EXCEPT !.eventConnect = w, !.timer = TRUE, !.after = Retrying,
                              !.refCount = k]
  <2>1. /\ f \in [Protocol -> ProtocolRecords] /\ f[c] = Closing(c)
        /\ \A q \in Protocol \ {c} : f[q] = prot[q]
    BY <1>4, ClosingFields, ProtocolSet, Types
  <2>2. prot' = [f EXCEPT ![p] = r]
    BY <1>1, <1>4, Types
  <2>3. old \in ProtocolRecords /\ k = 1 /\ Retrying \in SUBSET Protocol
    BY <1>3, Types DEF Retrying
  <2> HIDE DEF f, old, k
  <2>4. /\ r \in ProtocolRecords /\ r.eventConnect = w /\ r.timer = TRUE /\ r.after = Retrying
        /\ r.refCount = 1 /\ r.player = old.player /\ r.object = old.object
        /\ r.connection = old.connection
    BY <1>4, <2>3 DEF ProtocolRecords
  <2> HIDE DEF r
  <2>6. /\ prot' \in [Protocol -> ProtocolRecords] /\ prot'[p] = r
        /\ \A q \in Protocol \ {p} : prot'[q] = f[q]
    BY <2>1, <2>2, <2>4, ProtocolSet
  <2>7. prot'[c] = Closing(c) /\ \A q \in Protocol \ {p, c} : prot'[q] = prot[q]
    BY <1>4, <2>1, <2>6
  <2>8. /\ prot'[c].connection = IF prot[c].connection = "open" THEN "closing" ELSE prot[c].connection
        /\ prot'[c].object = prot[c].object /\ prot'[c].player = prot[c].player
        /\ prot'[c].eventConnect = prot[c].eventConnect /\ prot'[c].timer = prot[c].timer
        /\ prot'[c].after = prot[c].after /\ prot'[c].refCount = prot[c].refCount
    BY <1>4, <2>7, ClosingFields, Types
  <2>9. /\ prot'[p].eventConnect = w /\ prot'[p].timer = TRUE /\ prot'[p].after = Retrying
        /\ prot'[p].refCount = 1 /\ prot'[p].player = None /\ prot'[p].object = "live"
        /\ prot'[p].connection = prot[p].connection
    BY <1>3, <2>4, <2>6 DEF old
  <2>10. QED
    BY <2>6, <2>7, <2>8, <2>9
<1>6. /\ plr' \in [Player -> PlayerRecords]
      /\ \A x \in Player : /\ plr'[x].state = plr[x].state /\ plr'[x].client = plr[x].client
                           /\ plr'[x].useCount = plr[x].useCount
                           /\ plr'[x].creatureCheck = plr[x].creatureCheck
                           /\ plr'[x].inCheckVector = plr[x].inCheckVector
      /\ \A x \in Player \ {w} : plr'[x].isConnecting = plr[x].isConnecting
  <2> DEFINE old == plr[w]
             s == [old EXCEPT !.isConnecting = TRUE]
  <2>1. plr' = [plr EXCEPT ![w] = s] /\ old \in PlayerRecords
    BY <1>1, <1>4, Types
  <2>2. /\ s \in PlayerRecords /\ s.state = old.state /\ s.client = old.client
        /\ s.useCount = old.useCount /\ s.creatureCheck = old.creatureCheck
        /\ s.inCheckVector = old.inCheckVector
    <3> HIDE DEF old
    <3> QED BY <2>1 DEF PlayerRecords
  <2> HIDE DEF s
  <2>3. plr' \in [Player -> PlayerRecords] /\ plr'[w] = s /\ \A x \in Player \ {w} : plr'[x] = plr[x]
    BY <1>4, <2>1, <2>2, PlayerSet, Types
  <2>4. QED
    BY <2>2, <2>3
<1>7. /\ queue' \in Seq(Tasks) /\ EachOnce(queue')
      /\ \A u : In(queue', u) <=> \/ In(queue, u) /\ u # <<"login", p>>
                                  \/ u = <<"close", c>> /\ prot[c].connection = "open"
      /\ \A u, v : /\ Ahead(queue, u, v) /\ u # v
                   /\ u = <<"close", c>> => prot[c].connection # "open"
                   => Ahead(queue', u, v)
  BY <1>1, <1>2, <1>4, NextTaskCloses
<1> HIDE DEF c
<1>8. /\ \A q \in Protocol : In(queue', <<"login", q>>) <=> In(queue, <<"login", q>>) /\ q # p
      /\ \A q \in Protocol : In(queue', <<"connect", q>>) <=> In(queue, <<"connect", q>>)
      /\ \A q \in Protocol \ {c} : In(queue', <<"close", q>>) <=> In(queue, <<"close", q>>)
      /\ In(queue', <<"close", c>>) <=>
           In(queue, <<"close", c>>) \/ prot[c].connection = "open"
      /\ \A q \in Protocol : Ahead(queue', <<"login", q>>, <<"close", q>>)
  <2>1. \A q \in Protocol : Ahead(queue', <<"login", q>>, <<"close", q>>)
    BY <1>7 DEF QueueInOrder
  <2>2. QED
    BY <1>7, <2>1
<1>9. TypeOK' /\ QueueInOrder'
  BY <1>2, <1>5, <1>6, <1>7, <1>8, Types DEF TypeOK, QueueInOrder, Tasks
<1>10. UseCountIsOwners'
  <2>1. ASSUME NEW x \in Player PROVE Count(prot', x) = Count(prot, x)
    <3>1. \A q \in Protocol : prot'[q].player = prot[q].player
      BY <1>3, <1>4, <1>5
    <3>2. QED
      BY <3>1, CountKept
  <2>2. QED
    BY <1>2, <1>6, <2>1, UseCountsAre DEF UseCounts
<1>11. ConnectionTellsObject'
  <2>1. ASSUME NEW q \in Protocol PROVE ConnectionTellsObject!(q)'
    <3>1. CASE q = c
      BY <1>4, <1>5, <1>8, <3>1 DEF ConnectionTellsObject
    <3>2. CASE q = p
      BY <1>3, <1>4, <1>5, <1>8, <3>2 DEF ConnectionTellsObject
    <3>3. CASE q # p /\ q # c
      BY <1>5, <1>8, <3>3 DEF ConnectionTellsObject
    <3>4. QED
      BY <3>1, <3>2, <3>3
  <2>2. QED
    BY <2>1 DEF ConnectionTellsObject
<1>12. NewHasNothing'
  <2>1. ASSUME NEW q \in Protocol PROVE NewHasNothing!(q)'
    <3>1. CASE q = p
      BY <1>5, <1>8, <3>1
    <3>2. CASE q # p
      BY <1>4, <1>5, <1>6, <1>8, <3>2 DEF NewHasNothing, Player
    <3>3. QED
      BY <3>1, <3>2
  <2>2. QED
    BY <2>1 DEF NewHasNothing
<1>13. ConnectIsOnItsWay'
  <2>1. ASSUME NEW q \in Protocol PROVE ConnectIsOnItsWay!(q)'
    <3>1. CASE q = p
      BY <1>3, <1>4, <1>5, <1>8, <3>1
    <3>2. CASE q # p
      BY <1>4, <1>5, <1>8, <3>2 DEF ConnectIsOnItsWay
    <3>3. QED
      BY <3>1, <3>2
  <2>2. QED
    BY <2>1 DEF ConnectIsOnItsWay
<1>14. PlayerOfProtocol' /\ ClientOfPlayer' /\ StateTellsChecks' /\ OneOnline'
  <2>1. \A q \in Protocol : prot'[q].player = prot[q].player /\ prot'[q].object = prot[q].object
    BY <1>3, <1>4, <1>5
  <2>2. PlayerOfProtocol'
    <3>1. ASSUME NEW q \in Protocol PROVE PlayerOfProtocol!(q)'
      <4>1. prot[q].player \in Player \cup {None}
        BY Types
      <4>2. prot[q].player # None => /\ plr'[prot[q].player].state = plr[prot[q].player].state
                                     /\ plr'[prot[q].player].client = plr[prot[q].player].client
        BY <1>6, <4>1
      <4>3. QED
        BY <2>1, <4>2 DEF PlayerOfProtocol
    <3>2. QED
      BY <3>1 DEF PlayerOfProtocol
  <2>3. ClientOfPlayer'
    BY <1>6, <2>1, Types DEF ClientOfPlayer
  <2>4. StateTellsChecks' /\ OneOnline'
    BY <1>2, <1>4, <1>6 DEF StateTellsChecks, OneOnline
  <2>5. QED
    BY <2>2, <2>3, <2>4
<1>15. SomebodyWillConnect'
  <2>1. WillConnect(p, w)'
    <3>1. CASE prot[c].object = "live"
      <4>1. prot[c].connection \in {"open", "closing"} /\ prot'[c].connection = "closing"
        BY <1>4, <1>5, <3>1 DEF ConnectionTellsObject
      <4>2. ~In(queue', <<"connect", p>>)
        BY <1>3, <1>8
      <4>3. Ahead(queue', <<"close", c>>, <<"connect", p>>)
        BY <4>2 DEF Ahead, In
      <4>4. QED
        BY <1>5, <1>6, <1>4, <4>1, <4>3 DEF WillConnect, c
    <3>2. CASE prot[c].object = "released"
      <4>1. c \in Retrying
        BY <1>4, <3>2 DEF Retrying
      <4>2. QED
        BY <1>4, <1>5, <1>6, <3>2, <4>1 DEF WillConnect, c
    <3>3. QED
      BY <1>4, <3>1, <3>2
  <2>2. \A x \in Player : plr'[x].state = "online" => x = w
    BY <1>4, <1>6 DEF OneOnline
  <2>3. QED
    BY <2>1, <2>2 DEF SomebodyWillConnect
<1>16. QED
  BY <1>9, <1>10, <1>11, <1>12, <1>13, <1>14, <1>15

\* connect() puts p in control of w, at once or when the client before it is gone.
Takes(p, w) ==
  /\ plr[w].state = "online" /\ plr[w].client = None
  /\ prot[p].player = None /\ prot[p].object \in {"live", "released"}
  /\ Connected(p, w) /\ UNCHANGED toRelease
  /\ prot'[p].refCount = 0 /\ prot[p].timer = FALSE
  /\ \A q \in Protocol : In(queue', <<"login", q>>) <=> In(queue, <<"login", q>>) /\ q # p
  /\ \A q \in Protocol : In(queue', <<"connect", q>>) <=> In(queue, <<"connect", q>>) /\ q # p
  /\ \A q \in Protocol : In(queue', <<"close", q>>) <=> In(queue, <<"close", q>>)
  /\ queue' \in Seq(Tasks) /\ QueueInOrder'

LEMMA ConnectedFields ==
  ASSUME TypeOK, NEW p \in Protocol, NEW w \in Player, Connected(p, w),
         IsNext("connect", p) => prot[p].refCount = 1
  PROVE  /\ prot' \in [Protocol -> ProtocolRecords]
         /\ prot'[p].player = w /\ prot'[p].eventConnect = None
         /\ prot'[p].refCount = IF IsNext("connect", p) THEN 0 ELSE prot[p].refCount
         /\ prot'[p].object = prot[p].object /\ prot'[p].connection = prot[p].connection
         /\ prot'[p].timer = prot[p].timer /\ prot'[p].after = prot[p].after
         /\ \A q \in Protocol \ {p} : prot'[q] = prot[q]
         /\ plr' \in [Player -> PlayerRecords]
         /\ plr'[w].client = p /\ plr'[w].isConnecting = FALSE
         /\ plr'[w].useCount = plr[w].useCount + 1 /\ plr'[w].state = plr[w].state
         /\ plr'[w].creatureCheck = plr[w].creatureCheck
         /\ plr'[w].inCheckVector = plr[w].inCheckVector
         /\ \A x \in Player \ {w} : plr'[x] = plr[x]
<1>1. /\ prot' \in [Protocol -> ProtocolRecords]
      /\ prot'[p].player = w /\ prot'[p].eventConnect = None
      /\ prot'[p].refCount = IF IsNext("connect", p) THEN 0 ELSE prot[p].refCount
      /\ prot'[p].object = prot[p].object /\ prot'[p].connection = prot[p].connection
      /\ prot'[p].timer = prot[p].timer /\ prot'[p].after = prot[p].after
      /\ \A q \in Protocol \ {p} : prot'[q] = prot[q]
  <2> DEFINE old == prot[p]
             k == IF IsNext("connect", p) THEN old.refCount - 1 ELSE old.refCount
             r == [old EXCEPT !.player = w, !.eventConnect = None, !.refCount = k]
  <2>1. prot' = [prot EXCEPT ![p] = r]
    BY Types DEF Connected
  <2>2. /\ old \in ProtocolRecords /\ k \in {0, 1}
        /\ k = IF IsNext("connect", p) THEN 0 ELSE old.refCount
    BY Types
  <2> HIDE DEF old, k
  <2>3. /\ r \in ProtocolRecords /\ r.player = w /\ r.eventConnect = None /\ r.refCount = k
        /\ r.object = old.object /\ r.connection = old.connection
        /\ r.timer = old.timer /\ r.after = old.after
    BY <2>2 DEF ProtocolRecords
  <2> HIDE DEF r
  <2>4. /\ prot' \in [Protocol -> ProtocolRecords] /\ prot'[p] = r
        /\ \A q \in Protocol \ {p} : prot'[q] = prot[q]
    BY <2>1, <2>3, ProtocolSet, Types
  <2>5. QED
    BY <2>2, <2>3, <2>4 DEF old
<1>2. /\ plr' \in [Player -> PlayerRecords]
      /\ plr'[w].client = p /\ plr'[w].isConnecting = FALSE
      /\ plr'[w].useCount = plr[w].useCount + 1 /\ plr'[w].state = plr[w].state
      /\ plr'[w].creatureCheck = plr[w].creatureCheck
      /\ plr'[w].inCheckVector = plr[w].inCheckVector
      /\ \A x \in Player \ {w} : plr'[x] = plr[x]
  <2> DEFINE old == plr[w]
             k == old.useCount + 1
             s == [old EXCEPT !.useCount = k, !.isConnecting = FALSE, !.client = p]
  <2>1. plr' = [plr EXCEPT ![w] = s]
    BY Types DEF Connected
  <2>2. old \in PlayerRecords /\ k \in Nat
    BY Types
  <2> HIDE DEF old, k
  <2>3. /\ s \in PlayerRecords /\ s.client = p /\ s.isConnecting = FALSE /\ s.useCount = k
        /\ s.state = old.state /\ s.creatureCheck = old.creatureCheck
        /\ s.inCheckVector = old.inCheckVector
    BY <2>2 DEF PlayerRecords
  <2> HIDE DEF s
  <2>4. plr' \in [Player -> PlayerRecords] /\ plr'[w] = s /\ \A x \in Player \ {w} : plr'[x] = plr[x]
    BY <2>1, <2>3, PlayerSet, Types
  <2>5. QED
    BY <2>3, <2>4 DEF old, k
<1>3. QED
  BY <1>1, <1>2

LEMMA TakesKeeps ==
  ASSUME IInv, NEW p \in Protocol, NEW w \in Player, Takes(p, w),
         IsNext("connect", p) => prot[p].refCount = 1
  PROVE  IInv'
<1> USE DEF IInv
<1>1. /\ plr[w].state = "online" /\ plr[w].client = None
      /\ prot[p].player = None /\ prot[p].object \in {"live", "released"}
      /\ prot'[p].refCount = 0 /\ prot[p].timer = FALSE /\ UNCHANGED toRelease
      /\ \A q \in Protocol : In(queue', <<"login", q>>) <=> In(queue, <<"login", q>>) /\ q # p
      /\ \A q \in Protocol : In(queue', <<"connect", q>>) <=> In(queue, <<"connect", q>>) /\ q # p
      /\ \A q \in Protocol : In(queue', <<"close", q>>) <=> In(queue, <<"close", q>>)
      /\ queue' \in Seq(Tasks) /\ QueueInOrder'
  BY DEF Takes
<1>2. /\ prot' \in [Protocol -> ProtocolRecords]
      /\ prot'[p].player = w /\ prot'[p].eventConnect = None
      /\ prot'[p].object = prot[p].object /\ prot'[p].connection = prot[p].connection
      /\ prot'[p].timer = FALSE
      /\ \A q \in Protocol \ {p} : prot'[q] = prot[q]
  BY <1>1, ConnectedFields DEF Takes
<1>3. /\ plr' \in [Player -> PlayerRecords]
      /\ plr'[w].client = p /\ plr'[w].isConnecting = FALSE
      /\ plr'[w].useCount = plr[w].useCount + 1 /\ plr'[w].state = "online"
      /\ plr'[w].creatureCheck = plr[w].creatureCheck
      /\ plr'[w].inCheckVector = plr[w].inCheckVector
      /\ \A x \in Player \ {w} : plr'[x] = plr[x]
  BY <1>1, ConnectedFields DEF Takes
<1>4. w # None /\ p # None
  BY GameLoginAssumption DEF Player
<1>5. TypeOK'
  BY <1>1, <1>2, <1>3, Types DEF TypeOK, Tasks
<1>6. UseCountIsOwners'
  <2>1. Count(prot', w) = Count(prot, w) + 1
    <3>1. /\ prot[p].player # w /\ prot'[p].player = w
          /\ \A q \in Protocol \ {p} : prot[q].player = w <=> prot'[q].player = w
      BY <1>1, <1>2, <1>4
    <3>2. QED
      BY <3>1, CountGrows
  <2>2. ASSUME NEW x \in Player \ {w} PROVE Count(prot', x) = Count(prot, x)
    <3>1. x # None
      BY GameLoginAssumption DEF Player
    <3>2. \A q \in Protocol : prot[q].player = x <=> prot'[q].player = x
      BY <1>1, <1>2, <3>1
    <3>3. QED
      BY <3>2, CountKept
  <2>3. Count(prot, w) \in Nat /\ toRelease[w] \in Nat
    BY CountIsNat, Types
  <2>4. UseCounts(plr', prot', toRelease')
    BY <1>1, <1>3, <2>1, <2>2, <2>3, UseCountsAre DEF UseCounts
  <2>5. QED
    BY <2>4, UseCountsAre
<1>7. ConnectionTellsObject'
  <2>1. \A q \in Protocol : /\ prot'[q].object = prot[q].object
                            /\ prot'[q].connection = prot[q].connection
    BY <1>2
  <2>2. QED
    BY <1>1, <2>1 DEF ConnectionTellsObject
<1>8. NewHasNothing'
  <2>1. ASSUME NEW q \in Protocol PROVE NewHasNothing!(q)'
    <3>1. plr'[q].state = plr[q].state
      BY <1>1, <1>3 DEF Player
    <3>2. CASE q = p
      BY <1>1, <1>2, <3>2
    <3>3. CASE q # p
      BY <1>1, <1>2, <3>1, <3>3 DEF NewHasNothing
    <3>4. QED
      BY <3>2, <3>3
  <2>2. QED
    BY <2>1 DEF NewHasNothing
<1>9. ConnectIsOnItsWay'
  <2>1. ASSUME NEW q \in Protocol PROVE ConnectIsOnItsWay!(q)'
    <3>1. CASE q = p
      BY <1>1, <1>2, <3>1
    <3>2. CASE q # p
      BY <1>1, <1>2, <3>2 DEF ConnectIsOnItsWay
    <3>3. QED
      BY <3>1, <3>2
  <2>2. QED
    BY <2>1 DEF ConnectIsOnItsWay
<1>10. PlayerOfProtocol'
  <2>1. ASSUME NEW q \in Protocol PROVE PlayerOfProtocol!(q)'
    <3>1. CASE q = p
      BY <1>1, <1>2, <1>3, <3>1
    <3>2. CASE q # p
      <4>1. prot'[q] = prot[q] /\ prot[q].player \in Player \cup {None} /\ q # None
        BY <1>2, <3>2, Types, GameLoginAssumption
      <4>2. CASE prot[q].player = w
        BY <1>1, <1>3, <1>4, <4>1, <4>2 DEF PlayerOfProtocol
      <4>3. CASE prot[q].player # w
        BY <1>3, <4>1, <4>3 DEF PlayerOfProtocol
      <4>4. QED
        BY <4>2, <4>3
    <3>3. QED
      BY <3>1, <3>2
  <2>2. QED
    BY <2>1 DEF PlayerOfProtocol
<1>11. ClientOfPlayer'
  <2>1. ASSUME NEW x \in Player PROVE ClientOfPlayer!(x)'
    <3>1. CASE x = w
      BY <1>2, <1>3, <3>1
    <3>2. CASE x # w
      <4>1. plr'[x] = plr[x] /\ plr[x].client \in Protocol \cup {None} /\ x # None
        BY <1>3, <3>2, Types, GameLoginAssumption DEF Player
      <4>2. QED
        BY <1>1, <1>2, <4>1 DEF ClientOfPlayer
    <3>3. QED
      BY <3>1, <3>2
  <2>2. QED
    BY <2>1 DEF ClientOfPlayer
<1>12. StateTellsChecks' /\ OneOnline'
  <2>1. ASSUME NEW x \in Player PROVE StateTellsChecks!(x)'
    BY <1>1, <1>3 DEF StateTellsChecks
  <2>2. \A x \in Player : plr'[x].state = plr[x].state
    BY <1>1, <1>3
  <2>3. OneOnline'
    BY <2>2 DEF OneOnline
  <2>4. QED
    BY <2>1, <2>3 DEF StateTellsChecks
<1>13. SomebodyWillConnect'
  <2>1. \A x \in Player : plr'[x].state = "online" => x = w
    BY <1>1, <1>3 DEF OneOnline
  <2>2. QED
    BY <1>3, <2>1 DEF SomebodyWillConnect
<1>14. QED
  BY <1>1, <1>5, <1>6, <1>7, <1>8, <1>9, <1>10, <1>11, <1>12, <1>13

LEMMA LoginConnectsKeeps ==
  ASSUME IInv, NEW p \in Protocol, LoginConnects(p)
  PROVE  IInv'
<1> USE DEF IInv
<1>1. PICK w \in Player : plr[w].state = "online" /\ plr[w].client = None /\ Connected(p, w)
  BY DEF LoginConnects, Online
<1>2. IsNext("login", p) /\ UNCHANGED toRelease /\ queue' = Pop
  BY <1>1 DEF LoginConnects, Connected
<1>3. /\ prot[p].object = "live" /\ prot[p].player = None /\ prot[p].timer = FALSE
      /\ prot[p].refCount = 0 /\ ~In(queue, <<"connect", p>>)
  BY <1>2, NextLogin
<1>4. ~IsNext("connect", p)
  BY <1>2 DEF IsNext
<1>5. /\ Pop \in Seq(Tasks) /\ EachOnce(Pop)
      /\ \A u : In(Pop, u) <=> In(queue, u) /\ u # <<"login", p>>
      /\ \A u, v : Ahead(queue, u, v) => Ahead(Pop, u, v)
  BY <1>2, NextTask
<1>6. prot'[p].refCount = 0
  BY <1>1, <1>3, <1>4, ConnectedFields
<1>7. QueueInOrder'
  BY <1>2, <1>5 DEF QueueInOrder
<1>8. Takes(p, w)
  BY <1>1, <1>2, <1>3, <1>5, <1>6, <1>7 DEF Takes
<1>9. QED
  BY <1>4, <1>8, TakesKeeps

\* connect() comes due: no retry that it has to wait for is pending.
LEMMA ConnectDueKeeps ==
  ASSUME IInv, NEW p \in Protocol, ConnectDue(p)
  PROVE  IInv'
<1> USE DEF IInv
<1> DEFINE t == <<"connect", p>>
           old == prot[p]
           r == [old EXCEPT !.timer = FALSE]
<1>1. /\ old.timer = TRUE /\ old.after = {} /\ queue' = Append(queue, t)
      /\ UNCHANGED <<plr, toRelease>> /\ prot' = [prot EXCEPT ![p] = r]
      /\ old \in ProtocolRecords
  BY Types DEF ConnectDue
<1>2. /\ prot' \in [Protocol -> ProtocolRecords] /\ prot'[p].timer = FALSE
      /\ \A q \in Protocol \ {p} : prot'[q] = prot[q]
      /\ \A q \in Protocol :
           /\ prot'[q].object = prot[q].object /\ prot'[q].connection = prot[q].connection
           /\ prot'[q].player = prot[q].player /\ prot'[q].eventConnect = prot[q].eventConnect
           /\ prot'[q].after = prot[q].after /\ prot'[q].refCount = prot[q].refCount
  <2> HIDE DEF old
  <2>1. /\ r \in ProtocolRecords /\ r.timer = FALSE /\ r.object = old.object
        /\ r.connection = old.connection /\ r.player = old.player
        /\ r.eventConnect = old.eventConnect /\ r.after = old.after
        /\ r.refCount = old.refCount
    BY <1>1 DEF ProtocolRecords
  <2> HIDE DEF r
  <2>2. /\ prot' \in [Protocol -> ProtocolRecords] /\ prot'[p] = r
        /\ \A q \in Protocol \ {p} : prot'[q] = prot[q]
    BY <1>1, <2>1, ProtocolSet, Types
  <2>3. QED
    BY <2>1, <2>2 DEF old
<1> HIDE DEF r
<1>3. t \in Tasks /\ ~In(queue, t) /\ prot[p].eventConnect # None
  BY <1>1 DEF Tasks, TaskKinds, ConnectIsOnItsWay
<1>4. /\ queue' \in Seq(Tasks) /\ EachOnce(queue')
      /\ \A u : In(queue', u) <=> In(queue, u) \/ u = t
      /\ \A u, v : (Ahead(queue, u, v) /\ u # v /\ (u = t => ~In(queue, v))) => Ahead(queue', u, v)
  BY <1>1, <1>3, PostedLast DEF QueueInOrder
<1>5. /\ \A q \in Protocol : In(queue', <<"login", q>>) <=> In(queue, <<"login", q>>)
      /\ \A q \in Protocol : In(queue', <<"connect", q>>) <=> In(queue, <<"connect", q>>) \/ q = p
      /\ \A q \in Protocol : In(queue', <<"close", q>>) <=> In(queue, <<"close", q>>)
      /\ \A q \in Protocol : Ahead(queue', <<"login", q>>, <<"close", q>>)
      /\ \A q, c \in Protocol : Ahead(queue, <<"close", c>>, <<"connect", q>>) =>
           Ahead(queue', <<"close", c>>, <<"connect", q>>)
  <2>1. \A q \in Protocol : Ahead(queue', <<"login", q>>, <<"close", q>>)
    BY <1>4 DEF QueueInOrder
  <2>2. QED
    BY <1>4, <2>1
<1>6. TypeOK' /\ QueueInOrder'
  BY <1>1, <1>2, <1>4, <1>5, Types DEF TypeOK, QueueInOrder, Tasks
<1>7. UseCountIsOwners'
  <2>1. ASSUME NEW w \in Player PROVE Count(prot', w) = Count(prot, w)
    BY <1>2, CountKept
  <2>2. QED
    BY <1>1, <2>1, UseCountsAre DEF UseCounts
<1>8. ConnectionTellsObject' /\ NewHasNothing'
  BY <1>1, <1>2, <1>5 DEF ConnectionTellsObject, NewHasNothing
<1>9. ConnectIsOnItsWay'
  <2>1. ASSUME NEW q \in Protocol PROVE ConnectIsOnItsWay!(q)'
    <3>1. CASE q = p
      BY <1>2, <1>3, <1>5, <3>1 DEF ConnectIsOnItsWay
    <3>2. CASE q # p
      BY <1>2, <1>5, <3>2 DEF ConnectIsOnItsWay
    <3>3. QED
      BY <3>1, <3>2
  <2>2. QED
    BY <2>1 DEF ConnectIsOnItsWay
<1>10. PlayerOfProtocol' /\ StateTellsChecks' /\ OneOnline'
  BY <1>1, <1>2 DEF PlayerOfProtocol, StateTellsChecks, OneOnline
<1>11. ClientOfPlayer'
  BY <1>1, <1>2, Types DEF ClientOfPlayer
<1>12. SomebodyWillConnect'
  <2> SUFFICES ASSUME NEW w \in Player, plr'[w].state = "online", plr'[w].isConnecting
               PROVE  \E q \in Protocol : WillConnect(q, w)'
    BY DEF SomebodyWillConnect
  <2>1. PICK q \in Protocol : WillConnect(q, w)
    BY <1>1 DEF SomebodyWillConnect
  <2>2. plr[w].client \in Protocol \cup {None}
    BY Types
  <2>3. CASE q = p
    BY <1>1, <1>2, <1>5, <2>1, <2>2, <2>3 DEF WillConnect
  <2>4. CASE q # p
    <3> DEFINE c == plr[w].client
    <3>1. prot'[q] = prot[q] /\ plr' = plr
      BY <1>1, <1>2, <2>4
    <3>2. c # None => /\ prot'[c].connection = prot[c].connection
                      /\ prot'[c].object = prot[c].object
      BY <1>2, <2>2
    <3>3. c # None /\ Ahead(queue, <<"close", c>>, <<"connect", q>>) =>
            Ahead(queue', <<"close", c>>, <<"connect", q>>)
      BY <1>5, <2>2
    <3>4. QED
      BY <2>1, <3>1, <3>2, <3>3 DEF WillConnect
  <2>5. QED
    BY <2>3, <2>4
<1>13. QED
  BY <1>6, <1>7, <1>8, <1>9, <1>10, <1>11, <1>12

\* connect(): the player is p's, or p is sent away.
LEMMA ConnectKeeps ==
  ASSUME IInv, NEW p \in Protocol, Connect(p)
  PROVE  IInv'
<1> USE DEF IInv
<1> DEFINE w == prot[p].eventConnect
<1>1. IsNext("connect", p) /\ UNCHANGED toRelease
  BY DEF Connect
<1>2. /\ Pop \in Seq(Tasks) /\ EachOnce(Pop) /\ In(queue, <<"connect", p>>)
      /\ \A u : In(Pop, u) <=> In(queue, u) /\ u # <<"connect", p>>
      /\ \A u, v : Ahead(queue, u, v) => Ahead(Pop, u, v)
      /\ \A u : Ahead(queue, u, <<"connect", p>>) => ~In(queue, u)
  BY <1>1, NextTask
<1>3. /\ w \in Player /\ w # None /\ prot[p].refCount = 1 /\ prot[p].timer = FALSE
      /\ prot[p].player = None /\ prot[p].object \in {"live", "released"}
      /\ ~In(queue, <<"login", p>>)
  BY <1>2, Types DEF ConnectIsOnItsWay, NewHasNothing
<1>4. CASE plr[w].state = "online" /\ plr[w].client = None
  <2>1. Connected(p, w) /\ queue' = Pop
    BY <1>4 DEF Connect, Connected
  <2>2. prot'[p].refCount = 0
    BY <1>1, <1>3, <2>1, ConnectedFields
  <2>3. QueueInOrder'
    BY <1>2, <2>1 DEF QueueInOrder
  <2>4. Takes(p, w)
    BY <1>1, <1>2, <1>3, <1>4, <2>1, <2>2, <2>3 DEF Takes
  <2>5. QED
    BY <1>3, <2>4, TakesKeeps
<1>5. CASE ~(plr[w].state = "online" /\ plr[w].client = None)
  <2>1. /\ prot' = [prot EXCEPT ![p] = [Closing(p) EXCEPT !.refCount = @ - 1, !.eventConnect = None]]
        /\ queue' = Pop \o CloseTasks(p) /\ UNCHANGED plr
    BY <1>5 DEF Connect
  <2>2. /\ prot' \in [Protocol -> ProtocolRecords]
        /\ prot'[p].connection = IF prot[p].connection = "open" THEN "closing" ELSE prot[p].connection
        /\ prot'[p].eventConnect = None /\ prot'[p].refCount = 0 /\ prot'[p].timer = FALSE
        /\ prot'[p].player = None
        /\ \A q \in Protocol \ {p} : prot'[q] = prot[q]
        /\ \A q \in Protocol : prot'[q].object = prot[q].object /\ prot'[q].player = prot[q].player
    <3> DEFINE old == Closing(p)
               k == old.refCount - 1
               r == [old EXCEPT !.refCount = k, !.eventConnect = None]
    <3>1. prot' = [prot EXCEPT ![p] = r]
      BY <2>1
    <3>2. /\ old \in ProtocolRecords /\ k = 0 /\ old.player = None /\ old.timer = FALSE
          /\ old.connection = IF prot[p].connection = "open" THEN "closing" ELSE prot[p].connection
          /\ old.object = prot[p].object
      BY <1>3, ClosingFields, Types
    <3> HIDE DEF old, k
    <3>3. /\ r \in ProtocolRecords /\ r.refCount = 0 /\ r.eventConnect = None
          /\ r.player = old.player /\ r.object = old.object /\ r.connection = old.connection
          /\ r.timer = old.timer
      BY <3>2 DEF ProtocolRecords
    <3> HIDE DEF r
    <3>4. /\ prot' \in [Protocol -> ProtocolRecords] /\ prot'[p] = r
          /\ \A q \in Protocol \ {p} : prot'[q] = prot[q]
      BY <3>1, <3>3, ProtocolSet, Types
    <3>5. QED
      BY <1>3, <3>2, <3>3, <3>4
  <2>3. /\ queue' \in Seq(Tasks) /\ EachOnce(queue')
        /\ \A u : In(queue', u) <=> \/ In(queue, u) /\ u # <<"connect", p>>
                                    \/ u = <<"close", p>> /\ prot[p].connection = "open"
        /\ \A u, v : /\ Ahead(queue, u, v) /\ u # v
                     /\ u = <<"close", p>> => prot[p].connection # "open"
                     => Ahead(queue', u, v)
    BY <1>1, <2>1, NextTaskCloses
  <2>4. /\ \A q \in Protocol : In(queue', <<"login", q>>) <=> In(queue, <<"login", q>>)
        /\ \A q \in Protocol : In(queue', <<"connect", q>>) <=> In(queue, <<"connect", q>>) /\ q # p
        /\ \A q \in Protocol \ {p} : In(queue', <<"close", q>>) <=> In(queue, <<"close", q>>)
        /\ In(queue', <<"close", p>>) <=> In(queue, <<"close", p>>) \/ prot[p].connection = "open"
        /\ \A q \in Protocol : Ahead(queue', <<"login", q>>, <<"close", q>>)
        /\ \A q \in Protocol, c \in Protocol \ {p} :
             Ahead(queue, <<"close", c>>, <<"connect", q>>) =>
               Ahead(queue', <<"close", c>>, <<"connect", q>>)
    <3>1. \A q \in Protocol : Ahead(queue', <<"login", q>>, <<"close", q>>)
      BY <2>3 DEF QueueInOrder
    <3>2. QED
      BY <2>3, <3>1
  <2>5. TypeOK' /\ QueueInOrder'
    BY <1>1, <2>1, <2>2, <2>3, <2>4, Types DEF TypeOK, QueueInOrder, Tasks
  <2>6. UseCountIsOwners'
    <3>1. ASSUME NEW x \in Player PROVE Count(prot', x) = Count(prot, x)
      BY <2>2, CountKept
    <3>2. QED
      BY <1>1, <2>1, <3>1, UseCountsAre DEF UseCounts
  <2>7. ConnectionTellsObject'
    <3>1. ASSUME NEW q \in Protocol PROVE ConnectionTellsObject!(q)'
      <4>1. CASE q = p
        BY <2>2, <2>4, <4>1 DEF ConnectionTellsObject
      <4>2. CASE q # p
        BY <2>2, <2>4, <4>2 DEF ConnectionTellsObject
      <4>3. QED
        BY <4>1, <4>2
    <3>2. QED
      BY <3>1 DEF ConnectionTellsObject
  <2>8. NewHasNothing'
    <3>1. ASSUME NEW q \in Protocol PROVE NewHasNothing!(q)'
      <4>1. CASE q = p
        BY <1>3, <2>1, <2>2, <2>4, <4>1
      <4>2. CASE q # p
        BY <2>1, <2>2, <2>4, <4>2 DEF NewHasNothing
      <4>3. QED
        BY <4>1, <4>2
    <3>2. QED
      BY <3>1 DEF NewHasNothing
  <2>9. ConnectIsOnItsWay'
    <3>1. ASSUME NEW q \in Protocol PROVE ConnectIsOnItsWay!(q)'
      <4>1. CASE q = p
        BY <2>2, <2>4, <4>1
      <4>2. CASE q # p
        BY <2>2, <2>4, <4>2 DEF ConnectIsOnItsWay
      <4>3. QED
        BY <4>1, <4>2
    <3>2. QED
      BY <3>1 DEF ConnectIsOnItsWay
  <2>10. PlayerOfProtocol' /\ StateTellsChecks' /\ OneOnline'
    BY <1>1, <2>1, <2>2 DEF PlayerOfProtocol, StateTellsChecks, OneOnline
  <2>11. ClientOfPlayer'
    BY <2>1, <2>2, Types DEF ClientOfPlayer
  <2>12. SomebodyWillConnect'
    <3> SUFFICES ASSUME NEW x \in Player, plr'[x].state = "online", plr'[x].isConnecting
                 PROVE  \E q \in Protocol : WillConnect(q, x)'
      BY DEF SomebodyWillConnect
    <3> DEFINE c == plr[x].client
    <3>1. PICK q \in Protocol : WillConnect(q, x)
      BY <2>1 DEF SomebodyWillConnect
    <3>2. c \in Protocol \cup {None} /\ x # None
      BY Types, GameLoginAssumption DEF Player
    <3>3. c # p
      BY <1>3, <2>1, <3>2, GameLoginAssumption DEF ClientOfPlayer
    <3>4. q # p
      <4> SUFFICES ASSUME q = p PROVE FALSE
        OBVIOUS
      <4>1. x = w /\ c # None
        BY <1>5, <2>1, <3>1 DEF WillConnect
      <4>2. prot[c].connection = "closing" /\ Ahead(queue, <<"close", c>>, <<"connect", p>>)
        BY <1>3, <3>1, <4>1 DEF WillConnect
      <4>3. In(queue, <<"close", c>>)
        BY <3>2, <4>1, <4>2 DEF ConnectionTellsObject
      <4>4. QED
        BY <1>2, <4>2, <4>3
    <3>5. WillConnect(q, x)'
      BY <2>1, <2>2, <2>4, <3>1, <3>2, <3>3, <3>4 DEF WillConnect
    <3>6. QED
      BY <3>5
  <2>13. QED
    BY <2>5, <2>6, <2>7, <2>8, <2>9, <2>10, <2>11, <2>12
<1>6. QED
  BY <1>4, <1>5

\* releaseProtocol(): the player loses its client, and the protocol is deleted or waits
\* for its next retry.
LEMMA ReleaseFields ==
  ASSUME TypeOK, NEW p \in Protocol, NEW now \in BOOLEAN, ReleaseProtocol(p, now)
  PROVE  /\ prot' \in [Protocol -> ProtocolRecords]
         /\ prot'[p].connection = "gone"
         /\ prot'[p].eventConnect = prot[p].eventConnect /\ prot'[p].timer = prot[p].timer
         /\ prot'[p].after = prot[p].after /\ prot'[p].refCount = prot[p].refCount
         /\ \/ /\ prot'[p].object = "released" /\ prot'[p].player = prot[p].player
               /\ toRelease' = toRelease
            \/ /\ prot'[p].object = "deleted" /\ prot'[p].player = None
               /\ prot[p].refCount = 0
               /\ toRelease' = IF prot[p].player = None THEN toRelease
                               ELSE [toRelease EXCEPT ![prot[p].player] = @ + 1]
         /\ \A q \in Protocol \ {p} :
              /\ prot'[q].object = prot[q].object /\ prot'[q].connection = prot[q].connection
              /\ prot'[q].player = prot[q].player /\ prot'[q].eventConnect = prot[q].eventConnect
              /\ prot'[q].timer = prot[q].timer /\ prot'[q].after = prot[q].after \ {p}
              /\ prot'[q].refCount = prot[q].refCount
         /\ plr' \in [Player -> PlayerRecords]
         /\ \A x \in Player :
              /\ plr'[x].state = plr[x].state /\ plr'[x].useCount = plr[x].useCount
              /\ plr'[x].isConnecting = plr[x].isConnecting
              /\ plr'[x].creatureCheck = plr[x].creatureCheck
              /\ plr'[x].inCheckVector = plr[x].inCheckVector
              /\ plr'[x].client = IF x = prot[p].player /\ plr[x].client = p THEN None
                                  ELSE plr[x].client
<1> DEFINE old == prot[p]
           w == prot[p].player
           gone == [old EXCEPT !.connection = "gone"]
           out == [gone EXCEPT !.object = "deleted", !.player = None]
           wait == [gone EXCEPT !.object = "released"]
<1>1. /\ old \in ProtocolRecords /\ w \in Player \cup {None} /\ None \notin Player
  BY Types, GameLoginAssumption DEF Player
<1>2. \/ /\ prot' = Retried(p, wait) /\ toRelease' = toRelease
      \/ /\ prot' = Retried(p, out) /\ old.refCount = 0
         /\ toRelease' = IF w = None THEN toRelease ELSE [toRelease EXCEPT ![w] = @ + 1]
  BY DEF ReleaseProtocol
<1>3. plr' = IF w # None /\ plr[w].client = p THEN [plr EXCEPT ![w].client = None] ELSE plr
  BY DEF ReleaseProtocol
<1>4. /\ wait \in ProtocolRecords /\ wait.connection = "gone" /\ wait.object = "released"
      /\ wait.player = old.player /\ wait.eventConnect = old.eventConnect
      /\ wait.timer = old.timer /\ wait.after = old.after /\ wait.refCount = old.refCount
      /\ out \in ProtocolRecords /\ out.connection = "gone" /\ out.object = "deleted"
      /\ out.player = None /\ out.eventConnect = old.eventConnect
      /\ out.timer = old.timer /\ out.after = old.after /\ out.refCount = old.refCount
  <2> HIDE DEF old
  <2>1. /\ gone \in ProtocolRecords /\ gone.connection = "gone"
        /\ gone.player = old.player /\ gone.eventConnect = old.eventConnect
        /\ gone.timer = old.timer /\ gone.after = old.after /\ gone.refCount = old.refCount
    BY <1>1 DEF ProtocolRecords
  <2> HIDE DEF gone
  <2>2. QED
    BY <2>1 DEF ProtocolRecords
<1> HIDE DEF wait, out
<1>5. ASSUME NEW r \in ProtocolRecords, prot' = Retried(p, r)
      PROVE  /\ prot' \in [Protocol -> ProtocolRecords] /\ prot'[p] = r
             /\ \A q \in Protocol \ {p} :
                  /\ prot'[q].object = prot[q].object /\ prot'[q].connection = prot[q].connection
                  /\ prot'[q].player = prot[q].player /\ prot'[q].eventConnect = prot[q].eventConnect
                  /\ prot'[q].timer = prot[q].timer /\ prot'[q].after = prot[q].after \ {p}
                  /\ prot'[q].refCount = prot[q].refCount
  <2> DEFINE g(q) == IF q = p THEN r ELSE [prot[q] EXCEPT !.after = @ \ {p}]
  <2>1. prot' = [q \in Protocol |-> g(q)]
    BY <1>5 DEF Retried
  <2>2. ASSUME NEW q \in Protocol \ {p}
        PROVE  /\ g(q) \in ProtocolRecords
               /\ g(q).object = prot[q].object /\ g(q).connection = prot[q].connection
               /\ g(q).player = prot[q].player /\ g(q).eventConnect = prot[q].eventConnect
               /\ g(q).timer = prot[q].timer /\ g(q).after = prot[q].after \ {p}
               /\ g(q).refCount = prot[q].refCount
    <3> DEFINE o == prot[q]
               a == o.after \ {p}
    <3>1. /\ o \in ProtocolRecords /\ a \in SUBSET Protocol
          /\ g(q) = [o EXCEPT !.after = a]
      BY Types
    <3> HIDE DEF o, a, g
    <3>2. /\ g(q) \in ProtocolRecords
          /\ g(q).object = o.object /\ g(q).connection = o.connection
          /\ g(q).player = o.player /\ g(q).eventConnect = o.eventConnect
          /\ g(q).timer = o.timer /\ g(q).after = a
          /\ g(q).refCount = o.refCount
      BY <3>1 DEF ProtocolRecords
    <3>3. QED
      BY <3>2 DEF o, a
  <2>3. g(p) = r
    OBVIOUS
  <2> HIDE DEF g
  <2>4. /\ prot' \in [Protocol -> ProtocolRecords]
        /\ \A q \in Protocol : prot'[q] = g(q)
    BY <2>1, <2>2, <2>3
  <2>5. QED
    BY <2>2, <2>3, <2>4
<1>6. /\ plr' \in [Player -> PlayerRecords]
      /\ \A x \in Player :
           /\ plr'[x].state = plr[x].state /\ plr'[x].useCount = plr[x].useCount
           /\ plr'[x].isConnecting = plr[x].isConnecting
           /\ plr'[x].creatureCheck = plr[x].creatureCheck
           /\ plr'[x].inCheckVector = plr[x].inCheckVector
           /\ plr'[x].client = IF x = w /\ plr[x].client = p THEN None ELSE plr[x].client
  <2>1. CASE w # None /\ plr[w].client = p
    <3> DEFINE o == plr[w]
               s == [o EXCEPT !.client = None]
    <3>1. /\ plr' = [plr EXCEPT ![w] = s] /\ o \in PlayerRecords /\ w \in Player
      BY <1>1, <1>3, <2>1, Types
    <3> HIDE DEF o
    <3>2. /\ s \in PlayerRecords /\ s.state = o.state /\ s.useCount = o.useCount
          /\ s.isConnecting = o.isConnecting /\ s.creatureCheck = o.creatureCheck
          /\ s.inCheckVector = o.inCheckVector /\ s.client = None
      BY <3>1 DEF PlayerRecords
    <3> HIDE DEF s
    <3>3. plr' \in [Player -> PlayerRecords] /\ plr'[w] = s /\ \A x \in Player \ {w} : plr'[x] = plr[x]
      BY <3>1, <3>2, PlayerSet, Types
    <3>4. QED
      BY <2>1, <3>2, <3>3 DEF o
  <2>2. CASE ~(w # None /\ plr[w].client = p)
    BY <1>1, <1>3, <2>2, Types
  <2>3. QED
    BY <2>1, <2>2
<1>7. CASE prot' = Retried(p, wait) /\ toRelease' = toRelease
  BY <1>4, <1>5, <1>6, <1>7
<1>8. CASE /\ prot' = Retried(p, out) /\ old.refCount = 0
           /\ toRelease' = IF w = None THEN toRelease ELSE [toRelease EXCEPT ![w] = @ + 1]
  BY <1>4, <1>5, <1>6, <1>8
<1>9. QED
  BY <1>2, <1>7, <1>8

\* What a release finds in the queue: no login() and no other closing of p.
ReleasedInOrder(p) ==
  /\ prot[p].object \in {"live", "released"} /\ ~In(queue, <<"login", p>>)
  /\ queue' \in Seq(Tasks) /\ QueueInOrder'
  /\ \A q \in Protocol : In(queue', <<"login", q>>) <=> In(queue, <<"login", q>>)
  /\ \A q \in Protocol : In(queue', <<"connect", q>>) <=> In(queue, <<"connect", q>>)
  /\ \A q \in Protocol \ {p} : In(queue', <<"close", q>>) <=> In(queue, <<"close", q>>)
  /\ ~In(queue', <<"close", p>>)
  /\ \A q, c \in Protocol : Ahead(queue, <<"close", c>>, <<"connect", q>>) =>
       Ahead(queue', <<"close", c>>, <<"connect", q>>)

LEMMA ReleaseKeeps ==
  ASSUME IInv, NEW p \in Protocol, NEW now \in BOOLEAN, ReleaseProtocol(p, now),
         ReleasedInOrder(p)
  PROVE  IInv'
<1> USE DEF IInv
<1> DEFINE w == prot[p].player
<1>1. /\ prot[p].object \in {"live", "released"} /\ ~In(queue, <<"login", p>>)
      /\ queue' \in Seq(Tasks) /\ QueueInOrder'
      /\ \A q \in Protocol : In(queue', <<"login", q>>) <=> In(queue, <<"login", q>>)
      /\ \A q \in Protocol : In(queue', <<"connect", q>>) <=> In(queue, <<"connect", q>>)
      /\ \A q \in Protocol \ {p} : In(queue', <<"close", q>>) <=> In(queue, <<"close", q>>)
      /\ ~In(queue', <<"close", p>>)
      /\ \A q, c \in Protocol : Ahead(queue, <<"close", c>>, <<"connect", q>>) =>
           Ahead(queue', <<"close", c>>, <<"connect", q>>)
  BY DEF ReleasedInOrder
<1>2. /\ prot' \in [Protocol -> ProtocolRecords] /\ prot'[p].connection = "gone"
      /\ prot'[p].eventConnect = prot[p].eventConnect /\ prot'[p].timer = prot[p].timer
      /\ prot'[p].after = prot[p].after /\ prot'[p].refCount = prot[p].refCount
      /\ \/ prot'[p].object = "released" /\ prot'[p].player = w
         \/ prot'[p].object = "deleted" /\ prot'[p].player = None /\ prot[p].refCount = 0
  BY ReleaseFields, Types
<1>3. \A q \in Protocol \ {p} :
        /\ prot'[q].object = prot[q].object /\ prot'[q].connection = prot[q].connection
        /\ prot'[q].player = prot[q].player /\ prot'[q].eventConnect = prot[q].eventConnect
        /\ prot'[q].timer = prot[q].timer /\ prot'[q].after = prot[q].after \ {p}
        /\ prot'[q].refCount = prot[q].refCount
  BY ReleaseFields, Types
<1>4. /\ plr' \in [Player -> PlayerRecords]
      /\ \A x \in Player :
           /\ plr'[x].state = plr[x].state /\ plr'[x].useCount = plr[x].useCount
           /\ plr'[x].isConnecting = plr[x].isConnecting
           /\ plr'[x].creatureCheck = plr[x].creatureCheck
           /\ plr'[x].inCheckVector = plr[x].inCheckVector
           /\ plr'[x].client = IF x = w /\ plr[x].client = p THEN None ELSE plr[x].client
  BY ReleaseFields, Types
<1>5. \/ prot'[p].player = w /\ toRelease' = toRelease
      \/ /\ prot'[p].player = None
         /\ toRelease' = IF w = None THEN toRelease ELSE [toRelease EXCEPT ![w] = @ + 1]
  BY ReleaseFields, Types
<1>6. /\ p # None /\ \A x \in Player : x # None
      /\ w \in Player \cup {None} /\ toRelease \in [Player -> Nat]
  BY Types, GameLoginAssumption DEF Player
<1>7. toRelease' \in [Player -> Nat] /\ \A x \in Player \ {w} : toRelease'[x] = toRelease[x]
  <2>1. CASE toRelease' = toRelease
    BY <1>6, <2>1
  <2>2. CASE w # None /\ toRelease' = [toRelease EXCEPT ![w] = @ + 1]
    BY <1>6, <2>2
  <2>3. QED
    BY <1>5, <2>1, <2>2
<1>8. TypeOK'
  BY <1>1, <1>2, <1>4, <1>7 DEF TypeOK, Tasks
<1>9. UseCountIsOwners'
  <2>1. ASSUME NEW x \in Player
        PROVE  Count(prot', x) + toRelease'[x] = Count(prot, x) + toRelease[x]
    <3>1. CASE prot'[p].player = w /\ toRelease' = toRelease
      <4>1. \A q \in Protocol : prot[q].player = x <=> prot'[q].player = x
        BY <1>3, <3>1
      <4>2. QED
        BY <3>1, <4>1, CountKept
    <3>2. CASE prot'[p].player = None /\ x # w
      <4>1. \A q \in Protocol : prot[q].player = x <=> prot'[q].player = x
        BY <1>3, <1>6, <3>2
      <4>2. QED
        BY <1>7, <3>2, <4>1, CountKept
    <3>3. CASE /\ prot'[p].player = None /\ x = w
               /\ toRelease' = IF w = None THEN toRelease ELSE [toRelease EXCEPT ![w] = @ + 1]
      <4>1. toRelease'[x] = toRelease[x] + 1 /\ toRelease[x] \in Nat
        BY <1>6, <3>3
      <4>2. /\ prot[p].player = x /\ prot'[p].player # x
            /\ \A q \in Protocol \ {p} : prot[q].player = x <=> prot'[q].player = x
        BY <1>3, <1>6, <3>3
      <4>3. Count(prot, x) = Count(prot', x) + 1
        BY <4>2, CountShrinks
      <4>4. Count(prot', x) \in Nat
        BY CountIsNat
      <4>5. QED
        BY <4>1, <4>3, <4>4
    <3>4. QED
      BY <1>5, <3>1, <3>2, <3>3
  <2>2. ASSUME NEW x \in Player
        PROVE  /\ Count(prot', x) \in Nat /\ Count(prot, x) \in Nat
               /\ toRelease'[x] \in Nat /\ toRelease[x] \in Nat /\ plr[x].useCount \in Nat
    BY <1>6, <1>7, CountIsNat, Types
  <2>3. ASSUME NEW x \in Player, plr'[x].state \in {"fresh", "online", "removed"}
        PROVE  plr'[x].useCount = Count(prot', x)
                 + (IF plr'[x].state = "online" THEN 1 ELSE 0)
                 + (IF plr'[x].inCheckVector THEN 1 ELSE 0) + toRelease'[x]
    <3>1. plr[x].useCount = Count(prot, x)
                 + (IF plr'[x].state = "online" THEN 1 ELSE 0)
                 + (IF plr'[x].inCheckVector THEN 1 ELSE 0) + toRelease[x]
      BY <1>4, <2>3, UseCountsAre DEF UseCounts
    <3>2. plr'[x].useCount = plr[x].useCount
      BY <1>4
    <3>3. QED
      BY <2>1, <2>2, <3>1, <3>2
  <2>4. UseCounts(plr', prot', toRelease')
    BY <2>3 DEF UseCounts
  <2>5. QED
    BY <2>4, UseCountsAre
<1>10. ConnectionTellsObject'
  <2>1. ASSUME NEW q \in Protocol PROVE ConnectionTellsObject!(q)'
    <3>1. CASE q = p
      BY <1>1, <1>2, <3>1
    <3>2. CASE q # p
      BY <1>1, <1>3, <3>2 DEF ConnectionTellsObject
    <3>3. QED
      BY <3>1, <3>2
  <2>2. QED
    BY <2>1 DEF ConnectionTellsObject
<1>11. NewHasNothing'
  <2>1. ASSUME NEW q \in Protocol PROVE NewHasNothing!(q)'
    <3>1. CASE q = p
      BY <1>1, <1>2, <3>1
    <3>2. CASE q # p
      <4>1. plr'[q].state = plr[q].state
        BY <1>4 DEF Player
      <4>2. QED
        BY <1>1, <1>3, <3>2, <4>1 DEF NewHasNothing
    <3>3. QED
      BY <3>1, <3>2
  <2>2. QED
    BY <2>1 DEF NewHasNothing
<1>12. ConnectIsOnItsWay'
  <2>1. ASSUME NEW q \in Protocol PROVE ConnectIsOnItsWay!(q)'
    <3>1. CASE q = p
      <4>1. prot[p].eventConnect # None => prot[p].refCount = 1 /\ w = None
        BY DEF ConnectIsOnItsWay
      <4>2. prot[p].eventConnect # None => prot'[p].object = "released" /\ prot'[p].player = None
        BY <1>2, <4>1
      <4>3. QED
        BY <1>1, <1>2, <3>1, <4>2 DEF ConnectIsOnItsWay
    <3>2. CASE q # p
      BY <1>1, <1>3, <3>2 DEF ConnectIsOnItsWay
    <3>3. QED
      BY <3>1, <3>2
  <2>2. QED
    BY <2>1 DEF ConnectIsOnItsWay
<1>13. PlayerOfProtocol'
  <2>1. ASSUME NEW q \in Protocol, prot'[q].player # None PROVE PlayerOfProtocol!(q)'
    <3>1. prot'[q].player = prot[q].player /\ prot[q].player \in Player
      BY <1>2, <1>3, <1>6, <2>1, Types
    <3>2. /\ plr'[prot[q].player].state = plr[prot[q].player].state
          /\ q # p => (plr[prot[q].player].client = q => plr'[prot[q].player].client = q)
      BY <1>4, <3>1
    <3>3. CASE q = p
      BY <1>2, <2>1, <3>1, <3>2, <3>3 DEF PlayerOfProtocol
    <3>4. CASE q # p
      BY <1>3, <2>1, <3>1, <3>2, <3>4 DEF PlayerOfProtocol
    <3>5. QED
      BY <3>3, <3>4
  <2>2. QED
    BY <2>1 DEF PlayerOfProtocol
<1>14. ClientOfPlayer'
  <2>1. ASSUME NEW x \in Player, plr'[x].state # "deleted", plr'[x].client # None
        PROVE  prot'[plr'[x].client].player = x
    <3>1. plr'[x].client = plr[x].client /\ plr[x].state # "deleted"
      BY <1>4, <2>1
    <3>2. plr[x].client \in Protocol /\ prot[plr[x].client].player = x
      BY <2>1, <3>1, Types DEF ClientOfPlayer
    <3>3. plr[x].client # p
      BY <1>4, <2>1, <3>1, <3>2
    <3>4. QED
      BY <1>3, <3>1, <3>2, <3>3
  <2>2. QED
    BY <2>1 DEF ClientOfPlayer
<1>15. StateTellsChecks' /\ OneOnline'
  <2>1. ASSUME NEW x \in Player PROVE StateTellsChecks!(x)'
    <3>1. plr[x].state \in {"none", "deleted"} => x # w
      BY <1>6 DEF PlayerOfProtocol
    <3>2. QED
      BY <1>4, <1>7, <3>1 DEF StateTellsChecks
  <2>2. OneOnline'
    BY <1>4 DEF OneOnline
  <2>3. QED
    BY <2>1, <2>2 DEF StateTellsChecks
<1>16. SomebodyWillConnect'
  <2> SUFFICES ASSUME NEW x \in Player, plr'[x].state = "online", plr'[x].isConnecting
               PROVE  \E q \in Protocol : WillConnect(q, x)'
    BY DEF SomebodyWillConnect
  <2> DEFINE c == plr[x].client
  <2>1. PICK q \in Protocol : WillConnect(q, x)
    BY <1>4 DEF SomebodyWillConnect
  <2>2. c \in Protocol \cup {None} /\ plr[x].state # "deleted"
    BY <1>4, Types
  <2>3. prot'[q].eventConnect = x /\ prot'[q].timer = prot[q].timer
    BY <1>2, <1>3, <2>1 DEF WillConnect
  <2>4. CASE c = None \/ c = p
    <3>1. plr'[x].client = None
      <4>1. c = p => x = w
        BY <1>6, <2>2 DEF ClientOfPlayer
      <4>2. QED
        BY <1>4, <2>4, <4>1
    <3>2. QED
      BY <2>3, <3>1 DEF WillConnect
  <2>5. CASE c \in Protocol /\ c # p
    <3>1. plr'[x].client = c /\ c # None
      BY <1>4, <2>5, GameLoginAssumption
    <3>2. prot'[c].connection = prot[c].connection /\ prot'[c].object = prot[c].object
      BY <1>3, <2>5
    <3>3. CASE prot[c].connection = "closing" /\ Ahead(queue, <<"close", c>>, <<"connect", q>>)
      <4>1. Ahead(queue', <<"close", c>>, <<"connect", q>>)
        BY <1>1, <2>5, <3>3
      <4>2. QED
        BY <2>3, <3>1, <3>2, <3>3, <4>1 DEF WillConnect
    <3>4. CASE prot[c].object = "released" /\ prot[q].timer /\ c \in prot[q].after
      <4>1. c \in prot'[q].after
        BY <1>2, <1>3, <2>5, <3>4
      <4>2. QED
        BY <2>3, <3>1, <3>2, <3>4, <4>1 DEF WillConnect
    <3>5. QED
      BY <2>1, <3>1, <3>3, <3>4 DEF WillConnect
  <2>6. QED
    BY <2>2, <2>4, <2>5
<1>17. QED
  BY <1>1, <1>8, <1>9, <1>10, <1>11, <1>12, <1>13, <1>14, <1>15, <1>16

LEMMA CloseConnectionTaskKeeps ==
  ASSUME IInv, NEW p \in Protocol, CloseConnectionTask(p)
  PROVE  IInv'
<1> USE DEF IInv
<1>1. IsNext("close", p) /\ queue' = Pop
  BY DEF CloseConnectionTask
<1>2. PICK now \in BOOLEAN : ReleaseProtocol(p, now)
  BY DEF CloseConnectionTask
<1>3. /\ Pop \in Seq(Tasks) /\ EachOnce(Pop) /\ In(queue, <<"close", p>>)
      /\ \A u : In(Pop, u) <=> In(queue, u) /\ u # <<"close", p>>
      /\ \A u, v : Ahead(queue, u, v) => Ahead(Pop, u, v)
      /\ \A u : Ahead(queue, u, <<"close", p>>) => ~In(queue, u)
  BY <1>1, NextTask
<1>4. prot[p].object = "live" /\ ~In(queue, <<"login", p>>)
  BY <1>3 DEF ConnectionTellsObject, QueueInOrder
<1>5. QueueInOrder'
  BY <1>1, <1>3 DEF QueueInOrder
<1>6. ReleasedInOrder(p)
  BY <1>1, <1>3, <1>4, <1>5 DEF ReleasedInOrder
<1>7. QED
  BY <1>2, <1>6, ReleaseKeeps

LEMMA ReleaseRetriesKeeps ==
  ASSUME IInv, NEW p \in Protocol, NEW now \in BOOLEAN, ReleaseRetries(p, now)
  PROVE  IInv'
<1> USE DEF IInv
<1>1. prot[p].object = "released" /\ ReleaseProtocol(p, now) /\ queue' = queue
  BY DEF ReleaseRetries
<1>2. ~In(queue, <<"login", p>>) /\ ~In(queue, <<"close", p>>)
  BY <1>1 DEF NewHasNothing, ConnectionTellsObject
<1>3. ReleasedInOrder(p)
  BY <1>1, <1>2 DEF ReleasedInOrder, QueueInOrder
<1>4. QED
  BY <1>1, <1>3, ReleaseKeeps

\* The player is taken off the list and will not think again; its client may be asked to go.
LeftTheMap(w) ==
  /\ plr[w].state = "online" /\ plr' = [plr EXCEPT ![w] = Removed(w)]
  /\ toRelease' = [toRelease EXCEPT ![w] = @ + 1]
  /\ \/ UNCHANGED <<prot, queue>>
     \/ /\ plr[w].client # None
        /\ prot' = [prot EXCEPT ![plr[w].client] = Closing(plr[w].client)]
        /\ queue' = queue \o CloseTasks(plr[w].client)

LEMMA LeftTheMapKeeps ==
  ASSUME IInv, NEW w \in Player, LeftTheMap(w)
  PROVE  IInv'
<1> USE DEF IInv
<1> DEFINE c == plr[w].client
<1>1. /\ plr[w].state = "online" /\ toRelease \in [Player -> Nat]
      /\ toRelease' = [toRelease EXCEPT ![w] = @ + 1]
  BY Types DEF LeftTheMap
<1>2. /\ toRelease' \in [Player -> Nat] /\ toRelease'[w] = toRelease[w] + 1
      /\ \A x \in Player \ {w} : toRelease'[x] = toRelease[x]
  BY <1>1
<1>3. /\ plr' \in [Player -> PlayerRecords] /\ plr'[w].state = "removed"
      /\ ~plr'[w].creatureCheck /\ plr'[w].client = c
      /\ plr'[w].useCount = plr[w].useCount /\ plr'[w].inCheckVector = plr[w].inCheckVector
      /\ \A x \in Player \ {w} : plr'[x] = plr[x]
  <2> DEFINE o == plr[w]
             s == [o EXCEPT !.state = "removed", !.creatureCheck = FALSE]
  <2>1. plr' = [plr EXCEPT ![w] = s] /\ o \in PlayerRecords
    BY Types DEF LeftTheMap, Removed
  <2> HIDE DEF o
  <2>2. /\ s \in PlayerRecords /\ s.state = "removed" /\ ~s.creatureCheck
        /\ s.client = o.client /\ s.useCount = o.useCount /\ s.inCheckVector = o.inCheckVector
    BY <2>1 DEF PlayerRecords
  <2> HIDE DEF s
  <2>3. plr' \in [Player -> PlayerRecords] /\ plr'[w] = s /\ \A x \in Player \ {w} : plr'[x] = plr[x]
    BY <2>1, <2>2, PlayerSet, Types
  <2>4. QED
    BY <2>2, <2>3 DEF o
<1>4. /\ prot' \in [Protocol -> ProtocolRecords] /\ queue' \in Seq(Tasks) /\ QueueInOrder'
      /\ \A q \in Protocol :
           /\ prot'[q].object = prot[q].object /\ prot'[q].player = prot[q].player
           /\ prot'[q].eventConnect = prot[q].eventConnect /\ prot'[q].timer = prot[q].timer
           /\ prot'[q].refCount = prot[q].refCount
      /\ \A q \in Protocol :
           /\ In(queue', <<"login", q>>) <=> In(queue, <<"login", q>>)
           /\ In(queue', <<"connect", q>>) <=> In(queue, <<"connect", q>>)
           /\ \/ /\ prot'[q].connection = prot[q].connection
                 /\ In(queue', <<"close", q>>) <=> In(queue, <<"close", q>>)
              \/ /\ prot[q].connection = "open" /\ prot'[q].connection = "closing"
                 /\ In(queue', <<"close", q>>)
  <2>1. CASE UNCHANGED <<prot, queue>>
    BY <2>1, Types DEF QueueInOrder
  <2>2. CASE /\ c # None /\ prot' = [prot EXCEPT ![c] = Closing(c)]
             /\ queue' = queue \o CloseTasks(c)
    <3>1. c \in Protocol
      BY <2>2, Types
    <3>2. prot[c].connection = "open" => ~In(queue, <<"close", c>>)
      BY <3>1 DEF ConnectionTellsObject
    <3> HIDE DEF c
    <3>3. /\ queue' \in Seq(Tasks) /\ EachOnce(queue')
          /\ \A u : In(queue', u) <=>
               In(queue, u) \/ (u = <<"close", c>> /\ prot[c].connection = "open")
          /\ \A u, v : /\ Ahead(queue, u, v) /\ u # v
                       /\ u = <<"close", c>> /\ prot[c].connection = "open" => ~In(queue, v)
                       => Ahead(queue', u, v)
      BY <2>2, <3>1, <3>2, CloseIsPosted DEF QueueInOrder
    <3>4. QueueInOrder'
      BY <3>3 DEF QueueInOrder
    <3>5. /\ prot' \in [Protocol -> ProtocolRecords] /\ prot'[c] = Closing(c)
          /\ \A q \in Protocol \ {c} : prot'[q] = prot[q]
      BY <2>2, <3>1, ClosingFields, ProtocolSet, Types
    <3>6. /\ prot'[c].connection =
               IF prot[c].connection = "open" THEN "closing" ELSE prot[c].connection
          /\ \A q \in Protocol :
               /\ prot'[q].object = prot[q].object /\ prot'[q].player = prot[q].player
               /\ prot'[q].eventConnect = prot[q].eventConnect /\ prot'[q].timer = prot[q].timer
               /\ prot'[q].refCount = prot[q].refCount
      BY <3>1, <3>5, ClosingFields, Types
    <3>7. ASSUME NEW q \in Protocol
          PROVE  /\ In(queue', <<"login", q>>) <=> In(queue, <<"login", q>>)
                 /\ In(queue', <<"connect", q>>) <=> In(queue, <<"connect", q>>)
                 /\ \/ /\ prot'[q].connection = prot[q].connection
                       /\ In(queue', <<"close", q>>) <=> In(queue, <<"close", q>>)
                    \/ /\ prot[q].connection = "open" /\ prot'[q].connection = "closing"
                       /\ In(queue', <<"close", q>>)
      <4>1. CASE q = c
        BY <3>3, <3>6, <4>1
      <4>2. CASE q # c
        BY <3>3, <3>5, <4>2
      <4>3. QED
        BY <4>1, <4>2
    <3>8. QED
      BY <3>3, <3>4, <3>5, <3>6, <3>7
  <2>3. QED
    BY <2>1, <2>2 DEF LeftTheMap
<1>5. TypeOK'
  BY <1>2, <1>3, <1>4 DEF TypeOK, Tasks
<1>6. UseCountIsOwners'
  <2>1. ASSUME NEW x \in Player PROVE Count(prot', x) = Count(prot, x)
    BY <1>4, CountKept
  <2>2. Count(prot, w) \in Nat /\ toRelease[w] \in Nat
    BY <1>1, CountIsNat
  <2>3. plr[w].useCount = Count(prot, w) + 1 + (IF plr[w].inCheckVector THEN 1 ELSE 0) + toRelease[w]
    BY <1>1, UseCountsAre DEF UseCounts
  <2>4. plr'[w].useCount = Count(prot', w) + (IF plr'[w].inCheckVector THEN 1 ELSE 0) + toRelease'[w]
    BY <1>2, <1>3, <2>1, <2>2, <2>3
  <2>5. ASSUME NEW x \in Player, plr'[x].state \in {"fresh", "online", "removed"}
        PROVE  plr'[x].useCount = Count(prot', x)
                 + (IF plr'[x].state = "online" THEN 1 ELSE 0)
                 + (IF plr'[x].inCheckVector THEN 1 ELSE 0) + toRelease'[x]
    <3>1. CASE x = w
      BY <1>2, <1>3, <2>1, <2>2, <2>4, <3>1
    <3>2. CASE x # w
      BY <1>2, <1>3, <2>1, <2>5, <3>2, UseCountsAre DEF UseCounts
    <3>3. QED
      BY <3>1, <3>2
  <2>6. QED
    BY <2>5, UseCountsAre DEF UseCounts
<1>7. ConnectionTellsObject' /\ ConnectIsOnItsWay'
  <2>1. ASSUME NEW q \in Protocol PROVE ConnectionTellsObject!(q)'
    BY <1>4 DEF ConnectionTellsObject
  <2>2. ConnectIsOnItsWay'
    BY <1>4 DEF ConnectIsOnItsWay
  <2>3. QED
    BY <2>1, <2>2 DEF ConnectionTellsObject
<1>8. NewHasNothing'
  <2>1. ASSUME NEW q \in Protocol PROVE NewHasNothing!(q)'
    <3>1. plr[q].state = "none" => plr'[q].state = "none"
      BY <1>1, <1>3 DEF Player
    <3>2. QED
      BY <1>4, <3>1 DEF NewHasNothing
  <2>2. QED
    BY <2>1 DEF NewHasNothing
<1>9. PlayerOfProtocol' /\ ClientOfPlayer'
  <2>1. \A x \in Player : /\ plr'[x].client = plr[x].client
                          /\ plr[x].state \in {"fresh", "online", "removed"} =>
                               plr'[x].state \in {"fresh", "online", "removed"}
                          /\ plr'[x].state # "deleted" => plr[x].state # "deleted"
    BY <1>1, <1>3
  <2>2. ASSUME NEW q \in Protocol, prot'[q].player # None PROVE PlayerOfProtocol!(q)'
    <3>1. prot'[q].player = prot[q].player /\ prot[q].player \in Player
      BY <1>4, <2>2, Types
    <3>2. QED
      BY <1>4, <2>1, <2>2, <3>1 DEF PlayerOfProtocol
  <2>3. ClientOfPlayer'
    BY <1>4, <2>1, Types DEF ClientOfPlayer
  <2>4. QED
    BY <2>2, <2>3 DEF PlayerOfProtocol
<1>10. StateTellsChecks'
  <2>1. ASSUME NEW x \in Player PROVE StateTellsChecks!(x)'
    <3>1. CASE x = w
      BY <1>3, <3>1
    <3>2. CASE x # w
      BY <1>2, <1>3, <3>2 DEF StateTellsChecks
    <3>3. QED
      BY <3>1, <3>2
  <2>2. QED
    BY <2>1 DEF StateTellsChecks
<1>11. OneOnline' /\ SomebodyWillConnect'
  <2>1. \A x \in Player : plr'[x].state # "online"
    BY <1>1, <1>3 DEF OneOnline
  <2>2. QED
    BY <2>1 DEF OneOnline, SomebodyWillConnect
<1>12. QED
  BY <1>4, <1>5, <1>6, <1>7, <1>8, <1>9, <1>10, <1>11

\* logout(), a kick or a death.
LEMMA LeaveKeeps ==
  ASSUME IInv, NEW w \in Player, Leave(w) \/ RemoveCreature(w)
  PROVE  IInv'
<1>1. LeftTheMap(w)
  BY DEF Leave, RemoveCreature, LeftTheMap
<1>2. QED
  BY <1>1, LeftTheMapKeeps

\* cleanup() deletes a player with its last use, and then nobody points at it.
LEMMA CleanupKeeps ==
  ASSUME IInv, NEW freed \in SUBSET {w \in Player : plr[w].inCheckVector /\ ~plr[w].creatureCheck},
         Cleanup(freed)
  PROVE  IInv'
<1> USE DEF IInv
<1> DEFINE minus(w) == IF w \in freed THEN 1 ELSE 0
           rest(w) == plr[w].useCount - toRelease[w] - minus(w)
           dropped(w) == toRelease[w] > 0 \/ w \in freed
           online(w) == IF plr[w].state = "online" THEN 1 ELSE 0
           vector(w) == plr[w].inCheckVector /\ w \notin freed
           inVector(w) == IF vector(w) THEN 1 ELSE 0
           lives(w) == plr[w].state \in {"fresh", "online", "removed"}
           after(w) == IF dropped(w) /\ rest(w) <= 0 THEN "deleted" ELSE plr[w].state
<1>1. UNCHANGED <<queue, prot>> /\ toRelease' = [w \in Player |-> 0]
  BY DEF Cleanup
<1>2. ASSUME NEW w \in Player
      PROVE  /\ lives(w) => rest(w) = Count(prot, w) + online(w) + inVector(w)
             /\ ~lives(w) => rest(w) = plr[w].useCount /\ ~dropped(w)
             /\ rest(w) \in Nat
             /\ lives(w) /\ dropped(w) /\ rest(w) <= 0 =>
                  Count(prot, w) = 0 /\ ~vector(w) /\ plr[w].state # "online"
  <2>1. /\ Count(prot, w) \in Nat /\ toRelease[w] \in Nat /\ plr[w].useCount \in Nat
        /\ plr[w].state \in {"none", "fresh", "online", "removed", "deleted"}
        /\ plr[w].inCheckVector \in BOOLEAN
    BY CountIsNat, Types
  <2>2. w \in freed => plr[w].inCheckVector
    OBVIOUS
  <2>3. ASSUME lives(w)
        PROVE  plr[w].useCount = Count(prot, w) + online(w)
                 + (IF plr[w].inCheckVector THEN 1 ELSE 0) + toRelease[w]
    BY <2>3, UseCountsAre DEF UseCounts
  <2>4. ASSUME ~lives(w) PROVE toRelease[w] = 0 /\ w \notin freed
    BY <2>1, <2>2, <2>4 DEF StateTellsChecks
  <2>5. lives(w) => rest(w) = Count(prot, w) + online(w) + inVector(w)
    BY <2>1, <2>2, <2>3
  <2>6. ~lives(w) => rest(w) = plr[w].useCount /\ ~dropped(w)
    BY <2>1, <2>4
  <2>7. rest(w) \in Nat
    BY <2>1, <2>5, <2>6
  <2>8. lives(w) /\ dropped(w) /\ rest(w) <= 0 =>
          Count(prot, w) = 0 /\ ~vector(w) /\ plr[w].state # "online"
    BY <2>1, <2>5
  <2>9. QED
    BY <2>5, <2>6, <2>7, <2>8
<1>3. ASSUME NEW w \in Player
      PROVE  /\ plr'[w] \in PlayerRecords /\ plr'[w].state = after(w)
             /\ plr'[w].useCount = rest(w) /\ plr'[w].inCheckVector = vector(w)
             /\ plr'[w].client = plr[w].client /\ plr'[w].isConnecting = plr[w].isConnecting
             /\ plr'[w].creatureCheck = plr[w].creatureCheck
  <2> DEFINE o == plr[w]
             r == rest(w)
             v == vector(w)
             a == after(w)
  <2>1. plr'[w] = [o EXCEPT !.useCount = r, !.inCheckVector = v, !.state = a]
    BY DEF Cleanup
  <2>2. /\ o \in PlayerRecords /\ r \in Nat /\ v \in BOOLEAN
        /\ a \in {"none", "fresh", "online", "removed", "deleted"}
    BY <1>2, Types
  <2> HIDE DEF o, r, v, a
  <2>3. /\ plr'[w] \in PlayerRecords /\ plr'[w].state = a
        /\ plr'[w].useCount = r /\ plr'[w].inCheckVector = v
        /\ plr'[w].client = o.client /\ plr'[w].isConnecting = o.isConnecting
        /\ plr'[w].creatureCheck = o.creatureCheck
    BY <2>1, <2>2 DEF PlayerRecords
  <2>4. QED
    BY <2>3 DEF o, r, v, a
<1>4. plr' \in [Player -> PlayerRecords]
  <2> DEFINE g(w) == [plr[w] EXCEPT !.useCount = rest(w), !.inCheckVector = @ /\ w \notin freed,
                                    !.state = IF dropped(w) /\ rest(w) <= 0 THEN "deleted" ELSE @]
  <2>1. plr' = [w \in Player |-> g(w)]
    BY DEF Cleanup
  <2> HIDE DEF g
  <2>2. \A w \in Player : plr'[w] \in PlayerRecords
    BY <1>3
  <2>3. QED
    BY <2>1, <2>2
<1> HIDE DEF rest
<1>5. ASSUME NEW w \in Player
      PROVE  /\ toRelease'[w] = 0 /\ Count(prot', w) = Count(prot, w)
             /\ plr'[w].state = plr[w].state \/
                  /\ plr'[w].state = "deleted" /\ Count(prot, w) = 0 /\ ~vector(w)
                  /\ plr[w].state \in {"fresh", "removed"}
  <2>1. dropped(w) /\ rest(w) <= 0 => lives(w)
    BY <1>2
  <2>2. dropped(w) /\ rest(w) <= 0 =>
          /\ Count(prot, w) = 0 /\ ~vector(w) /\ plr[w].state \in {"fresh", "removed"}
    BY <1>2, <2>1
  <2>3. plr'[w].state = after(w)
    BY <1>3
  <2> HIDE DEF dropped, vector
  <2>4. QED
    BY <1>1, <2>2, <2>3
<1>6. TypeOK' /\ QueueInOrder' /\ ConnectionTellsObject' /\ ConnectIsOnItsWay'
  <2>1. TypeOK'
    BY <1>1, <1>4 DEF TypeOK
  <2>2. QED
    BY <1>1, <2>1 DEF QueueInOrder, ConnectionTellsObject, ConnectIsOnItsWay
<1>7. UseCountIsOwners'
  <2>1. ASSUME NEW w \in Player, plr'[w].state \in {"fresh", "online", "removed"}
        PROVE  plr'[w].useCount = Count(prot', w)
                 + (IF plr'[w].state = "online" THEN 1 ELSE 0)
                 + (IF plr'[w].inCheckVector THEN 1 ELSE 0) + toRelease'[w]
    <3>1. plr'[w].state = plr[w].state /\ lives(w)
      BY <1>5, <2>1
    <3>2. plr'[w].useCount = Count(prot, w) + online(w) + inVector(w)
      BY <1>2, <1>3, <3>1
    <3>3. Count(prot', w) \in Nat /\ toRelease'[w] = 0 /\ plr'[w].inCheckVector = vector(w)
      BY <1>3, <1>5, CountIsNat
    <3> HIDE DEF vector
    <3>4. QED
      BY <1>5, <3>1, <3>2, <3>3
  <2>2. QED
    BY <2>1, UseCountsAre DEF UseCounts
<1>8. NewHasNothing' /\ PlayerOfProtocol' /\ ClientOfPlayer'
  <2>1. NewHasNothing'
    <3>1. \A q \in Protocol : plr[q].state = "none" => plr'[q].state = "none"
      BY <1>5 DEF Player
    <3>2. QED
      BY <1>1, <3>1 DEF NewHasNothing
  <2>2. ASSUME NEW q \in Protocol, prot'[q].player # None PROVE PlayerOfProtocol!(q)'
    <3> DEFINE w == prot[q].player
    <3>1. w \in Player /\ w # None /\ prot' = prot
      BY <1>1, <2>2, Types
    <3>2. Count(prot, w) # 0
      BY <3>1, CountIsNat
    <3>3. plr'[w].state = plr[w].state /\ plr'[w].client = plr[w].client
      BY <1>3, <1>5, <3>1, <3>2
    <3>4. QED
      BY <3>1, <3>3 DEF PlayerOfProtocol
  <2>3. ASSUME NEW w \in Player PROVE ClientOfPlayer!(w)'
    BY <1>1, <1>3, <1>5 DEF ClientOfPlayer
  <2>4. QED
    BY <2>1, <2>2, <2>3 DEF PlayerOfProtocol, ClientOfPlayer
<1>9. StateTellsChecks'
  <2>1. ASSUME NEW w \in Player PROVE StateTellsChecks!(w)'
    <3>1. /\ plr'[w].creatureCheck = plr[w].creatureCheck /\ plr'[w].inCheckVector = vector(w)
          /\ plr'[w].isConnecting = plr[w].isConnecting /\ toRelease'[w] = 0
      BY <1>3, <1>5
    <3>2. /\ plr[w].creatureCheck <=> plr[w].state = "online"
          /\ plr[w].state = "online" => plr[w].inCheckVector
          /\ plr[w].inCheckVector => plr[w].state \in {"online", "removed"}
          /\ plr[w].state = "none" => ~plr[w].isConnecting
      BY DEF StateTellsChecks
    <3>3. w \in freed => plr[w].state # "online"
      BY <3>2
    <3>4. CASE plr'[w].state = plr[w].state
      BY <3>1, <3>2, <3>3, <3>4
    <3>5. CASE plr'[w].state # plr[w].state
      BY <1>5, <3>1, <3>2, <3>5
    <3>6. QED
      BY <3>4, <3>5
  <2>2. QED
    BY <2>1 DEF StateTellsChecks
<1>10. OneOnline' /\ SomebodyWillConnect'
  <2>1. \A w \in Player : /\ plr'[w].state = "online" => plr[w].state = "online"
                          /\ plr'[w].client = plr[w].client
                          /\ plr'[w].isConnecting = plr[w].isConnecting
    BY <1>3, <1>5
  <2>2. OneOnline'
    BY <2>1 DEF OneOnline
  <2>3. ASSUME NEW q \in Protocol, NEW w \in Player, WillConnect(q, w) PROVE WillConnect(q, w)'
    BY <1>1, <2>1, <2>3 DEF WillConnect
  <2>4. SomebodyWillConnect'
    BY <2>1, <2>3 DEF SomebodyWillConnect
  <2>5. QED
    BY <2>2, <2>4
<1>11. QED
  BY <1>6, <1>7, <1>8, <1>9, <1>10

----------------------------------------------------------------------------
LEMMA StepKeeps == IInv /\ [Next]_vars => IInv'
<1> SUFFICES ASSUME IInv, [Next]_vars PROVE IInv'
  OBVIOUS
<1>1. ASSUME NEW p \in Protocol, ReceiveLogin(p) \/ HangUp(p) \/ Task(p) \/ ConnectDue(p)
      PROVE  IInv'
  <2>1. CASE Task(p)
    BY <2>1, NewLoginKeeps, AlreadyLoggedInKeeps, TakeOverKeeps, LoginConnectsKeeps,
       ConnectKeeps, CloseConnectionTaskKeeps DEF Task, Login
  <2>2. QED
    BY <1>1, <2>1, ReceiveLoginKeeps, HangUpKeeps, ConnectDueKeeps
<1>2. ASSUME NEW p \in Protocol, NEW now \in BOOLEAN, ReleaseRetries(p, now) PROVE IInv'
  BY <1>2, ReleaseRetriesKeeps
<1>3. ASSUME NEW w \in Player, Leave(w) \/ RemoveCreature(w) PROVE IInv'
  BY <1>3, LeaveKeeps
<1>4. CASE CheckCreatures
  BY <1>4, CleanupKeeps DEF CheckCreatures
<1>5. CASE UNCHANGED vars
  <2>1. UNCHANGED <<queue, prot, plr, toRelease>>
    BY <1>5 DEF vars
  <2>2. TypeOK' /\ UseCountIsOwners'
    BY <2>1 DEF IInv, TypeOK, UseCountIsOwners
  <2>3. /\ QueueInOrder' /\ ConnectionTellsObject' /\ NewHasNothing' /\ ConnectIsOnItsWay'
        /\ PlayerOfProtocol' /\ ClientOfPlayer' /\ StateTellsChecks' /\ OneOnline'
    BY <2>1 DEF IInv, QueueInOrder, ConnectionTellsObject, NewHasNothing, ConnectIsOnItsWay,
       PlayerOfProtocol, ClientOfPlayer, StateTellsChecks, OneOnline
  <2>4. SomebodyWillConnect'
    BY <2>1 DEF IInv, SomebodyWillConnect, WillConnect
  <2>5. QED
    BY <2>2, <2>3, <2>4 DEF IInv
<1>6. QED
  BY <1>1, <1>2, <1>3, <1>4, <1>5 DEF Next

LEMMA Invariance == Spec => []IInv
BY InitEstablishes, StepKeeps, PTL DEF Spec

\* What the tasks of a queue are bound to.
LEMMA BoundTask ==
  ASSUME QueueInOrder, NEW i \in 1..Len(queue)
  PROVE  \E p \in Protocol : /\ queue[i][2] = p
                             /\ \/ In(queue, <<"login", p>>) \/ In(queue, <<"connect", p>>)
                                \/ In(queue, <<"close", p>>)
<1>1. queue[i] \in Tasks
  BY DEF QueueInOrder
<1>2. PICK k \in TaskKinds, p \in Protocol : queue[i] = <<k, p>>
  BY <1>1 DEF Tasks
<1>3. In(queue, <<k, p>>)
  BY <1>2 DEF In
<1>4. QED
  BY <1>2, <1>3 DEF TaskKinds

LEMMA InvFollows == IInv => Inv
<1> SUFFICES ASSUME IInv PROVE Inv
  OBVIOUS
<1> USE DEF IInv
<1>1. \A w \in Player : w # None
  BY GameLoginAssumption DEF Player
<1>2. DeletedIsForgotten
  <2>1. ASSUME NEW w \in Player, plr[w].state = "deleted"
        PROVE  /\ \A p \in Protocol : prot[p].player # w
               /\ ~plr[w].inCheckVector /\ toRelease[w] = 0
    <3>1. \A p \in Protocol : prot[p].player # w
      BY <1>1, <2>1 DEF PlayerOfProtocol
    <3>2. ~plr[w].inCheckVector /\ toRelease[w] = 0
      BY <2>1 DEF StateTellsChecks
    <3>3. QED
      BY <3>1, <3>2
  <2>2. QED
    BY <2>1 DEF DeletedIsForgotten
<1>3. SomebodyIsConnecting
  BY DEF SomebodyIsConnecting, SomebodyWillConnect, WillConnect
<1>4. ClientIsAlive
  <2>1. ASSUME NEW w \in Player, plr[w].state # "deleted", plr[w].client # None
        PROVE  /\ prot[plr[w].client].object \in {"live", "released"}
               /\ prot[plr[w].client].player = w
    <3>1. plr[w].client \in Protocol /\ prot[plr[w].client].player = w
      BY <2>1, Types DEF ClientOfPlayer
    <3>2. QED
      BY <1>1, <3>1 DEF PlayerOfProtocol
  <2>2. QED
    BY <2>1 DEF ClientIsAlive
<1>5. BoundTaskFindsProtocol
  <2>1. ASSUME NEW p \in Protocol, prot[p].timer
        PROVE  prot[p].object \in {"live", "released"}
    BY <2>1 DEF ConnectIsOnItsWay
  <2>2. ASSUME NEW p \in Protocol, NEW i \in 1..Len(queue), queue[i][2] = p
        PROVE  prot[p].object \in {"live", "released"}
    <3>1. \/ In(queue, <<"login", p>>) \/ In(queue, <<"connect", p>>)
          \/ In(queue, <<"close", p>>)
      BY <2>2, BoundTask
    <3>2. QED
      BY <3>1 DEF NewHasNothing, ConnectIsOnItsWay, ConnectionTellsObject
  <2>3. QED
    BY <2>1, <2>2 DEF BoundTaskFindsProtocol
<1>6. QED
  BY <1>2, <1>3, <1>4, <1>5 DEF Inv

\* However many clients ask for a character, and whenever they hang up: no pointer between
\* Player and ProtocolGame objects and the tasks bound to them dangles, the use counts are
\* right, a freed Player is not freed again, and isConnecting is not left behind.
THEOREM GameLoginIsSafe == Spec => []Inv
BY Invariance, InvFollows, PTL

\* However many clients ask for a character at once, at most one of them is in control.
THEOREM AtMostOneInControl == Spec => []OneClientInControl
<1>1. IInv => OneClientInControl
  <2> SUFFICES ASSUME IInv, NEW p \in Protocol, NEW q \in Protocol,
                      prot[p].connection = "open", prot[q].connection = "open",
                      prot[p].player # None, prot[q].player # None,
                      plr[prot[p].player].state = "online", plr[prot[q].player].state = "online"
               PROVE  p = q
    BY DEF OneClientInControl
  <2>1. prot[p].player \in Player /\ prot[q].player \in Player
    BY Types DEF IInv
  <2>2. prot[p].player = prot[q].player
    BY <2>1 DEF IInv, OneOnline
  <2>3. plr[prot[p].player].client = p /\ plr[prot[q].player].client = q
    BY DEF IInv, ConnectionTellsObject, PlayerOfProtocol
  <2>4. QED
    BY <2>2, <2>3
<1>2. QED
  BY <1>1, Invariance, PTL

----------------------------------------------------------------------------
(* PART 2: THE WAITING LIST *)

Entries == [client : Client \ Staff, premium : Account, timeout : Nat]

Told == [place : {-1} \cup (Nat \ {0}), retry : Int]

\* Entries in a list are of different clients, and premium first.
Ordered(list) ==
  \A x, y : Precedes(list, x, y) => x.client # y.client /\ (y.premium => x.premium)

ListGood(list) == list \in Seq(Entries) /\ Ordered(list)

\* The entry of a client that was given a place lasts 15 seconds longer than expected.
Kept(list, st, td) ==
  \A c \in Client :
    (st[c] = "told" /\ td[c].place # -1 /\ td[c].retry > -Margin) =>
      \E x \in ToSet(list) : x.client = c /\ x.timeout >= td[c].retry + Margin

Typed ==
  /\ status \in [Client -> {"away", "told", "online"}]
  /\ told \in [Client -> Told]

\* The inductive invariant.
WaitListIInv == Typed /\ ListGood(waitList) /\ Kept(waitList, status, told)

-----------------------------------------------------------------------------
(* The list *)

LEMMA EntryFields ==
  ASSUME NEW x \in Entries
  PROVE  /\ x.client \in Client \ Staff /\ x.premium \in Account /\ x.premium \in BOOLEAN
         /\ x.timeout \in Nat
BY WaitListAssumption DEF Entries

LEMMA InList ==
  ASSUME NEW list \in Seq(Entries)
  PROVE  /\ Len(list) \in Nat /\ DOMAIN list = 1..Len(list)
         /\ \A i \in 1..Len(list) : list[i] \in Entries /\ list[i] \in ToSet(list)
         /\ \A x \in ToSet(list) : x \in Entries /\ \E i \in 1..Len(list) : list[i] = x
<1>1. Len(list) \in Nat /\ DOMAIN list = 1..Len(list) /\ \A i \in 1..Len(list) : list[i] \in Entries
  OBVIOUS
<1> QED BY <1>1 DEF ToSet

LEMMA PlacesOf ==
  ASSUME NEW list \in Seq(Entries), NEW x, NEW y, Precedes(list, x, y)
  PROVE  \E i, j \in 1..Len(list) : i < j /\ list[i] = x /\ list[j] = y
BY InList DEF Precedes

LEMMA StandBefore ==
  ASSUME NEW list \in Seq(Entries), NEW i \in 1..Len(list), NEW j \in 1..Len(list), i < j
  PROVE  Precedes(list, list[i], list[j])
BY InList DEF Precedes

\* A list is good when it is so place by place.
LEMMA GoodByPlace ==
  ASSUME NEW list \in Seq(Entries),
         \A i, j \in 1..Len(list) :
           i < j => list[i].client # list[j].client /\ (list[j].premium => list[i].premium)
  PROVE  ListGood(list)
<1> SUFFICES ASSUME NEW x, NEW y, Precedes(list, x, y)
             PROVE  x.client # y.client /\ (y.premium => x.premium)
  BY DEF ListGood, Ordered
<1>1. PICK i \in 1..Len(list), j \in 1..Len(list) : i < j /\ list[i] = x /\ list[j] = y
  BY PlacesOf
<1> QED BY <1>1

LEMMA PlaceByPlace ==
  ASSUME NEW list, ListGood(list)
  PROVE  \A i, j \in 1..Len(list) :
           /\ i < j => list[i].client # list[j].client /\ (list[j].premium => list[i].premium)
           /\ list[i].client = list[j].client => i = j
<1>1. list \in Seq(Entries) /\ Len(list) \in Nat
  BY InList DEF ListGood
<1> SUFFICES ASSUME NEW i \in 1..Len(list), NEW j \in 1..Len(list)
             PROVE  /\ i < j => list[i].client # list[j].client
                                 /\ (list[j].premium => list[i].premium)
                    /\ j < i => list[i].client # list[j].client
  BY <1>1
<1>2. i < j => Precedes(list, list[i], list[j])
  BY <1>1, StandBefore
<1>3. j < i => Precedes(list, list[j], list[i])
  BY <1>1, StandBefore
<1> QED BY <1>2, <1>3 DEF ListGood, Ordered

LEMMA OneEntryEach ==
  ASSUME NEW list, ListGood(list), NEW x \in ToSet(list), NEW y \in ToSet(list),
         x.client = y.client
  PROVE  x = y
<1>1. list \in Seq(Entries)
  BY DEF ListGood
<1>2. PICK i \in 1..Len(list), j \in 1..Len(list) : list[i] = x /\ list[j] = y
  BY <1>1, InList
<1> QED BY <1>2, PlaceByPlace

LEMMA FoundIs ==
  ASSUME NEW list, ListGood(list), NEW c
  PROVE  /\ FindClient(list, c) # -1 =>
              /\ FindClient(list, c) \in 1..Len(list)
              /\ list[FindClient(list, c)].client = c
         /\ \A i \in 1..Len(list) : list[i].client = c => FindClient(list, c) = i
         /\ FindClient(list, c) = -1 <=> \A x \in ToSet(list) : x.client # c
         /\ FindClient(list, c) \in {-1} \cup (Nat \ {0})
<1>1. list \in Seq(Entries) /\ Len(list) \in Nat
  BY InList DEF ListGood
<1>2. CASE \E i \in 1..Len(list) : list[i].client = c
  <2> DEFINE k == CHOOSE i \in 1..Len(list) : list[i].client = c
  <2>1. FindClient(list, c) = k
    BY <1>2 DEF FindClient
  <2>2. k \in 1..Len(list) /\ list[k].client = c
    BY <1>2
  <2> HIDE DEF k
  <2>3. \A i \in 1..Len(list) : list[i].client = c => k = i
    BY <2>2, PlaceByPlace
  <2>4. list[k] \in ToSet(list)
    BY <1>1, <2>2, InList
  <2>5. k \in Nat \ {0} /\ k # -1
    BY <1>1, <2>2
  <2> QED BY <2>1, <2>2, <2>3, <2>4, <2>5
<1>3. CASE ~\E i \in 1..Len(list) : list[i].client = c
  <2>1. FindClient(list, c) = -1
    BY <1>3 DEF FindClient
  <2>2. \A x \in ToSet(list) : x.client # c
    BY <1>1, <1>3, InList
  <2> QED BY <1>3, <2>1, <2>2
<1> QED BY <1>2, <1>3

Unexpired == [client : Client, premium : BOOLEAN, timeout : Nat \ {0}]

LEMMA CleanedUpIs ==
  ASSUME NEW list, ListGood(list)
  PROVE  /\ ListGood(CleanUp(list))
         /\ \A x : x \in ToSet(CleanUp(list)) <=> x \in ToSet(list) /\ x.timeout > 0
         /\ \A x, y : Precedes(CleanUp(list), x, y)
                      <=> Precedes(list, x, y) /\ x.timeout > 0 /\ y.timeout > 0
<1>1. list \in Seq(Entries)
  BY DEF ListGood
<1>2. CleanUp(list) = Only(list, Unexpired)
  BY DEF CleanUp, Unexpired
<1>3. /\ Only(list, Unexpired) \in Seq(Entries)
      /\ ToSet(Only(list, Unexpired)) = ToSet(list) \cap Unexpired
      /\ \A x, y : Precedes(Only(list, Unexpired), x, y) <=>
                     Precedes(list, x, y) /\ x \in Unexpired /\ y \in Unexpired
  BY <1>1, OnlyKeeps
<1>4. \A x \in ToSet(list) : x \in Unexpired <=> x.timeout > 0
  <2> SUFFICES ASSUME NEW x \in Entries PROVE x \in Unexpired <=> x.timeout > 0
    BY <1>1, InList
  <2>1. x.timeout \in Nat /\ x.premium \in BOOLEAN
    BY EntryFields
  <2> QED BY <2>1 DEF Entries, Unexpired
<1>5. ASSUME NEW x, NEW y, Precedes(list, x, y)
      PROVE  x \in ToSet(list) /\ y \in ToSet(list)
  BY <1>1, <1>5, InList, PlacesOf
<1>6. ListGood(CleanUp(list))
  BY <1>2, <1>3 DEF ListGood, Ordered
<1>7. ASSUME NEW x PROVE x \in ToSet(CleanUp(list)) <=> x \in ToSet(list) /\ x.timeout > 0
  BY <1>2, <1>3, <1>4
<1>8. ASSUME NEW x, NEW y
      PROVE  Precedes(CleanUp(list), x, y) <=> Precedes(list, x, y) /\ x.timeout > 0 /\ y.timeout > 0
  BY <1>2, <1>3, <1>4, <1>5
<1> QED BY <1>6, <1>7, <1>8

LEMMA TimesAre ==
  ASSUME NEW slot \in {-1} \cup (Nat \ {0})
  PROVE  GetTime(slot) \in Nat /\ GetTimeOut(slot) \in Nat /\ GetTimeOut(slot) = GetTime(slot) + Margin
         /\ Margin = 3
<1>1. slot \in Int
  OBVIOUS
<1> QED BY <1>1 DEF GetTime, GetTimeOut, Margin

-----------------------------------------------------------------------------
(* What a login does to the list *)

\* Entries of list2 that are also in list stand in the same order there, unless
\* the first of them is new and a premium one before one that is not.
NoneOvertaken(list, list2) ==
  \A x, y : (Precedes(list2, x, y) /\ x.timeout > 0 /\ \E z \in ToSet(list) : z.client = y.client) =>
    \/ \E u, v : Precedes(list, u, v) /\ u.client = x.client /\ v.client = y.client
    \/ x.premium /\ ~y.premium

\* The entry at k is taken out.
LEMMA OneRemoved ==
  ASSUME NEW list, ListGood(list), NEW k \in 1..Len(list)
  PROVE  /\ ListGood(RemoveAt(list, k)) /\ NoneOvertaken(list, RemoveAt(list, k))
         /\ \A x \in ToSet(list) : x.client # list[k].client => x \in ToSet(RemoveAt(list, k))
<1> DEFINE t == RemoveAt(list, k)
           at(i) == IF i < k THEN i ELSE i + 1
<1>1. list \in Seq(Entries) /\ Len(list) \in Nat
  BY InList DEF ListGood
<1>2. t \in Seq(Entries) /\ Len(t) = Len(list) - 1 /\ \A i \in 1..Len(list) - 1 : t[i] = list[at(i)]
  BY <1>1, RemoveAtIs
<1> HIDE DEF t
<1>3. \A i \in 1..Len(t) : at(i) \in 1..Len(list)
  BY <1>1, <1>2
<1>4. \A i, j \in 1..Len(t) : i < j => at(i) < at(j)
  BY <1>1, <1>2
<1>5. \A i \in 1..Len(t) : t[i] = list[at(i)]
  BY <1>2
<1>6. \A i \in 1..Len(list) : i # k => \E j \in 1..Len(t) : at(j) = i
  <2> SUFFICES ASSUME NEW i \in 1..Len(list), i # k PROVE \E j \in 1..Len(t) : at(j) = i
    OBVIOUS
  <2>1. CASE i < k
    <3>1. i \in 1..Len(t) /\ at(i) = i
      BY <1>1, <1>2, <2>1
    <3> QED BY <3>1
  <2>2. CASE ~(i < k)
    <3>1. i - 1 \in 1..Len(t) /\ at(i - 1) = i
      BY <1>1, <1>2, <2>2
    <3> QED BY <3>1
  <2> QED BY <2>1, <2>2
<1> HIDE DEF at
<1>7. ListGood(t)
  <2> SUFFICES ASSUME NEW i \in 1..Len(t), NEW j \in 1..Len(t), i < j
               PROVE  t[i].client # t[j].client /\ (t[j].premium => t[i].premium)
    BY <1>2, GoodByPlace
  <2>1. at(i) \in 1..Len(list) /\ at(j) \in 1..Len(list) /\ at(i) < at(j)
    BY <1>3, <1>4
  <2> QED BY <1>5, <2>1, PlaceByPlace
<1>8. NoneOvertaken(list, t)
  <2> SUFFICES ASSUME NEW x, NEW y, Precedes(t, x, y) PROVE Precedes(list, x, y)
    BY DEF NoneOvertaken
  <2>1. PICK i \in 1..Len(t), j \in 1..Len(t) : i < j /\ t[i] = x /\ t[j] = y
    BY <1>2, PlacesOf
  <2>2. Precedes(list, list[at(i)], list[at(j)])
    BY <1>1, <1>3, <1>4, <2>1, StandBefore
  <2> QED BY <1>5, <2>1, <2>2
<1>9. ASSUME NEW x \in ToSet(list), x.client # list[k].client
      PROVE  x \in ToSet(t)
  <2>1. PICK i \in 1..Len(list) : list[i] = x
    BY <1>1, InList
  <2>2. PICK j \in 1..Len(t) : at(j) = i
    BY <1>6, <1>9, <2>1
  <2> QED BY <1>2, <1>5, <2>1, <2>2, InList
<1> QED BY <1>7, <1>8, <1>9 DEF t

\* The entry at k lasts longer.
LEMMA OneRenewed ==
  ASSUME NEW list, ListGood(list), NEW k \in 1..Len(list),
         NEW e \in Entries, e.client = list[k].client, e.premium = list[k].premium,
         NEW t \in Seq(Entries), Len(t) = Len(list), t[k] = e,
         \A i \in 1..Len(list) : i # k => t[i] = list[i]
  PROVE  /\ ListGood(t) /\ NoneOvertaken(list, t)
         /\ \A x \in ToSet(list) : x.client # list[k].client => x \in ToSet(t)
<1>1. list \in Seq(Entries) /\ Len(list) \in Nat
  BY InList DEF ListGood
<1>2. \A i \in 1..Len(list) : t[i].client = list[i].client /\ t[i].premium = list[i].premium
  OBVIOUS
<1>3. ListGood(t)
  BY <1>1, <1>2, GoodByPlace, PlaceByPlace
<1>4. NoneOvertaken(list, t)
  <2> SUFFICES ASSUME NEW x, NEW y, Precedes(t, x, y)
               PROVE  \E u, v : Precedes(list, u, v) /\ u.client = x.client /\ v.client = y.client
    BY DEF NoneOvertaken
  <2>1. PICK i \in 1..Len(t), j \in 1..Len(t) : i < j /\ t[i] = x /\ t[j] = y
    BY <1>1, PlacesOf
  <2>2. Precedes(list, list[i], list[j])
    BY <1>1, <2>1, StandBefore
  <2> QED BY <1>2, <2>1, <2>2
<1>5. ASSUME NEW x \in ToSet(list), x.client # list[k].client
      PROVE  x \in ToSet(t)
  <2>1. PICK i \in 1..Len(list) : list[i] = x
    BY <1>1, InList
  <2>2. i # k /\ i \in 1..Len(t) /\ t[i] = x
    BY <1>5, <2>1
  <2> QED BY <2>2, InList
<1> QED BY <1>3, <1>4, <1>5

\* e is put in at k, or at the end, where it belongs.
LEMMA OneMore ==
  ASSUME NEW list, ListGood(list), NEW e \in Entries, \A x \in ToSet(list) : x.client # e.client,
         NEW t \in Seq(Entries), Len(t) = Len(list) + 1, NEW k \in 1..Len(list) + 1,
         \A i \in 1..Len(list) + 1 :
           t[i] = IF i < k THEN list[i] ELSE IF i = k THEN e ELSE list[i - 1],
         \A i \in 1..Len(list) : IF i < k THEN e.premium => list[i].premium
                                 ELSE e.premium /\ ~list[i].premium
  PROVE  /\ ListGood(t) /\ NoneOvertaken(list, t) /\ ToSet(list) \subseteq ToSet(t)
         /\ t[k] = e /\ k \in 1..Len(t)
<1> DEFINE at(i) == IF i < k THEN i ELSE i - 1
<1>1. list \in Seq(Entries) /\ Len(list) \in Nat
  BY InList DEF ListGood
<1>2. t[k] = e /\ k \in 1..Len(t)
  BY <1>1
<1>3. \A i \in 1..Len(t) : i # k => at(i) \in 1..Len(list) /\ t[i] = list[at(i)]
  BY <1>1
<1>4. \A i, j \in 1..Len(t) : i < j /\ i # k /\ j # k => at(i) < at(j)
  BY <1>1
<1>5. \A j \in 1..Len(t) : /\ k < j => at(j) >= k
                           /\ j < k => at(j) < k
  BY <1>1
<1>6. \A i \in 1..Len(list) : \E j \in 1..Len(t) : j # k /\ at(j) = i
  <2> SUFFICES ASSUME NEW i \in 1..Len(list) PROVE \E j \in 1..Len(t) : j # k /\ at(j) = i
    OBVIOUS
  <2>1. CASE i < k
    <3>1. i \in 1..Len(t) /\ i # k /\ at(i) = i
      BY <1>1, <2>1
    <3> QED BY <3>1
  <2>2. CASE ~(i < k)
    <3>1. i + 1 \in 1..Len(t) /\ i + 1 # k /\ at(i + 1) = i
      BY <1>1, <2>2
    <3> QED BY <3>1
  <2> QED BY <2>1, <2>2
<1> HIDE DEF at
<1>7. ListGood(t)
  <2> SUFFICES ASSUME NEW i \in 1..Len(t), NEW j \in 1..Len(t), i < j
               PROVE  t[i].client # t[j].client /\ (t[j].premium => t[i].premium)
    BY GoodByPlace
  <2>1. CASE i # k /\ j # k
    <3>1. at(i) \in 1..Len(list) /\ at(j) \in 1..Len(list) /\ at(i) < at(j)
      BY <1>3, <1>4, <2>1
    <3>2. t[i] = list[at(i)] /\ t[j] = list[at(j)]
      BY <1>3, <2>1
    <3>3. /\ list[at(i)].client # list[at(j)].client
          /\ list[at(j)].premium => list[at(i)].premium
      BY <3>1, PlaceByPlace
    <3> QED BY <3>2, <3>3
  <2>2. CASE i = k
    <3>1. j # k /\ at(j) \in 1..Len(list) /\ at(j) >= k
      BY <1>3, <1>5, <2>2
    <3>2. t[j] = list[at(j)] /\ list[at(j)] \in ToSet(list)
      BY <1>1, <1>3, <3>1, InList
    <3>3. ~(at(j) < k)
      BY <1>1, <3>1
    <3> QED BY <1>2, <2>2, <3>1, <3>2, <3>3
  <2>3. CASE j = k
    <3>1. i # k /\ at(i) \in 1..Len(list) /\ at(i) < k
      BY <1>3, <1>5, <2>3
    <3>2. t[i] = list[at(i)] /\ list[at(i)] \in ToSet(list)
      BY <1>1, <1>3, <3>1, InList
    <3> QED BY <1>2, <2>3, <3>1, <3>2
  <2> QED BY <2>1, <2>2, <2>3
<1>8. NoneOvertaken(list, t)
  <2> SUFFICES ASSUME NEW x, NEW y, Precedes(t, x, y), NEW z \in ToSet(list), z.client = y.client
               PROVE  Precedes(list, x, y) \/ (x.premium /\ ~y.premium)
    BY DEF NoneOvertaken
  <2>1. PICK i \in 1..Len(t), j \in 1..Len(t) : i < j /\ t[i] = x /\ t[j] = y
    BY PlacesOf
  <2>2. j # k
    BY <1>2, <2>1
  <2>3. CASE i # k
    <3>1. at(i) \in 1..Len(list) /\ at(j) \in 1..Len(list) /\ at(i) < at(j)
      BY <1>3, <1>4, <2>1, <2>2, <2>3
    <3>2. Precedes(list, list[at(i)], list[at(j)])
      BY <1>1, <3>1, StandBefore
    <3> QED BY <1>3, <2>1, <2>2, <2>3, <3>2
  <2>4. CASE i = k
    <3>1. at(j) \in 1..Len(list) /\ at(j) >= k /\ t[j] = list[at(j)]
      BY <1>3, <1>5, <2>1, <2>2, <2>4
    <3>2. ~(at(j) < k)
      BY <1>1, <3>1
    <3> QED BY <1>2, <2>1, <2>4, <3>1, <3>2
  <2> QED BY <2>3, <2>4
<1>9. ASSUME NEW x \in ToSet(list)
      PROVE  x \in ToSet(t)
  <2>1. PICK i \in 1..Len(list) : list[i] = x
    BY <1>1, InList
  <2>2. PICK j \in 1..Len(t) : j # k /\ at(j) = i
    BY <1>6
  <2> QED BY <1>3, <2>1, <2>2, InList
<1> QED BY <1>2, <1>7, <1>8, <1>9

LEMMA OneInserted ==
  ASSUME NEW list, ListGood(list), NEW c \in Client \ Staff, FindClient(list, c) = -1,
         NEW premium \in Account
  PROVE  LET t == Insert(list, c, premium)
             slot == FindClient(t, c)
         IN  /\ ListGood(t) /\ NoneOvertaken(list, t) /\ ToSet(list) \subseteq ToSet(t)
             /\ slot # -1 => \E x \in ToSet(t) : x.client = c /\ x.timeout = GetTimeOut(slot)
<1> DEFINE t == Insert(list, c, premium)
           slot == FindClient(t, c)
           others == {i \in 1..Len(list) : ~list[i].premium}
           first == CHOOSE i \in others : \A j \in others : i <= j
<1>0. premium \in BOOLEAN
  BY WaitListAssumption
<1>1. list \in Seq(Entries) /\ Len(list) \in Nat
  BY InList DEF ListGood
<1>2. \A x \in ToSet(list) : x.client # c
  BY FoundIs
<1>3. \A n \in Nat \ {0} : LET e == Entry(c, premium, n)
                            IN  /\ e \in Entries /\ e.client = c /\ e.premium = premium
                                /\ e.timeout = GetTimeOut(n)
  BY TimesAre DEF Entry, Entries
<1>4. ASSUME NEW k \in Nat \ {0}, ListGood(t), k \in 1..Len(t), t[k] = Entry(c, premium, k)
      PROVE  \E x \in ToSet(t) : x.client = c /\ x.timeout = GetTimeOut(slot)
  <2> DEFINE e == Entry(c, premium, k)
  <2>1. e.client = c /\ e.timeout = GetTimeOut(k)
    BY <1>3
  <2> HIDE DEF e, t
  <2>2. t[k] = e
    BY <1>4 DEF e
  <2>3. FindClient(t, c) = k
    BY <1>4, <2>1, <2>2, FoundIs
  <2>4. e \in ToSet(t)
    BY <1>4, <2>2, InList DEF ListGood
  <2> QED BY <2>1, <2>3, <2>4
<1>5. CASE ~premium
  <2> DEFINE k == Len(list) + 1
             e == Entry(c, premium, k)
  <2>1. t = Append(list, e)
    BY <1>5 DEF Insert
  <2>2. k \in Nat \ {0} /\ e \in Entries /\ e.client = c /\ e.premium = premium
    BY <1>1, <1>3
  <2> HIDE DEF e, t
  <2>3. /\ t \in Seq(Entries) /\ Len(t) = Len(list) + 1
        /\ \A i \in 1..Len(list) + 1 :
             t[i] = IF i < k THEN list[i] ELSE IF i = k THEN e ELSE list[i - 1]
    BY <1>1, <2>1, <2>2
  <2>4. /\ ListGood(t) /\ NoneOvertaken(list, t) /\ ToSet(list) \subseteq ToSet(t)
        /\ t[k] = e /\ k \in 1..Len(t)
    <3>1. \A i \in 1..Len(list) : i < k
      BY <1>1
    <3>2. k \in 1..Len(list) + 1
      BY <1>1
    <3> HIDE DEF k
    <3> QED BY <1>2, <1>5, <2>2, <2>3, <3>1, <3>2, OneMore
  <2>5. \E x \in ToSet(t) : x.client = c /\ x.timeout = GetTimeOut(slot)
    <3> HIDE DEF k
    <3> QED BY <1>4, <2>2, <2>4 DEF e
  <2> QED BY <2>4, <2>5 DEF t
<1>6. CASE premium /\ others = {}
  <2>1. t = list
    BY <1>6 DEF Insert
  <2>2. NoneOvertaken(list, list)
    BY DEF NoneOvertaken
  <2> QED BY <2>1, <2>2
<1>7. CASE premium /\ others # {}
  <2>1. t = InsertAt(list, first, Entry(c, premium, first))
    BY <1>7 DEF Insert
  <2>2. first \in others /\ \A j \in others : first <= j
    <3>1. others \subseteq Nat
      BY <1>1
    <3>2. \E i \in others : \A j \in others : i <= j
      <4> HIDE DEF others
      <4> QED BY <1>7, <3>1, LeastNumber
    <3> HIDE DEF others
    <3> QED BY <3>2
  <2> DEFINE k == first
             e == Entry(c, premium, k)
  <2> HIDE DEF first
  <2>3. k \in 1..Len(list) /\ ~list[k].premium
    BY <2>2
  <2>4. k \in Nat \ {0} /\ e \in Entries /\ e.client = c /\ e.premium = premium
    BY <1>1, <1>3, <2>3
  <2>5. \A i \in 1..Len(list) : i < k => list[i].premium
    BY <1>1, <2>2, <2>3
  <2>6. \A i \in 1..Len(list) : ~(i < k) => ~list[i].premium
    <3> SUFFICES ASSUME NEW i \in 1..Len(list), i # k, ~(i < k) PROVE ~list[i].premium
      BY <2>3
    <3>1. k < i
      BY <1>1, <2>3
    <3> QED BY <2>3, <3>1, PlaceByPlace
  <2> HIDE DEF e, t, k
  <2>7. t = InsertAt(list, k, e)
    BY <2>1 DEF k, e
  <2>8. /\ t \in Seq(Entries) /\ Len(t) = Len(list) + 1
        /\ \A i \in 1..Len(list) + 1 :
             t[i] = IF i < k THEN list[i] ELSE IF i = k THEN e ELSE list[i - 1]
    BY <1>1, <2>3, <2>4, <2>7, InsertAtIs
  <2>9. k \in 1..Len(list) + 1
    BY <1>1, <2>3
  <2>10. /\ ListGood(t) /\ NoneOvertaken(list, t) /\ ToSet(list) \subseteq ToSet(t)
         /\ t[k] = e /\ k \in 1..Len(t)
    BY <1>2, <1>7, <2>4, <2>5, <2>6, <2>8, <2>9, OneMore
  <2>11. \E x \in ToSet(t) : x.client = c /\ x.timeout = GetTimeOut(slot)
    BY <1>4, <2>4, <2>10 DEF e
  <2> QED BY <2>10, <2>11 DEF t
<1> QED BY <1>0, <1>5, <1>6, <1>7

-----------------------------------------------------------------------------
(* The inductive invariant holds at first, and says what WaitListInv says *)

LEMMA Begins == WaitListInit => WaitListIInv
<1> SUFFICES ASSUME WaitListInit PROVE WaitListIInv
  OBVIOUS
<1>1. ListGood(waitList)
  <2>1. waitList \in Seq(Entries) /\ Len(waitList) = 0
    BY DEF WaitListInit
  <2>2. ~\E i \in 1..Len(waitList) : TRUE
    BY <2>1
  <2> QED BY <2>1, <2>2, GoodByPlace
<1>2. Typed
  BY DEF WaitListInit, Typed, Told
<1>3. Kept(waitList, status, told)
  BY DEF WaitListInit, Kept
<1> QED BY <1>1, <1>2, <1>3 DEF WaitListIInv

LEMMA SaysInv == WaitListIInv => WaitListInv
<1> SUFFICES ASSUME WaitListIInv PROVE WaitListInv
  OBVIOUS
<1>1. ListGood(waitList) /\ waitList \in Seq(Entries) /\ Len(waitList) \in Nat
  BY InList DEF WaitListIInv, ListGood
<1>2. WaitListTypeOK
  <2>1. \A i, j \in Places : waitList[i].client = waitList[j].client => i = j
    BY <1>1, PlaceByPlace DEF Places
  <2> QED BY <1>1, <2>1 DEF WaitListIInv, Typed, WaitListTypeOK, Told, Entries
<1>3. PremiumFirst
  <2> SUFFICES ASSUME NEW i \in 1..Len(waitList), NEW j \in 1..Len(waitList),
                      waitList[i].premium, ~waitList[j].premium
               PROVE  i < j
    BY DEF PremiumFirst, Places
  <2>1. ~(j < i)
    BY <1>1, PlaceByPlace
  <2>2. i # j
    OBVIOUS
  <2> QED BY <1>1, <2>1, <2>2
<1>4. PlaceIsKept
  <2> SUFFICES ASSUME NEW c \in Client,
                      status[c] = "told", told[c].place # -1, told[c].retry > -Margin
               PROVE  \E i \in 1..Len(waitList) : waitList[i].client = c /\ waitList[i].timeout > 0
    BY DEF PlaceIsKept, Places
  <2>1. PICK x \in ToSet(waitList) : x.client = c /\ x.timeout >= told[c].retry + Margin
    BY DEF WaitListIInv, Kept
  <2>2. PICK i \in 1..Len(waitList) : waitList[i] = x
    BY <1>1, InList
  <2>3. x.timeout \in Nat /\ told[c].retry \in Int
    BY <1>1, <2>2, InList, EntryFields DEF WaitListIInv, Typed, Told
  <2>4. x.timeout > 0
    BY <2>1, <2>3 DEF Margin
  <2> QED BY <2>1, <2>2, <2>4
<1> QED BY <1>2, <1>3, <1>4 DEF WaitListInv

-----------------------------------------------------------------------------
(* Every step keeps it, and nobody is overtaken in any of them *)

Next1 == WaitListIInv' /\ NoneOvertaken(CleanUp(waitList), waitList')

\* Whoever else has an entry that is still good keeps it.
OthersStay(list, list2, c) ==
  \A x \in ToSet(list) : (x.timeout > 0 /\ x.client # c) => x \in ToSet(list2)

LEMMA ListUnchanged ==
  ASSUME NEW list, ListGood(list)
  PROVE  NoneOvertaken(CleanUp(list), list)
<1> SUFFICES ASSUME NEW x, NEW y, Precedes(list, x, y), x.timeout > 0,
                    NEW z \in ToSet(CleanUp(list)), z.client = y.client
             PROVE  Precedes(CleanUp(list), x, y)
  BY DEF NoneOvertaken
<1>1. y \in ToSet(list)
  BY InList, PlacesOf DEF ListGood
<1>2. z \in ToSet(list) /\ z.timeout > 0
  BY CleanedUpIs
<1>3. z = y
  BY <1>1, <1>2, OneEntryEach
<1> QED BY <1>2, <1>3, CleanedUpIs

LEMMA StillKept ==
  ASSUME WaitListIInv, NEW c \in Client, NEW list, ListGood(list), OthersStay(waitList, list, c),
         NEW d \in Client, d # c,
         status[d] = "told", told[d].place # -1, told[d].retry > -Margin
  PROVE  \E x \in ToSet(list) : x.client = d /\ x.timeout >= told[d].retry + Margin
<1>1. PICK x \in ToSet(waitList) : x.client = d /\ x.timeout >= told[d].retry + Margin
  BY DEF WaitListIInv, Kept
<1>2. x.timeout \in Nat /\ told[d].retry \in Int
  BY <1>1, InList, EntryFields DEF WaitListIInv, Typed, Told, ListGood
<1>3. x.timeout > 0
  BY <1>1, <1>2 DEF Margin
<1> QED BY <1>1, <1>3 DEF OthersStay

LEMMA LetIn ==
  ASSUME WaitListIInv, NEW c \in Client, NEW list, ListGood(list), OthersStay(waitList, list, c),
         GetsIn(c, list)
  PROVE  WaitListIInv'
<1>1. PICK result \in {"online", "away"} : status' = [status EXCEPT ![c] = result]
  BY DEF GetsIn
<1>2. waitList' = list /\ told' = [told EXCEPT ![c] = [place |-> -1, retry |-> 0]]
  BY DEF GetsIn
<1>3. Typed'
  BY <1>1, <1>2 DEF WaitListIInv, Typed, Told
<1>4. status'[c] # "told" /\ \A d \in Client : d # c => status'[d] = status[d] /\ told'[d] = told[d]
  BY <1>1, <1>2 DEF WaitListIInv, Typed
<1>5. Kept(list, status', told')
  BY <1>4, StillKept DEF Kept
<1> QED BY <1>2, <1>3, <1>5 DEF WaitListIInv

LEMMA SentAway ==
  ASSUME WaitListIInv, NEW c \in Client, NEW list, ListGood(list), OthersStay(waitList, list, c),
         NEW slot, slot = FindClient(list, c),
         slot # -1 => \E x \in ToSet(list) : x.client = c /\ x.timeout = GetTimeOut(slot),
         TurnedAway(c, list)
  PROVE  WaitListIInv'
<1>1. /\ waitList' = list /\ status' = [status EXCEPT ![c] = "told"]
      /\ told' = [told EXCEPT ![c] = [place |-> slot, retry |-> GetTime(slot)]]
  BY DEF TurnedAway
<1>2. slot \in {-1} \cup (Nat \ {0})
  BY FoundIs
<1>3. GetTime(slot) \in Nat /\ GetTimeOut(slot) = GetTime(slot) + Margin /\ Margin = 3
  BY <1>2, TimesAre
<1>4. [place |-> slot, retry |-> GetTime(slot)] \in Told
  BY <1>2, <1>3 DEF Told
<1>5. Typed'
  BY <1>1, <1>4 DEF WaitListIInv, Typed
<1>6. /\ told'[c].place = slot /\ told'[c].retry = GetTime(slot)
      /\ \A d \in Client : d # c => status'[d] = status[d] /\ told'[d] = told[d]
  BY <1>1 DEF WaitListIInv, Typed
<1>7. Kept(list, status', told')
  <2> SUFFICES ASSUME NEW d \in Client,
                      status'[d] = "told", told'[d].place # -1, told'[d].retry > -Margin
               PROVE  \E x \in ToSet(list) : x.client = d /\ x.timeout >= told'[d].retry + Margin
    BY DEF Kept
  <2>1. CASE d = c
    <3>1. PICK x \in ToSet(list) : x.client = c /\ x.timeout = GetTimeOut(slot)
      BY <1>6, <2>1
    <3>2. x.timeout >= told'[d].retry + Margin
      BY <1>3, <1>6, <2>1, <3>1
    <3> QED BY <2>1, <3>1, <3>2
  <2>2. CASE d # c
    <3>1. status'[d] = status[d] /\ told'[d] = told[d]
      BY <1>6, <2>2
    <3> QED BY <2>2, <3>1, StillKept
  <2> QED BY <2>1, <2>2
<1> QED BY <1>1, <1>5, <1>7 DEF WaitListIInv

LEMMA StaffStep ==
  ASSUME WaitListIInv, NEW c \in Client, LoginAlways(c) \/ LoginAtOnce(c)
  PROVE  Next1
<1>1. ListGood(waitList) /\ GetsIn(c, waitList)
  BY DEF WaitListIInv, LoginAlways, LoginAtOnce
<1>2. OthersStay(waitList, waitList, c) /\ waitList' = waitList
  BY <1>1 DEF OthersStay, GetsIn
<1> QED BY <1>1, <1>2, LetIn, ListUnchanged DEF Next1

LEMMA FromListStep ==
  ASSUME WaitListIInv, NEW c \in Client, LoginFromList(c)
  PROVE  Next1
<1> DEFINE list == CleanUp(waitList)
           slot == FindClient(list, c)
<1>1. slot # -1 /\ GetsIn(c, RemoveAt(list, slot))
  BY DEF LoginFromList
<1>2. ListGood(waitList)
  BY DEF WaitListIInv
<1>3. ListGood(list) /\ \A x : x \in ToSet(list) <=> x \in ToSet(waitList) /\ x.timeout > 0
  BY <1>2, CleanedUpIs
<1> HIDE DEF list
<1>4. slot \in 1..Len(list) /\ list[slot].client = c
  BY <1>1, <1>3, FoundIs
<1> HIDE DEF slot
<1>5. /\ ListGood(RemoveAt(list, slot)) /\ NoneOvertaken(list, RemoveAt(list, slot))
      /\ \A x \in ToSet(list) : x.client # c => x \in ToSet(RemoveAt(list, slot))
  BY <1>3, <1>4, OneRemoved
<1>6. OthersStay(waitList, RemoveAt(list, slot), c)
  BY <1>3, <1>5 DEF OthersStay
<1>7. WaitListIInv'
  BY <1>1, <1>5, <1>6, LetIn
<1>8. waitList' = RemoveAt(list, slot)
  BY <1>1 DEF GetsIn
<1> QED BY <1>5, <1>7, <1>8 DEF Next1, list

LEMMA LongerStep ==
  ASSUME WaitListIInv, NEW c \in Client, WaitLonger(c)
  PROVE  Next1
<1> DEFINE list == CleanUp(waitList)
           slot == FindClient(list, c)
           long == GetTimeOut(slot)
           list2 == [list EXCEPT ![slot].timeout = long]
<1>1. slot # -1 /\ TurnedAway(c, list2)
  BY DEF WaitLonger
<1>2. ListGood(waitList)
  BY DEF WaitListIInv
<1>3. ListGood(list) /\ \A x : x \in ToSet(list) <=> x \in ToSet(waitList) /\ x.timeout > 0
  BY <1>2, CleanedUpIs
<1> HIDE DEF list
<1>4. slot \in 1..Len(list) /\ list[slot].client = c /\ long \in Nat
  BY <1>1, <1>3, FoundIs, TimesAre
<1> DEFINE e == [list[slot] EXCEPT !.timeout = long]
<1>5. list \in Seq(Entries) /\ Len(list) \in Nat /\ list[slot] \in Entries
  BY <1>3, <1>4, InList DEF ListGood
<1>6. e \in Entries /\ e.client = c /\ e.premium = list[slot].premium /\ e.timeout = long
  BY <1>4, <1>5 DEF Entries
<1>7. list2 = [list EXCEPT ![slot] = e]
  BY <1>5
<1> HIDE DEF slot, long, list2, e
<1>8. /\ list2 \in Seq(Entries) /\ Len(list2) = Len(list) /\ list2[slot] = e
      /\ \A i \in 1..Len(list) : i # slot => list2[i] = list[i]
  BY <1>4, <1>5, <1>6, <1>7
<1>9. /\ ListGood(list2) /\ NoneOvertaken(list, list2)
      /\ \A x \in ToSet(list) : x.client # c => x \in ToSet(list2)
  BY <1>3, <1>4, <1>6, <1>8, OneRenewed
<1>10. OthersStay(waitList, list2, c)
  BY <1>3, <1>9 DEF OthersStay
<1>11. FindClient(list2, c) = slot
  BY <1>4, <1>9, <1>6, <1>8, FoundIs
<1>12. \E x \in ToSet(list2) : x.client = c /\ x.timeout = GetTimeOut(slot)
  BY <1>4, <1>6, <1>8, InList DEF long
<1>13. WaitListIInv'
  BY <1>1, <1>9, <1>10, <1>11, <1>12, SentAway
<1>14. waitList' = list2
  BY <1>1 DEF TurnedAway
<1> QED BY <1>9, <1>13, <1>14 DEF Next1, list

LEMMA JoinStep ==
  ASSUME WaitListIInv, NEW c \in Client, JoinList(c)
  PROVE  Next1
<1> DEFINE list == CleanUp(waitList)
<1>1. FindClient(list, c) = -1 /\ c \in Client \ Staff
  BY DEF JoinList
<1>2. PICK premium \in Account : TurnedAway(c, Insert(list, c, premium))
  BY DEF JoinList
<1>3. ListGood(waitList)
  BY DEF WaitListIInv
<1>4. ListGood(list) /\ \A x : x \in ToSet(list) <=> x \in ToSet(waitList) /\ x.timeout > 0
  BY <1>3, CleanedUpIs
<1> HIDE DEF list
<1> DEFINE list2 == Insert(list, c, premium)
           slot == FindClient(list2, c)
<1>5. /\ ListGood(list2) /\ NoneOvertaken(list, list2) /\ ToSet(list) \subseteq ToSet(list2)
      /\ slot # -1 => \E x \in ToSet(list2) : x.client = c /\ x.timeout = GetTimeOut(slot)
  BY <1>1, <1>4, OneInserted
<1>6. TurnedAway(c, list2)
  BY <1>2
<1> HIDE DEF list2
<1>7. OthersStay(waitList, list2, c)
  BY <1>4, <1>5 DEF OthersStay
<1>8. WaitListIInv'
  BY <1>5, <1>6, <1>7, SentAway
<1>9. waitList' = list2
  BY <1>6 DEF TurnedAway
<1> QED BY <1>5, <1>8, <1>9 DEF Next1, list

LEMMA LeaveStep ==
  ASSUME WaitListIInv, NEW c \in Client, Logout(c) \/ GiveUp(c)
  PROVE  Next1
<1>1. /\ waitList' = waitList /\ status' = [status EXCEPT ![c] = "away"]
      /\ told' = told \/ told' = [told EXCEPT ![c] = [place |-> -1, retry |-> 0]]
  BY DEF Logout, GiveUp
<1>2. ListGood(waitList)
  BY DEF WaitListIInv
<1>3. Typed'
  BY <1>1 DEF WaitListIInv, Typed, Told
<1>4. status'[c] # "told" /\ \A d \in Client : d # c => status'[d] = status[d] /\ told'[d] = told[d]
  BY <1>1 DEF WaitListIInv, Typed
<1>5. Kept(waitList, status', told')
  BY <1>4 DEF WaitListIInv, Kept
<1> QED BY <1>1, <1>2, <1>3, <1>5, ListUnchanged DEF Next1, WaitListIInv

LEMMA TickStep ==
  ASSUME WaitListIInv, Tick
  PROVE  Next1
<1> DEFINE n == Len(waitList)
           less(t) == IF t > 0 THEN t - 1 ELSE 0
<1>1. /\ ListGood(waitList) /\ waitList \in Seq(Entries) /\ n \in Nat
      /\ \A i \in 1..n : waitList[i] \in Entries /\ waitList[i] \in ToSet(waitList)
  BY InList DEF WaitListIInv, ListGood
<1>2. waitList' = [i \in 1..n |-> [waitList[i] EXCEPT !.timeout = less(@)]]
  BY DEF Tick, Places
<1>3. ASSUME NEW i \in 1..n
      PROVE  /\ waitList'[i] \in Entries /\ waitList'[i].client = waitList[i].client
             /\ waitList'[i].premium = waitList[i].premium
             /\ waitList'[i].timeout = less(waitList[i].timeout)
  <2>1. waitList'[i] = [waitList[i] EXCEPT !.timeout = less(@)] /\ waitList[i] \in Entries
    BY <1>1, <1>2
  <2> QED BY <2>1 DEF Entries
<1>4. waitList' \in Seq(Entries) /\ Len(waitList') = n
  <2>1. \A i \in 1..n : waitList'[i] \in Entries
    BY <1>3
  <2>2. waitList' = [i \in 1..n |-> waitList'[i]]
    BY <1>2
  <2> QED BY <1>1, <2>1, <2>2
<1>5. ListGood(waitList')
  BY <1>1, <1>3, <1>4, GoodByPlace, PlaceByPlace
<1>6. \A i \in 1..n : waitList[i].timeout \in Nat
  BY <1>1, EntryFields
<1>7. NoneOvertaken(CleanUp(waitList), waitList')
  <2> SUFFICES ASSUME NEW x, NEW y, Precedes(waitList', x, y), x.timeout > 0,
                      NEW z \in ToSet(CleanUp(waitList)), z.client = y.client
               PROVE  \E u, v : /\ Precedes(CleanUp(waitList), u, v)
                                /\ u.client = x.client /\ v.client = y.client
    BY DEF NoneOvertaken
  <2>1. PICK i \in 1..n, j \in 1..n : i < j /\ waitList'[i] = x /\ waitList'[j] = y
    BY <1>4, PlacesOf
  <2> DEFINE u == waitList[i]
             v == waitList[j]
  <2>2. u.client = x.client /\ v.client = y.client /\ x.timeout = less(u.timeout)
    BY <1>3, <2>1
  <2>3. u.timeout > 0
    BY <1>6, <2>2
  <2>4. z \in ToSet(waitList) /\ z.timeout > 0
    BY <1>1, CleanedUpIs
  <2>5. z = v
    BY <1>1, <2>2, <2>4, OneEntryEach
  <2>6. Precedes(waitList, u, v)
    BY <1>1, <2>1, StandBefore
  <2>7. Precedes(CleanUp(waitList), u, v)
    BY <1>1, <2>3, <2>4, <2>5, <2>6, CleanedUpIs
  <2> QED BY <2>2, <2>7
<1>8. status' = status
  BY DEF Tick
<1>9. ASSUME NEW c \in Client
      PROVE  /\ told'[c] \in Told /\ told'[c].place = told[c].place
             /\ told'[c].retry = IF status[c] = "told" /\ told[c].retry > -Margin
                                 THEN told[c].retry - 1 ELSE told[c].retry
             /\ told[c].retry \in Int
  <2>1. told[c] \in Told
    BY DEF WaitListIInv, Typed
  <2>2. told'[c] = [told[c] EXCEPT
                      !.retry = IF status[c] = "told" /\ @ > -Margin THEN @ - 1 ELSE @]
    BY DEF Tick
  <2> QED BY <2>1, <2>2 DEF Told, Margin
<1>10. Typed'
  <2>1. told' = [c \in Client |-> told'[c]]
    BY DEF Tick
  <2>2. told' \in [Client -> Told]
    BY <1>9, <2>1
  <2> QED BY <1>8, <2>2 DEF WaitListIInv, Typed
<1>11. Kept(waitList', status', told')
  <2> SUFFICES ASSUME NEW c \in Client,
                      status'[c] = "told", told'[c].place # -1, told'[c].retry > -Margin
               PROVE  \E x \in ToSet(waitList') :
                        x.client = c /\ x.timeout >= told'[c].retry + Margin
    BY DEF Kept
  <2>1. /\ status[c] = "told" /\ told[c].place # -1 /\ told[c].retry > -Margin
        /\ told'[c].retry = told[c].retry - 1 /\ told[c].retry \in Int
    BY <1>8, <1>9 DEF Margin
  <2>2. PICK x \in ToSet(waitList) : x.client = c /\ x.timeout >= told[c].retry + Margin
    BY <2>1 DEF WaitListIInv, Kept
  <2>3. PICK i \in 1..n : waitList[i] = x
    BY <1>1, InList
  <2>4. waitList'[i].client = c /\ waitList'[i].timeout = less(x.timeout) /\ x.timeout \in Nat
    BY <1>3, <1>6, <2>2, <2>3
  <2>5. waitList'[i].timeout >= told'[c].retry + Margin
    BY <2>1, <2>2, <2>4 DEF Margin
  <2>6. waitList'[i] \in ToSet(waitList')
    BY <1>4, InList
  <2> QED BY <2>4, <2>5, <2>6
<1> QED BY <1>5, <1>7, <1>10, <1>11 DEF Next1, WaitListIInv

LEMMA StutterStep ==
  ASSUME WaitListIInv, UNCHANGED wvars
  PROVE  Next1
<1>1. waitList' = waitList /\ status' = status /\ told' = told
  BY DEF wvars
<1>2. ListGood(waitList)
  BY DEF WaitListIInv
<1> QED BY <1>1, <1>2, ListUnchanged DEF Next1, WaitListIInv, Typed, Kept

LEMMA EveryStep ==
  ASSUME WaitListIInv, [WaitListNext]_wvars
  PROVE  Next1
<1>1. ASSUME NEW c \in Client, LoginAlways(c) \/ ClientLogin(c) \/ Logout(c) \/ GiveUp(c)
      PROVE  Next1
  BY <1>1, StaffStep, FromListStep, LongerStep, JoinStep, LeaveStep DEF ClientLogin
<1>2. CASE Tick
  BY <1>2, TickStep
<1>3. CASE UNCHANGED wvars
  BY <1>3, StutterStep
<1> QED BY <1>1, <1>2, <1>3 DEF WaitListNext

-----------------------------------------------------------------------------
(* The theorems *)

LEMMA AlwaysIInv == WaitListSpec => []WaitListIInv
<1>1. WaitListIInv /\ [WaitListNext]_wvars => WaitListIInv'
  BY EveryStep DEF Next1
<1> QED BY Begins, <1>1, PTL DEF WaitListSpec

\* There is one entry per client, the entries of premium clients stand first, and
\* a client that was given a place and is not 15 seconds late finds its entry still
\* good, however long the list and whoever cleans it up (waitlist.cpp).
THEOREM WaitListIsSafe == WaitListSpec => []WaitListInv
BY AlwaysIInv, SaysInv, PTL

LEMMA OvertakesNobody ==
  ASSUME NEW list, ListGood(list), NEW list2, ListGood(list2), NoneOvertaken(list, list2),
         NEW n \in 1..Len(list2), NEW m \in 1..Len(list2), n < m, list2[n].timeout > 0,
         FindClient(list, list2[m].client) # -1
  PROVE  \/ /\ FindClient(list, list2[n].client) # -1
            /\ FindClient(list, list2[n].client) < FindClient(list, list2[m].client)
         \/ list2[n].premium /\ ~list2[m].premium
<1> DEFINE x == list2[n]
           y == list2[m]
<1>1. list \in Seq(Entries) /\ list2 \in Seq(Entries) /\ Len(list) \in Nat
  BY InList DEF ListGood
<1>2. Precedes(list2, x, y)
  BY <1>1, StandBefore
<1>3. PICK z \in ToSet(list) : z.client = y.client
  BY FoundIs
<1>4. CASE x.premium /\ ~y.premium
  BY <1>4
<1>5. CASE ~(x.premium /\ ~y.premium)
  <2>1. PICK u, v : Precedes(list, u, v) /\ u.client = x.client /\ v.client = y.client
    BY <1>2, <1>3, <1>5 DEF NoneOvertaken
  <2>2. PICK i \in 1..Len(list), j \in 1..Len(list) : i < j /\ list[i] = u /\ list[j] = v
    BY <1>1, <2>1, PlacesOf
  <2>3. FindClient(list, x.client) = i /\ FindClient(list, y.client) = j
    BY <2>1, <2>2, FoundIs
  <2>4. i # -1
    BY <1>1, <2>2
  <2> QED BY <2>2, <2>3, <2>4
<1> QED BY <1>4, <1>5

\* Whoever's entry is still good keeps its place before those that stood behind it,
\* except for premium clients that join: no clean-up, renewal or removal of an entry
\* changes the order (waitlist.cpp, clientLogin and addClient).
THEOREM InOrder == WaitListSpec => NobodyIsOvertaken
<1> DEFINE A == LET list == CleanUp(waitList)
                IN  \A n, m \in 1..Len(waitList') :
                      LET before == FindClient(list, waitList'[n].client)
                          after == FindClient(list, waitList'[m].client)
                      IN  (n < m /\ waitList'[n].timeout > 0 /\ after # -1) =>
                            \/ before # -1 /\ before < after
                            \/ waitList'[n].premium /\ ~waitList'[m].premium
<1>1. ASSUME WaitListIInv, [WaitListNext]_wvars PROVE A
  <2>1. /\ ListGood(CleanUp(waitList)) /\ ListGood(waitList')
        /\ NoneOvertaken(CleanUp(waitList), waitList')
    BY <1>1, EveryStep, CleanedUpIs DEF Next1, WaitListIInv
  <2> QED BY <2>1, OvertakesNobody
<1>2. WaitListIInv /\ [WaitListNext]_wvars => [A]_wvars
  BY <1>1
<1>3. NobodyIsOvertaken <=> [][A]_wvars
  BY DEF NobodyIsOvertaken
<1> QED BY AlwaysIInv, <1>2, <1>3, PTL DEF WaitListSpec

LEMMA OneMoreOnline ==
  ASSUME WaitListIInv, NEW c \in Client, NEW list, GetsIn(c, list), status'[c] = "online"
  PROVE  /\ Cardinality(PlayersOnline) \in Nat /\ Cardinality(PlayersOnline') \in Nat
         /\ Cardinality(PlayersOnline') <= Cardinality(PlayersOnline) + 1
<1>1. \A d \in Client : d # c => status'[d] = status[d]
  BY DEF WaitListIInv, Typed, GetsIn
<1>2. PlayersOnline \subseteq Client /\ IsFiniteSet(Client)
  BY WaitListAssumption DEF PlayersOnline
<1>3. IsFiniteSet(PlayersOnline)
  BY <1>2, FS_Subset
<1>4. PlayersOnline' \subseteq PlayersOnline \cup {c}
  BY <1>1 DEF PlayersOnline
<1>5. IsFiniteSet(PlayersOnline \cup {c}) /\ Cardinality(PlayersOnline \cup {c}) \in Nat
  BY <1>3, FS_AddElement, FS_CardinalityType
<1>6. IsFiniteSet(PlayersOnline') /\ Cardinality(PlayersOnline') <= Cardinality(PlayersOnline \cup {c})
  BY <1>4, <1>5, FS_Subset
<1>7. Cardinality(PlayersOnline) \in Nat /\ Cardinality(PlayersOnline') \in Nat
  BY <1>3, <1>6, FS_CardinalityType
<1>8. Cardinality(PlayersOnline \cup {c}) <= Cardinality(PlayersOnline) + 1
  <2>1. CASE c \in PlayersOnline
    <3>1. PlayersOnline \cup {c} = PlayersOnline
      BY <2>1
    <3>2. Cardinality(PlayersOnline \cup {c}) = Cardinality(PlayersOnline)
      BY <3>1
    <3> QED BY <1>7, <3>2
  <2>2. CASE c \notin PlayersOnline
    <3>1. Cardinality(PlayersOnline \cup {c}) = Cardinality(PlayersOnline) + 1
      BY <1>3, <2>2, FS_AddElement
    <3> QED BY <1>7, <3>1
  <2> QED BY <2>1, <2>2
<1> QED BY <1>5, <1>6, <1>7, <1>8

LEMMA RoomAtOnce ==
  ASSUME WaitListIInv, NEW c \in Client, LoginAtOnce(c), status'[c] = "online"
  PROVE  Cardinality(PlayersOnline') + Waiting(c) <= MaxPlayers
<1> DEFINE list == CleanUp(waitList)
<1>1. waitList = <<>> /\ Cardinality(PlayersOnline) < MaxPlayers /\ GetsIn(c, waitList)
  BY DEF LoginAtOnce, NoWaiting
<1>2. ListGood(list) /\ \A x : x \in ToSet(list) => x \in ToSet(waitList)
  BY CleanedUpIs DEF WaitListIInv
<1>3. ToSet(waitList) = {}
  BY <1>1 DEF ToSet
<1>4. list \in Seq(Entries) /\ Len(list) \in Nat
  BY <1>2, InList DEF ListGood
<1>5. Len(list) = 0
  <2>1. ~(1 \in 1..Len(list))
    BY <1>2, <1>3, <1>4, InList
  <2> QED BY <1>4, <2>1
<1>6. FindClient(list, c) = -1
  BY <1>2, <1>3, FoundIs
<1>7. Waiting(c) = 0
  BY <1>5, <1>6 DEF Waiting
<1>8. /\ Cardinality(PlayersOnline) \in Nat /\ Cardinality(PlayersOnline') \in Nat
      /\ Cardinality(PlayersOnline') <= Cardinality(PlayersOnline) + 1
  BY <1>1, OneMoreOnline
<1> QED BY <1>1, <1>7, <1>8, WaitListAssumption

LEMMA RoomFromList ==
  ASSUME WaitListIInv, NEW c \in Client, LoginFromList(c), status'[c] = "online"
  PROVE  Cardinality(PlayersOnline') + Waiting(c) <= MaxPlayers
<1> DEFINE list == CleanUp(waitList)
           slot == FindClient(list, c)
<1>1. /\ slot # -1 /\ Cardinality(PlayersOnline) + slot <= MaxPlayers
      /\ GetsIn(c, RemoveAt(list, slot))
  BY DEF LoginFromList, HasPlace
<1>2. slot \in Nat \ {0}
  BY <1>1, CleanedUpIs, FoundIs DEF WaitListIInv
<1>3. Waiting(c) = slot - 1
  BY <1>1 DEF Waiting
<1>4. /\ Cardinality(PlayersOnline) \in Nat /\ Cardinality(PlayersOnline') \in Nat
      /\ Cardinality(PlayersOnline') <= Cardinality(PlayersOnline) + 1
  BY <1>1, OneMoreOnline
<1> HIDE DEF slot
<1> QED BY <1>1, <1>2, <1>3, <1>4, WaitListAssumption

\* Only a login puts a client of no staff online.
LEMMA WhoGetsOnline ==
  ASSUME WaitListIInv, [WaitListNext]_wvars, NEW c \in Client \ Staff,
         status[c] # "online", status'[c] = "online"
  PROVE  LoginAtOnce(c) \/ LoginFromList(c)
<1>1. ASSUME NEW d \in Client, LoginAlways(d) \/ ClientLogin(d) \/ Logout(d) \/ GiveUp(d)
      PROVE  LoginAtOnce(c) \/ LoginFromList(c)
  <2>1. CASE d # c
    <3>1. status'[c] = status[c]
      BY <1>1, <2>1 DEF WaitListIInv, Typed, LoginAlways, ClientLogin, LoginAtOnce, LoginFromList,
                        WaitLonger, JoinList, Logout, GiveUp, GetsIn, TurnedAway
    <3> QED BY <3>1
  <2>2. CASE d = c
    <3>1. ASSUME WaitLonger(c) \/ JoinList(c) \/ Logout(c) \/ GiveUp(c)
          PROVE  status'[c] # "online"
      BY <3>1 DEF WaitListIInv, Typed, WaitLonger, JoinList, Logout, GiveUp, TurnedAway
    <3> QED BY <1>1, <2>2, <3>1 DEF LoginAlways, ClientLogin
  <2> QED BY <2>1, <2>2
<1>2. CASE Tick
  BY <1>2 DEF Tick
<1>3. CASE UNCHANGED wvars
  BY <1>3 DEF wvars
<1> QED BY <1>1, <1>2, <1>3 DEF WaitListNext

\* With whoever is let in, the server has room for everybody who stood before it on
\* the list and had not timed out (waitlist.cpp, clientLogin).
THEOREM PlacesAreKeptFree == WaitListSpec => RoomForThoseAhead
<1> DEFINE A == \A c \in Client \ Staff :
                  (status[c] # "online" /\ status'[c] = "online") =>
                    Cardinality(PlayersOnline') + Waiting(c) <= MaxPlayers
<1>1. ASSUME WaitListIInv, [WaitListNext]_wvars PROVE A
  BY <1>1, WhoGetsOnline, RoomAtOnce, RoomFromList
<1>2. WaitListIInv /\ [WaitListNext]_wvars => [A]_wvars
  BY <1>1
<1>3. RoomForThoseAhead <=> [][A]_wvars
  BY DEF RoomForThoseAhead
<1> QED BY AlwaysIInv, <1>2, <1>3, PTL DEF WaitListSpec
=============================================================================
