-------------------------- MODULE Connection_proofs --------------------------
(****************************************************************************)
(* One connection, its protocol and any number of output messages: what is  *)
(* closed and released, in which order, and what keeps it.                  *)
(*                                                                          *)
(* The methods are functions of the connection's state, and so are the      *)
(* lemmas about them: a method that finds a sound connection leaves one.    *)
(****************************************************************************)
EXTENDS Connection, FiniteSetTheorems, TLAPS

Tasks == Msg \cup {CloseTask, ProtocolTask}

----------------------------------------------------------------------------
(* The queue: what is in it, and what comes before what *)

In(s, t) == \E i \in 1..Len(s) : s[i] = t

Once(s, t) == \A i, j \in 1..Len(s) : (s[i] = t /\ s[j] = t) => i = j

Ahead(s, t, u) == \A i, j \in 1..Len(s) : (s[i] = t /\ s[j] = u) => i < j

\* addTask(): the new task comes last.
LEMMA PostedLast ==
  ASSUME NEW s \in Seq(Tasks), NEW t \in Tasks
  PROVE  /\ Append(s, t) \in Seq(Tasks)
         /\ \A u : In(Append(s, t), u) <=> In(s, u) \/ u = t
         /\ \A u : Once(s, u) /\ (u = t => ~In(s, u)) => Once(Append(s, t), u)
         /\ \A u, v : (Ahead(s, u, v) /\ u # v /\ (u = t => ~In(s, v))) =>
              Ahead(Append(s, t), u, v)
<1> DEFINE q == Append(s, t)
<1>1. /\ q \in Seq(Tasks) /\ Len(q) = Len(s) + 1 /\ Len(s) \in Nat
      /\ \A i \in 1..Len(s) : q[i] = s[i]
      /\ q[Len(s) + 1] = t
  OBVIOUS
<1> HIDE DEF q
<1>2. ASSUME NEW u PROVE In(q, u) <=> In(s, u) \/ u = t
  <2>1. ASSUME In(q, u) PROVE In(s, u) \/ u = t
    <3>1. PICK i \in 1..Len(q) : q[i] = u
      BY <2>1 DEF In
    <3>2. CASE i = Len(s) + 1
      BY <1>1, <3>1, <3>2
    <3>3. CASE i \in 1..Len(s)
      BY <1>1, <3>1, <3>3 DEF In
    <3>4. QED
      BY <1>1, <3>2, <3>3
  <2>2. ASSUME In(s, u) PROVE In(q, u)
    <3>1. PICK i \in 1..Len(s) : s[i] = u
      BY <2>2 DEF In
    <3>2. i \in 1..Len(q) /\ q[i] = u
      BY <1>1, <3>1
    <3>3. QED
      BY <3>2 DEF In
  <2>3. ASSUME u = t PROVE In(q, u)
    <3>1. Len(s) + 1 \in 1..Len(q)
      BY <1>1
    <3>2. QED
      BY <1>1, <2>3, <3>1 DEF In
  <2>4. QED
    BY <2>1, <2>2, <2>3
<1>3. ASSUME NEW u, Once(s, u), u = t => ~In(s, u) PROVE Once(q, u)
  <2> SUFFICES ASSUME NEW i \in 1..Len(q), NEW j \in 1..Len(q), q[i] = u, q[j] = u
               PROVE  i = j
    BY DEF Once
  <2>1. CASE i \in 1..Len(s) /\ j \in 1..Len(s)
    BY <1>1, <1>3, <2>1 DEF Once
  <2>2. CASE u = t
    BY <1>1, <1>3, <2>2 DEF In
  <2>3. CASE u # t
    BY <1>1, <2>1, <2>3
  <2>4. QED
    BY <2>2, <2>3
<1>4. ASSUME NEW u, NEW v, Ahead(s, u, v), u # v, u = t => ~In(s, v)
      PROVE  Ahead(q, u, v)
  <2> SUFFICES ASSUME NEW i \in 1..Len(q), NEW j \in 1..Len(q), q[i] = u, q[j] = v
               PROVE  i < j
    BY DEF Ahead
  <2>1. CASE i \in 1..Len(s) /\ j \in 1..Len(s)
    BY <1>1, <1>4, <2>1 DEF Ahead
  <2>2. CASE i \in 1..Len(s) /\ j = Len(s) + 1
    BY <1>1, <2>2
  <2>3. CASE i = Len(s) + 1
    BY <1>1, <1>4, <2>3 DEF In
  <2>4. QED
    BY <1>1, <2>1, <2>2, <2>3
<1>5. QED
  BY <1>1, <1>2, <1>3, <1>4 DEF q

\* The dispatcher takes the first task.
LEMMA TakenFirst ==
  ASSUME NEW s \in Seq(Tasks), s # <<>>
  PROVE  /\ Tail(s) \in Seq(Tasks) /\ Head(s) \in Tasks
         /\ In(s, Head(s))
         /\ \A u : In(s, u) <=> In(Tail(s), u) \/ u = Head(s)
         /\ \A u : Once(s, u) => Once(Tail(s), u)
         /\ Once(s, Head(s)) => ~In(Tail(s), Head(s))
         /\ \A u, v : Ahead(s, u, v) => Ahead(Tail(s), u, v)
         /\ \A u : Ahead(s, u, Head(s)) => ~In(s, u)
<1> DEFINE q == Tail(s)
<1>1. /\ q \in Seq(Tasks) /\ Len(s) \in Nat \ {0} /\ Len(q) = Len(s) - 1
      /\ Head(s) = s[1] /\ s[1] \in Tasks
      /\ \A i \in 1..Len(q) : q[i] = s[i + 1]
  OBVIOUS
<1> HIDE DEF q
<1>2. In(s, Head(s))
  BY <1>1 DEF In
<1>3. ASSUME NEW u PROVE In(s, u) <=> In(q, u) \/ u = Head(s)
  <2>1. ASSUME In(q, u) PROVE In(s, u)
    <3>1. PICK i \in 1..Len(q) : q[i] = u
      BY <2>1 DEF In
    <3>2. i + 1 \in 1..Len(s) /\ s[i + 1] = u
      BY <1>1, <3>1
    <3>3. QED
      BY <3>2 DEF In
  <2>2. ASSUME In(s, u), u # Head(s) PROVE In(q, u)
    <3>1. PICK i \in 1..Len(s) : s[i] = u
      BY <2>2 DEF In
    <3>2. i - 1 \in 1..Len(q) /\ q[i - 1] = u
      BY <1>1, <2>2, <3>1
    <3>3. QED
      BY <3>2 DEF In
  <2>3. QED
    BY <1>2, <2>1, <2>2
<1>4. ASSUME NEW u, Once(s, u) PROVE Once(q, u)
  BY <1>1, <1>4 DEF Once
<1>5. ASSUME Once(s, Head(s)), In(q, Head(s)) PROVE FALSE
  <2>1. PICK i \in 1..Len(q) : q[i] = Head(s)
    BY <1>5 DEF In
  <2>2. i + 1 \in 1..Len(s) /\ 1 \in 1..Len(s) /\ s[i + 1] = Head(s) /\ s[1] = Head(s)
    BY <1>1, <2>1
  <2>3. i + 1 = 1
    BY <1>5, <2>2 DEF Once
  <2>4. QED
    BY <1>1, <2>3
<1>6. ASSUME NEW u, NEW v, Ahead(s, u, v) PROVE Ahead(q, u, v)
  <2> SUFFICES ASSUME NEW i \in 1..Len(q), NEW j \in 1..Len(q), q[i] = u, q[j] = v
               PROVE  i < j
    BY DEF Ahead
  <2>1. i + 1 \in 1..Len(s) /\ j + 1 \in 1..Len(s) /\ s[i + 1] = u /\ s[j + 1] = v
    BY <1>1
  <2>2. i + 1 < j + 1
    BY <1>6, <2>1 DEF Ahead
  <2>3. QED
    BY <1>1, <2>2
<1>7. ASSUME NEW u, Ahead(s, u, Head(s)) PROVE ~In(s, u)
  BY <1>1, <1>7 DEF Ahead, In
<1>8. QED
  BY <1>1, <1>2, <1>3, <1>4, <1>5, <1>6, <1>7 DEF q

----------------------------------------------------------------------------
(* How many messages refer to the connection *)

InUse(msg) == {m \in Msg : msg[m] # "free"}

Count(msg) == Cardinality(InUse(msg))

LEMMA CountIsNat ==
  ASSUME NEW msg
  PROVE  /\ IsFiniteSet(InUse(msg)) /\ Count(msg) \in Nat
         /\ Count(msg) = 0 <=> \A m \in Msg : msg[m] = "free"
<1>1. IsFiniteSet(InUse(msg))
  BY FS_Subset, ConnectionAssumption DEF InUse
<1>2. Count(msg) \in Nat /\ (Count(msg) = 0 <=> InUse(msg) = {})
  BY <1>1, FS_CardinalityType, FS_EmptySet DEF Count
<1>3. QED
  BY <1>1, <1>2 DEF InUse

LEMMA CountMoves ==
  ASSUME NEW msg \in [Msg -> MsgStates], NEW m \in Msg, NEW state \in MsgStates
  PROVE  LET changed == [msg EXCEPT ![m] = state]
         IN  /\ changed \in [Msg -> MsgStates]
             /\ (msg[m] = "free" <=> state = "free") => Count(changed) = Count(msg)
             /\ (msg[m] = "free" /\ state # "free") => Count(changed) = Count(msg) + 1
             /\ (msg[m] # "free" /\ state = "free") => Count(changed) = Count(msg) - 1
<1> DEFINE changed == [msg EXCEPT ![m] = state]
<1>1. /\ changed \in [Msg -> MsgStates] /\ changed[m] = state
      /\ \A n \in Msg \ {m} : changed[n] = msg[n]
  OBVIOUS
<1> HIDE DEF changed
<1>2. ASSUME msg[m] = "free" <=> state = "free" PROVE Count(changed) = Count(msg)
  <2>1. InUse(changed) = InUse(msg)
    BY <1>1, <1>2 DEF InUse
  <2>2. QED
    BY <2>1 DEF Count
<1>3. ASSUME msg[m] = "free", state # "free" PROVE Count(changed) = Count(msg) + 1
  <2>1. InUse(changed) = InUse(msg) \cup {m} /\ m \notin InUse(msg)
    BY <1>1, <1>3 DEF InUse
  <2>2. QED
    BY <2>1, CountIsNat, FS_AddElement DEF Count
<1>4. ASSUME msg[m] # "free", state = "free" PROVE Count(changed) = Count(msg) - 1
  <2>1. InUse(msg) = InUse(changed) \cup {m} /\ m \notin InUse(changed)
    BY <1>1, <1>4 DEF InUse
  <2>2. Count(msg) = Count(changed) + 1
    BY <2>1, CountIsNat, FS_AddElement DEF Count
  <2>3. QED
    BY <2>2, CountIsNat
<1>5. QED
  BY <1>1, <1>2, <1>3, <1>4 DEF changed

----------------------------------------------------------------------------
(* The inductive invariant *)

\* An operation on an open socket is pending.
OperationsPend(c) ==
  /\ c.socket = "open" /\ c.writeOp # NoMsg => c.pendingWrite = 1
  /\ c.socket = "open" /\ c.readOp # "none" => c.pendingRead = 1

\* A socket is closed only under a connection that is to be closed, and it is closed
\* when a write failed.
ClosedInOrder(c) ==
  /\ c.socket # "open" => c.state # "OPEN"
  /\ c.writeError => c.socket # "open"

\* A message is queued for release, or being released, once, when it is on its way
\* back, and only then; closeConnectionTask is queued once, in REQUEST_CLOSE, and the
\* protocol's tasks come before it.
QueueTells(c) ==
  /\ \A t \in Msg \cup {CloseTask} : Once(c.tasks, t)
  /\ \A m \in Msg : In(c.tasks, m) => c.msg[m] = "releasing" /\ m # releasing
  /\ releasing \in Msg \cup {NoMsg}
  /\ releasing # NoMsg => c.msg[releasing] = "releasing"
  /\ c.writeOp # NoMsg => c.msg[c.writeOp] = "writing"
  /\ In(c.tasks, CloseTask) => c.state = "REQUEST_CLOSE"
  /\ accepting /\ c.state = "REQUEST_CLOSE" => In(c.tasks, CloseTask)
  /\ In(c.tasks, ProtocolTask) => c.protocol = "live"
  /\ Ahead(c.tasks, ProtocolTask, CloseTask)

\* The protocol is released by closeConnectionTask, the connection at the end of it.
StateTells(c) ==
  /\ c.m_protocol <=> c.protocol = "live"
  /\ c.m_protocol => c.state \in {"OPEN", "REQUEST_CLOSE"}
  /\ c.release # "none" <=> c.state = "CLOSED"
  /\ c.state = "CLOSED" => c.socket # "open"

\* The counts keep what a message refers to.
References(c) ==
  ~raced =>
    /\ c.refCount = Count(c.msg) /\ c.protocolRef = c.refCount
    /\ Count(c.msg) # 0 => /\ c.protocol \in {"live", "released"}
                           /\ c.release \notin {"posted", "done"}

Sound(c) ==
  /\ c \in Connections
  /\ OperationsPend(c)
  /\ QueueTells(c)
  /\ StateTells(c)
  /\ References(c)

\* A connection that was not accepted yet is as it was made.
NotAcceptedYet ==
  conn.state = "OPEN" /\ conn.readOp = "none" => conn = NewConnection

IInv ==
  /\ TypeOK
  /\ Sound(conn)
  /\ ClosedInOrder(conn)
  /\ NotAcceptedYet
  /\ overlap => raced

----------------------------------------------------------------------------
(* The methods *)

LEMMA Distinct ==
  /\ NoMsg \notin Msg /\ CloseTask \notin Msg /\ ProtocolTask \notin Msg
  /\ CloseTask # ProtocolTask
BY ConnectionAssumption DEF CloseTask, ProtocolTask

\* The queue after a task that it did not hold was posted, or refused.
LEMMA Posted ==
  ASSUME NEW s \in Seq(Tasks), NEW t \in Msg \cup {CloseTask}, ~In(s, t),
         \A u \in Msg \cup {CloseTask} : Once(s, u),
         Ahead(s, ProtocolTask, CloseTask)
  PROVE  LET q == IF accepting THEN Append(s, t) ELSE s
         IN  /\ q \in Seq(Tasks)
             /\ \A u \in Msg \cup {CloseTask} : Once(q, u)
             /\ \A u \in Tasks : In(q, u) <=> In(s, u) \/ (u = t /\ accepting)
             /\ Ahead(q, ProtocolTask, CloseTask)
<1>1. CASE accepting
  <2>1. t \in Tasks /\ t # ProtocolTask
    BY Distinct DEF Tasks
  <2>2. Append(s, t) \in Seq(Tasks) /\ \A u : In(Append(s, t), u) <=> In(s, u) \/ u = t
    BY <2>1, PostedLast
  <2>3. \A u \in Msg \cup {CloseTask} : Once(Append(s, t), u)
    BY <2>1, PostedLast
  <2>4. Ahead(Append(s, t), ProtocolTask, CloseTask)
    BY <2>1, PostedLast, Distinct
  <2>5. QED
    BY <1>1, <2>2, <2>3, <2>4
<1>2. CASE ~accepting
  BY <1>2
<1>3. QED
  BY <1>1, <1>2

\* What closing leaves alone.
SameOperations(c, d) ==
  /\ d.readOp = c.readOp /\ d.writeOp = c.writeOp
  /\ d.readError = c.readError /\ d.writeError = c.writeError
  /\ d.readFired = c.readFired /\ d.writeFired = c.writeFired
  /\ d.m_protocol = c.m_protocol /\ d.protocol = c.protocol
  /\ d.msg = c.msg

LEMMA CloseConnectionSound ==
  ASSUME NEW c, Sound(c)
  PROVE  LET d == CloseConnection(c)
         IN  /\ Sound(d) /\ SameOperations(c, d)
             /\ d.state # "OPEN"
             /\ d.socket = c.socket /\ d.pendingRead = c.pendingRead
             /\ d.pendingWrite = c.pendingWrite
<1> DEFINE d == CloseConnection(c)
           tasks == IF accepting THEN Append(c.tasks, CloseTask) ELSE c.tasks
<1>1. CASE c.state \in {"CLOSED", "REQUEST_CLOSE"}
  BY <1>1 DEF CloseConnection, SameOperations
<1>2. CASE c.state \notin {"CLOSED", "REQUEST_CLOSE"}
  <2>1. d = [c EXCEPT !.state = "REQUEST_CLOSE", !.tasks = tasks]
    BY <1>2 DEF CloseConnection, AddTask, Sound, Connections
  <2>2. c.tasks \in Seq(Tasks) /\ c.state \in {"OPEN", "CLOSING"}
    BY <1>2 DEF Sound, Connections, Tasks
  <2>3. ~In(c.tasks, CloseTask)
    BY <1>2 DEF Sound, QueueTells
  <2>4. /\ tasks \in Seq(Tasks)
        /\ \A t \in Msg \cup {CloseTask} : Once(tasks, t)
        /\ \A t \in Tasks : In(tasks, t) <=> In(c.tasks, t) \/ (t = CloseTask /\ accepting)
        /\ Ahead(tasks, ProtocolTask, CloseTask)
    BY <2>2, <2>3, Posted DEF Sound, QueueTells
  <2> HIDE DEF tasks
  <2>5. /\ d \in Connections /\ SameOperations(c, d)
        /\ d.state = "REQUEST_CLOSE" /\ d.tasks = tasks
        /\ d.socket = c.socket /\ d.pendingRead = c.pendingRead
        /\ d.pendingWrite = c.pendingWrite
        /\ d.release = c.release /\ d.refCount = c.refCount /\ d.protocolRef = c.protocolRef
    BY <2>1, <2>4 DEF Sound, Connections, SameOperations, Tasks
  <2> HIDE DEF d
  <2>6. OperationsPend(d)
    BY <2>5 DEF Sound, OperationsPend, SameOperations
  <2>7. QueueTells(d)
    BY <2>4, <2>5, Distinct DEF Sound, QueueTells, SameOperations, Tasks
  <2>8. StateTells(d)
    BY <2>2, <2>5 DEF Sound, StateTells, SameOperations
  <2>9. References(d)
    BY <2>5 DEF Sound, References, SameOperations
  <2>10. QED
    BY <2>5, <2>6, <2>7, <2>8, <2>9 DEF Sound, d
<1>3. QED
  BY <1>1, <1>2

LEMMA CloseSocketSound ==
  ASSUME NEW c, Sound(c)
  PROVE  LET d == CloseSocket(c)
         IN  /\ Sound(d) /\ SameOperations(c, d)
             /\ d.state = c.state /\ d.socket # "open" /\ d.tasks = c.tasks
<1> DEFINE d == CloseSocket(c)
<1>1. CASE c.socket # "open"
  BY <1>1 DEF CloseSocket, SameOperations
<1>2. CASE c.socket = "open"
  <2>1. /\ d \in Connections /\ SameOperations(c, d)
        /\ d.state = c.state /\ d.socket = "closed" /\ d.tasks = c.tasks
        /\ d.release = c.release /\ d.refCount = c.refCount /\ d.protocolRef = c.protocolRef
    BY <1>2 DEF CloseSocket, Sound, Connections, SameOperations
  <2> HIDE DEF d
  <2>2. OperationsPend(d)
    BY <2>1 DEF OperationsPend
  <2>3. QueueTells(d)
    BY <2>1 DEF Sound, QueueTells, SameOperations
  <2>4. StateTells(d)
    BY <2>1 DEF Sound, StateTells, SameOperations
  <2>5. References(d)
    BY <2>1 DEF Sound, References, SameOperations
  <2>6. QED
    BY <2>1, <2>2, <2>3, <2>4, <2>5 DEF Sound, d
<1>3. QED
  BY <1>1, <1>2

\* A message that is neither with the socket nor on its way back is dropped.
LEMMA DropMessageSound ==
  ASSUME NEW c, Sound(c), NEW m \in Msg, c.msg[m] \in {"held", "waiting", "writing"},
         c.writeOp # m
  PROVE  LET d == DropMessage(c, m)
         IN  /\ Sound(d)
             /\ d.state = c.state /\ d.socket = c.socket
             /\ d.readOp = c.readOp /\ d.writeOp = c.writeOp
             /\ d.pendingRead = c.pendingRead /\ d.pendingWrite = c.pendingWrite
             /\ d.readError = c.readError /\ d.writeError = c.writeError
             /\ d.m_protocol = c.m_protocol /\ d.protocol = c.protocol
<1> DEFINE d == DropMessage(c, m)
           tasks == IF accepting THEN Append(c.tasks, m) ELSE c.tasks
           state == IF accepting THEN "releasing" ELSE "leaked"
           msg == [c.msg EXCEPT ![m] = state]
<1>1. d = [c EXCEPT !.msg = msg, !.tasks = tasks]
  BY DEF DropMessage, AddTask, Sound, Connections
<1>2. c.tasks \in Seq(Tasks) /\ c.msg \in [Msg -> MsgStates]
  BY DEF Sound, Connections, Tasks
<1>3. ~In(c.tasks, m) /\ m # releasing
  BY Distinct DEF Sound, QueueTells
<1>4. /\ tasks \in Seq(Tasks)
      /\ \A t \in Msg \cup {CloseTask} : Once(tasks, t)
      /\ \A t \in Tasks : In(tasks, t) <=> In(c.tasks, t) \/ (t = m /\ accepting)
      /\ Ahead(tasks, ProtocolTask, CloseTask)
  BY <1>2, <1>3, Posted DEF Sound, QueueTells
<1> HIDE DEF tasks
<1>5. /\ state \in MsgStates \ {"free"}
      /\ accepting => state = "releasing"
  BY DEF MsgStates
<1> HIDE DEF state
<1>6. /\ msg \in [Msg -> MsgStates] /\ msg[m] = state
      /\ \A n \in Msg \ {m} : msg[n] = c.msg[n]
      /\ Count(msg) = Count(c.msg)
  BY <1>2, <1>5, CountMoves
<1> HIDE DEF msg
<1>7. /\ d \in Connections /\ d.msg = msg /\ d.tasks = tasks
      /\ d.state = c.state /\ d.socket = c.socket
      /\ d.readOp = c.readOp /\ d.writeOp = c.writeOp
      /\ d.pendingRead = c.pendingRead /\ d.pendingWrite = c.pendingWrite
      /\ d.readError = c.readError /\ d.writeError = c.writeError
      /\ d.m_protocol = c.m_protocol /\ d.protocol = c.protocol
      /\ d.release = c.release /\ d.refCount = c.refCount /\ d.protocolRef = c.protocolRef
  BY <1>1, <1>4, <1>6 DEF Sound, Connections, Tasks
<1> HIDE DEF d
<1>8. OperationsPend(d)
  BY <1>7 DEF Sound, OperationsPend
<1>9. QueueTells(d)
  <2>1. c.writeOp \in Msg \cup {NoMsg} /\ (releasing # NoMsg => releasing # m)
    BY <1>3 DEF Sound, Connections
  <2>2. ASSUME NEW n \in Msg, In(tasks, n) PROVE msg[n] = "releasing" /\ n # releasing
    BY <1>3, <1>4, <1>5, <1>6, <2>2, Distinct DEF Sound, QueueTells, Tasks
  <2>3. releasing # NoMsg => msg[releasing] = "releasing"
    BY <1>6, <2>1 DEF Sound, QueueTells
  <2>4. c.writeOp # NoMsg => msg[c.writeOp] = "writing"
    BY <1>6, <2>1 DEF Sound, QueueTells
  <2>5. QED
    BY <1>4, <1>7, <2>2, <2>3, <2>4, Distinct DEF Sound, QueueTells, Tasks
<1>10. StateTells(d)
  BY <1>7 DEF Sound, StateTells
<1>11. References(d)
  BY <1>6, <1>7 DEF Sound, References
<1>12. QED
  BY <1>7, <1>8, <1>9, <1>10, <1>11 DEF Sound, d

\* What sending leaves alone.
SameReads(c, d) ==
  /\ d.state = c.state /\ d.socket = c.socket
  /\ d.readOp = c.readOp /\ d.pendingRead = c.pendingRead
  /\ d.readError = c.readError /\ d.writeError = c.writeError
  /\ d.m_protocol = c.m_protocol /\ d.protocol = c.protocol

LEMMA SendSound ==
  ASSUME NEW c, Sound(c), NEW m \in Msg, c.msg[m] \in {"held", "waiting"}
  PROVE  Sound(Send(c, m)) /\ SameReads(c, Send(c, m))
<1>1. c.writeOp # m
  BY Distinct DEF Sound, QueueTells
<1>2. CASE c.state # "OPEN" \/ c.writeError
  <2>1. Send(c, m) = DropMessage(c, m)
    BY <1>2 DEF Send
  <2>2. QED
    BY <1>1, <2>1, DropMessageSound DEF SameReads
<1>3. CASE c.state = "OPEN" /\ ~c.writeError
  <2> DEFINE d == Send(c, m)
             state == IF c.pendingWrite = 0 THEN "writing" ELSE "waiting"
             msg == [c.msg EXCEPT ![m] = state]
             writeOp == IF c.pendingWrite = 0 THEN m ELSE c.writeOp
  <2>1. /\ c.msg \in [Msg -> MsgStates] /\ c.writeOp \in Msg \cup {NoMsg}
        /\ c.pendingWrite \in {0, 1}
    BY DEF Sound, Connections
  <2>2. /\ msg \in [Msg -> MsgStates] /\ msg[m] = state /\ Count(msg) = Count(c.msg)
        /\ \A n \in Msg \ {m} : msg[n] = c.msg[n]
        /\ state \in {"writing", "waiting"}
    BY <2>1, CountMoves DEF MsgStates
  <2>3. d.msg = msg /\ d.writeOp = writeOp /\ (c.pendingWrite = 0 => state = "writing")
    BY <1>3, <2>1 DEF Send, Sound, Connections
  <2> HIDE DEF msg, state
  <2>4. /\ d \in Connections /\ SameReads(c, d)
        /\ d.tasks = c.tasks /\ d.release = c.release
        /\ d.refCount = c.refCount /\ d.protocolRef = c.protocolRef
        /\ d.pendingWrite = 1
    <3>1. CASE c.pendingWrite = 0
      <4>1. d = [c EXCEPT !.pendingWrite = 1, !.writeTimer = TRUE, !.writeOp = m, !.msg = msg]
        BY <1>3, <3>1 DEF Send, Sound, Connections, msg, state
      <4> HIDE DEF d
      <4>2. QED
        BY <2>2, <4>1 DEF Sound, Connections, SameReads
    <3>2. CASE c.pendingWrite = 1
      <4>1. d = [c EXCEPT !.msg = msg]
        BY <1>3, <3>2 DEF Send, Sound, Connections, msg, state
      <4> HIDE DEF d
      <4>2. QED
        BY <2>2, <3>2, <4>1 DEF Sound, Connections, SameReads
    <3>3. QED
      BY <2>1, <3>1, <3>2
  <2> HIDE DEF d
  <2>5. OperationsPend(d)
    BY <2>4 DEF Sound, OperationsPend, SameReads
  <2>6. QueueTells(d)
    <3>1. ~In(c.tasks, m) /\ m # releasing
      BY Distinct DEF Sound, QueueTells
    <3>2. d.writeOp # NoMsg => d.msg[d.writeOp] = "writing"
      BY <1>1, <2>1, <2>2, <2>3 DEF Sound, QueueTells
    <3>3. QED
      BY <2>2, <2>3, <2>4, <3>1, <3>2 DEF Sound, QueueTells, SameReads
  <2>7. StateTells(d)
    BY <2>4 DEF Sound, StateTells, SameReads
  <2>8. References(d)
    BY <2>2, <2>3, <2>4 DEF Sound, References, SameReads
  <2>9. QED
    BY <2>4, <2>5, <2>6, <2>7, <2>8 DEF Sound, d
<1>4. QED
  BY <1>2, <1>3

LEMMA GetMessageSound ==
  ASSUME NEW c, Sound(c), NEW m \in Msg, c.msg[m] = "free", c.protocol = "live"
  PROVE  /\ Sound(GetMessage(c, m)) /\ SameReads(c, GetMessage(c, m))
         /\ GetMessage(c, m).msg[m] = "held"
<1> DEFINE d == GetMessage(c, m)
           msg == [c.msg EXCEPT ![m] = "held"]
           protocolRef == c.protocolRef + 1
           refCount == c.refCount + 1
<1>1. c.msg \in [Msg -> MsgStates] /\ protocolRef \in Int /\ refCount \in Int
  BY DEF Sound, Connections
<1>2. /\ msg \in [Msg -> MsgStates] /\ msg[m] = "held" /\ Count(msg) = Count(c.msg) + 1
      /\ \A n \in Msg \ {m} : msg[n] = c.msg[n]
  BY <1>1, CountMoves DEF MsgStates
<1>3. d = [c EXCEPT !.protocolRef = protocolRef, !.refCount = refCount, !.msg = msg]
  BY DEF GetMessage, Sound, Connections
<1> HIDE DEF msg, d
<1>4. /\ d \in Connections /\ SameReads(c, d) /\ d.msg = msg
      /\ d.tasks = c.tasks /\ d.release = c.release
      /\ d.refCount = c.refCount + 1 /\ d.protocolRef = c.protocolRef + 1
      /\ d.pendingWrite = c.pendingWrite /\ d.writeOp = c.writeOp
  BY <1>1, <1>2, <1>3 DEF Sound, Connections, SameReads
<1>5. OperationsPend(d)
  BY <1>4 DEF Sound, OperationsPend, SameReads
<1>6. QueueTells(d)
  <2>1. ~In(c.tasks, m) /\ m # releasing /\ c.writeOp # m /\ c.writeOp \in Msg \cup {NoMsg}
    BY Distinct DEF Sound, QueueTells, Connections
  <2>2. QED
    BY <1>2, <1>4, <2>1 DEF Sound, QueueTells, SameReads
<1>7. StateTells(d)
  BY <1>4 DEF Sound, StateTells, SameReads
<1>8. References(d)
  <2>1. d.release = "none" /\ d.protocol = "live"
    BY <1>4 DEF Sound, StateTells, SameReads, Connections
  <2>2. QED
    BY <1>2, <1>4, <2>1 DEF Sound, References
<1>9. QED
  BY <1>2, <1>4, <1>5, <1>6, <1>7, <1>8 DEF Sound, d

\* A message is taken and sent at once.
LEMMA AnswerSound ==
  ASSUME NEW c, Sound(c), NEW m \in Msg, c.msg[m] = "free", c.protocol = "live"
  PROVE  Sound(Send(GetMessage(c, m), m)) /\ SameReads(c, Send(GetMessage(c, m), m))
<1> DEFINE g == GetMessage(c, m)
<1>1. Sound(g) /\ SameReads(c, g) /\ g.msg[m] = "held"
  BY GetMessageSound
<1> HIDE DEF g
<1>2. Sound(Send(g, m)) /\ SameReads(g, Send(g, m))
  BY <1>1, SendSound
<1>3. QED
  BY <1>1, <1>2 DEF SameReads, g

\* The first packet makes the protocol.
LEMMA MadeSound ==
  ASSUME NEW c, Sound(c), c.state = "OPEN"
  PROVE  LET d == [c EXCEPT !.m_protocol = TRUE, !.protocol = "live"]
         IN  /\ Sound(d)
             /\ d.state = c.state /\ d.socket = c.socket
             /\ d.readOp = c.readOp /\ d.pendingRead = c.pendingRead
             /\ d.readError = c.readError /\ d.writeError = c.writeError
             /\ d.protocol = "live" /\ d.msg = c.msg
<1> DEFINE d == [c EXCEPT !.m_protocol = TRUE, !.protocol = "live"]
<1>1. /\ d \in Connections /\ d.m_protocol = TRUE /\ d.protocol = "live"
      /\ d.state = c.state /\ d.socket = c.socket
      /\ d.readOp = c.readOp /\ d.pendingRead = c.pendingRead
      /\ d.writeOp = c.writeOp /\ d.pendingWrite = c.pendingWrite
      /\ d.readError = c.readError /\ d.writeError = c.writeError
      /\ d.msg = c.msg /\ d.tasks = c.tasks /\ d.release = c.release
      /\ d.refCount = c.refCount /\ d.protocolRef = c.protocolRef
  BY DEF Sound, Connections
<1> HIDE DEF d
<1>2. OperationsPend(d)
  BY <1>1 DEF Sound, OperationsPend
<1>3. QueueTells(d)
  BY <1>1 DEF Sound, QueueTells
<1>4. StateTells(d)
  BY <1>1 DEF Sound, StateTells
<1>5. References(d)
  BY <1>1 DEF Sound, References
<1>6. QED
  BY <1>1, <1>2, <1>3, <1>4, <1>5 DEF Sound, d

\* A task bound to the protocol is posted before closeConnectionTask.
LEMMA ProtocolTaskSound ==
  ASSUME NEW c, Sound(c), c.state = "OPEN", c.protocol = "live"
  PROVE  Sound(AddTask(c, ProtocolTask)) /\ SameReads(c, AddTask(c, ProtocolTask))
<1>1. CASE ~accepting
  BY <1>1 DEF AddTask, SameReads
<1>2. CASE accepting
  <2> DEFINE d == AddTask(c, ProtocolTask)
             tasks == Append(c.tasks, ProtocolTask)
  <2>1. d = [c EXCEPT !.tasks = tasks] /\ c.tasks \in Seq(Tasks)
    BY <1>2 DEF AddTask, Sound, Connections, Tasks
  <2>2. ~In(c.tasks, CloseTask) /\ ProtocolTask \in Tasks
    BY DEF Sound, QueueTells, Tasks
  <2>3. /\ tasks \in Seq(Tasks)
        /\ \A u : In(tasks, u) <=> In(c.tasks, u) \/ u = ProtocolTask
    BY <2>1, <2>2, PostedLast
  <2>4. \A u \in Msg \cup {CloseTask} : Once(tasks, u)
    BY <2>1, <2>2, PostedLast, Distinct DEF Sound, QueueTells
  <2>5. Ahead(tasks, ProtocolTask, CloseTask)
    BY <2>1, <2>2, PostedLast, Distinct DEF Sound, QueueTells
  <2> HIDE DEF tasks, d
  <2>6. /\ d \in Connections /\ SameReads(c, d) /\ d.tasks = tasks
        /\ d.msg = c.msg /\ d.release = c.release
        /\ d.refCount = c.refCount /\ d.protocolRef = c.protocolRef
        /\ d.pendingWrite = c.pendingWrite /\ d.writeOp = c.writeOp
    BY <2>1, <2>3 DEF Sound, Connections, SameReads, Tasks
  <2>7. OperationsPend(d)
    BY <2>6 DEF Sound, OperationsPend, SameReads
  <2>8. QueueTells(d)
    BY <2>3, <2>4, <2>5, <2>6, Distinct DEF Sound, QueueTells, SameReads
  <2>9. StateTells(d)
    BY <2>6 DEF Sound, StateTells, SameReads
  <2>10. References(d)
    BY <2>6 DEF Sound, References, SameReads
  <2>11. QED
    BY <2>6, <2>7, <2>8, <2>9, <2>10 DEF Sound, d
<1>3. QED
  BY <1>1, <1>2

LEMMA StartReadSound ==
  ASSUME NEW c, Sound(c), c.pendingRead = 0, NEW what \in {"header", "packet"}
  PROVE  LET d == StartRead(c, what)
         IN  /\ Sound(d)
             /\ d.state = c.state /\ d.socket = c.socket
             /\ d.readOp = what /\ d.writeError = c.writeError
<1> DEFINE d == StartRead(c, what)
           pending == c.pendingRead + 1
<1>1. pending = 1
  OBVIOUS
<1>2. d = [c EXCEPT !.readOp = what, !.readTimer = TRUE, !.pendingRead = pending]
  BY DEF StartRead
<1> HIDE DEF pending
<1> HIDE DEF d
<1>3. d = [c EXCEPT !.readOp = what, !.readTimer = TRUE, !.pendingRead = 1]
  BY <1>1, <1>2
<1>4. /\ d \in Connections /\ d.readOp = what /\ d.pendingRead = 1
      /\ d.state = c.state /\ d.socket = c.socket
      /\ d.m_protocol = c.m_protocol /\ d.protocol = c.protocol
      /\ d.writeOp = c.writeOp /\ d.pendingWrite = c.pendingWrite
      /\ d.writeError = c.writeError
      /\ d.msg = c.msg /\ d.tasks = c.tasks /\ d.release = c.release
      /\ d.refCount = c.refCount /\ d.protocolRef = c.protocolRef
  <2>1. c \in Connections
    BY DEF Sound
  <2>2. d \in Connections
    BY <1>3, <2>1 DEF Connections
  <2>3. d.readOp = what /\ d.pendingRead = 1
    BY <1>3, <2>1 DEF Connections
  <2>4. QED
    BY <1>3, <2>1, <2>2, <2>3 DEF Connections
<1>5. OperationsPend(d)
  BY <1>4 DEF Sound, OperationsPend
<1>6. QueueTells(d)
  BY <1>4 DEF Sound, QueueTells
<1>7. StateTells(d)
  BY <1>4 DEF Sound, StateTells
<1>8. References(d)
  BY <1>4 DEF Sound, References
<1>9. QED
  BY <1>4, <1>5, <1>6, <1>7, <1>8 DEF Sound, d

\* What is neither an operation nor an error does not matter here.
SameObjects(c, d) ==
  /\ d.state = c.state /\ d.socket = c.socket
  /\ d.m_protocol = c.m_protocol /\ d.protocol = c.protocol
  /\ d.release = c.release /\ d.refCount = c.refCount /\ d.protocolRef = c.protocolRef
  /\ d.msg = c.msg /\ d.tasks = c.tasks
  /\ d.writeOp \in {c.writeOp, NoMsg}

LEMMA SameObjectsSound ==
  ASSUME NEW c, NEW d, Sound(c), d \in Connections, SameObjects(c, d), OperationsPend(d)
  PROVE  Sound(d)
<1>1. QueueTells(d)
  BY DEF Sound, QueueTells, SameObjects
<1>2. StateTells(d)
  BY DEF Sound, StateTells, SameObjects
<1>3. References(d)
  BY DEF Sound, References, SameObjects
<1>4. QED
  BY <1>1, <1>2, <1>3 DEF Sound

LEMMA HandleReadErrorSound ==
  ASSUME NEW c, Sound(c), NEW error
  PROVE  LET d == HandleReadError(c, error)
         IN  /\ Sound(d) /\ d.readError
             /\ d.state = "OPEN" => c.state = "OPEN"
             /\ d.socket = c.socket /\ d.writeError = c.writeError
<1> DEFINE e == IF error = "aborted" THEN c ELSE CloseConnection(c)
           d == HandleReadError(c, error)
<1>1. /\ Sound(e) /\ e.socket = c.socket /\ e.writeError = c.writeError
      /\ e.state = "OPEN" => c.state = "OPEN"
  BY CloseConnectionSound DEF SameOperations
<1>2. d = [e EXCEPT !.readError = TRUE]
  BY DEF HandleReadError
<1> HIDE DEF d, e
<1>3. /\ d \in Connections /\ SameObjects(e, d) /\ d.readError /\ d.writeError = e.writeError
      /\ d.readOp = e.readOp /\ d.writeOp = e.writeOp
      /\ d.pendingRead = e.pendingRead /\ d.pendingWrite = e.pendingWrite
  BY <1>1, <1>2 DEF Sound, Connections, SameObjects
<1>4. OperationsPend(d)
  BY <1>1, <1>3 DEF Sound, OperationsPend, SameObjects
<1>5. QED
  BY <1>1, <1>3, <1>4, SameObjectsSound DEF SameObjects, d

LEMMA HandleWriteErrorSound ==
  ASSUME NEW c, Sound(c), NEW error
  PROVE  LET d == HandleWriteError(c, error)
         IN  /\ Sound(d) /\ d.writeError
             /\ d.state = "OPEN" => c.state = "OPEN"
             /\ d.socket = c.socket
<1> DEFINE e == IF error = "aborted" THEN c ELSE CloseConnection(c)
           d == HandleWriteError(c, error)
<1>1. /\ Sound(e) /\ e.socket = c.socket
      /\ e.state = "OPEN" => c.state = "OPEN"
  BY CloseConnectionSound DEF SameOperations
<1>2. d = [e EXCEPT !.writeError = TRUE]
  BY DEF HandleWriteError
<1> HIDE DEF d, e
<1>3. /\ d \in Connections /\ SameObjects(e, d) /\ d.writeError
      /\ d.readOp = e.readOp /\ d.writeOp = e.writeOp
      /\ d.pendingRead = e.pendingRead /\ d.pendingWrite = e.pendingWrite
  BY <1>1, <1>2 DEF Sound, Connections, SameObjects
<1>4. OperationsPend(d)
  BY <1>1, <1>3 DEF Sound, OperationsPend, SameObjects
<1>5. QED
  BY <1>1, <1>3, <1>4, SameObjectsSound DEF SameObjects, d

\* A handler that hangs up closes the socket and asks for the rest.
LEMMA HangUpSound ==
  ASSUME NEW c, Sound(c)
  PROVE  LET d == CloseConnection(CloseSocket(c))
         IN  Sound(d) /\ ClosedInOrder(d) /\ d.state # "OPEN" /\ SameOperations(c, d)
<1> DEFINE e == CloseSocket(c)
<1>1. Sound(e) /\ e.socket # "open" /\ SameOperations(c, e)
  BY CloseSocketSound
<1> HIDE DEF e
<1> DEFINE d == CloseConnection(e)
<1>2. Sound(d) /\ d.state # "OPEN" /\ d.socket = e.socket /\ SameOperations(e, d)
  BY <1>1, CloseConnectionSound
<1> HIDE DEF d
<1>3. ClosedInOrder(d) /\ SameOperations(c, d)
  BY <1>1, <1>2 DEF ClosedInOrder, SameOperations
<1>4. QED
  BY <1>2, <1>3 DEF d, e

LEMMA ReceiveSound ==
  ASSUME NEW c, Sound(c), c.state = "OPEN", c.pendingRead = 0,
         NEW answer \in Msg \cup {NoMsg}, answer # NoMsg => c.msg[answer] = "free",
         NEW task \in BOOLEAN, NEW close \in BOOLEAN
  PROVE  LET d == Receive(c, answer, task, close)
         IN  /\ Sound(d) /\ d.pendingRead = 0
             /\ d.socket = c.socket /\ d.writeError = c.writeError
<1> DEFINE made == [c EXCEPT !.m_protocol = TRUE, !.protocol = "live"]
           answered == IF answer = NoMsg THEN made ELSE Send(GetMessage(made, answer), answer)
           posted == IF task THEN AddTask(answered, ProtocolTask) ELSE answered
           d == IF close THEN CloseConnection(posted) ELSE posted
<1>1. Receive(c, answer, task, close) = d
  BY DEF Receive
<1>2. /\ Sound(made) /\ made.state = "OPEN" /\ made.pendingRead = 0 /\ made.protocol = "live"
      /\ made.socket = c.socket /\ made.writeError = c.writeError /\ made.msg = c.msg
  BY MadeSound
<1> HIDE DEF made
<1>3. Sound(answered) /\ SameReads(made, answered)
  BY <1>2, AnswerSound DEF SameReads
<1> HIDE DEF answered
<1>4. Sound(posted) /\ SameReads(made, posted)
  <2>1. CASE task
    <3>1. answered.state = "OPEN" /\ answered.protocol = "live"
      BY <1>2, <1>3 DEF SameReads
    <3>2. Sound(AddTask(answered, ProtocolTask)) /\ SameReads(answered, AddTask(answered, ProtocolTask))
      BY <1>3, <3>1, ProtocolTaskSound
    <3>3. QED
      BY <1>3, <2>1, <3>2 DEF SameReads
  <2>2. CASE ~task
    BY <1>3, <2>2
  <2>3. QED
    BY <2>1, <2>2
<1> HIDE DEF posted
<1>5. /\ Sound(d) /\ d.pendingRead = posted.pendingRead
      /\ d.socket = posted.socket /\ d.writeError = posted.writeError
  BY <1>4, CloseConnectionSound DEF SameOperations
<1>6. QED
  BY <1>1, <1>2, <1>4, <1>5 DEF SameReads

----------------------------------------------------------------------------
(* The steps *)

\* What a step must show.
StepSound ==
  /\ Sound(conn')
  /\ ClosedInOrder(conn')
  /\ conn'.state = "OPEN" => conn'.readOp # "none"
  /\ (conn.socket = "open" /\ conn'.socket # "open" /\ conn'.writeOp # NoMsg) =>
       conn.readFired \/ conn.writeFired

LEMMA Accepted ==
  ASSUME IInv
  PROVE  conn \in Connections /\ (conn.socket = "open" \/ conn.state # "OPEN")
BY DEF IInv, Sound, ClosedInOrder

LEMMA NewConnectionSound ==
  ASSUME releasing = NoMsg
  PROVE  Sound(NewConnection) /\ ClosedInOrder(NewConnection)
<1> DEFINE c == NewConnection
<1>1. /\ c.state = "OPEN" /\ c.socket = "open" /\ c.writeOp = NoMsg /\ c.readOp = "none"
      /\ c.tasks = <<>> /\ ~c.m_protocol /\ c.protocol = "none" /\ c.release = "none"
      /\ c.refCount = 0 /\ c.protocolRef = 0 /\ \A m \in Msg : c.msg[m] = "free"
      /\ ~c.writeError
  BY DEF NewConnection
<1>2. c \in Connections
  BY DEF NewConnection, Connections, MsgStates
<1> HIDE DEF c
<1>3. ClosedInOrder(c) /\ OperationsPend(c) /\ StateTells(c)
  BY <1>1 DEF ClosedInOrder, OperationsPend, StateTells
<1>4. References(c)
  BY <1>1, CountIsNat DEF References
<1>5. QueueTells(c)
  BY <1>1, Distinct DEF QueueTells, In, Once, Ahead
<1>6. QED
  BY <1>2, <1>3, <1>4, <1>5 DEF Sound, c

LEMMA ParseHeaderSound ==
  ASSUME IInv, NEW error, ParseHeader(error)
  PROVE  StepSound
<1> DEFINE cancelled == [conn EXCEPT !.readOp = "none", !.readTimer = FALSE]
           c == IF error = "ok" THEN cancelled ELSE HandleReadError(cancelled, error)
           opened == [c EXCEPT !.pendingRead = 0]
<1>1. /\ cancelled \in Connections /\ SameObjects(conn, cancelled)
      /\ cancelled.readOp = "none" /\ cancelled.writeOp = conn.writeOp
      /\ cancelled.pendingRead = conn.pendingRead /\ cancelled.pendingWrite = conn.pendingWrite
      /\ cancelled.readError = conn.readError /\ cancelled.writeError = conn.writeError
  BY Accepted DEF Connections, SameObjects
<1>2. conn' = IF c.state # "OPEN" \/ c.readError
              THEN CloseConnection(c) ELSE StartRead([c EXCEPT !.pendingRead = @ - 1], "packet")
  BY DEF ParseHeader
<1>3. conn.readOp = "header"
  BY DEF ParseHeader
<1> HIDE DEF cancelled
<1>4. Sound(cancelled) /\ ClosedInOrder(cancelled)
  <2>1. OperationsPend(cancelled)
    BY <1>1 DEF IInv, Sound, OperationsPend, SameObjects
  <2>2. QED
    BY <1>1, <2>1, SameObjectsSound DEF IInv, ClosedInOrder, SameObjects
<1>5. /\ Sound(c) /\ ClosedInOrder(c) /\ (error # "ok" => c.readError)
      /\ c.socket = conn.socket
  BY <1>1, <1>4, HandleReadErrorSound DEF ClosedInOrder, SameObjects
<1>6. CASE c.state # "OPEN" \/ c.readError
  <2> HIDE DEF c
  <2>1. QED
    BY <1>2, <1>5, <1>6, CloseConnectionSound DEF StepSound, ClosedInOrder, SameOperations
<1>7. CASE c.state = "OPEN" /\ ~c.readError
  <2>1. c = cancelled
    BY <1>5, <1>7
  <2> HIDE DEF c
  <2>2. c.pendingRead = 1 /\ c.readOp = "none"
    BY <1>1, <1>3, <1>5, <1>7, <2>1 DEF IInv, Sound, OperationsPend, ClosedInOrder, SameObjects
  <2>3. conn' = StartRead(opened, "packet")
    BY <1>2, <1>7, <2>2
  <2>4. /\ opened \in Connections /\ SameObjects(c, opened) /\ opened.pendingRead = 0
        /\ opened.readOp = c.readOp /\ opened.writeOp = c.writeOp
        /\ opened.pendingWrite = c.pendingWrite /\ opened.writeError = c.writeError
    BY <1>5 DEF Sound, Connections, SameObjects
  <2> HIDE DEF opened
  <2>5. Sound(opened)
    <3>1. OperationsPend(opened)
      BY <1>5, <2>2, <2>4 DEF Sound, OperationsPend, SameObjects
    <3>2. QED
      BY <1>5, <2>4, <3>1, SameObjectsSound
  <2>6. QED
    BY <1>5, <2>3, <2>4, <2>5, StartReadSound DEF StepSound, ClosedInOrder, SameObjects
<1>8. QED
  BY <1>6, <1>7

LEMMA ParsePacketSound ==
  ASSUME IInv, NEW error, ParsePacket(error)
  PROVE  StepSound
<1> DEFINE cancelled == [conn EXCEPT !.readOp = "none", !.readTimer = FALSE]
           c == IF error = "ok" THEN cancelled ELSE HandleReadError(cancelled, error)
           opened == [c EXCEPT !.pendingRead = 0]
<1>1. /\ cancelled \in Connections /\ SameObjects(conn, cancelled)
      /\ cancelled.readOp = "none" /\ cancelled.writeOp = conn.writeOp
      /\ cancelled.pendingRead = conn.pendingRead /\ cancelled.pendingWrite = conn.pendingWrite
      /\ cancelled.readError = conn.readError /\ cancelled.writeError = conn.writeError
  BY Accepted DEF Connections, SameObjects
<1>2. conn.readOp = "packet"
  BY DEF ParsePacket
<1>3. /\ c.state # "OPEN" \/ c.readError => conn' = CloseConnection(c)
      /\ c.state = "OPEN" /\ ~c.readError =>
           \/ conn' = CloseConnection([c EXCEPT !.pendingRead = @ - 1])
           \/ \E answer \in Answers(c), task \in BOOLEAN, close \in BOOLEAN :
                conn' = StartRead(Receive([c EXCEPT !.pendingRead = @ - 1], answer, task, close),
                                  "header")
  BY DEF ParsePacket
<1> HIDE DEF cancelled
<1>4. Sound(cancelled) /\ ClosedInOrder(cancelled)
  <2>1. OperationsPend(cancelled)
    BY <1>1 DEF IInv, Sound, OperationsPend, SameObjects
  <2>2. QED
    BY <1>1, <2>1, SameObjectsSound DEF IInv, ClosedInOrder, SameObjects
<1>5. /\ Sound(c) /\ ClosedInOrder(c) /\ (error # "ok" => c.readError)
      /\ c.socket = conn.socket
  BY <1>1, <1>4, HandleReadErrorSound DEF ClosedInOrder, SameObjects
<1>6. CASE c.state # "OPEN" \/ c.readError
  <2> HIDE DEF c
  <2>1. QED
    BY <1>3, <1>5, <1>6, CloseConnectionSound DEF StepSound, ClosedInOrder, SameOperations
<1>7. CASE c.state = "OPEN" /\ ~c.readError
  <2>1. c = cancelled
    BY <1>5, <1>7
  <2> HIDE DEF c
  <2>2. c.pendingRead = 1 /\ c.readOp = "none"
    BY <1>1, <1>2, <1>5, <1>7, <2>1 DEF IInv, Sound, OperationsPend, ClosedInOrder, SameObjects
  <2>3. [c EXCEPT !.pendingRead = @ - 1] = opened
    BY <2>2
  <2>4. /\ opened \in Connections /\ SameObjects(c, opened) /\ opened.pendingRead = 0
        /\ opened.readOp = c.readOp /\ opened.writeOp = c.writeOp
        /\ opened.pendingWrite = c.pendingWrite /\ opened.writeError = c.writeError
    BY <1>5 DEF Sound, Connections, SameObjects
  <2> HIDE DEF opened
  <2>5. Sound(opened) /\ ClosedInOrder(opened)
    <3>1. OperationsPend(opened)
      BY <1>5, <2>2, <2>4 DEF Sound, OperationsPend, SameObjects
    <3>2. QED
      BY <1>5, <2>4, <3>1, SameObjectsSound DEF ClosedInOrder, SameObjects
  <2>6. CASE conn' = CloseConnection(opened)
    BY <1>5, <2>4, <2>5, <2>6, CloseConnectionSound
       DEF StepSound, ClosedInOrder, SameOperations, SameObjects
  <2>7. ASSUME NEW answer \in Answers(c), NEW task \in BOOLEAN, NEW close \in BOOLEAN,
               conn' = StartRead(Receive(opened, answer, task, close), "header")
        PROVE  StepSound
    <3> DEFINE d == Receive(opened, answer, task, close)
    <3>1. answer \in Msg \cup {NoMsg} /\ (answer # NoMsg => opened.msg[answer] = "free")
      BY <2>4 DEF Answers, SameObjects
    <3>2. opened.state = "OPEN"
      BY <1>7, <2>4 DEF SameObjects
    <3>3. /\ Sound(d) /\ d.pendingRead = 0
          /\ d.socket = opened.socket /\ d.writeError = opened.writeError
      BY <2>4, <2>5, <3>1, <3>2, ReceiveSound
    <3> HIDE DEF d
    <3>4. conn' = StartRead(d, "header") /\ "header" \in {"header", "packet"}
      BY <2>7 DEF d
    <3>5. /\ Sound(conn') /\ conn'.socket = d.socket /\ conn'.readOp = "header"
          /\ conn'.writeError = d.writeError
      BY <3>3, <3>4, StartReadSound
    <3>6. conn'.socket = "open" /\ ~conn'.writeError
      BY <2>5, <3>2, <3>3, <3>5 DEF ClosedInOrder
    <3>7. QED
      BY <3>5, <3>6 DEF StepSound, ClosedInOrder
  <2>8. QED
    BY <1>3, <1>7, <2>3, <2>6, <2>7
<1>8. QED
  BY <1>6, <1>7

LEMMA OnWriteOperationSound ==
  ASSUME IInv, NEW error, OnWriteOperation(error)
  PROVE  StepSound /\ conn'.writeOp = NoMsg
<1> DEFINE m == conn.writeOp
           cancelled == [conn EXCEPT !.writeOp = NoMsg, !.writeTimer = FALSE]
           dropped == DropMessage(cancelled, m)
           c == IF error = "ok" THEN dropped ELSE HandleWriteError(dropped, error)
           ended == [c EXCEPT !.pendingWrite = 0]
<1>1. /\ m \in Msg /\ conn.msg[m] = "writing"
      /\ conn.socket = "open" => conn.pendingWrite = 1
  BY Accepted DEF OnWriteOperation, Connections, IInv, Sound, QueueTells, OperationsPend
<1>2. /\ cancelled \in Connections /\ SameObjects(conn, cancelled)
      /\ cancelled.readOp = conn.readOp /\ cancelled.writeOp = NoMsg
      /\ cancelled.pendingRead = conn.pendingRead /\ cancelled.pendingWrite = conn.pendingWrite
      /\ cancelled.writeError = conn.writeError
  BY Accepted DEF Connections, SameObjects
<1>3. conn' = IF c.state # "OPEN" \/ c.writeError
              THEN CloseConnection(CloseSocket(c)) ELSE [c EXCEPT !.pendingWrite = @ - 1]
  BY DEF OnWriteOperation
<1> HIDE DEF cancelled
<1>4. Sound(cancelled) /\ ClosedInOrder(cancelled)
  <2>1. OperationsPend(cancelled)
    BY <1>2 DEF IInv, Sound, OperationsPend, SameObjects
  <2>2. QED
    BY <1>2, <2>1, SameObjectsSound DEF IInv, ClosedInOrder, SameObjects
<1>5. cancelled.msg[m] = "writing" /\ cancelled.writeOp # m
  BY <1>1, <1>2, Distinct DEF SameObjects
<1>6. /\ Sound(dropped) /\ ClosedInOrder(dropped) /\ dropped.writeOp = NoMsg
      /\ dropped.state = conn.state /\ dropped.readOp = conn.readOp
      /\ dropped.socket = conn.socket /\ dropped.pendingWrite = conn.pendingWrite
  BY <1>1, <1>2, <1>4, <1>5, DropMessageSound DEF ClosedInOrder, SameObjects
<1> HIDE DEF dropped
<1>7. CASE c.state # "OPEN" \/ c.writeError
  <2>1. Sound(c) /\ c.writeOp = NoMsg
    <3>1. CASE error = "ok"
      BY <1>6, <3>1
    <3>2. CASE error # "ok"
      <4>1. HandleWriteError(dropped, error).writeOp = NoMsg
        <5> DEFINE e == IF error = "aborted" THEN dropped ELSE CloseConnection(dropped)
        <5>1. Sound(e) /\ e.writeOp = NoMsg
          BY <1>6, CloseConnectionSound DEF SameOperations
        <5>2. HandleWriteError(dropped, error) = [e EXCEPT !.writeError = TRUE]
          BY DEF HandleWriteError
        <5> HIDE DEF e
        <5>3. QED
          BY <5>1, <5>2 DEF Sound, Connections
      <4>2. QED
        BY <1>6, <3>2, <4>1, HandleWriteErrorSound
    <3>3. QED
      BY <3>1, <3>2
  <2> HIDE DEF c
  <2>2. QED
    BY <1>3, <1>7, <2>1, HangUpSound DEF StepSound, SameOperations
<1>8. CASE c.state = "OPEN" /\ ~c.writeError
  <2>1. c = dropped
    BY <1>6, <1>8, HandleWriteErrorSound
  <2> HIDE DEF c
  <2>2. c.pendingWrite = 1 /\ c.writeOp = NoMsg /\ c.socket = "open"
    BY <1>1, <1>6, <1>8, <2>1 DEF ClosedInOrder
  <2>3. conn' = ended
    BY <1>3, <1>8, <2>2
  <2>4. /\ ended \in Connections /\ SameObjects(c, ended)
        /\ ended.readOp = c.readOp /\ ended.writeOp = NoMsg
        /\ ended.pendingRead = c.pendingRead /\ ended.writeError = c.writeError
    BY <1>6, <2>1, <2>2 DEF Sound, Connections, SameObjects
  <2> HIDE DEF ended
  <2>5. Sound(ended)
    <3>1. OperationsPend(ended)
      BY <1>6, <2>1, <2>2, <2>4 DEF Sound, OperationsPend, SameObjects
    <3>2. QED
      BY <1>6, <2>1, <2>4, <3>1, SameObjectsSound
  <2>6. conn.state = "OPEN" /\ conn.writeOp # NoMsg
    BY <1>1, <1>6, <1>8, <2>1, Distinct
  <2>7. conn.readOp # "none"
    BY <2>6 DEF IInv, NotAcceptedYet, NewConnection
  <2>8. QED
    BY <1>6, <2>1, <2>3, <2>4, <2>5, <2>7 DEF StepSound, ClosedInOrder, SameObjects
<1>9. QED
  BY <1>7, <1>8

\* Before it was accepted nothing has happened to a connection.
LEMMA NotNew ==
  ASSUME IInv, conn # NewConnection
  PROVE  conn.state = "OPEN" => conn.readOp # "none"
BY DEF IInv, NotAcceptedYet

LEMMA AcceptConnectionSound ==
  ASSUME IInv, AcceptConnection
  PROVE  StepSound
<1>1. conn = NewConnection
  BY DEF AcceptConnection, IInv, NotAcceptedYet
<1>2. /\ Sound(conn) /\ ClosedInOrder(conn) /\ conn.state = "OPEN" /\ conn.pendingRead = 0
      /\ \A m \in Msg : conn.msg[m] = "free"
  BY <1>1 DEF IInv, AcceptConnection, NewConnection
<1>3. ASSUME NEW c, Sound(c), ClosedInOrder(c), c.state = "OPEN", c.pendingRead = 0,
             conn' = StartRead(c, "header")
      PROVE  StepSound
  <2>1. "header" \in {"header", "packet"}
    OBVIOUS
  <2>2. /\ Sound(conn') /\ conn'.readOp = "header"
        /\ conn'.state = c.state /\ conn'.socket = c.socket /\ conn'.writeError = c.writeError
    BY <1>3, <2>1, StartReadSound
  <2>3. QED
    BY <1>3, <2>2 DEF StepSound, ClosedInOrder
<1>4. CASE conn' = StartRead(conn, "header")
  BY <1>2, <1>3, <1>4
<1> DEFINE made == [conn EXCEPT !.m_protocol = TRUE, !.protocol = "live"]
<1>5. ASSUME NEW m \in Msg, conn' = StartRead(Send(GetMessage(made, m), m), "header")
      PROVE  StepSound
  <2>1. /\ Sound(made) /\ ClosedInOrder(made) /\ made.state = "OPEN" /\ made.pendingRead = 0
        /\ made.protocol = "live" /\ made.msg[m] = "free"
    BY <1>2, MadeSound DEF ClosedInOrder
  <2> DEFINE d == Send(GetMessage(made, m), m)
  <2>2. conn' = StartRead(d, "header")
    BY <1>5
  <2> HIDE DEF made
  <2>3. Sound(d) /\ SameReads(made, d)
    BY <2>1, AnswerSound
  <2> HIDE DEF d
  <2>4. QED
    BY <1>3, <2>1, <2>2, <2>3 DEF SameReads, ClosedInOrder
<1>6. QED
  BY <1>4, <1>5 DEF AcceptConnection

\* Timers matter to nothing but their handlers.
LEMMA TimerSound ==
  ASSUME IInv, conn # NewConnection, NEW d, d \in Connections, SameObjects(conn, d),
         d.writeOp = conn.writeOp, d.readOp = conn.readOp, d.writeError = conn.writeError,
         d.pendingRead = conn.pendingRead, d.pendingWrite = conn.pendingWrite
  PROVE  Sound(d) /\ ClosedInOrder(d) /\ (d.state = "OPEN" => d.readOp # "none")
<1>1. OperationsPend(d)
  BY DEF IInv, Sound, OperationsPend, SameObjects
<1>2. Sound(d)
  BY <1>1, SameObjectsSound DEF IInv
<1>3. QED
  BY <1>2, NotNew DEF IInv, ClosedInOrder, SameObjects

LEMMA TimerExpiresSound ==
  ASSUME IInv, TimerExpires
  PROVE  StepSound
<1>1. conn # NewConnection
  BY DEF TimerExpires, NewConnection
<1>2. /\ conn' \in Connections /\ SameObjects(conn, conn')
      /\ conn'.writeOp = conn.writeOp /\ conn'.readOp = conn.readOp
      /\ conn'.writeError = conn.writeError
      /\ conn'.pendingRead = conn.pendingRead /\ conn'.pendingWrite = conn.pendingWrite
  <2>1. CASE conn' = [conn EXCEPT !.readTimer = FALSE, !.readFired = TRUE]
    BY <2>1, Accepted DEF Connections, SameObjects
  <2>2. CASE conn' = [conn EXCEPT !.writeTimer = FALSE, !.writeFired = TRUE]
    BY <2>2, Accepted DEF Connections, SameObjects
  <2>3. QED
    BY <2>1, <2>2 DEF TimerExpires
<1>3. QED
  BY <1>1, <1>2, TimerSound DEF StepSound, SameObjects

LEMMA TimeoutSound ==
  ASSUME IInv, OnReadTimeout \/ OnWriteTimeout
  PROVE  StepSound
<1>1. conn # NewConnection /\ (conn.readFired \/ conn.writeFired)
  BY DEF OnReadTimeout, OnWriteTimeout, NewConnection
<1>2. PICK c \in Connections :
        /\ SameObjects(conn, c)
        /\ c.writeOp = conn.writeOp /\ c.readOp = conn.readOp
        /\ c.writeError = conn.writeError
        /\ c.pendingRead = conn.pendingRead /\ c.pendingWrite = conn.pendingWrite
        /\ conn' = c \/ conn' = CloseConnection(CloseSocket(c))
  <2>1. CASE OnReadTimeout
    <3> DEFINE c == [conn EXCEPT !.readFired = FALSE]
    <3>1. /\ c \in Connections /\ SameObjects(conn, c)
          /\ c.writeOp = conn.writeOp /\ c.readOp = conn.readOp
          /\ c.writeError = conn.writeError
          /\ c.pendingRead = conn.pendingRead /\ c.pendingWrite = conn.pendingWrite
      BY Accepted DEF Connections, SameObjects
    <3>2. conn' = c \/ conn' = CloseConnection(CloseSocket(c))
      BY <2>1 DEF OnReadTimeout
    <3> HIDE DEF c
    <3>3. QED
      BY <3>1, <3>2
  <2>2. CASE OnWriteTimeout
    <3> DEFINE c == [conn EXCEPT !.writeFired = FALSE]
    <3>1. /\ c \in Connections /\ SameObjects(conn, c)
          /\ c.writeOp = conn.writeOp /\ c.readOp = conn.readOp
          /\ c.writeError = conn.writeError
          /\ c.pendingRead = conn.pendingRead /\ c.pendingWrite = conn.pendingWrite
      BY Accepted DEF Connections, SameObjects
    <3>2. conn' = c \/ conn' = CloseConnection(CloseSocket(c))
      BY <2>2 DEF OnWriteTimeout
    <3> HIDE DEF c
    <3>3. QED
      BY <3>1, <3>2
  <2>3. QED
    BY <2>1, <2>2
<1>3. Sound(c) /\ ClosedInOrder(c) /\ (c.state = "OPEN" => c.readOp # "none")
  BY <1>1, <1>2, TimerSound
<1>4. CASE conn' = c
  BY <1>1, <1>3, <1>4 DEF StepSound
<1>5. CASE conn' = CloseConnection(CloseSocket(c))
  BY <1>1, <1>3, <1>5, HangUpSound DEF StepSound
<1>6. QED
  BY <1>2, <1>4, <1>5

LEMMA OnStopOperationSound ==
  ASSUME IInv, OnStopOperation
  PROVE  StepSound
<1>1. /\ conn' \in Connections
      /\ conn'.state = conn.state /\ conn'.socket = "deleted"
      /\ conn'.m_protocol = conn.m_protocol /\ conn'.protocol = conn.protocol
      /\ conn'.release = "done"
      /\ conn'.refCount = conn.refCount /\ conn'.protocolRef = conn.protocolRef
      /\ conn'.msg = conn.msg /\ conn'.tasks = conn.tasks /\ conn'.writeOp = conn.writeOp
  BY Accepted DEF OnStopOperation, Connections
<1>2. conn.release = "posted" /\ conn.state = "CLOSED" /\ conn.socket # "open"
  BY DEF OnStopOperation, IInv, Sound, StateTells
<1>3. OperationsPend(conn') /\ ClosedInOrder(conn')
  BY <1>1, <1>2 DEF OperationsPend, ClosedInOrder
<1>4. QueueTells(conn')
  BY <1>1 DEF IInv, Sound, QueueTells
<1>5. StateTells(conn')
  BY <1>1, <1>2 DEF IInv, Sound, StateTells
<1>6. References(conn')
  BY <1>1, <1>2 DEF IInv, Sound, References
<1>7. QED
  BY <1>1, <1>2, <1>3, <1>4, <1>5, <1>6 DEF StepSound, Sound

LEMMA RunProtocolTaskSound ==
  ASSUME IInv, RunProtocolTask
  PROVE  StepSound
<1> DEFINE tasks == Tail(conn.tasks)
<1>1. conn.tasks \in Seq(Tasks) /\ conn.tasks # <<>> /\ Head(conn.tasks) = ProtocolTask
  BY Accepted DEF RunProtocolTask, Connections, Tasks
<1>2. /\ tasks \in Seq(Tasks)
      /\ \A u : In(conn.tasks, u) <=> In(tasks, u) \/ u = ProtocolTask
      /\ \A u : Once(conn.tasks, u) => Once(tasks, u)
      /\ \A u, v : Ahead(conn.tasks, u, v) => Ahead(tasks, u, v)
  BY <1>1, TakenFirst
<1>3. conn' = [conn EXCEPT !.tasks = tasks]
  BY DEF RunProtocolTask
<1> HIDE DEF tasks
<1>4. /\ conn' \in Connections /\ conn'.tasks = tasks
      /\ conn'.state = conn.state /\ conn'.socket = conn.socket
      /\ conn'.m_protocol = conn.m_protocol /\ conn'.protocol = conn.protocol
      /\ conn'.release = conn.release
      /\ conn'.refCount = conn.refCount /\ conn'.protocolRef = conn.protocolRef
      /\ conn'.msg = conn.msg /\ conn'.writeOp = conn.writeOp /\ conn'.readOp = conn.readOp
      /\ conn'.writeError = conn.writeError
      /\ conn'.pendingRead = conn.pendingRead /\ conn'.pendingWrite = conn.pendingWrite
  BY <1>2, <1>3, Accepted DEF Connections, Tasks
<1>5. OperationsPend(conn') /\ ClosedInOrder(conn')
  BY <1>4 DEF OperationsPend, ClosedInOrder, IInv, Sound
<1>6. QueueTells(conn')
  BY <1>2, <1>4, Distinct DEF IInv, Sound, QueueTells
<1>7. StateTells(conn')
  BY <1>4 DEF IInv, Sound, StateTells
<1>8. References(conn')
  BY <1>4 DEF IInv, Sound, References
<1>9. conn # NewConnection
  BY <1>1 DEF NewConnection
<1>10. QED
  BY <1>4, <1>5, <1>6, <1>7, <1>8, <1>9, NotNew DEF StepSound, Sound

LEMMA CloseConnectionTaskSound ==
  ASSUME IInv, CloseConnectionTask
  PROVE  StepSound
<1> DEFINE tasks == Tail(conn.tasks)
           c == [conn EXCEPT !.tasks = tasks]
           gone == IF conn.protocolRef # 0 THEN "released" ELSE "deleted"
           protocol == IF conn.m_protocol THEN gone ELSE conn.protocol
           freed == IF c.m_protocol
                    THEN ReleaseProtocol([c EXCEPT !.m_protocol = FALSE]) ELSE c
           release == IF conn.refCount # 0 THEN "retry" ELSE "posted"
           closed == [ReleaseConnection(CloseSocket(freed)) EXCEPT !.state = "CLOSED"]
           closing == [freed EXCEPT !.state = "CLOSING"]
<1>1. conn.tasks \in Seq(Tasks) /\ conn.tasks # <<>> /\ Head(conn.tasks) = CloseTask
  BY Accepted DEF CloseConnectionTask, Connections, Tasks
<1>2. /\ tasks \in Seq(Tasks)
      /\ \A u : In(conn.tasks, u) <=> In(tasks, u) \/ u = CloseTask
      /\ \A u : Once(conn.tasks, u) => Once(tasks, u)
      /\ \A u, v : Ahead(conn.tasks, u, v) => Ahead(tasks, u, v)
      /\ ~In(tasks, CloseTask)
      /\ ~In(conn.tasks, ProtocolTask)
  BY <1>1, TakenFirst DEF IInv, Sound, QueueTells
<1>3. conn.state = "REQUEST_CLOSE" /\ conn.release = "none"
  BY <1>2 DEF IInv, Sound, QueueTells, StateTells
<1>4. conn' = IF c.state # "REQUEST_CLOSE" THEN c
              ELSE IF c.pendingWrite = 0 \/ c.writeError THEN closed ELSE closing
  BY DEF CloseConnectionTask
<1> HIDE DEF tasks
<1>5. /\ c \in Connections /\ c.tasks = tasks
      /\ c.state = "REQUEST_CLOSE" /\ c.socket = conn.socket
      /\ c.m_protocol = conn.m_protocol /\ c.protocol = conn.protocol
      /\ c.release = "none"
      /\ c.refCount = conn.refCount /\ c.protocolRef = conn.protocolRef
      /\ c.msg = conn.msg /\ c.writeOp = conn.writeOp /\ c.readOp = conn.readOp
      /\ c.writeError = conn.writeError
      /\ c.pendingRead = conn.pendingRead /\ c.pendingWrite = conn.pendingWrite
  BY <1>2, <1>3, Accepted DEF Connections, Tasks
<1> HIDE DEF c
<1>6. /\ freed \in Connections /\ freed.tasks = tasks
      /\ freed.socket = conn.socket
      /\ freed.m_protocol = FALSE /\ freed.protocol = protocol
      /\ freed.release = "none"
      /\ freed.refCount = conn.refCount /\ freed.protocolRef = conn.protocolRef
      /\ freed.msg = conn.msg /\ freed.writeOp = conn.writeOp /\ freed.readOp = conn.readOp
      /\ freed.writeError = conn.writeError
      /\ freed.pendingRead = conn.pendingRead /\ freed.pendingWrite = conn.pendingWrite
  <2>1. CASE c.m_protocol
    <3>1. gone \in {"released", "deleted"} /\ protocol = gone
      BY <1>5, <2>1
    <3>2. freed = [c EXCEPT !.m_protocol = FALSE, !.protocol = gone]
      BY <1>5, <2>1 DEF ReleaseProtocol, Connections
    <3> HIDE DEF gone, protocol, freed
    <3>3. QED
      BY <1>5, <3>1, <3>2 DEF Connections
  <2>2. CASE ~c.m_protocol
    BY <1>5, <2>2 DEF Connections
  <2>3. QED
    BY <2>1, <2>2
<1> HIDE DEF freed
<1>7. /\ protocol # "live"
      /\ ~raced => /\ conn.refCount = Count(conn.msg) /\ conn.protocolRef = conn.refCount
                   /\ Count(conn.msg) # 0 => protocol \in {"live", "released"}
  BY DEF IInv, Sound, StateTells, References
<1> HIDE DEF protocol
<1>8. QueueTells(conn') /\ References(conn') /\ StateTells(conn') /\ OperationsPend(conn')
        /\ ClosedInOrder(conn') /\ conn' \in Connections /\ conn'.state # "OPEN"
        /\ (conn.socket = "open" /\ conn'.socket # "open" => conn'.writeOp = NoMsg)
  <2>1. CASE c.pendingWrite = 0 \/ c.writeError
    <3> DEFINE socket == IF conn.socket = "open" THEN "closed" ELSE conn.socket
    <3>1. /\ conn' \in Connections /\ conn'.tasks = tasks
          /\ conn'.state = "CLOSED" /\ conn'.socket = socket
          /\ conn'.m_protocol = FALSE /\ conn'.protocol = protocol
          /\ conn'.release = release
          /\ conn'.refCount = conn.refCount /\ conn'.protocolRef = conn.protocolRef
          /\ conn'.msg = conn.msg /\ conn'.writeOp = conn.writeOp
      <4> DEFINE d == CloseSocket(freed)
      <4>1. /\ d \in Connections /\ d.tasks = tasks
            /\ d.socket = socket
            /\ d.m_protocol = FALSE /\ d.protocol = protocol
            /\ d.refCount = conn.refCount /\ d.protocolRef = conn.protocolRef
            /\ d.msg = conn.msg /\ d.writeOp = conn.writeOp
        <5>1. CASE conn.socket = "open"
          <6>1. d = [freed EXCEPT !.socket = "closed", !.pendingRead = 0, !.pendingWrite = 0]
            BY <1>6, <5>1 DEF CloseSocket
          <6> HIDE DEF d
          <6>2. d \in Connections
            BY <1>6, <6>1 DEF Connections
          <6>3. QED
            BY <1>6, <5>1, <6>1, <6>2 DEF Connections
        <5>2. CASE conn.socket # "open"
          BY <1>6, <5>2 DEF CloseSocket
        <5>3. QED
          BY <5>1, <5>2
      <4>2. conn' = [ReleaseConnection(d) EXCEPT !.state = "CLOSED"]
        BY <1>4, <1>5, <2>1
      <4> HIDE DEF d
      <4>3. conn' = [d EXCEPT !.release = release, !.state = "CLOSED"]
        BY <4>1, <4>2 DEF ReleaseConnection, Connections
      <4>4. release \in {"retry", "posted"}
        OBVIOUS
      <4> HIDE DEF release, socket
      <4>5. QED
        BY <4>1, <4>3, <4>4 DEF Connections
    <3>2. socket # "open"
      OBVIOUS
    <3>3. release # "none" /\ (conn.refCount # 0 => release = "retry")
      OBVIOUS
    <3> HIDE DEF socket, release
    <3>4. QueueTells(conn')
      BY <1>2, <3>1, Distinct DEF IInv, Sound, QueueTells
    <3>5. References(conn')
      BY <1>7, <3>1, <3>3 DEF References
    <3>6. StateTells(conn')
      BY <1>7, <3>1, <3>2, <3>3 DEF StateTells
    <3>7. OperationsPend(conn') /\ ClosedInOrder(conn')
      BY <3>1, <3>2 DEF OperationsPend, ClosedInOrder
    <3>8. conn.socket = "open" => conn.writeOp = NoMsg
      BY <1>5, <2>1 DEF IInv, Sound, OperationsPend, ClosedInOrder
    <3>9. QED
      BY <3>1, <3>4, <3>5, <3>6, <3>7, <3>8
  <2>2. CASE ~(c.pendingWrite = 0 \/ c.writeError)
    <3>1. /\ conn' \in Connections /\ conn'.tasks = tasks
          /\ conn'.state = "CLOSING" /\ conn'.socket = conn.socket
          /\ conn'.m_protocol = FALSE /\ conn'.protocol = protocol
          /\ conn'.release = "none"
          /\ conn'.refCount = conn.refCount /\ conn'.protocolRef = conn.protocolRef
          /\ conn'.msg = conn.msg /\ conn'.writeOp = conn.writeOp
          /\ conn'.readOp = conn.readOp
          /\ conn'.writeError = conn.writeError
          /\ conn'.pendingRead = conn.pendingRead /\ conn'.pendingWrite = conn.pendingWrite
      <4>1. conn' = [freed EXCEPT !.state = "CLOSING"]
        BY <1>4, <1>5, <2>2
      <4>2. QED
        BY <1>6, <4>1 DEF Connections
    <3>2. QueueTells(conn')
      BY <1>2, <3>1, Distinct DEF IInv, Sound, QueueTells
    <3>3. References(conn')
      BY <1>7, <3>1 DEF References
    <3>4. StateTells(conn')
      BY <1>7, <3>1 DEF StateTells
    <3>5. OperationsPend(conn') /\ ClosedInOrder(conn')
      BY <3>1 DEF IInv, Sound, OperationsPend, ClosedInOrder
    <3>6. QED
      BY <3>1, <3>2, <3>3, <3>4, <3>5
  <2>3. QED
    BY <2>1, <2>2
<1>9. QED
  BY <1>8 DEF StepSound, Sound

LEMMA GameWritesSound ==
  ASSUME IInv, NEW m \in Msg, GameWrites(m)
  PROVE  StepSound
<1>1. Sound(conn') /\ SameReads(conn, conn')
  BY GetMessageSound DEF GameWrites, IInv
<1>2. conn # NewConnection
  BY DEF GameWrites, NewConnection
<1>3. QED
  BY <1>1, <1>2, NotNew DEF StepSound, SameReads, IInv, ClosedInOrder

LEMMA GameDisconnectsSound ==
  ASSUME IInv, GameDisconnects
  PROVE  StepSound
<1>1. conn' = CloseConnection(conn) /\ Sound(conn) /\ ClosedInOrder(conn)
  BY DEF GameDisconnects, IInv
<1>2. QED
  BY <1>1, CloseConnectionSound DEF StepSound, ClosedInOrder, SameOperations

LEMMA SendHeldSound ==
  ASSUME IInv, NEW m \in Msg, SendHeld(m)
  PROVE  StepSound
<1>1. conn.msg[m] \in {"held", "waiting"} /\ Sound(conn)
  BY DEF SendHeld, IInv
<1>2. conn.writeOp # m
  BY <1>1, Distinct DEF Sound, QueueTells
<1>3. Sound(conn') /\ SameReads(conn, conn')
  <2>1. CASE conn' = Send(conn, m)
    BY <1>1, <2>1, SendSound
  <2>2. CASE conn' = DropMessage(conn, m)
    BY <1>1, <1>2, <2>2, DropMessageSound DEF SameReads
  <2>3. QED
    BY <2>1, <2>2 DEF SendHeld
<1>4. conn # NewConnection
  BY <1>1 DEF NewConnection
<1>5. QED
  BY <1>3, <1>4, NotNew DEF StepSound, SameReads, IInv, ClosedInOrder

LEMMA ReleaseRetriesSound ==
  ASSUME IInv, ReleaseRetries
  PROVE  StepSound
<1>1. /\ conn' \in Connections
      /\ conn'.state = conn.state /\ conn'.socket = conn.socket
      /\ conn'.m_protocol = conn.m_protocol
      /\ conn'.refCount = conn.refCount /\ conn'.protocolRef = conn.protocolRef
      /\ conn'.msg = conn.msg /\ conn'.tasks = conn.tasks
      /\ conn'.writeOp = conn.writeOp /\ conn'.readOp = conn.readOp
      /\ conn'.writeError = conn.writeError
      /\ conn'.pendingRead = conn.pendingRead /\ conn'.pendingWrite = conn.pendingWrite
      /\ \/ /\ conn.release = "retry" /\ conn'.protocol = conn.protocol
            /\ conn'.release = IF conn.refCount # 0 THEN "retry" ELSE "posted"
         \/ /\ conn.protocol = "released" /\ conn'.release = conn.release
            /\ conn'.protocol = IF conn.protocolRef # 0 THEN "released" ELSE "deleted"
  <2>1. CASE conn.release = "retry" /\ conn' = ReleaseConnection(conn)
    <3> DEFINE release == IF conn.refCount # 0 THEN "retry" ELSE "posted"
    <3>1. conn' = [conn EXCEPT !.release = release] /\ release \in {"retry", "posted"}
      BY <2>1 DEF ReleaseConnection
    <3> HIDE DEF release
    <3>2. conn' \in Connections /\ conn'.release = release
      BY <3>1, Accepted DEF Connections
    <3>3. QED
      BY <2>1, <3>1, <3>2, Accepted DEF Connections, release
  <2>2. CASE conn.protocol = "released" /\ conn' = ReleaseProtocol(conn)
    <3> DEFINE protocol == IF conn.protocolRef # 0 THEN "released" ELSE "deleted"
    <3>1. conn' = [conn EXCEPT !.protocol = protocol] /\ protocol \in {"released", "deleted"}
      BY <2>2 DEF ReleaseProtocol
    <3> HIDE DEF protocol
    <3>2. conn' \in Connections /\ conn'.protocol = protocol
      BY <3>1, Accepted DEF Connections
    <3>3. QED
      BY <2>2, <3>1, <3>2, Accepted DEF Connections, protocol
  <2>3. QED
    BY <2>1, <2>2 DEF ReleaseRetries
<1>2. OperationsPend(conn') /\ ClosedInOrder(conn')
  BY <1>1 DEF IInv, Sound, OperationsPend, ClosedInOrder
<1>3. QueueTells(conn')
  BY <1>1 DEF IInv, Sound, QueueTells
<1>4. StateTells(conn')
  BY <1>1 DEF IInv, Sound, StateTells
<1>5. References(conn')
  BY <1>1 DEF IInv, Sound, References
<1>6. conn # NewConnection
  BY DEF ReleaseRetries, NewConnection
<1>7. QED
  BY <1>1, <1>2, <1>3, <1>4, <1>5, <1>6, NotNew DEF StepSound, Sound

LEMMA BeginReleaseKeeps ==
  ASSUME IInv, BeginRelease
  PROVE  IInv'
<1> DEFINE tasks == Tail(conn.tasks)
           m == Head(conn.tasks)
<1>1. /\ conn.tasks \in Seq(Tasks) /\ conn.tasks # <<>> /\ m \in Msg
      /\ releasing = NoMsg /\ releasing' = m
  BY Accepted DEF BeginRelease, Connections, Tasks
<1>2. /\ tasks \in Seq(Tasks)
      /\ \A u : In(conn.tasks, u) <=> In(tasks, u) \/ u = m
      /\ \A u : Once(conn.tasks, u) => Once(tasks, u)
      /\ \A u, v : Ahead(conn.tasks, u, v) => Ahead(tasks, u, v)
      /\ ~In(tasks, m)
  BY <1>1, TakenFirst DEF IInv, Sound, QueueTells
<1>3. conn' = [conn EXCEPT !.tasks = tasks]
  BY DEF BeginRelease
<1>4. /\ overlap' = overlap /\ raced' = raced /\ accepting' = accepting
  BY DEF BeginRelease
<1> HIDE DEF tasks, m
<1>5. /\ conn' \in Connections /\ conn'.tasks = tasks
      /\ conn'.state = conn.state /\ conn'.socket = conn.socket
      /\ conn'.m_protocol = conn.m_protocol /\ conn'.protocol = conn.protocol
      /\ conn'.release = conn.release
      /\ conn'.refCount = conn.refCount /\ conn'.protocolRef = conn.protocolRef
      /\ conn'.msg = conn.msg /\ conn'.writeOp = conn.writeOp /\ conn'.readOp = conn.readOp
      /\ conn'.writeError = conn.writeError
      /\ conn'.pendingRead = conn.pendingRead /\ conn'.pendingWrite = conn.pendingWrite
  BY <1>2, <1>3, Accepted DEF Connections, Tasks
<1>6. OperationsPend(conn') /\ ClosedInOrder(conn')
  BY <1>5 DEF OperationsPend, ClosedInOrder, IInv, Sound
<1>7. QueueTells(conn)'
  BY <1>1, <1>2, <1>4, <1>5, Distinct DEF IInv, Sound, QueueTells
<1>8. StateTells(conn')
  BY <1>5 DEF IInv, Sound, StateTells
<1>9. References(conn)'
  BY <1>4, <1>5 DEF IInv, Sound, References
<1>10. conn # NewConnection
  BY <1>1 DEF NewConnection
<1>11. QED
  BY <1>1, <1>4, <1>5, <1>6, <1>7, <1>8, <1>9, <1>10, NotNew
     DEF IInv, Sound, TypeOK, NotAcceptedYet, OperationsPend, ClosedInOrder, StateTells

LEMMA EndReleaseKeeps ==
  ASSUME IInv, EndRelease
  PROVE  IInv'
<1> DEFINE m == releasing
           msg == [conn.msg EXCEPT ![m] = "free"]
<1>1. m \in Msg /\ conn.msg[m] = "releasing" /\ ~In(conn.tasks, m) /\ conn.writeOp # m
  BY DEF EndRelease, IInv, TypeOK, Sound, QueueTells
<1>2. PICK p \in AfterUnRef(conn.protocolRef), r \in AfterUnRef(conn.refCount) :
        conn' = [conn EXCEPT !.protocolRef = p, !.refCount = r, !.msg[m] = "free"]
  BY DEF EndRelease
<1>3. /\ conn.msg \in [Msg -> MsgStates]
      /\ p \in Int /\ r \in Int
      /\ ~overlap => p = conn.protocolRef - 1 /\ r = conn.refCount - 1
  BY Accepted DEF Connections, AfterUnRef
<1>4. /\ msg \in [Msg -> MsgStates] /\ msg[m] = "free"
      /\ Count(msg) = Count(conn.msg) - 1
      /\ \A n \in Msg \ {m} : msg[n] = conn.msg[n]
  BY <1>1, <1>3, CountMoves DEF MsgStates
<1>5. conn' = [conn EXCEPT !.protocolRef = p, !.refCount = r, !.msg = msg]
  BY <1>2, Accepted DEF Connections
<1>6. /\ releasing' = NoMsg /\ overlap' = FALSE
      /\ accepting' = accepting /\ raced' = raced
  BY DEF EndRelease
<1> HIDE DEF msg
<1>7. /\ conn' \in Connections /\ conn'.tasks = conn.tasks
      /\ conn'.state = conn.state /\ conn'.socket = conn.socket
      /\ conn'.m_protocol = conn.m_protocol /\ conn'.protocol = conn.protocol
      /\ conn'.release = conn.release
      /\ conn'.refCount = r /\ conn'.protocolRef = p
      /\ conn'.msg = msg /\ conn'.writeOp = conn.writeOp /\ conn'.readOp = conn.readOp
      /\ conn'.writeError = conn.writeError
      /\ conn'.pendingRead = conn.pendingRead /\ conn'.pendingWrite = conn.pendingWrite
  BY <1>3, <1>4, <1>5, Accepted DEF Connections
<1>8. OperationsPend(conn') /\ ClosedInOrder(conn')
  BY <1>7 DEF OperationsPend, ClosedInOrder, IInv, Sound
<1>9. QueueTells(conn)'
  <2>1. conn.writeOp \in Msg \cup {NoMsg}
    BY Accepted DEF Connections
  <2>2. conn.writeOp # NoMsg => msg[conn.writeOp] = "writing"
    BY <1>1, <1>4, <2>1 DEF IInv, Sound, QueueTells
  <2>3. ASSUME NEW n \in Msg, In(conn.tasks, n) PROVE msg[n] = "releasing" /\ n # NoMsg
    BY <1>1, <1>4, <2>3, Distinct DEF IInv, Sound, QueueTells
  <2>4. QED
    BY <1>6, <1>7, <2>2, <2>3 DEF IInv, Sound, QueueTells
<1>10. StateTells(conn')
  BY <1>7 DEF IInv, Sound, StateTells
<1>11. References(conn)'
  <2>1. SUFFICES ASSUME ~raced
                 PROVE  /\ r = Count(msg) /\ p = r
                        /\ Count(msg) # 0 => /\ conn.protocol \in {"live", "released"}
                                             /\ conn.release \notin {"posted", "done"}
    BY <1>6, <1>7 DEF References
  <2>2. /\ conn.refCount = Count(conn.msg) /\ conn.protocolRef = conn.refCount
        /\ Count(conn.msg) # 0 => /\ conn.protocol \in {"live", "released"}
                                  /\ conn.release \notin {"posted", "done"}
    BY <2>1 DEF IInv, Sound, References
  <2>3. p = conn.protocolRef - 1 /\ r = conn.refCount - 1
    BY <1>3, <2>1 DEF IInv
  <2>4. Count(conn.msg) # 0
    BY <1>1, CountIsNat
  <2>5. QED
    BY <1>4, <2>2, <2>3, <2>4
<1>12. conn # NewConnection
  BY <1>1 DEF NewConnection
<1>13. QED
  BY <1>6, <1>7, <1>8, <1>9, <1>10, <1>11, <1>12, NotNew
     DEF IInv, Sound, TypeOK, NotAcceptedYet, OperationsPend, ClosedInOrder, StateTells

LEMMA DispatcherStopsKeeps ==
  ASSUME IInv, DispatcherStops
  PROVE  IInv'
BY DEF DispatcherStops, IInv, Sound, TypeOK, NotAcceptedYet, OperationsPend, ClosedInOrder,
       StateTells, QueueTells, References

\* The steps that leave the dispatcher alone.
Quiet == UNCHANGED <<accepting, releasing>> /\ (raced => raced') /\ overlap' \in BOOLEAN
           /\ raced' \in BOOLEAN /\ (overlap' => raced')

LEMMA StepSoundKeeps ==
  ASSUME IInv, Quiet, StepSound
  PROVE  IInv'
<1>1. QueueTells(conn)'
  BY DEF Quiet, StepSound, Sound, QueueTells
<1>2. References(conn)'
  BY DEF Quiet, StepSound, Sound, References
<1>3. TypeOK'
  BY DEF Quiet, StepSound, Sound, TypeOK, IInv
<1>4. NotAcceptedYet'
  BY DEF NotAcceptedYet, StepSound
<1>5. QED
  BY <1>1, <1>2, <1>3, <1>4
     DEF IInv, Quiet, StepSound, Sound, OperationsPend, ClosedInOrder, StateTells

LEMMA NextSound ==
  ASSUME IInv, Next
  PROVE  (StepSound /\ Quiet) \/ BeginRelease \/ EndRelease \/ DispatcherStops
<1>1. Unchanged => Quiet
  BY DEF Unchanged, Quiet, IInv, TypeOK
<1>2. CASE AcceptConnection
  BY <1>1, <1>2, AcceptConnectionSound DEF AcceptConnection
<1>3. ASSUME NEW error, ParseHeader(error) PROVE StepSound /\ Quiet
  BY <1>1, <1>3, ParseHeaderSound DEF ParseHeader
<1>4. ASSUME NEW error, ParsePacket(error) PROVE StepSound /\ Quiet
  <2>1. Quiet
    <3>1. \/ Unchanged
          \/ \E answer \in Msg \cup {NoMsg} :
               /\ overlap' = (overlap \/ (answer # NoMsg /\ releasing # NoMsg))
               /\ raced' = (raced \/ overlap')
               /\ UNCHANGED <<accepting, releasing>>
      BY <1>4 DEF ParsePacket, Answers
    <3>2. QED
      BY <1>1, <3>1 DEF Quiet, IInv, TypeOK
  <2>2. QED
    BY <1>4, <2>1, ParsePacketSound
<1>5. ASSUME NEW error, OnWriteOperation(error) PROVE StepSound /\ Quiet
  BY <1>1, <1>5, OnWriteOperationSound DEF OnWriteOperation
<1>6. CASE OnReadTimeout \/ OnWriteTimeout
  BY <1>1, <1>6, TimeoutSound DEF OnReadTimeout, OnWriteTimeout
<1>7. CASE OnStopOperation
  BY <1>1, <1>7, OnStopOperationSound DEF OnStopOperation
<1>8. CASE TimerExpires
  BY <1>1, <1>8, TimerExpiresSound DEF TimerExpires
<1>9. CASE CloseConnectionTask
  BY <1>1, <1>9, CloseConnectionTaskSound DEF CloseConnectionTask
<1>10. CASE RunProtocolTask
  BY <1>1, <1>10, RunProtocolTaskSound DEF RunProtocolTask
<1>11. CASE ReleaseRetries
  BY <1>1, <1>11, ReleaseRetriesSound DEF ReleaseRetries
<1>12. ASSUME NEW m \in Msg, SendHeld(m) PROVE StepSound /\ Quiet
  BY <1>1, <1>12, SendHeldSound DEF SendHeld
<1>13. ASSUME NEW m \in Msg, GameWrites(m) PROVE StepSound /\ Quiet
  BY <1>1, <1>13, GameWritesSound DEF GameWrites
<1>14. CASE GameDisconnects
  BY <1>1, <1>14, GameDisconnectsSound DEF GameDisconnects
<1>15. QED
  BY <1>2, <1>3, <1>4, <1>5, <1>6, <1>7, <1>8, <1>9, <1>10, <1>11, <1>12, <1>13, <1>14
     DEF Next, Network, DispatcherTasks

LEMMA InitEstablishes == Init => IInv
<1> SUFFICES ASSUME Init PROVE IInv
  OBVIOUS
<1>1. Sound(conn) /\ ClosedInOrder(conn)
  BY NewConnectionSound DEF Init
<1>2. QED
  BY <1>1 DEF IInv, Init, TypeOK, Sound, NotAcceptedYet

LEMMA StepKeeps == IInv /\ [Next]_vars => IInv'
<1> SUFFICES ASSUME IInv, [Next]_vars PROVE IInv'
  OBVIOUS
<1>1. CASE Next
  BY <1>1, NextSound, StepSoundKeeps, BeginReleaseKeeps, EndReleaseKeeps, DispatcherStopsKeeps
<1>2. CASE UNCHANGED vars
  BY <1>2 DEF vars, IInv, Sound, TypeOK, NotAcceptedYet, OperationsPend, ClosedInOrder,
              StateTells, QueueTells, References
<1>3. QED
  BY <1>1, <1>2

LEMMA Invariance == Spec => []IInv
BY InitEstablishes, StepKeeps, PTL DEF Spec

----------------------------------------------------------------------------
(* The theorems *)

LEMMA InvFollows == IInv => Inv
<1> SUFFICES ASSUME IInv PROVE Inv
  OBVIOUS
<1>1. conn.tasks \in Seq(Tasks) /\ Len(conn.tasks) \in Nat
  BY Accepted DEF Connections, Tasks
<1>2. OneCloseTask
  <2>1. CloseTasks # {} <=> In(conn.tasks, CloseTask)
    BY DEF CloseTasks, In
  <2>2. Cardinality(CloseTasks) <= 1
    <3>1. CASE CloseTasks = {}
      BY <3>1, FS_EmptySet
    <3>2. ASSUME NEW i \in CloseTasks PROVE Cardinality(CloseTasks) <= 1
      <4>1. CloseTasks = {i}
        BY <3>2 DEF CloseTasks, IInv, Sound, QueueTells, Once
      <4>2. Cardinality({i}) = 1
        BY FS_Singleton
      <4>3. QED
        BY <4>1, <4>2
    <3>3. QED
      BY <3>1, <3>2
  <2>3. QED
    BY <2>1, <2>2 DEF OneCloseTask, IInv, Sound, QueueTells
<1>3. ReleasedWhenClosed
  BY DEF ReleasedWhenClosed, IInv, Sound, StateTells
<1>4. CountsAreReferences
  BY DEF CountsAreReferences, IInv, Sound, References, Count, InUse
<1>5. MessageKeepsOwners
  BY CountIsNat DEF MessageKeepsOwners, IInv, Sound, References
<1>6. TaskFindsProtocol
  BY DEF TaskFindsProtocol, IInv, Sound, QueueTells, In
<1>7. QED
  BY <1>2, <1>3, <1>4, <1>5, <1>6 DEF Inv, IInv

\* Whatever the client, the timers and the game do, and in whatever order: a connection is
\* asked to close, closed and released once, in this order; as long as a message refers to
\* the protocol and the connection neither is deleted, unless both threads changed the
\* counts at a time; and no task of the protocol runs after it was deleted.
THEOREM ConnectionIsSafe == Spec => []Inv
BY Invariance, InvFollows, PTL

\* Nothing but a timeout closes the socket under a message that is being written.
THEOREM LastMessageIsWritten == Spec => LastMessageNotCutOff
<1>1. IInv /\ [Next]_vars =>
        [conn.socket = "open" /\ conn'.socket # "open" /\ conn'.writeOp # NoMsg
           => conn.readFired \/ conn.writeFired]_vars
  <2> SUFFICES ASSUME IInv, Next, conn.socket = "open", conn'.socket # "open",
                      conn'.writeOp # NoMsg
               PROVE  conn.readFired \/ conn.writeFired
    BY DEF vars
  <2>1. CASE StepSound
    BY <2>1 DEF StepSound
  <2>2. CASE BeginRelease \/ EndRelease \/ DispatcherStops
    <3>1. conn'.socket = conn.socket
      <4>1. CASE BeginRelease
        BY <4>1, Accepted DEF BeginRelease, Connections
      <4>2. CASE EndRelease
        BY <4>2, Accepted DEF EndRelease, Connections
      <4>3. CASE DispatcherStops
        BY <4>3 DEF DispatcherStops
      <4>4. QED
        BY <2>2, <4>1, <4>2, <4>3
    <3>2. QED
      BY <3>1
  <2>3. QED
    BY <2>1, <2>2, NextSound
<1>2. QED
  BY <1>1, Invariance, PTL DEF Spec, LastMessageNotCutOff

=============================================================================
