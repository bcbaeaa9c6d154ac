-------------------------- MODULE OutputPool_proofs --------------------------
(****************************************************************************)
(* The pool of output messages for any number of connections and messages:  *)
(* where each message is, which locks may be waited for in which order, and *)
(* in which order a client gets what was written for it.                    *)
(****************************************************************************)
EXTENDS OutputPool, Lists_proofs, FiniteSetTheorems

----------------------------------------------------------------------------
(* Which thread holds which lock *)

\* The network thread is in a handler, which holds the lock of its connection.
InHandler == net.pc \in {"answer", "state", "send", "finish", "written"}

\* Only three locks are held from one step to the next: the pool's while sendAll() runs,
\* the dispatcher's while flush() does, and a connection's while its handler does.
LocksHeld ==
  /\ DOMAIN owner = Locks
  /\ owner["pool"] = IF disp.pc = "sendAll" THEN "dispatcher" ELSE "none"
  /\ owner["task"] = IF phase = "flushing" THEN "dispatcher" ELSE "none"
  /\ \A c \in Conn : owner[c] = IF InHandler /\ net.conn = c THEN "network" ELSE "none"
  /\ InHandler => net.conn \in Conn

DispPcs == {"idle", "task", "send", "hangUp", "lock", "sendAll", "end"}
NetPcs == {"idle", "answer", "state", "send", "finish", "written", "release"}

DispRecords == [pc : DispPcs, msg : Msg \cup {NoMsg}, conn : Conn \cup {NoConn}]
NetRecords == [pc : NetPcs, msg : Msg \cup {NoMsg}, conn : Conn \cup {NoConn}]

ConnRecords ==
  [open : BOOLEAN, attached : BOOLEAN, closeTask : BOOLEAN, writing : Msg \cup {NoMsg}]

\* The type invariant in two parts: the threads and locks, and the data they share.
ThreadTypes ==
  /\ owner \in [Locks -> {"dispatcher", "network", "none"}]
  /\ phase \in {"running", "stopped", "flushing", "ended"}
  /\ isOpen \in BOOLEAN
  /\ disp \in DispRecords
  /\ net \in NetRecords

DataTypes ==
  /\ autoSend \in Seq(Msg) /\ toAdd \in Seq(Msg)
  /\ age \in [Msg -> 0..(DropAge + 1)]
  /\ msgConn \in [Msg -> Conn \cup {NoConn}]
  /\ conn \in [Conn -> ConnRecords]
  /\ buffer \in [Conn -> Msg \cup {NoMsg}]
  /\ releasing \subseteq Msg /\ leaked \subseteq Msg
  /\ issued \in [Conn -> Seq(Msg)]
  /\ together \subseteq Msg

LEMMA TypesInParts == TypeOK <=> ThreadTypes /\ DataTypes
BY DEF TypeOK, ThreadTypes, DataTypes, DispPcs, NetPcs, DispRecords, NetRecords, ConnRecords

----------------------------------------------------------------------------
(* The inductive invariant *)

Where == {"free", "auto", "aside", "writing", "dispatcher", "network", "releasing", "leaked"}

\* m is at w: free, on one of the two lists, being written on the connection it is for, in
\* the hands of one of the threads, on its way back, or leaked; and nowhere else.
IsAt(m, w) ==
  /\ m \in ToSet(autoSend) <=> w = "auto"
  /\ m \in ToSet(toAdd) <=> w = "aside"
  /\ disp.msg = m <=> w = "dispatcher"
  /\ net.msg = m <=> w = "network"
  /\ m \in releasing <=> w = "releasing"
  /\ m \in leaked <=> w = "leaked"
  /\ msgConn[m] = NoConn <=> w = "free"
  /\ \A c \in Conn : conn[c].writing = m <=> w = "writing" /\ msgConn[m] = c

Placed == \A m \in Msg : \E w \in Where : IsAt(m, w)

\* No message is on a list twice.
NoneTwice ==
  \A m : /\ ~Precedes(autoSend, m, m) /\ ~Precedes(toAdd, m, m)
         /\ \A c \in Conn : ~Precedes(issued[c], m, m)

\* What a thread has in its hands goes with the place it is at.
DispKnows ==
  IF disp.pc = "send"
  THEN disp.msg \in Msg /\ disp.conn \in Conn /\ msgConn[disp.msg] = disp.conn
  ELSE disp.msg = NoMsg /\ (disp.pc = "hangUp" => disp.conn \in Conn)

NetKnows ==
  /\ IF net.pc \in {"state", "send"}
     THEN net.msg \in Msg /\ msgConn[net.msg] = net.conn
     ELSE net.msg \in Msg <=> net.pc = "release"
  /\ net.pc = "written" => conn[net.conn].writing \in Msg

\* What the game wrote for c and was not sent or dropped waits on one of the lists.
IssuedWait ==
  \A c \in Conn : \A m \in ToSet(issued[c]) : m \in OnLists /\ msgConn[m] = c

\* What sendAll() put aside was due, and grows older.
AsideIsDue ==
  \A c \in Conn : \A m \in ToSet(issued[c]) : m \in ToSet(toAdd) => Due(m)

\* The list keeps the order in which the game wrote, except among messages that were put
\* back together.
ListInOrder ==
  \A c \in Conn : \A m, n \in Msg :
    (Precedes(issued[c], m, n) /\ ~({m, n} \subseteq together) /\ m \in ToSet(autoSend)) =>
      Precedes(autoSend, m, n)

\* What the threads know, and how the data hang together.
ThreadsSound == ThreadTypes /\ LocksHeld

DataSound ==
  /\ DataTypes
  /\ Placed
  /\ NoneTwice
  /\ BufferIsUnsent
  /\ IssuedWait
  /\ AsideIsDue
  /\ ListInOrder

IInv == ThreadsSound /\ DispKnows /\ NetKnows /\ DataSound

----------------------------------------------------------------------------
(* Steps of the threads *)

LEMMA DispGoes ==
  ASSUME disp \in DispRecords, NEW pc \in DispPcs, disp' = [disp EXCEPT !.pc = pc]
  PROVE  disp' \in DispRecords /\ disp'.pc = pc /\ disp'.msg = disp.msg /\ disp'.conn = disp.conn
BY DEF DispRecords

LEMMA NetGoes ==
  ASSUME net \in NetRecords, NEW pc \in NetPcs, net' = [net EXCEPT !.pc = pc]
  PROVE  net' \in NetRecords /\ net'.pc = pc /\ net'.msg = net.msg /\ net'.conn = net.conn
BY DEF NetRecords

LEMMA NetIs ==
  ASSUME NEW pc \in NetPcs, NEW m \in Msg \cup {NoMsg}, NEW c \in Conn \cup {NoConn},
         net' = [pc |-> pc, msg |-> m, conn |-> c]
  PROVE  net' \in NetRecords /\ net'.pc = pc /\ net'.msg = m /\ net'.conn = c
BY DEF NetRecords

LEMMA DispIs ==
  ASSUME NEW pc \in DispPcs, NEW m \in Msg \cup {NoMsg}, NEW c \in Conn \cup {NoConn},
         disp' = [pc |-> pc, msg |-> m, conn |-> c]
  PROVE  disp' \in DispRecords /\ disp'.pc = pc /\ disp'.msg = m /\ disp'.conn = c
BY DEF DispRecords

LEMMA LockNames ==
  /\ "pool" \in Locks /\ "task" \in Locks /\ Conn \subseteq Locks
  /\ "pool" \notin Conn /\ "task" \notin Conn
BY OutputPoolAssumption DEF Locks

\* No lock is taken or given back.
LEMMA NoLock ==
  ASSUME ThreadsSound, owner' = owner, isOpen' \in BOOLEAN,
         disp' \in DispRecords, disp'.pc = "sendAll" <=> disp.pc = "sendAll",
         phase' \in {"running", "stopped", "flushing", "ended"},
         phase' = "flushing" <=> phase = "flushing",
         net' \in NetRecords, InHandler' <=> InHandler, InHandler => net'.conn = net.conn
  PROVE  ThreadsSound'
BY DEF ThreadsSound, ThreadTypes, LocksHeld

\* The dispatcher's thread takes the lock of the pool, or gives it back.
LEMMA PoolLock ==
  ASSUME ThreadsSound, NEW o \in {"dispatcher", "none"},
         owner' = [owner EXCEPT !["pool"] = o],
         disp' \in DispRecords, disp'.pc = "sendAll" <=> o = "dispatcher",
         UNCHANGED <<phase, isOpen, net>>
  PROVE  ThreadsSound'
<1>1. /\ owner' \in [Locks -> {"dispatcher", "network", "none"}] /\ owner'["pool"] = o
      /\ \A l \in Locks \ {"pool"} : owner'[l] = owner[l]
  BY LockNames DEF ThreadsSound, ThreadTypes
<1>2. owner'["task"] = owner["task"] /\ \A c \in Conn : owner'[c] = owner[c]
  BY <1>1, LockNames
<1>3. InHandler' <=> InHandler
  BY DEF InHandler
<1>4. QED
  BY <1>1, <1>2, <1>3 DEF ThreadsSound, ThreadTypes, LocksHeld

\* flush() takes the lock of the dispatcher, or gives it back.
LEMMA TaskLock ==
  ASSUME ThreadsSound, NEW o \in {"dispatcher", "none"},
         owner' = [owner EXCEPT !["task"] = o],
         disp' \in DispRecords, disp'.pc = "sendAll" <=> disp.pc = "sendAll",
         phase' \in {"running", "stopped", "flushing", "ended"},
         phase' = "flushing" <=> o = "dispatcher",
         isOpen' \in BOOLEAN, UNCHANGED net
  PROVE  ThreadsSound'
<1>1. /\ owner' \in [Locks -> {"dispatcher", "network", "none"}] /\ owner'["task"] = o
      /\ \A l \in Locks \ {"task"} : owner'[l] = owner[l]
  BY LockNames DEF ThreadsSound, ThreadTypes
<1>2. owner'["pool"] = owner["pool"] /\ \A c \in Conn : owner'[c] = owner[c]
  BY <1>1, LockNames
<1>3. InHandler' <=> InHandler
  BY DEF InHandler
<1>4. QED
  BY <1>1, <1>2, <1>3 DEF ThreadsSound, ThreadTypes, LocksHeld

\* A handler takes the lock of its connection.
LEMMA HandlerEnters ==
  ASSUME ThreadsSound, NEW c \in Conn, net.pc = "idle",
         owner' = [owner EXCEPT ![c] = "network"],
         net' \in NetRecords, InHandler', net'.conn = c,
         UNCHANGED <<phase, isOpen, disp>>
  PROVE  ThreadsSound'
<1>1. /\ owner' \in [Locks -> {"dispatcher", "network", "none"}] /\ owner'[c] = "network"
      /\ \A l \in Locks \ {c} : owner'[l] = owner[l]
  BY LockNames DEF ThreadsSound, ThreadTypes
<1>2. owner'["pool"] = owner["pool"] /\ owner'["task"] = owner["task"]
  BY <1>1, LockNames
<1>3. \A d \in Conn \ {c} : owner'[d] = "none"
  BY <1>1, LockNames DEF ThreadsSound, LocksHeld, InHandler
<1>4. QED
  BY <1>1, <1>2, <1>3 DEF ThreadsSound, ThreadTypes, LocksHeld

\* And gives it back.
LEMMA HandlerLeaves ==
  ASSUME ThreadsSound, InHandler,
         owner' = [owner EXCEPT ![net.conn] = "none"],
         net' \in NetRecords, ~InHandler',
         UNCHANGED <<phase, isOpen, disp>>
  PROVE  ThreadsSound'
<1>1. net.conn \in Conn
  BY DEF ThreadsSound, LocksHeld
<1>2. /\ owner' \in [Locks -> {"dispatcher", "network", "none"}] /\ owner'[net.conn] = "none"
      /\ \A l \in Locks \ {net.conn} : owner'[l] = owner[l]
  BY <1>1, LockNames DEF ThreadsSound, ThreadTypes
<1>3. owner'["pool"] = owner["pool"] /\ owner'["task"] = owner["task"]
  BY <1>1, <1>2, LockNames
<1>4. \A d \in Conn : owner'[d] = "none"
  BY <1>1, <1>2, LockNames DEF ThreadsSound, LocksHeld
<1>5. QED
  BY <1>2, <1>3, <1>4 DEF ThreadsSound, ThreadTypes, LocksHeld

----------------------------------------------------------------------------
(* Steps on the data *)

\* n is not moved.
Stays(n) ==
  /\ n \in ToSet(autoSend)' <=> n \in ToSet(autoSend)
  /\ n \in ToSet(toAdd)' <=> n \in ToSet(toAdd)
  /\ disp'.msg = n <=> disp.msg = n
  /\ net'.msg = n <=> net.msg = n
  /\ n \in releasing' <=> n \in releasing
  /\ n \in leaked' <=> n \in leaked
  /\ msgConn'[n] = msgConn[n]
  /\ \A c \in Conn : conn'[c].writing = n <=> conn[c].writing = n

LEMMA StaysWhereItIs ==
  ASSUME NEW n, Stays(n), NEW w, IsAt(n, w)
  PROVE  IsAt(n, w)'
BY DEF Stays, IsAt

\* No message changes its place, and none becomes younger while it waits.
LEMMA NothingMoves ==
  ASSUME DataSound, DataTypes',
         UNCHANGED <<autoSend, toAdd, issued, together, msgConn, buffer, releasing, leaked>>,
         disp'.msg = disp.msg, net'.msg = net.msg,
         \A c \in Conn : conn'[c].writing = conn[c].writing,
         \A m \in OnLists : age[m] > 0 => age'[m] > 0
  PROVE  DataSound'
<1>1. \A n \in Msg : Stays(n)
  BY DEF Stays
<1>2. Placed'
  BY <1>1, StaysWhereItIs DEF DataSound, Placed
<1>3. OnLists' = OnLists
  BY DEF OnLists
<1>4. NoneTwice' /\ BufferIsUnsent' /\ IssuedWait' /\ ListInOrder'
  BY <1>3 DEF DataSound, NoneTwice, BufferIsUnsent, IssuedWait, ListInOrder
<1>5. AsideIsDue'
  BY <1>3 DEF DataSound, AsideIsDue, IssuedWait, Due
<1>6. QED
  BY <1>2, <1>4, <1>5 DEF DataSound

LEMMA Members ==
  ASSUME DataTypes
  PROVE  /\ ToSet(autoSend) \subseteq Msg /\ ToSet(toAdd) \subseteq Msg /\ OnLists \subseteq Msg
         /\ \A c \in Conn : issued[c] \in Seq(Msg) /\ ToSet(issued[c]) \subseteq Msg
<1>1. ASSUME NEW s \in Seq(Msg) PROVE ToSet(s) \subseteq Msg
  BY DEF ToSet
<1>2. QED
  BY <1>1 DEF DataTypes, OnLists

\* A message that is free has no other place.
LEMMA FreeIsNowhere ==
  ASSUME DataSound, NEW m \in Msg, msgConn[m] = NoConn
  PROVE  /\ m \notin OnLists /\ m \notin releasing /\ m \notin leaked
         /\ m # disp.msg /\ m # net.msg
         /\ \A c \in Conn : conn[c].writing # m /\ buffer[c] # m /\ m \notin ToSet(issued[c])
<1>1. PICK w \in Where : IsAt(m, w)
  BY DEF DataSound, Placed
<1>2. /\ m \notin ToSet(autoSend) /\ m \notin ToSet(toAdd) /\ m \notin releasing /\ m \notin leaked
      /\ m # disp.msg /\ m # net.msg /\ \A c \in Conn : conn[c].writing # m
  BY <1>1 DEF IsAt
<1>3. m # NoMsg
  BY OutputPoolAssumption
<1>4. QED
  BY <1>2, <1>3 DEF OnLists, DataSound, BufferIsUnsent, IssuedWait

LEMMA ConfigureTakes ==
  ASSUME DataTypes, NEW c \in Conn, NEW m \in Msg, Configure(c, m)
  PROVE  /\ msgConn[m] = NoConn /\ msgConn'[m] = c
         /\ \A n \in Msg \ {m} : msgConn'[n] = msgConn[n] /\ age'[n] = age[n]
         /\ msgConn' \in [Msg -> Conn \cup {NoConn}]
         /\ age' \in [Msg -> 0..(DropAge + 1)]
<1>1. msgConn' = [msgConn EXCEPT ![m] = c] /\ age' = [age EXCEPT ![m] = 0]
  BY DEF Configure
<1>2. m \in Free
  BY DEF Configure
<1>3. 0 \in 0..(DropAge + 1)
  BY OutputPoolAssumption
<1>4. QED
  BY <1>1, <1>2, <1>3 DEF DataTypes, Free

\* A thread gets a free message and has it in its hands.
LEMMA ThreadGets ==
  ASSUME DataSound, NEW c \in Conn, NEW m \in Msg, Configure(c, m),
         UNCHANGED <<autoSend, toAdd, issued, together, conn, buffer, releasing, leaked>>,
         \/ disp.msg = NoMsg /\ disp'.msg = m /\ net'.msg = net.msg
         \/ net.msg = NoMsg /\ net'.msg = m /\ disp'.msg = disp.msg
  PROVE  /\ DataSound' /\ msgConn'[m] = c
         /\ \A n \in Msg : n = disp.msg \/ n = net.msg => msgConn'[n] = msgConn[n]
<1>1. /\ msgConn[m] = NoConn /\ msgConn'[m] = c
      /\ \A n \in Msg \ {m} : msgConn'[n] = msgConn[n] /\ age'[n] = age[n]
      /\ DataTypes'
  BY ConfigureTakes DEF DataTypes, DataSound
<1>2. c # NoConn /\ m # NoMsg
  BY OutputPoolAssumption
<1>3. /\ m \notin OnLists /\ m \notin releasing /\ m \notin leaked
      /\ m # disp.msg /\ m # net.msg
      /\ \A d \in Conn : conn[d].writing # m /\ buffer[d] # m /\ m \notin ToSet(issued[d])
  BY <1>1, FreeIsNowhere
<1>4. ASSUME NEW n \in Msg \ {m} PROVE Stays(n)
  <2>1. n # NoMsg
    BY OutputPoolAssumption
  <2>2. QED
    BY <1>1, <2>1 DEF Stays
<1>5. Placed'
  <2>1. \E w \in Where : IsAt(m, w)'
    <3>1. CASE disp'.msg = m
      <4>1. IsAt(m, "dispatcher")'
        BY <1>1, <1>2, <1>3, <3>1 DEF IsAt, OnLists
      <4>2. QED
        BY <4>1 DEF Where
    <3>2. CASE net'.msg = m
      <4>1. IsAt(m, "network")'
        BY <1>1, <1>2, <1>3, <3>2 DEF IsAt, OnLists
      <4>2. QED
        BY <4>1 DEF Where
    <3>3. QED
      BY <3>1, <3>2
  <2>2. QED
    BY <1>4, <2>1, StaysWhereItIs DEF DataSound, Placed
<1>6. OnLists' = OnLists
  BY DEF OnLists
<1>7. NoneTwice' /\ ListInOrder'
  BY DEF DataSound, NoneTwice, ListInOrder
<1>8. BufferIsUnsent'
  BY <1>1, <1>3, <1>6 DEF DataSound, BufferIsUnsent, DataTypes
<1>9. IssuedWait'
  BY <1>1, <1>3, <1>6, Members DEF DataSound, IssuedWait
<1>10. AsideIsDue'
  BY <1>1, <1>3, <1>6, Members DEF DataSound, AsideIsDue, Due
<1>11. QED
  BY <1>1, <1>3, <1>5, <1>7, <1>8, <1>9, <1>10 DEF DataSound

\* The game gets a free message, and a place behind the others.
LEMMA GameWritesSound ==
  ASSUME DataSound, NEW c \in Conn, NEW m \in Msg, GameWrites(c, m)
  PROVE  /\ DataSound'
         /\ \A n \in Msg : n = disp.msg \/ n = net.msg => msgConn'[n] = msgConn[n]
<1>1. /\ Configure(c, m)
      /\ autoSend' = Append(autoSend, m)
      /\ issued' = [issued EXCEPT ![c] = Append(@, m)]
      /\ buffer' = [buffer EXCEPT ![c] = m]
      /\ UNCHANGED <<disp, net, toAdd, conn, releasing, leaked, together>>
  BY DEF GameWrites, threads
<1>2. /\ msgConn[m] = NoConn /\ msgConn'[m] = c
      /\ \A n \in Msg \ {m} : msgConn'[n] = msgConn[n] /\ age'[n] = age[n]
      /\ msgConn' \in [Msg -> Conn \cup {NoConn}]
      /\ age' \in [Msg -> 0..(DropAge + 1)]
  BY <1>1, ConfigureTakes DEF DataSound
<1>3. c # NoConn /\ m # NoMsg
  BY OutputPoolAssumption
<1>4. /\ m \notin OnLists /\ m \notin releasing /\ m \notin leaked
      /\ m # disp.msg /\ m # net.msg
      /\ \A d \in Conn : conn[d].writing # m /\ buffer[d] # m /\ m \notin ToSet(issued[d])
  BY <1>2, FreeIsNowhere
<1>5. DataTypes
  BY DEF DataSound
<1>6. /\ autoSend \in Seq(Msg) /\ autoSend' \in Seq(Msg)
      /\ ToSet(autoSend)' = ToSet(autoSend) \cup {m}
      /\ \A x, y : Precedes(autoSend', x, y) <=>
                     Precedes(autoSend, x, y) \/ (x \in ToSet(autoSend) /\ y = m)
  <2>1. autoSend \in Seq(Msg)
    BY <1>5 DEF DataTypes
  <2>2. QED
    BY <1>1, <2>1, AppendKeeps
<1>7. /\ issued[c] \in Seq(Msg) /\ Append(issued[c], m) \in Seq(Msg)
      /\ issued' = [issued EXCEPT ![c] = Append(issued[c], m)]
  BY <1>1, <1>5, Members, AppendKeeps
<1>8. /\ issued' \in [Conn -> Seq(Msg)] /\ issued'[c] = Append(issued[c], m)
      /\ \A d \in Conn \ {c} : issued'[d] = issued[d]
  BY <1>5, <1>7 DEF DataTypes
<1>9. /\ ToSet(issued'[c]) = ToSet(issued[c]) \cup {m}
      /\ \A x, y : Precedes(issued'[c], x, y) <=>
                     Precedes(issued[c], x, y) \/ (x \in ToSet(issued[c]) /\ y = m)
  BY <1>7, <1>8, AppendKeeps
<1>10. /\ buffer' \in [Conn -> Msg \cup {NoMsg}] /\ buffer'[c] = m
       /\ \A d \in Conn \ {c} : buffer'[d] = buffer[d]
  BY <1>1, <1>5 DEF DataTypes
<1>11. DataTypes'
  BY <1>1, <1>2, <1>5, <1>6, <1>8, <1>10 DEF DataTypes
<1>12. OnLists' = OnLists \cup {m} /\ OnLists \subseteq Msg
  BY <1>1, <1>5, <1>6, Members DEF OnLists
<1>13. Placed'
  <2>1. ASSUME NEW n \in Msg \ {m} PROVE Stays(n)
    BY <1>1, <1>2, <1>6 DEF Stays
  <2>2. IsAt(m, "auto")'
    BY <1>1, <1>2, <1>3, <1>4, <1>6 DEF IsAt, OnLists
  <2>3. \E w \in Where : IsAt(m, w)'
    BY <2>2 DEF Where
  <2>4. QED
    BY <2>1, <2>3, StaysWhereItIs DEF DataSound, Placed
<1>14. NoneTwice'
  <2>1. ASSUME NEW d \in Conn, NEW x PROVE ~Precedes(issued'[d], x, x)
    <3>1. ~Precedes(issued[d], x, x)
      BY DEF DataSound, NoneTwice
    <3>2. CASE d = c
      <4>1. ~(x \in ToSet(issued[c]) /\ x = m)
        BY <1>4
      <4>2. QED
        BY <1>9, <3>1, <3>2, <4>1
    <3>3. CASE d # c
      BY <1>8, <3>1, <3>3
    <3>4. QED
      BY <3>2, <3>3
  <2>2. QED
    BY <1>1, <1>4, <1>6, <2>1 DEF DataSound, NoneTwice, OnLists
<1>15. BufferIsUnsent'
  <2> SUFFICES ASSUME NEW d \in Conn, buffer'[d] # NoMsg
               PROVE  buffer'[d] \in OnLists' /\ msgConn'[buffer'[d]] = d
    BY DEF BufferIsUnsent
  <2>1. CASE d = c
    BY <1>2, <1>10, <1>12, <2>1
  <2>2. CASE d # c
    <3>1. buffer'[d] = buffer[d] /\ buffer[d] # m
      BY <1>4, <1>10, <2>2
    <3>2. buffer[d] \in OnLists /\ msgConn[buffer[d]] = d
      BY <3>1 DEF DataSound, BufferIsUnsent
    <3>3. QED
      BY <1>2, <1>12, <3>1, <3>2
  <2>3. QED
    BY <2>1, <2>2
<1>16. ASSUME NEW d \in Conn, NEW n \in ToSet(issued'[d])
       PROVE  (n = m /\ d = c) \/ (n \in ToSet(issued[d]) /\ n \in Msg \ {m})
  <2>1. CASE d = c
    BY <1>4, <1>5, <1>9, <2>1, Members
  <2>2. CASE d # c
    BY <1>4, <1>5, <1>8, <2>2, Members
  <2>3. QED
    BY <2>1, <2>2
<1>17. IssuedWait' /\ AsideIsDue'
  <2> SUFFICES ASSUME NEW d \in Conn, NEW n \in ToSet(issued'[d])
               PROVE  /\ n \in OnLists' /\ msgConn'[n] = d
                      /\ n \in ToSet(toAdd') => age'[n] > 0
    BY DEF IssuedWait, AsideIsDue, Due
  <2>1. CASE n = m /\ d = c
    BY <1>1, <1>2, <1>4, <1>12, <2>1 DEF OnLists
  <2>2. CASE n \in ToSet(issued[d]) /\ n \in Msg \ {m}
    BY <1>1, <1>2, <1>12, <2>2 DEF DataSound, IssuedWait, AsideIsDue, Due
  <2>3. QED
    BY <1>16, <2>1, <2>2
<1>18. ListInOrder'
  <2>1. SUFFICES ASSUME NEW d \in Conn, NEW x \in Msg, NEW y \in Msg,
                        Precedes(issued'[d], x, y), ~({x, y} \subseteq together),
                        x \in ToSet(autoSend) \cup {m}
                 PROVE  Precedes(autoSend', x, y)
    BY <1>1, <1>6 DEF ListInOrder
  <2>2. CASE d = c /\ y = m /\ x \in ToSet(issued[c])
    BY <1>4, <1>6, <2>1, <2>2
  <2>3. CASE Precedes(issued[d], x, y)
    <3>1. x # m
      <4>1. x \in ToSet(issued[d])
        BY <2>3 DEF Precedes, ToSet
      <4>2. QED
        BY <1>4, <4>1
    <3>2. QED
      BY <1>6, <2>1, <2>3, <3>1 DEF DataSound, ListInOrder
  <2>4. QED
    BY <1>8, <1>9, <2>1, <2>2, <2>3
<1>19. QED
  BY <1>2, <1>4, <1>11, <1>13, <1>14, <1>15, <1>17, <1>18 DEF DataSound

\* internalReleaseMessage(): m is free again.
LEMMA ReleaseMessageSound ==
  ASSUME DataSound, NEW m \in Msg, ReleaseMessage(m)
  PROVE  /\ DataSound'
         /\ \A n \in Msg : n = disp.msg \/ n = net.msg => msgConn'[n] = msgConn[n]
<1>1. /\ m \in releasing
      /\ msgConn' = [msgConn EXCEPT ![m] = NoConn] /\ age' = [age EXCEPT ![m] = 0]
      /\ releasing' = releasing \ {m}
      /\ UNCHANGED <<disp, net, autoSend, toAdd, issued, together, conn, buffer, leaked>>
  BY DEF ReleaseMessage, threads, lists
<1>2. DataTypes /\ 0 \in 0..(DropAge + 1)
  BY OutputPoolAssumption DEF DataSound
<1>3. /\ msgConn' \in [Msg -> Conn \cup {NoConn}] /\ msgConn'[m] = NoConn
      /\ age' \in [Msg -> 0..(DropAge + 1)]
      /\ \A n \in Msg \ {m} : msgConn'[n] = msgConn[n] /\ age'[n] = age[n]
      /\ DataTypes'
  BY <1>1, <1>2 DEF DataTypes
<1>4. IsAt(m, "releasing")
  BY <1>1 DEF DataSound, Placed, IsAt
<1>5. /\ m \notin OnLists /\ m \notin leaked /\ m # disp.msg /\ m # net.msg
      /\ \A d \in Conn : conn[d].writing # m
  BY <1>4 DEF IsAt, OnLists
<1>6. OnLists' = OnLists
  BY <1>1 DEF OnLists
<1>7. Placed'
  <2>1. ASSUME NEW n \in Msg \ {m} PROVE Stays(n)
    BY <1>1, <1>3 DEF Stays
  <2>2. IsAt(m, "free")'
    BY <1>1, <1>3, <1>5 DEF IsAt, OnLists
  <2>3. \E w \in Where : IsAt(m, w)'
    BY <2>2 DEF Where
  <2>4. QED
    BY <2>1, <2>3, StaysWhereItIs DEF DataSound, Placed
<1>8. NoneTwice' /\ ListInOrder'
  BY <1>1 DEF DataSound, NoneTwice, ListInOrder
<1>9. BufferIsUnsent'
  BY <1>1, <1>2, <1>3, <1>5, <1>6, Members DEF DataSound, BufferIsUnsent
<1>10. IssuedWait'
  BY <1>1, <1>2, <1>3, <1>5, <1>6, Members DEF DataSound, IssuedWait
<1>11. AsideIsDue'
  BY <1>1, <1>2, <1>3, <1>5, Members DEF DataSound, AsideIsDue, Due, OnLists
<1>12. QED
  BY <1>3, <1>5, <1>7, <1>8, <1>9, <1>10, <1>11 DEF DataSound

LEMMA SealedKeeps ==
  ASSUME DataTypes, NEW ms \in SUBSET Msg, Sealed(ms)
  PROVE  /\ buffer' \in [Conn -> Msg \cup {NoMsg}]
         /\ \A c \in Conn : buffer'[c] # NoMsg => buffer'[c] = buffer[c] /\ buffer[c] \notin ms
BY DEF Sealed, DataTypes

LEMMA DropKeeps ==
  ASSUME DataTypes, NEW ms \in SUBSET Msg, Drop(ms)
  PROVE  /\ releasing' \subseteq Msg /\ leaked' \subseteq Msg
         /\ \E w \in {"releasing", "leaked"} :
              /\ releasing' = IF w = "releasing" THEN releasing \cup ms ELSE releasing
              /\ leaked' = IF w = "leaked" THEN leaked \cup ms ELSE leaked
<1>1. CASE phase = "running"
  BY <1>1 DEF Drop, DataTypes
<1>2. CASE phase # "running"
  BY <1>2 DEF Drop, DataTypes
<1>3. QED
  BY <1>1, <1>2

\* What is written for c, without the messages that are gone.
Remains(ms) ==
  /\ issued' \in [Conn -> Seq(Msg)] /\ together' \subseteq Msg
  /\ \A c \in Conn :
       /\ ToSet(issued'[c]) = ToSet(issued[c]) \ ms
       /\ \A x, y : Precedes(issued'[c], x, y) =>
                      Precedes(issued[c], x, y) /\ x \notin ms /\ y \notin ms

LEMMA OnlyRemains ==
  ASSUME DataTypes, NEW ms \in SUBSET Msg,
         issued' = [c \in Conn |-> Only(issued[c], Msg \ ms)], together' \subseteq Msg
  PROVE  Remains(ms)
<1>1. ASSUME NEW c \in Conn
      PROVE  /\ issued'[c] \in Seq(Msg)
             /\ ToSet(issued'[c]) = ToSet(issued[c]) \ ms
             /\ \A x, y : Precedes(issued'[c], x, y) =>
                            Precedes(issued[c], x, y) /\ x \notin ms /\ y \notin ms
  <2>1. issued'[c] = Only(issued[c], Msg \ ms)
    OBVIOUS
  <2>2. issued[c] \in Seq(Msg) /\ ToSet(issued[c]) \subseteq Msg
    BY Members
  <2>3. /\ Only(issued[c], Msg \ ms) \in Seq(Msg)
        /\ ToSet(Only(issued[c], Msg \ ms)) = ToSet(issued[c]) \cap (Msg \ ms)
        /\ \A x, y : Precedes(Only(issued[c], Msg \ ms), x, y) <=>
                       Precedes(issued[c], x, y) /\ x \in Msg \ ms /\ y \in Msg \ ms
    BY <2>2, OnlyKeeps
  <2>4. QED
    BY <2>1, <2>2, <2>3
<1>2. issued' \in [Conn -> Seq(Msg)]
  BY <1>1
<1>3. QED
  BY <1>1, <1>2 DEF Remains

LEMMA GoneKeeps ==
  ASSUME DataTypes, NEW ms \in SUBSET Msg, Gone(ms)
  PROVE  Remains(ms) /\ together' = together \ ms
<1>1. together' \subseteq Msg
  BY DEF Gone, DataTypes
<1>2. QED
  BY <1>1, OnlyRemains DEF Gone

\* m is taken from where it was, the head of the list or the hands of a thread, and not yet
\* put anywhere else.
Taken(m) ==
  /\ m \in ToSet(autoSend) \/ disp.msg = m \/ net.msg = m
  /\ m \in ToSet(autoSend) => Due(m)
  /\ autoSend' \in Seq(Msg) /\ ToSet(autoSend') = ToSet(autoSend) \ {m}
  /\ \A x, y : Precedes(autoSend', x, y) <=> Precedes(autoSend, x, y) /\ x # m
  /\ disp'.msg # m /\ net'.msg # m
  /\ \A n \in Msg \ {m} : /\ disp'.msg = n <=> disp.msg = n
                          /\ net'.msg = n <=> net.msg = n
  /\ msgConn' = msgConn /\ age' = age

\* What connects the data after m was taken and put at w.
LEMMA TakenSound ==
  ASSUME DataSound, NEW m \in Msg, Taken(m), DataTypes',
         NEW w \in {"aside", "writing", "releasing", "leaked"},
         NEW c \in Conn, msgConn[m] = c,
         \A d \in Conn : conn'[d].writing = IF w = "writing" /\ d = c THEN m ELSE conn[d].writing,
         w = "writing" => conn[c].writing = NoMsg,
         ToSet(toAdd') = IF w = "aside" THEN ToSet(toAdd) \cup {m} ELSE ToSet(toAdd),
         releasing' = IF w = "releasing" THEN releasing \cup {m} ELSE releasing,
         leaked' = IF w = "leaked" THEN leaked \cup {m} ELSE leaked,
         \A x : ~Precedes(toAdd', x, x),
         IF w = "aside"
         THEN UNCHANGED <<buffer, issued, together>>
         ELSE /\ Remains({m}) /\ together' = together \ {m}
              /\ \A d \in Conn : buffer'[d] # NoMsg => buffer'[d] = buffer[d] /\ buffer[d] # m
  PROVE  DataSound'
<1>1. DataTypes /\ m # NoMsg /\ c # NoConn
  BY OutputPoolAssumption DEF DataSound
<1>2. PICK v \in Where : IsAt(m, v)
  BY DEF DataSound, Placed
<1>3. v \in {"auto", "dispatcher", "network"}
  BY <1>2 DEF IsAt, Taken
<1>4. ASSUME NEW n \in Msg \ {m} PROVE Stays(n)
  <2>1. n # NoMsg
    BY OutputPoolAssumption
  <2>2. QED
    BY <2>1 DEF Stays, Taken
<1>5. IsAt(m, w)'
  BY <1>1, <1>2, <1>3 DEF IsAt, Taken
<1>6. Placed'
  BY <1>4, <1>5, StaysWhereItIs DEF DataSound, Placed, Where
<1>7. NoneTwice'
  BY DEF DataSound, NoneTwice, Taken, Remains
<1>8. OnLists' = IF w = "aside" THEN OnLists \cup {m} ELSE OnLists \ {m}
  BY <1>2, <1>3 DEF OnLists, Taken, IsAt
<1>9. BufferIsUnsent'
  <2> SUFFICES ASSUME NEW d \in Conn, buffer'[d] # NoMsg
               PROVE  buffer'[d] \in OnLists' /\ msgConn'[buffer'[d]] = d
    BY DEF BufferIsUnsent
  <2>1. buffer'[d] = buffer[d] /\ (w # "aside" => buffer[d] # m)
    OBVIOUS
  <2>2. QED
    BY <1>8, <2>1 DEF DataSound, BufferIsUnsent, Taken
<1>10. ASSUME NEW d \in Conn
       PROVE  /\ ToSet(issued'[d]) \subseteq ToSet(issued[d])
              /\ w # "aside" => m \notin ToSet(issued'[d])
              /\ \A x, y : Precedes(issued'[d], x, y) =>
                             /\ Precedes(issued[d], x, y)
                             /\ w # "aside" => x # m /\ y # m
  BY DEF Remains
<1>11. IssuedWait'
  BY <1>8, <1>10 DEF DataSound, IssuedWait, Taken
<1>12. AsideIsDue'
  <2> SUFFICES ASSUME NEW d \in Conn, NEW n \in ToSet(issued'[d]), n \in ToSet(toAdd')
               PROVE  age[n] > 0
    BY DEF AsideIsDue, Due, Taken
  <2>1. n \in ToSet(issued[d])
    BY <1>10
  <2>2. CASE n \in ToSet(toAdd)
    BY <2>1, <2>2 DEF DataSound, AsideIsDue, Due
  <2>3. CASE n = m /\ w = "aside"
    <3>1. n \in OnLists
      BY <2>1 DEF DataSound, IssuedWait
    <3>2. n \in ToSet(autoSend)
      BY <1>2, <1>3, <2>3, <3>1 DEF IsAt, OnLists
    <3>3. QED
      BY <2>3, <3>2 DEF Taken, Due
  <2>4. QED
    BY <2>2, <2>3
<1>13. ListInOrder'
  <2> SUFFICES ASSUME NEW d \in Conn, NEW x \in Msg, NEW y \in Msg,
                      Precedes(issued'[d], x, y), ~({x, y} \subseteq together'),
                      x \in ToSet(autoSend')
               PROVE  Precedes(autoSend', x, y)
    BY DEF ListInOrder
  <2>1. Precedes(issued[d], x, y) /\ (w # "aside" => x # m /\ y # m)
    BY <1>10
  <2>2. ~({x, y} \subseteq together)
    BY <2>1
  <2>3. x \in ToSet(autoSend) /\ x # m
    BY DEF Taken
  <2>4. Precedes(autoSend, x, y)
    BY <2>1, <2>2, <2>3 DEF DataSound, ListInOrder
  <2>5. QED
    BY <2>3, <2>4 DEF Taken
<1>14. QED
  BY <1>6, <1>7, <1>9, <1>11, <1>12, <1>13 DEF DataSound

\* Connection::send(), in each of its three branches.
LEMMA SendSound ==
  ASSUME DataSound, NEW c \in Conn, NEW m \in Msg, msgConn[m] = c, Taken(m), Send(c, m)
  PROVE  /\ DataSound'
         /\ \A d \in Conn : conn[d].writing \in Msg => conn'[d].writing = conn[d].writing
<1>1. DataTypes /\ m # NoMsg /\ {m} \in SUBSET Msg
  BY OutputPoolAssumption DEF DataSound
<1>2. /\ autoSend' \in Seq(Msg) /\ msgConn' = msgConn /\ age' = age
      /\ m \notin ToSet(toAdd)
  <2>1. PICK w \in Where : IsAt(m, w)
    BY DEF DataSound, Placed
  <2>2. QED
    BY <2>1 DEF IsAt, Taken
<1>3. CASE ~conn[c].open
  <2>1. Sealed({m}) /\ Gone({m}) /\ Drop({m}) /\ conn' = conn /\ toAdd' = toAdd
    BY <1>3 DEF Send
  <2>2. /\ buffer' \in [Conn -> Msg \cup {NoMsg}]
        /\ \A d \in Conn : buffer'[d] # NoMsg => buffer'[d] = buffer[d] /\ buffer[d] # m
    BY <1>1, <2>1, SealedKeeps
  <2>3. Remains({m}) /\ together' = together \ {m}
    BY <1>1, <2>1, GoneKeeps
  <2>4. /\ releasing' \subseteq Msg /\ leaked' \subseteq Msg
        /\ \E w \in {"releasing", "leaked"} :
             /\ releasing' = IF w = "releasing" THEN releasing \cup {m} ELSE releasing
             /\ leaked' = IF w = "leaked" THEN leaked \cup {m} ELSE leaked
    BY <1>1, <2>1, DropKeeps
  <2>5. DataTypes'
    BY <1>1, <1>2, <2>1, <2>2, <2>3, <2>4 DEF DataTypes, Remains
  <2>6. \A x : ~Precedes(toAdd', x, x)
    BY <2>1 DEF DataSound, NoneTwice
  <2>7. PICK w \in {"releasing", "leaked"} :
          /\ releasing' = IF w = "releasing" THEN releasing \cup {m} ELSE releasing
          /\ leaked' = IF w = "leaked" THEN leaked \cup {m} ELSE leaked
    BY <2>4
  <2>8. DataSound'
    BY <2>1, <2>2, <2>3, <2>5, <2>6, <2>7, TakenSound
  <2>9. QED
    BY <2>1, <2>8
<1>4. CASE conn[c].open /\ conn[c].writing = NoMsg
  <2>1. /\ conn' = [conn EXCEPT ![c].writing = m] /\ Sealed({m}) /\ Gone({m})
        /\ UNCHANGED <<toAdd, releasing, leaked>>
    BY <1>4 DEF Send
  <2>2. /\ buffer' \in [Conn -> Msg \cup {NoMsg}]
        /\ \A d \in Conn : buffer'[d] # NoMsg => buffer'[d] = buffer[d] /\ buffer[d] # m
    BY <1>1, <2>1, SealedKeeps
  <2>3. Remains({m}) /\ together' = together \ {m}
    BY <1>1, <2>1, GoneKeeps
  <2> DEFINE mine == [conn[c] EXCEPT !.writing = m]
  <2>4. mine \in ConnRecords /\ mine.writing = m
    BY <1>1 DEF DataTypes, ConnRecords
  <2>5. conn' = [conn EXCEPT ![c] = mine]
    BY <1>1, <2>1 DEF DataTypes
  <2> HIDE DEF mine
  <2>6. /\ conn' \in [Conn -> ConnRecords]
        /\ \A d \in Conn : conn'[d].writing = IF d = c THEN m ELSE conn[d].writing
    BY <1>1, <2>4, <2>5 DEF DataTypes
  <2>7. DataTypes'
    BY <1>1, <1>2, <2>1, <2>2, <2>3, <2>6 DEF DataTypes, Remains
  <2>8. \A x : ~Precedes(toAdd', x, x)
    BY <2>1 DEF DataSound, NoneTwice
  <2>9. DataSound'
    <3>1. \A d \in Conn :
            conn'[d].writing = IF "writing" = "writing" /\ d = c THEN m ELSE conn[d].writing
      BY <2>6
    <3>2. QED
      BY <1>4, <2>1, <2>2, <2>3, <2>7, <2>8, <3>1, TakenSound
  <2>10. QED
    BY <1>4, <2>6, <2>9, OutputPoolAssumption
<1>5. CASE conn[c].open /\ conn[c].writing # NoMsg
  <2>1. /\ toAdd' = Append(toAdd, m)
        /\ UNCHANGED <<conn, buffer, releasing, leaked, issued, together>>
    BY <1>5 DEF Send
  <2>2. toAdd \in Seq(Msg)
    BY <1>1 DEF DataTypes
  <2>3. /\ toAdd' \in Seq(Msg) /\ ToSet(toAdd') = ToSet(toAdd) \cup {m}
        /\ \A x, y : Precedes(toAdd', x, y) <=>
                       Precedes(toAdd, x, y) \/ (x \in ToSet(toAdd) /\ y = m)
    BY <2>1, <2>2, AppendKeeps
  <2>4. \A x : ~Precedes(toAdd', x, x)
    BY <1>2, <2>3 DEF DataSound, NoneTwice
  <2>5. DataTypes'
    BY <1>1, <1>2, <2>1, <2>3 DEF DataTypes
  <2>6. DataSound'
    BY <2>1, <2>3, <2>4, <2>5, TakenSound
  <2>7. QED
    BY <2>1, <2>6
<1>6. QED
  BY <1>3, <1>4, <1>5

\* The beginning of sendAll().
LEMMA RequeueSound ==
  ASSUME DataSound, Requeue, disp'.msg = disp.msg, net' = net,
         UNCHANGED <<age, msgConn, conn>>
  PROVE  DataSound'
<1> DEFINE old == {m \in ToSet(toAdd) : TooOld(m)}
           back == ToSet(toAdd) \ old
           auto == {m \in back : m \in ToSet(issued[msgConn[m]])}
           kept == {m \in Msg : ~TooOld(m)}
           due == {m \in kept : Due(m)}
           first == Only(toAdd, due)
           last == Only(toAdd, kept \ due)
<1>1. DataTypes /\ toAdd \in Seq(Msg) /\ autoSend \in Seq(Msg) /\ ToSet(toAdd) \subseteq Msg
  BY Members DEF DataSound, DataTypes
<1>2. /\ autoSend' = Reverse(first) \o autoSend \o last
      /\ toAdd' = <<>>
      /\ Drop(old) /\ Sealed(old)
      /\ issued' = [c \in Conn |-> Only(issued[c], Msg \ old)]
      /\ together' = (together \ old) \cup
           {m \in auto : \E n \in auto \ {m} : msgConn[n] = msgConn[m]}
  <2>1. issued' = [c \in Conn |-> Only(issued[c], Msg \ old)]
    BY DEF Requeue
  <2>2. QED
    BY <2>1 DEF Requeue, PutBack
<1>3. /\ old \in SUBSET Msg /\ old \subseteq ToSet(toAdd) /\ ToSet(toAdd) \cap kept = back
      /\ due \subseteq kept
  BY <1>1
<1>4. together' \subseteq Msg
  BY <1>1, <1>2 DEF DataTypes
<1>5. Remains(old)
  BY <1>1, <1>2, <1>3, <1>4, OnlyRemains
<1>6. /\ first \in Seq(Msg) /\ ToSet(first) = ToSet(toAdd) \cap due
      /\ \A x, y : Precedes(first, x, y) <=> Precedes(toAdd, x, y) /\ x \in due /\ y \in due
  BY <1>1, OnlyKeeps
<1>7. /\ last \in Seq(Msg) /\ ToSet(last) = ToSet(toAdd) \cap (kept \ due)
      /\ \A x, y : Precedes(last, x, y) <=>
                     Precedes(toAdd, x, y) /\ x \in kept \ due /\ y \in kept \ due
  BY <1>1, OnlyKeeps
<1> HIDE DEF first, last
<1> DEFINE front == Reverse(first) \o autoSend
<1>8. /\ Reverse(first) \in Seq(Msg) /\ ToSet(Reverse(first)) = ToSet(first)
      /\ \A x, y : Precedes(Reverse(first), x, y) <=> Precedes(first, y, x)
  BY <1>6, ReverseKeeps
<1>9. /\ front \in Seq(Msg) /\ ToSet(front) = ToSet(Reverse(first)) \cup ToSet(autoSend)
      /\ \A x, y : Precedes(front, x, y) <=>
                     \/ Precedes(Reverse(first), x, y) \/ Precedes(autoSend, x, y)
                     \/ (x \in ToSet(Reverse(first)) /\ y \in ToSet(autoSend))
  BY <1>1, <1>8, ConcatKeeps
<1> HIDE DEF front
<1>10. /\ autoSend' \in Seq(Msg) /\ ToSet(autoSend') = ToSet(front) \cup ToSet(last)
       /\ \A x, y : Precedes(autoSend', x, y) <=>
                      \/ Precedes(front, x, y) \/ Precedes(last, x, y)
                      \/ (x \in ToSet(front) /\ y \in ToSet(last))
  <2>1. autoSend' = front \o last
    BY <1>2 DEF front
  <2>2. QED
    BY <1>7, <1>9, <2>1, ConcatKeeps
<1>11. ToSet(autoSend') = ToSet(autoSend) \cup back
  BY <1>3, <1>6, <1>7, <1>8, <1>9, <1>10
<1>12. toAdd' \in Seq(Msg) /\ ToSet(toAdd') = {} /\ \A x : ~Precedes(toAdd', x, x)
  BY <1>2 DEF ToSet, Precedes
<1>13. /\ buffer' \in [Conn -> Msg \cup {NoMsg}]
       /\ \A c \in Conn : buffer'[c] # NoMsg => buffer'[c] = buffer[c] /\ buffer[c] \notin old
  BY <1>1, <1>2, <1>3, SealedKeeps
<1>14. /\ releasing' \subseteq Msg /\ leaked' \subseteq Msg
       /\ \E w \in {"releasing", "leaked"} :
            /\ releasing' = IF w = "releasing" THEN releasing \cup old ELSE releasing
            /\ leaked' = IF w = "leaked" THEN leaked \cup old ELSE leaked
  BY <1>1, <1>2, <1>3, DropKeeps
<1>15. PICK w \in {"releasing", "leaked"} :
         /\ releasing' = IF w = "releasing" THEN releasing \cup old ELSE releasing
         /\ leaked' = IF w = "leaked" THEN leaked \cup old ELSE leaked
  BY <1>14
<1>16. DataTypes'
  BY <1>1, <1>4, <1>5, <1>10, <1>12, <1>13, <1>14 DEF DataTypes, Remains
<1>17. \A m \in Msg : m \in ToSet(toAdd) => m \notin ToSet(autoSend)
  BY DEF DataSound, Placed, IsAt
<1>18. OnLists' = OnLists \ old
  BY <1>3, <1>11, <1>12, <1>17 DEF OnLists
<1>19. Placed'
  <2> SUFFICES ASSUME NEW m \in Msg PROVE \E v \in Where : IsAt(m, v)'
    BY DEF Placed
  <2>1. PICK v \in Where : IsAt(m, v)
    BY DEF DataSound, Placed
  <2>2. CASE m \in old
    <3>1. v = "aside"
      BY <1>3, <2>1, <2>2 DEF IsAt
    <3>2. IsAt(m, w)'
      BY <1>3, <1>11, <1>12, <1>15, <2>1, <2>2, <3>1 DEF IsAt
    <3>3. QED
      BY <3>2 DEF Where
  <2>3. CASE m \in back
    <3>1. v = "aside"
      BY <1>3, <2>1, <2>3 DEF IsAt
    <3>2. IsAt(m, "auto")'
      BY <1>3, <1>11, <1>12, <1>15, <2>1, <2>3, <3>1 DEF IsAt
    <3>3. QED
      BY <3>2 DEF Where
  <2>4. CASE m \notin ToSet(toAdd)
    <3>1. IsAt(m, v)'
      BY <1>3, <1>11, <1>12, <1>15, <2>1, <2>4 DEF IsAt
    <3>2. QED
      BY <3>1
  <2>5. QED
    BY <2>2, <2>3, <2>4
<1>20. NoneTwice'
  <2>1. ASSUME NEW x, Precedes(autoSend', x, x) PROVE FALSE
    <3>1. \/ Precedes(toAdd, x, x) \/ Precedes(autoSend, x, x)
          \/ (x \in ToSet(toAdd) /\ x \in due /\ x \in ToSet(autoSend))
          \/ (x \in ToSet(toAdd) /\ x \in kept \ due /\ (x \in due \/ x \in ToSet(autoSend)))
      BY <1>6, <1>7, <1>8, <1>9, <1>10, <2>1
    <3>2. QED
      BY <1>17, <3>1 DEF DataSound, NoneTwice
  <2>2. \A c \in Conn : \A x : ~Precedes(issued'[c], x, x)
    BY <1>5 DEF DataSound, NoneTwice, Remains
  <2>3. QED
    BY <1>12, <2>1, <2>2 DEF NoneTwice
<1>21. BufferIsUnsent'
  BY <1>13, <1>18 DEF DataSound, BufferIsUnsent
<1>22. IssuedWait' /\ AsideIsDue'
  BY <1>5, <1>12, <1>18 DEF DataSound, IssuedWait, AsideIsDue, Remains
<1>23. ListInOrder'
  <2> SUFFICES ASSUME NEW c \in Conn, NEW x \in Msg, NEW y \in Msg,
                      Precedes(issued'[c], x, y), ~({x, y} \subseteq together')
               PROVE  Precedes(autoSend', x, y)
    BY DEF ListInOrder
  <2>1. Precedes(issued[c], x, y) /\ x \notin old /\ y \notin old
    BY <1>5 DEF Remains
  <2>2. x \in ToSet(issued[c]) /\ y \in ToSet(issued[c])
    BY <2>1 DEF Precedes, ToSet
  <2>3. /\ x \in OnLists /\ y \in OnLists /\ msgConn[x] = c /\ msgConn[y] = c
        /\ x \in ToSet(toAdd) => Due(x)
    BY <2>2 DEF DataSound, IssuedWait, AsideIsDue
  <2>4. ~({x, y} \subseteq together)
    BY <1>2, <2>1
  <2>5. CASE x \in ToSet(autoSend)
    <3>1. Precedes(autoSend, x, y)
      BY <2>1, <2>4, <2>5 DEF DataSound, ListInOrder
    <3>2. QED
      BY <1>9, <1>10, <3>1
  <2>6. CASE x \in back /\ y \in ToSet(autoSend)
    <3>1. x \in due
      BY <2>3, <2>6
    <3>2. QED
      BY <1>6, <1>8, <1>9, <1>10, <2>6, <3>1
  <2>7. CASE x \in back /\ y \in back /\ x # y
    <3>1. x \in auto /\ y \in auto
      BY <2>2, <2>3, <2>7
    <3>2. {x, y} \subseteq together'
      BY <1>2, <2>3, <2>7, <3>1
    <3>3. QED
      BY <3>2
  <2>8. x # y
    BY <2>1 DEF DataSound, NoneTwice
  <2>9. QED
    BY <2>1, <2>3, <2>5, <2>6, <2>7, <2>8 DEF OnLists
<1>24. QED
  BY <1>16, <1>19, <1>20, <1>21, <1>22, <1>23 DEF DataSound

\* Only m is moved, from one place off the lists to another, w.
LEMMA OffTheLists ==
  ASSUME DataSound, DataTypes', NEW m \in Msg, m \notin OnLists,
         UNCHANGED <<autoSend, toAdd, age, msgConn, buffer, issued, together>>,
         \A n \in Msg \ {m} : Stays(n), NEW w \in Where, IsAt(m, w)'
  PROVE  DataSound'
<1>1. OnLists' = OnLists
  BY DEF OnLists
<1>2. Placed'
  BY StaysWhereItIs DEF DataSound, Placed
<1>3. NoneTwice' /\ BufferIsUnsent' /\ IssuedWait' /\ AsideIsDue' /\ ListInOrder'
  BY <1>1 DEF DataSound, NoneTwice, BufferIsUnsent, IssuedWait, AsideIsDue, Due, ListInOrder
<1>4. QED
  BY <1>2, <1>3 DEF DataSound

\* A thread lets go of the message that it had in its hands.
LEMMA TakenFromHand ==
  ASSUME DataSound, NEW m \in Msg, m = disp.msg \/ m = net.msg,
         UNCHANGED <<autoSend, age, msgConn>>,
         disp'.msg # m, net'.msg # m,
         \A n \in Msg \ {m} : (disp'.msg = n <=> disp.msg = n) /\ (net'.msg = n <=> net.msg = n)
  PROVE  Taken(m)
<1>1. m \notin ToSet(autoSend)
  BY DEF DataSound, Placed, IsAt
<1>2. \A x, y : Precedes(autoSend, x, y) => x # m
  BY <1>1 DEF Precedes, ToSet
<1>3. autoSend \in Seq(Msg)
  BY DEF DataSound, DataTypes
<1>4. QED
  BY <1>1, <1>2, <1>3 DEF Taken

\* The connection is asked to close, if it was open.
LEMMA ClosingKeeps ==
  ASSUME DataTypes, NEW c \in Conn, RequestClose(c)
  PROVE  conn' \in [Conn -> ConnRecords] /\ \A d \in Conn : conn'[d].writing = conn[d].writing
<1>1. CASE conn[c].open
  <2> DEFINE mine == [conn[c] EXCEPT !.open = FALSE, !.closeTask = (phase = "running")]
  <2>1. mine \in ConnRecords /\ mine.writing = conn[c].writing
    BY DEF DataTypes, ConnRecords
  <2>2. conn' = [conn EXCEPT ![c] = mine]
    BY <1>1 DEF RequestClose, DataTypes
  <2> HIDE DEF mine
  <2>3. QED
    BY <2>1, <2>2 DEF DataTypes
<1>2. CASE ~conn[c].open
  BY <1>2 DEF RequestClose, DataTypes
<1>3. QED
  BY <1>1, <1>2

LEMMA DispKnowsStill ==
  ASSUME DispKnows, disp' = disp,
         \A n \in Msg : n = disp.msg => msgConn'[n] = msgConn[n]
  PROVE  DispKnows'
BY DEF DispKnows

LEMMA NetKnowsStill ==
  ASSUME NetKnows, ThreadsSound, net' = net,
         \A n \in Msg : n = net.msg => msgConn'[n] = msgConn[n],
         \A d \in Conn : conn[d].writing \in Msg => conn'[d].writing = conn[d].writing
  PROVE  NetKnows'
<1>1. net.pc = "written" => net.conn \in Conn
  BY DEF ThreadsSound, LocksHeld, InHandler
<1>2. QED
  BY <1>1 DEF NetKnows

LEMMA InitSound == Init => IInv
<1> SUFFICES ASSUME Init PROVE IInv
  OBVIOUS
<1>1. /\ disp.pc = "idle" /\ disp.msg = NoMsg /\ disp \in DispRecords
      /\ net.pc = "idle" /\ net.msg = NoMsg /\ net \in NetRecords
  BY DEF Init, DispRecords, NetRecords, DispPcs, NetPcs
<1>2. ThreadsSound
  <2>1. owner \in [Locks -> {"dispatcher", "network", "none"}] /\ \A l \in Locks : owner[l] = "none"
    BY DEF Init
  <2>2. phase = "running" /\ isOpen = TRUE
    BY DEF Init
  <2>3. QED
    BY <1>1, <2>1, <2>2, LockNames DEF ThreadsSound, ThreadTypes, LocksHeld, InHandler
<1>3. DispKnows /\ NetKnows
  BY <1>1, OutputPoolAssumption DEF DispKnows, NetKnows
<1>4. /\ autoSend = <<>> /\ toAdd = <<>> /\ releasing = {} /\ leaked = {} /\ together = {}
      /\ \A m \in Msg : age[m] = 0 /\ msgConn[m] = NoConn
      /\ \A c \in Conn : conn[c].writing = NoMsg /\ buffer[c] = NoMsg /\ issued[c] = <<>>
  BY DEF Init
<1>5. DataTypes
  <2>1. 0 \in 0..(DropAge + 1)
    BY OutputPoolAssumption
  <2>2. <<>> \in Seq(Msg)
    OBVIOUS
  <2>3. age \in [Msg -> 0..(DropAge + 1)] /\ msgConn \in [Msg -> Conn \cup {NoConn}]
    BY <2>1 DEF Init
  <2>4. [open |-> TRUE, attached |-> TRUE, closeTask |-> FALSE, writing |-> NoMsg] \in ConnRecords
    BY DEF ConnRecords
  <2>5. conn \in [Conn -> ConnRecords]
    BY <2>4 DEF Init
  <2>6. buffer \in [Conn -> Msg \cup {NoMsg}] /\ issued \in [Conn -> Seq(Msg)]
    BY <2>2 DEF Init
  <2>7. QED
    BY <1>4, <2>2, <2>3, <2>5, <2>6 DEF DataTypes
<1>6. ToSet(<<>>) = {} /\ \A x, y : ~Precedes(<<>>, x, y)
  BY DEF ToSet, Precedes
<1>7. \A m \in Msg : IsAt(m, "free")
  <2>1. \A m \in Msg : m # NoMsg
    BY OutputPoolAssumption
  <2>2. QED
    BY <1>1, <1>4, <1>6, <2>1 DEF IsAt
<1>8. Placed
  BY <1>7 DEF Placed, Where
<1>9. NoneTwice /\ BufferIsUnsent /\ IssuedWait /\ AsideIsDue /\ ListInOrder
  BY <1>4, <1>6 DEF NoneTwice, BufferIsUnsent, IssuedWait, AsideIsDue, ListInOrder
<1>10. QED
  BY <1>2, <1>3, <1>5, <1>8, <1>9 DEF IInv, DataSound

\* The dispatcher's thread goes from one place to another, and no message moves.
LEMMA DispStepKeeps ==
  ASSUME IInv, NEW pc \in DispPcs \ {"send", "hangUp"}, pc = "sendAll" <=> disp.pc = "sendAll",
         disp.pc # "send",
         disp' = [disp EXCEPT !.pc = pc],
         isOpen' \in BOOLEAN,
         UNCHANGED <<owner, phase, net, autoSend, toAdd, issued, together,
                     msgConn, conn, buffer, releasing, leaked>>,
         age' \in [Msg -> 0..(DropAge + 1)],
         \A m \in OnLists : age[m] > 0 => age'[m] > 0
  PROVE  IInv'
<1>1. disp \in DispRecords /\ ThreadsSound /\ DataSound /\ DispKnows /\ NetKnows
  BY DEF IInv, ThreadsSound, ThreadTypes
<1>2. disp' \in DispRecords /\ disp'.pc = pc /\ disp'.msg = disp.msg /\ disp'.conn = disp.conn
  BY <1>1, DispGoes
<1>3. InHandler' <=> InHandler
  BY DEF InHandler
<1>4. ThreadsSound'
  BY <1>1, <1>2, <1>3, NoLock DEF ThreadsSound, ThreadTypes
<1>5. DispKnows'
  BY <1>1, <1>2 DEF DispKnows
<1>6. NetKnows'
  BY <1>1, NetKnowsStill
<1>7. DataTypes'
  BY <1>1 DEF DataSound, DataTypes
<1>8. DataSound'
  BY <1>1, <1>2, <1>7, NothingMoves
<1>9. QED
  BY <1>4, <1>5, <1>6, <1>8 DEF IInv

LEMMA StartTaskKeeps ==
  ASSUME IInv, NEW e \in 0..1, StartTask(e)
  PROVE  IInv'
<1>1. /\ disp.pc = "idle" /\ isOpen' = TRUE /\ disp' = [disp EXCEPT !.pc = "task"]
      /\ age' = [m \in Msg |-> IF m \in OnLists \/ (m = net.msg /\ net.pc # "release")
                               THEN Older(age[m], e) ELSE 0]
      /\ UNCHANGED <<owner, phase, net, autoSend, toAdd, issued, together,
                     msgConn, conn, buffer, releasing, leaked>>
  BY DEF StartTask, lists
<1>2. age \in [Msg -> 0..(DropAge + 1)] /\ OnLists \subseteq Msg
  BY Members DEF IInv, DataSound, DataTypes
<1>3. ASSUME NEW m \in Msg
      PROVE  /\ Older(age[m], e) \in 0..(DropAge + 1)
             /\ age[m] > 0 => Older(age[m], e) > 0
  BY <1>2, OutputPoolAssumption DEF Older
<1>4. 0 \in 0..(DropAge + 1)
  BY OutputPoolAssumption
<1>5. age' \in [Msg -> 0..(DropAge + 1)] /\ \A m \in OnLists : age[m] > 0 => age'[m] > 0
  BY <1>1, <1>2, <1>3, <1>4
<1>6. "task" \in DispPcs \ {"send", "hangUp"}
  BY DEF DispPcs
<1>7. QED
  BY <1>1, <1>5, <1>6, DispStepKeeps

LEMMA EndTaskKeeps ==
  ASSUME IInv, EndTask
  PROVE  IInv'
<1>1. /\ disp.pc = "task" /\ disp' = [disp EXCEPT !.pc = "lock"] /\ isOpen' = isOpen /\ age' = age
      /\ UNCHANGED <<owner, phase, net, autoSend, toAdd, issued, together,
                     msgConn, conn, buffer, releasing, leaked>>
  BY DEF EndTask, threads, lists
<1>2. "lock" \in DispPcs \ {"send", "hangUp"}
  BY DEF DispPcs
<1>3. isOpen' \in BOOLEAN /\ age' \in [Msg -> 0..(DropAge + 1)]
  BY <1>1 DEF IInv, ThreadsSound, ThreadTypes, DataSound, DataTypes
<1>4. QED
  BY <1>1, <1>2, <1>3, DispStepKeeps

LEMMA GameWritesKeeps ==
  ASSUME IInv, NEW c \in Conn, NEW m \in Msg, GameWrites(c, m)
  PROVE  IInv'
<1>1. DataSound /\ ThreadsSound /\ DispKnows /\ NetKnows
  BY DEF IInv
<1>2. UNCHANGED <<owner, phase, isOpen, disp, net, conn>>
  BY DEF GameWrites, threads
<1>3. DataSound' /\ \A n \in Msg : n = disp.msg \/ n = net.msg => msgConn'[n] = msgConn[n]
  BY <1>1, GameWritesSound
<1>4. InHandler' <=> InHandler
  BY <1>2 DEF InHandler
<1>5. ThreadsSound'
  BY <1>1, <1>2, <1>4, NoLock DEF ThreadsSound, ThreadTypes
<1>6. DispKnows' /\ NetKnows'
  BY <1>1, <1>2, <1>3, DispKnowsStill, NetKnowsStill
<1>7. QED
  BY <1>3, <1>5, <1>6 DEF IInv

LEMMA ReleaseMessageKeeps ==
  ASSUME IInv, NEW m \in Msg, ReleaseMessage(m)
  PROVE  IInv'
<1>1. DataSound /\ ThreadsSound /\ DispKnows /\ NetKnows
  BY DEF IInv
<1>2. UNCHANGED <<owner, phase, isOpen, disp, net, conn>>
  BY DEF ReleaseMessage, threads
<1>3. DataSound' /\ \A n \in Msg : n = disp.msg \/ n = net.msg => msgConn'[n] = msgConn[n]
  BY <1>1, ReleaseMessageSound
<1>4. InHandler' <=> InHandler
  BY <1>2 DEF InHandler
<1>5. ThreadsSound'
  BY <1>1, <1>2, <1>4, NoLock DEF ThreadsSound, ThreadTypes
<1>6. DispKnows' /\ NetKnows'
  BY <1>1, <1>2, <1>3, DispKnowsStill, NetKnowsStill
<1>7. QED
  BY <1>3, <1>5, <1>6 DEF IInv

LEMMA DisconnectClientKeeps ==
  ASSUME IInv, NEW c \in Conn, NEW m \in Msg, DisconnectClient(c, m)
  PROVE  IInv'
<1>1. DataSound /\ ThreadsSound /\ DispKnows /\ NetKnows
  BY DEF IInv
<1>2. /\ disp.pc = "task" /\ Configure(c, m) /\ disp' = [pc |-> "send", msg |-> m, conn |-> c]
      /\ UNCHANGED <<owner, phase, isOpen, net, autoSend, toAdd, issued, together,
                     conn, buffer, releasing, leaked>>
  BY DEF DisconnectClient, threads, lists
<1>3. disp.msg = NoMsg
  BY <1>1, <1>2 DEF DispKnows
<1>4. disp' \in DispRecords /\ disp'.pc = "send" /\ disp'.msg = m /\ disp'.conn = c
  BY <1>2, DispIs DEF DispPcs
<1>5. /\ DataSound' /\ msgConn'[m] = c
      /\ \A n \in Msg : n = disp.msg \/ n = net.msg => msgConn'[n] = msgConn[n]
  BY <1>1, <1>2, <1>3, <1>4, ThreadGets
<1>6. InHandler' <=> InHandler
  BY <1>2 DEF InHandler
<1>7. ThreadsSound'
  BY <1>1, <1>2, <1>4, <1>6, NoLock DEF ThreadsSound, ThreadTypes
<1>8. DispKnows'
  BY <1>4, <1>5 DEF DispKnows
<1>9. NetKnows'
  BY <1>1, <1>2, <1>5, NetKnowsStill
<1>10. QED
  BY <1>5, <1>7, <1>8, <1>9 DEF IInv

LEMMA DispSendsKeeps ==
  ASSUME IInv, DispSends
  PROVE  IInv'
<1>1. DataSound /\ ThreadsSound /\ DispKnows /\ NetKnows /\ disp \in DispRecords
  BY DEF IInv, ThreadsSound, ThreadTypes
<1>2. /\ disp.pc = "send" /\ Send(disp.conn, disp.msg)
      /\ disp' = [disp EXCEPT !.pc = "hangUp", !.msg = NoMsg]
      /\ UNCHANGED <<owner, phase, isOpen, net, autoSend, age, msgConn>>
  BY DEF DispSends, threads
<1>3. disp' \in DispRecords /\ disp'.pc = "hangUp" /\ disp'.msg = NoMsg /\ disp'.conn = disp.conn
  BY <1>1, <1>2 DEF DispRecords, DispPcs
<1>4. PICK m \in Msg, c \in Conn : m = disp.msg /\ c = disp.conn /\ msgConn[m] = c
  BY <1>1, <1>2 DEF DispKnows
<1>5. /\ m # NoMsg /\ m # net.msg
  BY <1>1, <1>4, OutputPoolAssumption DEF DataSound, Placed, IsAt
<1>6. Taken(m)
  <2>1. \A n \in Msg \ {m} : (disp'.msg = n <=> disp.msg = n) /\ (net'.msg = n <=> net.msg = n)
    BY <1>2, <1>3, <1>4, OutputPoolAssumption
  <2>2. disp'.msg # m /\ net'.msg # m
    BY <1>2, <1>3, <1>5
  <2>3. QED
    BY <1>1, <1>2, <1>4, <2>1, <2>2, TakenFromHand
<1>7. /\ DataSound'
      /\ \A d \in Conn : conn[d].writing \in Msg => conn'[d].writing = conn[d].writing
  <2>1. Send(c, m)
    BY <1>2, <1>4
  <2>2. QED
    BY <1>1, <1>4, <1>6, <2>1, SendSound
<1>8. InHandler' <=> InHandler
  BY <1>2 DEF InHandler
<1>9. ThreadsSound'
  BY <1>1, <1>2, <1>3, <1>8, NoLock DEF ThreadsSound, ThreadTypes
<1>10. DispKnows'
  BY <1>3, <1>4 DEF DispKnows
<1>11. NetKnows'
  BY <1>1, <1>2, <1>7, NetKnowsStill
<1>12. QED
  BY <1>7, <1>9, <1>10, <1>11 DEF IInv

LEMMA DispHangsUpKeeps ==
  ASSUME IInv, DispHangsUp
  PROVE  IInv'
<1>1. DataSound /\ ThreadsSound /\ DispKnows /\ NetKnows /\ disp \in DispRecords
  BY DEF IInv, ThreadsSound, ThreadTypes
<1>2. /\ disp.pc = "hangUp" /\ RequestClose(disp.conn)
      /\ disp' = [disp EXCEPT !.pc = "task", !.conn = NoConn]
      /\ UNCHANGED <<owner, phase, isOpen, net, autoSend, toAdd, issued, together,
                     age, msgConn, buffer, releasing, leaked>>
  BY DEF DispHangsUp, threads, lists
<1>3. disp' \in DispRecords /\ disp'.pc = "task" /\ disp'.msg = disp.msg
  BY <1>1, <1>2 DEF DispRecords, DispPcs
<1>4. disp.conn \in Conn /\ disp.msg = NoMsg
  BY <1>1, <1>2 DEF DispKnows
<1>5. conn' \in [Conn -> ConnRecords] /\ \A d \in Conn : conn'[d].writing = conn[d].writing
  BY <1>1, <1>2, <1>4, ClosingKeeps DEF DataSound
<1>6. DataTypes'
  BY <1>1, <1>2, <1>5 DEF DataSound, DataTypes
<1>7. DataSound'
  BY <1>1, <1>2, <1>3, <1>5, <1>6, NothingMoves
<1>8. InHandler' <=> InHandler
  BY <1>2 DEF InHandler
<1>9. ThreadsSound'
  BY <1>1, <1>2, <1>3, <1>8, NoLock DEF ThreadsSound, ThreadTypes
<1>10. DispKnows' /\ NetKnows'
  BY <1>1, <1>2, <1>3, <1>4, <1>5, NetKnowsStill DEF DispKnows
<1>11. QED
  BY <1>7, <1>9, <1>10 DEF IInv

LEMMA CloseConnectionTaskKeeps ==
  ASSUME IInv, NEW c \in Conn, CloseConnectionTask(c)
  PROVE  IInv'
<1>1. DataSound /\ ThreadsSound /\ DispKnows /\ NetKnows /\ DataTypes
  BY DEF IInv, DataSound
<1> DEFINE mine == [conn[c] EXCEPT !.attached = FALSE, !.closeTask = FALSE]
<1>2. /\ conn' = [conn EXCEPT ![c] = mine]
      /\ UNCHANGED <<owner, phase, isOpen, disp, net, autoSend, toAdd, issued, together,
                     age, msgConn, buffer, releasing, leaked>>
  BY <1>1 DEF CloseConnectionTask, threads, lists, DataTypes
<1>3. mine \in ConnRecords /\ mine.writing = conn[c].writing
  BY <1>1 DEF DataTypes, ConnRecords
<1> HIDE DEF mine
<1>4. conn' \in [Conn -> ConnRecords] /\ \A d \in Conn : conn'[d].writing = conn[d].writing
  BY <1>1, <1>2, <1>3 DEF DataTypes
<1>5. DataTypes'
  BY <1>1, <1>2, <1>4 DEF DataTypes
<1>6. DataSound'
  BY <1>1, <1>2, <1>4, <1>5, NothingMoves
<1>7. InHandler' <=> InHandler
  BY <1>2 DEF InHandler
<1>8. ThreadsSound'
  BY <1>1, <1>2, <1>7, NoLock DEF ThreadsSound, ThreadTypes
<1>9. DispKnows' /\ NetKnows'
  BY <1>1, <1>2, <1>4, DispKnowsStill, NetKnowsStill
<1>10. QED
  BY <1>6, <1>8, <1>9 DEF IInv

LEMMA BeginSendAllKeeps ==
  ASSUME IInv, BeginSendAll
  PROVE  IInv'
<1>1. DataSound /\ ThreadsSound /\ DispKnows /\ NetKnows /\ disp \in DispRecords
  BY DEF IInv, ThreadsSound, ThreadTypes
<1>2. /\ disp.pc = "lock" /\ Requeue
      /\ owner' = [owner EXCEPT !["pool"] = "dispatcher"]
      /\ disp' = [disp EXCEPT !.pc = "sendAll"]
      /\ UNCHANGED <<phase, isOpen, net, age, msgConn, conn>>
  BY DEF BeginSendAll
<1>3. disp' \in DispRecords /\ disp'.pc = "sendAll" /\ disp'.msg = disp.msg
  BY <1>1, <1>2, DispGoes DEF DispPcs
<1>4. ThreadsSound'
  BY <1>1, <1>2, <1>3, PoolLock
<1>5. DataSound'
  BY <1>1, <1>2, <1>3, RequeueSound
<1>6. DispKnows' /\ NetKnows'
  BY <1>1, <1>2, <1>3, NetKnowsStill DEF DispKnows
<1>7. QED
  BY <1>4, <1>5, <1>6 DEF IInv

LEMMA SendNextKeeps ==
  ASSUME IInv, SendNext
  PROVE  /\ IInv'
         /\ autoSend # <<>> /\ Head(autoSend) \in Msg
         /\ \A x : ~Precedes(autoSend, x, Head(autoSend))
<1>1. DataSound /\ ThreadsSound /\ DispKnows /\ NetKnows /\ DataTypes
  BY DEF IInv, DataSound
<1>2. /\ NextToSend /\ Send(msgConn[Head(autoSend)], Head(autoSend))
      /\ autoSend' = Tail(autoSend)
      /\ UNCHANGED <<owner, phase, isOpen, disp, net, age, msgConn>>
  BY DEF SendNext, threads
<1>3. autoSend \in Seq(Msg) /\ autoSend # <<>> /\ \A x : ~Precedes(autoSend, x, x)
  BY <1>1, <1>2 DEF NextToSend, DataTypes, DataSound, NoneTwice
<1>4. PICK m \in Msg : m = Head(autoSend)
  BY <1>3, TailKeeps
<1>5. /\ m \in ToSet(autoSend) /\ \A x : ~Precedes(autoSend, x, m)
      /\ autoSend' \in Seq(Msg) /\ ToSet(autoSend') = ToSet(autoSend) \ {m}
      /\ \A x, y : Precedes(autoSend', x, y) <=> Precedes(autoSend, x, y) /\ x # m
  BY <1>2, <1>3, <1>4, TailKeeps
<1>6. m # disp.msg /\ m # net.msg /\ msgConn[m] \in Conn
  <2>1. PICK w \in Where : IsAt(m, w)
    BY <1>1 DEF DataSound, Placed
  <2>2. w = "auto"
    BY <1>5, <2>1 DEF IsAt
  <2>3. QED
    BY <1>1, <2>1, <2>2 DEF IsAt, DataTypes
<1>7. Taken(m)
  BY <1>2, <1>4, <1>5, <1>6 DEF Taken, NextToSend
<1>8. /\ DataSound'
      /\ \A d \in Conn : conn[d].writing \in Msg => conn'[d].writing = conn[d].writing
  <2>1. PICK c \in Conn : c = msgConn[m]
    BY <1>6
  <2>2. Send(c, m)
    BY <1>2, <1>4, <2>1
  <2>3. QED
    BY <1>1, <1>7, <2>1, <2>2, SendSound
<1>9. InHandler' <=> InHandler
  BY <1>2 DEF InHandler
<1>10. ThreadsSound'
  BY <1>1, <1>2, <1>9, NoLock DEF ThreadsSound, ThreadTypes
<1>11. DispKnows' /\ NetKnows'
  BY <1>1, <1>2, <1>8, DispKnowsStill, NetKnowsStill
<1>12. QED
  BY <1>3, <1>4, <1>5, <1>8, <1>10, <1>11 DEF IInv

LEMMA EndSendAllKeeps ==
  ASSUME IInv, EndSendAll
  PROVE  IInv'
<1>1. DataSound /\ ThreadsSound /\ DispKnows /\ NetKnows /\ disp \in DispRecords
  BY DEF IInv, ThreadsSound, ThreadTypes
<1> DEFINE pc == CASE phase = "flushing" -> "task" [] phase = "ended" -> "end" [] OTHER -> "idle"
<1>2. /\ disp.pc = "sendAll"
      /\ owner' = [owner EXCEPT !["pool"] = "none"]
      /\ disp' = [disp EXCEPT !.pc = pc]
      /\ UNCHANGED <<phase, isOpen, net, autoSend, toAdd, issued, together,
                     age, msgConn, conn, buffer, releasing, leaked>>
  BY DEF EndSendAll, lists
<1>3. pc \in {"task", "end", "idle"}
  OBVIOUS
<1> HIDE DEF pc
<1>4. pc \in DispPcs
  BY <1>3 DEF DispPcs
<1>5. disp' \in DispRecords /\ disp'.pc = pc /\ disp'.msg = disp.msg
  BY <1>1, <1>2, <1>4, DispGoes
<1>6. ThreadsSound'
  BY <1>1, <1>2, <1>3, <1>5, PoolLock
<1>7. DataTypes'
  BY <1>1, <1>2 DEF DataSound, DataTypes
<1>8. DataSound'
  BY <1>1, <1>2, <1>5, <1>7, NothingMoves
<1>9. DispKnows' /\ NetKnows'
  BY <1>1, <1>2, <1>3, <1>5, NetKnowsStill DEF DispKnows
<1>10. QED
  BY <1>6, <1>8, <1>9 DEF IInv

LEMMA StopDispatcherKeeps ==
  ASSUME IInv, StopDispatcher
  PROVE  IInv'
<1>1. DataSound /\ ThreadsSound /\ DispKnows /\ NetKnows
  BY DEF IInv
<1>2. /\ phase = "running" /\ phase' = "stopped"
      /\ UNCHANGED <<owner, isOpen, disp, net, autoSend, toAdd, issued, together,
                     age, msgConn, conn, buffer, releasing, leaked>>
  BY DEF StopDispatcher, lists
<1>3. InHandler' <=> InHandler
  BY <1>2 DEF InHandler
<1>4. ThreadsSound'
  BY <1>1, <1>2, <1>3, NoLock DEF ThreadsSound, ThreadTypes
<1>5. DataTypes'
  BY <1>1, <1>2 DEF DataSound, DataTypes
<1>6. DataSound' /\ DispKnows' /\ NetKnows'
  BY <1>1, <1>2, <1>5, NothingMoves, DispKnowsStill, NetKnowsStill
<1>7. QED
  BY <1>4, <1>6 DEF IInv

LEMMA BeginFlushKeeps ==
  ASSUME IInv, BeginFlush
  PROVE  IInv'
<1>1. DataSound /\ ThreadsSound /\ DispKnows /\ NetKnows
  BY DEF IInv
<1>2. /\ phase' = "flushing" /\ owner' = [owner EXCEPT !["task"] = "dispatcher"]
      /\ UNCHANGED <<isOpen, disp, net, autoSend, toAdd, issued, together,
                     age, msgConn, conn, buffer, releasing, leaked>>
  BY DEF BeginFlush, lists
<1>3. ThreadsSound'
  BY <1>1, <1>2, TaskLock DEF ThreadsSound, ThreadTypes
<1>4. DataTypes'
  BY <1>1, <1>2 DEF DataSound, DataTypes
<1>5. DataSound' /\ DispKnows' /\ NetKnows'
  BY <1>1, <1>2, <1>4, NothingMoves, DispKnowsStill, NetKnowsStill
<1>6. QED
  BY <1>3, <1>5 DEF IInv

LEMMA EndFlushKeeps ==
  ASSUME IInv, EndFlush
  PROVE  IInv'
<1>1. DataSound /\ ThreadsSound /\ DispKnows /\ NetKnows /\ disp \in DispRecords
  BY DEF IInv, ThreadsSound, ThreadTypes
<1>2. /\ disp.pc = "task" /\ phase' = "ended" /\ owner' = [owner EXCEPT !["task"] = "none"]
      /\ isOpen' = FALSE /\ disp' = [disp EXCEPT !.pc = "lock"]
      /\ UNCHANGED <<net, autoSend, toAdd, issued, together,
                     age, msgConn, conn, buffer, releasing, leaked>>
  BY DEF EndFlush, lists
<1>3. disp' \in DispRecords /\ disp'.pc = "lock" /\ disp'.msg = disp.msg
  BY <1>1, <1>2, DispGoes DEF DispPcs
<1>4. ThreadsSound'
  BY <1>1, <1>2, <1>3, TaskLock DEF ThreadsSound, ThreadTypes
<1>5. DataTypes'
  BY <1>1, <1>2 DEF DataSound, DataTypes
<1>6. DataSound'
  BY <1>1, <1>2, <1>3, <1>5, NothingMoves
<1>7. DispKnows' /\ NetKnows'
  BY <1>1, <1>2, <1>3, NetKnowsStill DEF DispKnows
<1>8. QED
  BY <1>4, <1>6, <1>7 DEF IInv

----------------------------------------------------------------------------
(* The network thread *)

LEMMA EnterKeeps ==
  ASSUME IInv, NEW c \in Conn, NEW pc \in {"finish", "answer", "written"}, Enter(c, pc),
         pc = "written" => conn[c].writing # NoMsg
  PROVE  IInv'
<1>1. DataSound /\ ThreadsSound /\ DispKnows /\ NetKnows /\ DataTypes
  BY DEF IInv, DataSound
<1>2. /\ net.pc = "idle" /\ owner' = [owner EXCEPT ![c] = "network"]
      /\ net' = [pc |-> pc, msg |-> NoMsg, conn |-> c]
      /\ UNCHANGED <<phase, isOpen, disp, autoSend, toAdd, issued, together,
                     age, msgConn, conn, buffer, releasing, leaked>>
  BY DEF Enter, lists
<1>3. net' \in NetRecords /\ net'.pc = pc /\ net'.msg = NoMsg /\ net'.conn = c
  BY <1>2, NetIs DEF NetPcs
<1>4. InHandler'
  BY <1>3 DEF InHandler
<1>5. ThreadsSound'
  BY <1>1, <1>2, <1>3, <1>4, HandlerEnters
<1>6. net.msg = NoMsg
  BY <1>1, <1>2 DEF NetKnows, ThreadsSound, ThreadTypes, NetRecords
<1>7. DataTypes'
  BY <1>1, <1>2 DEF DataTypes
<1>8. DataSound'
  BY <1>1, <1>2, <1>3, <1>6, <1>7, NothingMoves
<1>9. pc = "written" => conn[c].writing \in Msg
  BY <1>1 DEF DataTypes, ConnRecords
<1>10. DispKnows' /\ NetKnows'
  BY <1>1, <1>2, <1>3, <1>9, OutputPoolAssumption, DispKnowsStill DEF NetKnows
<1>11. QED
  BY <1>5, <1>8, <1>10 DEF IInv

\* The handler goes on, and no message moves.
LEMMA NetStepKeeps ==
  ASSUME IInv, NEW pc \in {"finish", "send"},
         InHandler, net.pc # "written", pc = "send" <=> net.pc \in {"state", "send"},
         net' = [net EXCEPT !.pc = pc],
         UNCHANGED <<owner, phase, isOpen, disp, autoSend, toAdd, issued, together,
                     age, msgConn, conn, buffer, releasing, leaked>>
  PROVE  IInv'
<1>1. DataSound /\ ThreadsSound /\ DispKnows /\ NetKnows /\ DataTypes /\ net \in NetRecords
  BY DEF IInv, DataSound, ThreadsSound, ThreadTypes
<1>2. net' \in NetRecords /\ net'.pc = pc /\ net'.msg = net.msg /\ net'.conn = net.conn
  BY <1>1, NetGoes DEF NetPcs
<1>3. InHandler'
  BY <1>2 DEF InHandler
<1>4. ThreadsSound'
  BY <1>1, <1>2, <1>3, NoLock DEF ThreadsSound, ThreadTypes
<1>5. DataTypes'
  BY <1>1 DEF DataTypes
<1>6. DataSound'
  BY <1>1, <1>2, <1>5, NothingMoves
<1>7. NetKnows'
  BY <1>1, <1>2 DEF NetKnows, InHandler
<1>8. QED
  BY <1>1, <1>4, <1>6, <1>7, DispKnowsStill DEF IInv

LEMMA NetGetsMessageKeeps ==
  ASSUME IInv, NetGetsMessage
  PROVE  IInv'
<1>1. DataSound /\ ThreadsSound /\ DispKnows /\ NetKnows /\ net \in NetRecords
  BY DEF IInv, ThreadsSound, ThreadTypes
<1>2. /\ net.pc = "answer" /\ InHandler
      /\ UNCHANGED <<owner, phase, isOpen, disp, autoSend, toAdd, issued, together,
                     conn, buffer, releasing, leaked>>
  BY DEF NetGetsMessage, threads, lists, InHandler
<1>3. ASSUME NEW m \in Msg, Configure(net.conn, m), net' = [net EXCEPT !.pc = "state", !.msg = m]
      PROVE  IInv'
  <2>1. net' \in NetRecords /\ net'.pc = "state" /\ net'.msg = m /\ net'.conn = net.conn
    BY <1>1, <1>3 DEF NetRecords, NetPcs
  <2>2. net.conn \in Conn
    BY <1>1, <1>2 DEF ThreadsSound, LocksHeld
  <2>3. net.msg = NoMsg
    BY <1>1, <1>2 DEF NetKnows, NetRecords
  <2>4. /\ DataSound' /\ msgConn'[m] = net.conn
        /\ \A n \in Msg : n = disp.msg \/ n = net.msg => msgConn'[n] = msgConn[n]
    BY <1>1, <1>2, <1>3, <2>1, <2>2, <2>3, ThreadGets
  <2>5. InHandler'
    BY <2>1 DEF InHandler
  <2>6. ThreadsSound'
    BY <1>1, <1>2, <2>1, <2>5, NoLock DEF ThreadsSound, ThreadTypes
  <2>7. DispKnows' /\ NetKnows'
    BY <1>1, <1>2, <2>1, <2>4, DispKnowsStill DEF NetKnows
  <2>8. QED
    BY <2>4, <2>6, <2>7 DEF IInv
<1>4. CASE net' = [net EXCEPT !.pc = "finish"] /\ UNCHANGED <<age, msgConn>>
  BY <1>2, <1>4, NetStepKeeps
<1>5. QED
  BY <1>3, <1>4 DEF NetGetsMessage

LEMMA NetReadsStateKeeps ==
  ASSUME IInv, NetReadsState
  PROVE  IInv'
<1>1. /\ net.pc = "state" /\ InHandler /\ net' = [net EXCEPT !.pc = "send"]
      /\ UNCHANGED <<owner, phase, isOpen, disp, autoSend, toAdd, issued, together,
                     age, msgConn, conn, buffer, releasing, leaked>>
  BY DEF NetReadsState, threads, lists, InHandler
<1>2. QED
  BY <1>1, NetStepKeeps

LEMMA NetSendsKeeps ==
  ASSUME IInv, NetSends
  PROVE  IInv'
<1>1. DataSound /\ ThreadsSound /\ DispKnows /\ NetKnows /\ net \in NetRecords
  BY DEF IInv, ThreadsSound, ThreadTypes
<1>2. /\ net.pc = "send" /\ InHandler /\ Send(net.conn, net.msg)
      /\ net' = [net EXCEPT !.pc = "finish", !.msg = NoMsg]
      /\ UNCHANGED <<owner, phase, isOpen, disp, autoSend, age, msgConn>>
  BY DEF NetSends, threads, InHandler
<1>3. net' \in NetRecords /\ net'.pc = "finish" /\ net'.msg = NoMsg /\ net'.conn = net.conn
  BY <1>1, <1>2 DEF NetRecords, NetPcs
<1>4. net.conn \in Conn
  BY <1>1, <1>2 DEF ThreadsSound, LocksHeld
<1>5. PICK m \in Msg, c \in Conn : m = net.msg /\ c = net.conn /\ msgConn[m] = c
  BY <1>1, <1>2, <1>4 DEF NetKnows
<1>6. m # NoMsg /\ m # disp.msg
  BY <1>1, <1>5, OutputPoolAssumption DEF DataSound, Placed, IsAt
<1>7. Taken(m)
  <2>1. \A n \in Msg \ {m} : (disp'.msg = n <=> disp.msg = n) /\ (net'.msg = n <=> net.msg = n)
    BY <1>2, <1>3, <1>5, OutputPoolAssumption
  <2>2. disp'.msg # m /\ net'.msg # m
    BY <1>2, <1>3, <1>6
  <2>3. QED
    BY <1>1, <1>2, <1>5, <2>1, <2>2, TakenFromHand
<1>8. DataSound'
  <2>1. Send(c, m)
    BY <1>2, <1>5
  <2>2. QED
    BY <1>1, <1>5, <1>7, <2>1, SendSound
<1>9. InHandler'
  BY <1>3 DEF InHandler
<1>10. ThreadsSound'
  BY <1>1, <1>2, <1>3, <1>9, NoLock DEF ThreadsSound, ThreadTypes
<1>11. DispKnows' /\ NetKnows'
  BY <1>1, <1>2, <1>3, OutputPoolAssumption, DispKnowsStill DEF NetKnows
<1>12. QED
  BY <1>8, <1>10, <1>11 DEF IInv

LEMMA NetReturnsKeeps ==
  ASSUME IInv, NetReturns
  PROVE  IInv'
<1>1. DataSound /\ ThreadsSound /\ DispKnows /\ NetKnows /\ DataTypes /\ net \in NetRecords
  BY DEF IInv, DataSound, ThreadsSound, ThreadTypes
<1>2. /\ net.pc = "finish" /\ InHandler
      /\ RequestClose(net.conn) \/ conn' = conn
      /\ owner' = [owner EXCEPT ![net.conn] = "none"]
      /\ net' = [pc |-> "idle", msg |-> NoMsg, conn |-> NoConn]
      /\ UNCHANGED <<phase, isOpen, disp, autoSend, toAdd, issued, together,
                     age, msgConn, buffer, releasing, leaked>>
  BY DEF NetReturns, Return, lists, InHandler
<1>3. net' \in NetRecords /\ net'.pc = "idle" /\ net'.msg = NoMsg
  BY <1>2, NetIs DEF NetPcs
<1>4. net.conn \in Conn
  BY <1>1, <1>2 DEF ThreadsSound, LocksHeld
<1>5. conn' \in [Conn -> ConnRecords] /\ \A d \in Conn : conn'[d].writing = conn[d].writing
  <2>1. CASE conn' = conn
    BY <1>1, <2>1 DEF DataTypes
  <2>2. QED
    BY <1>1, <1>2, <1>4, <2>1, ClosingKeeps
<1>6. DataTypes'
  BY <1>1, <1>2, <1>5 DEF DataTypes
<1>7. net.msg = NoMsg
  BY <1>1, <1>2 DEF NetKnows, NetRecords
<1>8. DataSound'
  BY <1>1, <1>2, <1>3, <1>5, <1>6, <1>7, NothingMoves
<1>9. ~InHandler'
  BY <1>3 DEF InHandler
<1>10. ThreadsSound'
  BY <1>1, <1>2, <1>3, <1>9, HandlerLeaves
<1>11. DispKnows' /\ NetKnows'
  BY <1>1, <1>2, <1>3, OutputPoolAssumption, DispKnowsStill DEF NetKnows
<1>12. QED
  BY <1>8, <1>10, <1>11 DEF IInv

LEMMA NetWrittenKeeps ==
  ASSUME IInv, NEW error \in BOOLEAN, NetWritten(error)
  PROVE  /\ IInv'
         /\ \A d \in Conn : conn'[d].writing # NoMsg => conn'[d].writing = conn[d].writing
<1>1. DataSound /\ ThreadsSound /\ DispKnows /\ NetKnows /\ DataTypes /\ net \in NetRecords
  BY DEF IInv, DataSound, ThreadsSound, ThreadTypes
<1>2. net.pc = "written" /\ InHandler
  BY DEF NetWritten, InHandler
<1>3. net.conn \in Conn
  BY <1>1, <1>2 DEF ThreadsSound, LocksHeld
<1>4. PICK c \in Conn, m \in Msg : c = net.conn /\ m = conn[c].writing
  BY <1>1, <1>2, <1>3 DEF NetKnows
<1> DEFINE mine == [conn[c] EXCEPT !.writing = NoMsg]
           shut == [conn[c] EXCEPT !.writing = NoMsg, !.open = FALSE,
                                   !.closeTask = (phase = "running")]
<1>5. /\ mine \in ConnRecords /\ mine.writing = NoMsg
      /\ shut \in ConnRecords /\ shut.writing = NoMsg
  BY <1>1 DEF DataTypes, ConnRecords
<1>6. conn' = [conn EXCEPT ![c] = mine] \/ conn' = [conn EXCEPT ![c] = shut]
  <2>1. CASE error /\ conn[net.conn].open
    <3>1. conn' = [[conn EXCEPT ![c].writing = NoMsg]
                     EXCEPT ![c].open = FALSE, ![c].closeTask = (phase = "running")]
      BY <1>4, <2>1 DEF NetWritten
    <3>2. conn' = [conn EXCEPT ![c] = shut]
      BY <1>1, <3>1 DEF DataTypes
    <3>3. QED
      BY <3>2
  <2>2. CASE ~(error /\ conn[net.conn].open)
    <3>1. conn' = [conn EXCEPT ![c].writing = NoMsg]
      BY <1>4, <2>2 DEF NetWritten
    <3>2. conn' = [conn EXCEPT ![c] = mine]
      BY <1>1, <3>1 DEF DataTypes
    <3>3. QED
      BY <3>2
  <2>3. QED
    BY <2>1, <2>2
<1> HIDE DEF mine, shut
<1>7. /\ conn' \in [Conn -> ConnRecords] /\ conn'[c].writing = NoMsg
      /\ \A d \in Conn \ {c} : conn'[d].writing = conn[d].writing
  BY <1>1, <1>5, <1>6 DEF DataTypes
<1>8. /\ net' = [pc |-> "release", msg |-> m, conn |-> NoConn]
      /\ owner' = [owner EXCEPT ![net.conn] = "none"]
      /\ UNCHANGED <<phase, isOpen, disp, autoSend, toAdd, issued, together,
                     age, msgConn, buffer, releasing, leaked>>
  BY <1>4 DEF NetWritten, lists
<1>9. net' \in NetRecords /\ net'.pc = "release" /\ net'.msg = m
  BY <1>8, NetIs DEF NetPcs
<1>10. net.msg \notin Msg
  BY <1>1, <1>2 DEF NetKnows
<1>11. DataTypes'
  BY <1>1, <1>7, <1>8 DEF DataTypes
<1>12. IsAt(m, "writing") /\ m # NoMsg
  <2>1. PICK w \in Where : IsAt(m, w)
    BY <1>1 DEF DataSound, Placed
  <2>2. w = "writing"
    BY <1>4, <2>1 DEF IsAt
  <2>3. QED
    BY <2>1, <2>2, OutputPoolAssumption
<1>13. m \notin OnLists
  BY <1>12 DEF IsAt, OnLists
<1>14. ASSUME NEW n \in Msg \ {m} PROVE Stays(n)
  <2>1. n # NoMsg
    BY OutputPoolAssumption
  <2>2. \A d \in Conn : conn'[d].writing = n <=> conn[d].writing = n
    BY <1>4, <1>7, <2>1
  <2>3. QED
    BY <1>8, <1>9, <1>10, <2>2 DEF Stays
<1>15. IsAt(m, "network")'
  <2>1. \A d \in Conn : conn'[d].writing # m
    <3>1. \A d \in Conn \ {c} : conn[d].writing # m
      BY <1>4, <1>12 DEF IsAt
    <3>2. QED
      BY <1>7, <1>12, <3>1
  <2>2. QED
    BY <1>8, <1>9, <1>12, <2>1 DEF IsAt
<1>16. DataSound'
  <2>1. "network" \in Where
    BY DEF Where
  <2>2. QED
    BY <1>1, <1>8, <1>11, <1>13, <1>14, <1>15, <2>1, OffTheLists
<1>17. ~InHandler'
  BY <1>9 DEF InHandler
<1>18. ThreadsSound'
  BY <1>1, <1>2, <1>8, <1>9, <1>17, HandlerLeaves
<1>19. DispKnows' /\ NetKnows'
  BY <1>1, <1>8, <1>9, DispKnowsStill DEF NetKnows
<1>20. QED
  BY <1>7, <1>16, <1>18, <1>19 DEF IInv

LEMMA NetReleasesKeeps ==
  ASSUME IInv, NetReleases
  PROVE  IInv'
<1>1. DataSound /\ ThreadsSound /\ DispKnows /\ NetKnows /\ DataTypes /\ net \in NetRecords
  BY DEF IInv, DataSound, ThreadsSound, ThreadTypes
<1>2. /\ net.pc = "release" /\ Drop({net.msg})
      /\ net' = [pc |-> "idle", msg |-> NoMsg, conn |-> NoConn]
      /\ UNCHANGED <<owner, phase, isOpen, disp, autoSend, toAdd, issued, together,
                     age, msgConn, conn, buffer>>
  BY DEF NetReleases, threads, lists
<1>3. net' \in NetRecords /\ net'.pc = "idle" /\ net'.msg = NoMsg
  BY <1>2, NetIs DEF NetPcs
<1>4. PICK m \in Msg : m = net.msg
  BY <1>1, <1>2 DEF NetKnows
<1>5. m # NoMsg /\ {m} \in SUBSET Msg
  BY OutputPoolAssumption
<1>6. /\ releasing' \subseteq Msg /\ leaked' \subseteq Msg
      /\ \E w \in {"releasing", "leaked"} :
           /\ releasing' = IF w = "releasing" THEN releasing \cup {m} ELSE releasing
           /\ leaked' = IF w = "leaked" THEN leaked \cup {m} ELSE leaked
  <2>1. Drop({m})
    BY <1>2, <1>4
  <2>2. QED
    BY <1>1, <1>5, <2>1, DropKeeps
<1>7. PICK w \in {"releasing", "leaked"} :
        /\ releasing' = IF w = "releasing" THEN releasing \cup {m} ELSE releasing
        /\ leaked' = IF w = "leaked" THEN leaked \cup {m} ELSE leaked
  BY <1>6
<1>8. DataTypes'
  BY <1>1, <1>2, <1>6 DEF DataTypes
<1>9. IsAt(m, "network")
  BY <1>1, <1>4 DEF DataSound, Placed, IsAt
<1>10. m \notin OnLists
  BY <1>9 DEF IsAt, OnLists
<1>11. ASSUME NEW n \in Msg \ {m} PROVE Stays(n)
  <2>1. n # NoMsg
    BY OutputPoolAssumption
  <2>2. QED
    BY <1>2, <1>3, <1>4, <1>7, <2>1 DEF Stays
<1>12. IsAt(m, w)'
  BY <1>2, <1>3, <1>5, <1>7, <1>9 DEF IsAt
<1>13. DataSound'
  <2>1. w \in Where
    BY DEF Where
  <2>2. QED
    BY <1>1, <1>2, <1>8, <1>10, <1>11, <1>12, <2>1, OffTheLists
<1>14. InHandler' <=> InHandler
  BY <1>2, <1>3 DEF InHandler
<1>15. ThreadsSound'
  BY <1>1, <1>2, <1>3, <1>14, NoLock DEF ThreadsSound, ThreadTypes, InHandler
<1>16. DispKnows' /\ NetKnows'
  BY <1>1, <1>2, <1>3, OutputPoolAssumption, DispKnowsStill DEF NetKnows
<1>17. QED
  BY <1>13, <1>15, <1>16 DEF IInv

LEMMA NextKeeps ==
  ASSUME IInv, Next
  PROVE  IInv'
<1>1. CASE Dispatcher
  BY <1>1, StartTaskKeeps, CloseConnectionTaskKeeps, ReleaseMessageKeeps, DispSendsKeeps,
     DispHangsUpKeeps, EndTaskKeeps, BeginSendAllKeeps, SendNextKeeps, EndSendAllKeeps
     DEF Dispatcher
<1>2. CASE Network
  BY <1>2, NetGetsMessageKeeps, NetReadsStateKeeps, NetSendsKeeps, NetReturnsKeeps,
     NetReleasesKeeps, NetWrittenKeeps
     DEF Network
<1>3. ASSUME NEW c \in Conn, EnterPacket(c) \/ EnterWritten(c)
      PROVE  IInv'
  <2>1. \E pc \in {"finish", "answer", "written"} :
          Enter(c, pc) /\ (pc = "written" => conn[c].writing # NoMsg)
    BY <1>3 DEF EnterPacket, EnterWritten
  <2>2. QED
    BY <2>1, EnterKeeps
<1>4. QED
  BY <1>1, <1>2, <1>3, GameWritesKeeps, DisconnectClientKeeps, StopDispatcherKeeps,
     BeginFlushKeeps, EndFlushKeeps
     DEF Next

LEMMA StepKeeps == IInv /\ [Next]_vars => IInv'
<1> SUFFICES ASSUME IInv, [Next]_vars PROVE IInv'
  OBVIOUS
<1>1. CASE UNCHANGED vars
  <2>1. UNCHANGED <<owner, phase, isOpen, disp, net, autoSend, toAdd, age, msgConn,
                    conn, buffer, releasing, leaked, issued, together>>
    BY <1>1 DEF vars
  <2>2. InHandler' <=> InHandler
    BY <2>1 DEF InHandler
  <2>3. ThreadsSound'
    BY <2>1, <2>2, NoLock DEF IInv, ThreadsSound, ThreadTypes
  <2>4. DataTypes'
    BY <2>1 DEF IInv, DataSound, DataTypes
  <2>5. DataSound' /\ DispKnows' /\ NetKnows'
    BY <2>1, <2>4, NothingMoves, DispKnowsStill, NetKnowsStill DEF IInv
  <2>6. QED
    BY <2>3, <2>5 DEF IInv
<1>2. QED
  BY <1>1, NextKeeps

LEMMA Invariance == Spec => []IInv
BY InitSound, StepKeeps, PTL DEF Spec


----------------------------------------------------------------------------
(* Where every message is *)

\* The places OnePlace counts are those of IsAt, save that it tells apart neither the two
\* lists nor the two threads.
LEMMA PlaceIsOne ==
  ASSUME DataSound, NEW m \in Msg
  PROVE  LET places == <<m \in OnLists, m \in Writing, m \in InHand, m \in releasing, m \in leaked>>
         IN  Cardinality({i \in 1..5 : places[i]}) = IF m \in Free THEN 0 ELSE 1
<1> DEFINE places == <<m \in OnLists, m \in Writing, m \in InHand, m \in releasing, m \in leaked>>
           true == {i \in 1..5 : places[i]}
<1>1. DataTypes /\ m # NoMsg
  BY OutputPoolAssumption DEF DataSound
<1>2. PICK w \in Where : IsAt(m, w)
  BY DEF DataSound, Placed
<1>3. m \in OnLists <=> w \in {"auto", "aside"}
  BY <1>2 DEF IsAt, OnLists
<1>4. m \in Writing <=> w = "writing"
  <2>1. ASSUME w = "writing" PROVE m \in Writing
    <3>1. msgConn[m] \in Conn
      BY <1>1, <1>2, <2>1 DEF IsAt, DataTypes
    <3>2. conn[msgConn[m]].writing = m
      BY <1>2, <2>1, <3>1 DEF IsAt
    <3>3. QED
      BY <1>1, <3>1, <3>2 DEF Writing
  <2>2. ASSUME m \in Writing PROVE w = "writing"
    BY <1>2, <2>2 DEF IsAt, Writing
  <2>3. QED
    BY <2>1, <2>2
<1>5. m \in InHand <=> w \in {"dispatcher", "network"}
  BY <1>1, <1>2 DEF IsAt, InHand
<1>6. (m \in releasing <=> w = "releasing") /\ (m \in leaked <=> w = "leaked")
  BY <1>2 DEF IsAt
<1>7. m \in Free <=> w = "free"
  BY <1>2 DEF IsAt, Free
<1>8. true = {i \in 1..5 : \/ i = 1 /\ w \in {"auto", "aside"}
                           \/ i = 2 /\ w = "writing"
                           \/ i = 3 /\ w \in {"dispatcher", "network"}
                           \/ i = 4 /\ w = "releasing"
                           \/ i = 5 /\ w = "leaked"}
  <2>1. \A i \in 1..5 : i = 1 \/ i = 2 \/ i = 3 \/ i = 4 \/ i = 5
    OBVIOUS
  <2>2. /\ places[1] <=> w \in {"auto", "aside"}
        /\ places[2] <=> w = "writing"
        /\ places[3] <=> w \in {"dispatcher", "network"}
        /\ places[4] <=> w = "releasing"
        /\ places[5] <=> w = "leaked"
    BY <1>3, <1>4, <1>5, <1>6
  <2> HIDE DEF places
  <2>3. QED
    BY <2>1, <2>2
<1> HIDE DEF true
<1>9. CASE w = "free"
  <2>1. true = {}
    BY <1>8, <1>9
  <2>2. Cardinality(true) = 0
    BY <2>1, FS_EmptySet
  <2>3. QED
    BY <1>7, <1>9, <2>2 DEF true
<1>10. CASE w # "free"
  <2>1. \E i : true = {i}
    <3>1. \A i \in 1..5 : {j \in 1..5 : j = i} = {i}
      OBVIOUS
    <3>2. true = {1} \/ true = {2} \/ true = {3} \/ true = {4} \/ true = {5}
      BY <1>8, <1>10 DEF Where
    <3>3. QED
      BY <3>2
  <2>2. PICK i : true = {i}
    BY <2>1
  <2>3. Cardinality({i}) = 1
    BY FS_Singleton
  <2>4. QED
    BY <1>7, <1>10, <2>2, <2>3 DEF true
<1>11. QED
  BY <1>9, <1>10

LEMMA SoundMeansInv == IInv => Inv
<1> SUFFICES ASSUME IInv PROVE Inv
  OBVIOUS
<1>1. ThreadTypes /\ DataSound /\ DataTypes
  BY DEF IInv, ThreadsSound, DataSound
<1>2. TypeOK
  BY <1>1, TypesInParts
<1>3. IsInjective(autoSend \o toAdd)
  <2>1. autoSend \in Seq(Msg) /\ toAdd \in Seq(Msg)
    BY <1>1 DEF DataTypes
  <2>2. \A x : ~(x \in ToSet(autoSend) /\ x \in ToSet(toAdd))
    <3>1. ASSUME NEW x \in ToSet(autoSend) PROVE x \notin ToSet(toAdd)
      <4>1. x \in Msg
        BY <2>1 DEF ToSet
      <4>2. PICK w \in Where : IsAt(x, w)
        BY <1>1, <4>1 DEF DataSound, Placed
      <4>3. QED
        BY <4>2 DEF IsAt
    <3>2. QED
      BY <3>1
  <2>3. autoSend \o toAdd \in Seq(Msg) /\ \A x : ~Precedes(autoSend \o toAdd, x, x)
    BY <1>1, <2>1, <2>2, ConcatKeeps DEF DataSound, NoneTwice
  <2>4. QED
    BY <2>3, InjectiveIs
<1>4. OnePlace
  BY <1>1, <1>3, PlaceIsOne DEF OnePlace
<1>5. QED
  BY <1>1, <1>2, <1>4 DEF Inv, DataSound

\* Every message is in exactly one place, none is on the lists twice, and the game writes
\* only into one that waits on a list and is for that client: of outputmessage.cpp and
\* connection.cpp, whichever of the two threads runs when.
THEOREM OutputPoolIsSafe == Spec => []Inv
<1>1. QED
  BY Invariance, SoundMeansInv, PTL

----------------------------------------------------------------------------
(* Which threads may wait for each other *)

LEMMA SoundMeansDeadlocks == IInv => OnlyKnownDeadlocks
<1> SUFFICES ASSUME IInv, Deadlocked, phase # "flushing"
             PROVE  /\ disp.pc = "sendAll" /\ net.pc \in {"answer", "state", "send"}
                    /\ net.conn = msgConn[Head(autoSend)]
  BY DEF OnlyKnownDeadlocks
<1>1. /\ LocksHeld /\ DataTypes /\ DispKnows /\ NetKnows
  BY DEF IInv, ThreadsSound, DataSound
<1>2. /\ owner["task"] = "none"
      /\ owner["pool"] = IF disp.pc = "sendAll" THEN "dispatcher" ELSE "none"
      /\ \A c \in Conn : owner[c] = IF InHandler /\ net.conn = c THEN "network" ELSE "none"
  BY <1>1 DEF LocksHeld
<1>3. /\ \E l \in DispNeeds : owner[l] = "network"
      /\ \E l \in NetNeeds : owner[l] = "dispatcher"
  <2>1. ASSUME NEW l \in DispNeeds, l = "task", owner[l] = "dispatcher" PROVE FALSE
    BY <1>2, <2>1
  <2>2. QED
    BY <2>1 DEF Deadlocked
\* What the network's thread may wait for is the lock of the pool, held by sendAll().
<1>4. PICK k \in NetNeeds : owner[k] = "dispatcher"
  BY <1>3
<1>5. k \in {"pool", "task"} /\ net.pc \in {"finish", "release", "answer", "state", "send"}
      /\ (k = "pool" => net.pc \in {"answer", "state", "send"})
  BY <1>4 DEF NetNeeds, SendNeeds, CloseNeeds
<1>6. k = "pool" /\ disp.pc = "sendAll" /\ net.pc \in {"answer", "state", "send"}
  BY <1>2, <1>4, <1>5
\* And the dispatcher's thread waits for the connection whose handler that is.
<1>7. PICK l \in DispNeeds : owner[l] = "network"
  BY <1>3
<1>8. NextToSend /\ l \in {msgConn[Head(autoSend)], "pool", "task"}
  BY <1>6, <1>7 DEF DispNeeds, SendNeeds
<1>9. l = msgConn[Head(autoSend)]
  BY <1>2, <1>6, <1>7, <1>8
<1>10. l \in Conn
  <2>1. autoSend \in Seq(Msg) /\ autoSend # <<>> /\ \A x : ~Precedes(autoSend, x, x)
    BY <1>1, <1>8 DEF DataTypes, NextToSend, IInv, DataSound, NoneTwice
  <2>2. Head(autoSend) \in Msg /\ Head(autoSend) \in ToSet(autoSend)
    BY <2>1, TailKeeps
  <2>3. PICK w \in Where : IsAt(Head(autoSend), w)
    BY <2>2 DEF IInv, DataSound, Placed
  <2>4. msgConn[Head(autoSend)] # NoConn
    BY <2>2, <2>3 DEF IsAt
  <2>5. QED
    BY <1>1, <1>9, <2>2, <2>4 DEF DataTypes
<1>11. net.conn = l
  BY <1>2, <1>7, <1>10
<1>12. QED
  BY <1>6, <1>9, <1>11

\* The two threads lock each other out only over the connection that sendAll() wants to
\* send to while its handler wants the pool, or while flush() holds m_taskLock.
THEOREM OnlyTheseDeadlocks == Spec => []OnlyKnownDeadlocks
<1>1. QED
  BY Invariance, SoundMeansDeadlocks, PTL

----------------------------------------------------------------------------
(* In which order a client gets its messages *)

\* Only sendAll() hands to a socket what the game wrote: an answer that is sent at once,
\* by either thread, was never on a list.
LEMMA SendWrites ==
  ASSUME DataTypes, NEW c \in Conn, NEW m \in Msg, Send(c, m)
  PROVE  \A d \in Conn : conn'[d].writing # conn[d].writing => d = c /\ conn'[d].writing = m
<1>1. conn \in [Conn -> ConnRecords]
  BY DEF DataTypes
<1>2. CASE conn' = conn
  BY <1>2
<1>3. CASE conn' = [conn EXCEPT ![c].writing = m]
  <2> DEFINE mine == [conn[c] EXCEPT !.writing = m]
  <2>1. conn' = [conn EXCEPT ![c] = mine] /\ mine.writing = m
    BY <1>1, <1>3 DEF ConnRecords
  <2> HIDE DEF mine
  <2>2. QED
    BY <1>1, <2>1
<1>4. QED
  BY <1>2, <1>3 DEF Send

LEMMA InHandIsNotIssued ==
  ASSUME DataSound, NEW m \in {disp.msg, net.msg} \cap Msg
  PROVE  \A c \in Conn : m \notin ToSet(issued[c])
<1>1. PICK w \in Where : IsAt(m, w)
  BY DEF DataSound, Placed
<1>2. m \notin OnLists
  BY <1>1 DEF IsAt, OnLists
<1>3. QED
  BY <1>2 DEF DataSound, IssuedWait

LEMMA StepKeepsOrder ==
  ASSUME IInv, Next, NEW c \in Conn, conn'[c].writing # conn[c].writing,
         NEW n \in Msg, Precedes(issued[c], n, conn'[c].writing)
  PROVE  {conn'[c].writing, n} \subseteq together \/ n \in ToSet(toAdd)
<1> DEFINE m == conn'[c].writing
<1>1. DataSound /\ DataTypes /\ DispKnows /\ NetKnows
  BY DEF IInv, DataSound
<1>2. issued[c] \in Seq(Msg) /\ m \in ToSet(issued[c]) /\ n \in ToSet(issued[c]) /\ m \in Msg
  <2>1. issued[c] \in Seq(Msg)
    BY <1>1 DEF DataTypes
  <2>2. QED
    BY <2>1 DEF Precedes, ToSet
<1>3. CASE SendNext
  <2>1. PICK h \in Msg : h = Head(autoSend) /\ \A x : ~Precedes(autoSend, x, h)
    BY <1>3, SendNextKeeps
  <2>2. autoSend # <<>> /\ Send(msgConn[h], h)
    BY <1>3, <2>1 DEF SendNext, NextToSend
  <2>3. h \in ToSet(autoSend)
    <3>1. autoSend \in Seq(Msg) /\ autoSend # <<>> /\ \A x : ~Precedes(autoSend, x, x)
      BY <1>1, <2>2 DEF DataTypes, DataSound, NoneTwice
    <3>2. QED
      BY <2>1, <3>1, TailKeeps
  <2>4. msgConn[h] \in Conn
    <3>1. PICK w \in Where : IsAt(h, w)
      BY <1>1 DEF DataSound, Placed
    <3>2. msgConn[h] # NoConn
      BY <2>3, <3>1 DEF IsAt
    <3>3. QED
      BY <1>1, <3>2 DEF DataTypes
  <2>5. m = h
    BY <1>1, <2>2, <2>4, SendWrites
  <2>6. n \in OnLists
    BY <1>1, <1>2 DEF DataSound, IssuedWait
  <2>7. ASSUME n \in ToSet(autoSend), ~({n, m} \subseteq together) PROVE FALSE
    <3>1. Precedes(autoSend, n, m)
      BY <1>1, <1>2, <2>7 DEF DataSound, ListInOrder
    <3>2. QED
      BY <2>1, <2>5, <3>1
  <2>8. QED
    BY <2>6, <2>7 DEF OnLists
<1>4. CASE DispSends
  <2>1. disp.msg \in Msg /\ disp.conn \in Conn /\ Send(disp.conn, disp.msg)
    BY <1>1, <1>4 DEF DispSends, DispKnows
  <2>2. m = disp.msg
    BY <1>1, <2>1, SendWrites
  <2>3. QED
    BY <1>1, <1>2, <2>2, InHandIsNotIssued
<1>5. CASE NetSends
  <2>1. net.pc = "send" /\ Send(net.conn, net.msg)
    BY <1>5 DEF NetSends
  <2>2. net.msg \in Msg /\ net.conn \in Conn
    BY <1>1, <2>1 DEF NetKnows, IInv, ThreadsSound, LocksHeld, InHandler
  <2>3. m = net.msg
    BY <1>1, <2>1, <2>2, SendWrites
  <2>4. QED
    BY <1>1, <1>2, <2>3, InHandIsNotIssued
<1>6. CASE \E error \in BOOLEAN : NetWritten(error)
  <2>1. m # NoMsg
    BY <1>2, OutputPoolAssumption
  <2>2. QED
    BY <1>6, <2>1, NetWrittenKeeps
\* No other step changes what a connection is writing.
<1>7. CASE conn' = conn
  BY <1>7
<1>8. CASE \E d \in Conn, mine \in ConnRecords :
             conn' = [conn EXCEPT ![d] = mine] /\ mine.writing = conn[d].writing
  BY <1>1, <1>8 DEF DataTypes
<1>9. ASSUME NEW d \in Conn, RequestClose(d)
      PROVE  conn'[c].writing = conn[c].writing
  BY <1>1, <1>9, ClosingKeeps
<1>10. CASE DispHangsUp
  <2>1. disp.conn \in Conn /\ RequestClose(disp.conn)
    BY <1>1, <1>10 DEF DispHangsUp, DispKnows
  <2>2. QED
    BY <1>9, <2>1
<1>11. CASE NetReturns
  <2>1. net.conn \in Conn /\ (RequestClose(net.conn) \/ conn' = conn)
    BY <1>1, <1>11 DEF NetReturns, IInv, ThreadsSound, LocksHeld, InHandler
  <2>2. QED
    BY <1>9, <2>1
<1>12. CASE \E d \in Conn : CloseConnectionTask(d)
  <2>1. PICK d \in Conn :
          conn' = [conn EXCEPT ![d].attached = FALSE, ![d].closeTask = FALSE]
    BY <1>12 DEF CloseConnectionTask
  <2> DEFINE mine == [conn[d] EXCEPT !.attached = FALSE, !.closeTask = FALSE]
  <2>2. conn' = [conn EXCEPT ![d] = mine] /\ mine \in ConnRecords
        /\ mine.writing = conn[d].writing
    BY <1>1, <2>1 DEF DataTypes, ConnRecords
  <2> HIDE DEF mine
  <2>3. QED
    BY <1>8, <2>2
<1>13. CASE Dispatcher
  <2>1. CASE \/ \E e \in 0..1 : StartTask(e)
             \/ \E k \in Msg : ReleaseMessage(k)
             \/ EndTask \/ BeginSendAll \/ EndSendAll
    <3>1. conn' = conn
      BY <2>1 DEF StartTask, ReleaseMessage, EndTask, BeginSendAll, EndSendAll
    <3>2. QED
      BY <1>7, <3>1
  <2>2. QED
    BY <1>3, <1>4, <1>10, <1>12, <1>13, <2>1 DEF Dispatcher
<1>14. CASE Network
  <2>1. CASE NetGetsMessage \/ NetReadsState \/ NetReleases
    <3>1. conn' = conn
      BY <2>1 DEF NetGetsMessage, NetReadsState, NetReleases
    <3>2. QED
      BY <1>7, <3>1
  <2>2. QED
    BY <1>5, <1>6, <1>11, <1>14, <2>1 DEF Network
<1>15. CASE \/ \E d \in Conn, k \in Msg : GameWrites(d, k) \/ DisconnectClient(d, k)
            \/ StopDispatcher \/ BeginFlush \/ EndFlush
            \/ \E d \in Conn : EnterPacket(d) \/ EnterWritten(d)
  <2>1. conn' = conn
    BY <1>15 DEF GameWrites, DisconnectClient, StopDispatcher, BeginFlush, EndFlush,
       EnterPacket, EnterWritten, Enter
  <2>2. QED
    BY <1>7, <2>1
<1>16. QED
  BY <1>13, <1>14, <1>15 DEF Next

\* A client gets what the game wrote in the order it was written, save for messages that
\* sendAll() put back together and for those it has put aside.
THEOREM ClientsGetItInOrder == Spec => OrderKept
<1> DEFINE Ordered ==
      \A c \in Conn :
        LET m == conn'[c].writing
        IN  m # conn[c].writing =>
              \A n \in Msg :
                Precedes(issued[c], n, m) => {m, n} \subseteq together \/ n \in ToSet(toAdd)
<1>1. IInv /\ [Next]_vars => [Ordered]_vars
  <2>1. ASSUME IInv, Next PROVE Ordered
    BY <2>1, StepKeepsOrder
  <2> HIDE DEF Ordered
  <2>2. QED
    BY <2>1
<1> HIDE DEF Ordered
<1>2. Spec => [][Ordered]_vars
  BY <1>1, Invariance, PTL DEF Spec
<1>3. QED
  BY <1>2 DEF OrderKept, Ordered
=============================================================================
