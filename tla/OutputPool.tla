------------------------------ MODULE OutputPool ------------------------------
(****************************************************************************)
(* The pool of output messages (outputmessage.cpp) between the dispatcher's *)
(* thread, which writes to clients in its tasks and calls sendAll() after   *)
(* each, and the network thread, whose handlers answer clients and return   *)
(* messages that were written.  The order in which the two take             *)
(* m_outputPoolLock, the m_connectionLock of a connection and the           *)
(* dispatcher's m_taskLock is the point: a step that needs a lock waits     *)
(* until the lock is free, and only locks held from one step to a later one *)
(* appear in `owner'.                                                       *)
(*                                                                          *)
(* What becomes of a connection after it was asked to close is in           *)
(* Connection; here it only no longer takes messages.                       *)
(****************************************************************************)
EXTENDS Naturals, FiniteSets, Lists

CONSTANTS
  Conn,         \* connections, each with a protocol object of its own
  Msg,          \* OutputMessage objects: bounds those in use at a time
  NoMsg, NoConn,
  Watched,      \* the message EverythingLeaves follows; all are alike
  DropAge       \* age, in frames of 10 ms, above which a waiting message is dropped

ASSUME OutputPoolAssumption ==
  /\ NoMsg \notin Msg /\ Watched \in Msg
  /\ NoConn \notin Conn /\ {"pool", "task"} \cap Conn = {}
  /\ DropAge \in Nat \ {0}

VARIABLES
  owner,     \* per lock: which thread holds it
  phase,     \* of the dispatcher: "running", "stopped", "flushing", "ended"
  isOpen,    \* OutputMessagePool::m_isOpen
  disp,      \* the dispatcher's thread: where it is, with which message and connection
  net,       \* the network thread, likewise
  autoSend,  \* m_autoSendOutputMessages
  toAdd,     \* m_toAddQueue: waiting for the write before them
  age,       \* per message: m_frameTime - m_frame
  msgConn,   \* per message: m_connection; NoConn while it is in m_outputMessages
  conn,      \* per connection: open, attached to its protocol, to be closed, and the
             \* message that is being written
  buffer,    \* per protocol: m_outputBuffer
  releasing, \* messages for which internalReleaseMessage() is queued
  leaked,    \* and those for which it never will be: the dispatcher refused it
  issued,    \* per connection: its messages to be sent, in the order it got them
  together   \* those that were put back at the same time as another of the same client

vars == <<owner, phase, isOpen, disp, net, autoSend, toAdd, age, msgConn, conn, buffer,
          releasing, leaked, issued, together>>

lists == <<autoSend, toAdd, issued, together>>
threads == <<owner, phase, isOpen>>

Locks == {"pool", "task"} \cup Conn

Init ==
  /\ owner = [l \in Locks |-> "none"]
  /\ phase = "running"
  /\ isOpen = TRUE
  /\ disp = [pc |-> "idle", msg |-> NoMsg, conn |-> NoConn]
  /\ net = [pc |-> "idle", msg |-> NoMsg, conn |-> NoConn]
  /\ autoSend = <<>> /\ toAdd = <<>>
  /\ age = [m \in Msg |-> 0]
  /\ msgConn = [m \in Msg |-> NoConn]
  /\ conn = [c \in Conn |->
       [open |-> TRUE, attached |-> TRUE, closeTask |-> FALSE, writing |-> NoMsg]]
  /\ buffer = [c \in Conn |-> NoMsg]
  /\ releasing = {} /\ leaked = {}
  /\ issued = [c \in Conn |-> <<>>]
  /\ together = {}

----------------------------------------------------------------------------
(* Locks and messages *)

\* The recursive locks of the pool and of a connection; m_taskLock is a plain one.
CanLock(thread, l) == owner[l] = "none" \/ (owner[l] = thread /\ l # "task")

Free == {m \in Msg : msgConn[m] = NoConn}

OnLists == ToSet(autoSend) \cup ToSet(toAdd)

\* The code makes a new message when none is free.  Here Msg bounds them, and one is
\* kept for a handler of the network thread that is going to answer.
MayWrite == Cardinality(Free) > IF net.pc = "answer" THEN 1 ELSE 0

\* "frameTime > msgFrame": the message is older than a frame.
Due(m) == age[m] > 0

\* getOutputMessage(): m now belongs to the protocol of c, and to this frame.  Which of
\* the free ones it is does not matter.
Configure(c, m) ==
  /\ Free # {} /\ m = CHOOSE n \in Free : TRUE
  /\ msgConn' = [msgConn EXCEPT ![m] = c]
  /\ age' = [age EXCEPT ![m] = 0]

\* releaseMessage(): the last reference to each of these has gone; the dispatcher is
\* asked to take them back, unless it does not accept tasks any more.
Drop(ms) ==
  /\ releasing' = IF phase = "running" THEN releasing \cup ms ELSE releasing
  /\ leaked' = IF phase = "running" THEN leaked ELSE leaked \cup ms

\* Mutant: the protocol goes on writing into the message.
BufferNotReset(ms) == UNCHANGED buffer

\* onSendMessage(): the protocol writes no more into any of these.
Sealed(ms) == buffer' = [c \in Conn |-> IF buffer[c] \in ms THEN NoMsg ELSE buffer[c]]

\* These are no longer to be sent.
Gone(ms) ==
  /\ issued' = [c \in Conn |-> Only(issued[c], Msg \ ms)]
  /\ together' = together \ ms

\* Connection::send() of m, and onSendMessage() if it fails.
Send(c, m) ==
  IF ~conn[c].open THEN
     /\ Sealed({m}) /\ Gone({m}) /\ Drop({m})
     /\ UNCHANGED <<conn, toAdd>>
  ELSE IF conn[c].writing = NoMsg THEN
     /\ conn' = [conn EXCEPT ![c].writing = m]
     /\ Sealed({m}) /\ Gone({m})
     /\ UNCHANGED <<toAdd, releasing, leaked>>
  ELSE
     /\ toAdd' = Append(toAdd, m)
     /\ UNCHANGED <<conn, buffer, releasing, leaked, issued, together>>

\* What send() needs besides the lock of the connection: m_taskLock to give a
\* message back, m_outputPoolLock in addToAutoSend().
SendNeeds(c) ==
  IF ~conn[c].open THEN {"task"} ELSE IF conn[c].writing = NoMsg THEN {} ELSE {"pool"}

\* Connection::closeConnection(), with the lock of the connection held.
RequestClose(c) ==
  conn' = IF conn[c].open
          THEN [conn EXCEPT ![c].open = FALSE, ![c].closeTask = (phase = "running")]
          ELSE conn

CloseNeeds(c) == IF conn[c].open THEN {"task"} ELSE {}

----------------------------------------------------------------------------
(* The dispatcher's thread *)

\* Ages above DropAge are all the same; only those of messages still to be sent count.
Older(a, e) == IF a + e > DropAge THEN DropAge + 1 ELSE a + e

\* Mutant: nobody looks at the clock, so that no message becomes older than a frame.
StartTaskInOldFrame(e) ==
  /\ disp.pc = "idle" /\ phase \in {"running", "stopped"}
  /\ isOpen' = TRUE
  /\ disp' = [disp EXCEPT !.pc = "task"]
  /\ UNCHANGED <<owner, phase, net, lists, age, msgConn, conn, buffer, releasing, leaked>>

\* A task begins: startExecutionFrame(), e frames after the one before.
StartTask(e) ==
  /\ disp.pc = "idle" /\ phase \in {"running", "stopped"}
  /\ age' = [m \in Msg |-> IF m \in OnLists \/ (m = net.msg /\ net.pc # "release")
                           THEN Older(age[m], e) ELSE 0]
  /\ isOpen' = TRUE
  /\ disp' = [disp EXCEPT !.pc = "task"]
  /\ UNCHANGED <<owner, phase, net, lists, msgConn, conn, buffer, releasing, leaked>>

\* getOutputBuffer(): the protocol has no message to write to, or a full one.
GameWrites(c, m) ==
  /\ disp.pc = "task" /\ conn[c].attached /\ MayWrite
  /\ CanLock("dispatcher", "pool")
  /\ Configure(c, m)
  /\ autoSend' = Append(autoSend, m)
  /\ issued' = [issued EXCEPT ![c] = Append(@, m)]
  /\ buffer' = [buffer EXCEPT ![c] = m]
  /\ UNCHANGED <<threads, disp, net, toAdd, conn, releasing, leaked, together>>

\* Mutant: OutputMessagePool::send() keeps m_outputPoolLock during Connection::send().
DisconnectClientLocked(c, m) ==
  /\ disp.pc = "task" /\ conn[c].attached /\ MayWrite
  /\ CanLock("dispatcher", "pool")
  /\ Configure(c, m)
  /\ owner' = [owner EXCEPT !["pool"] = "dispatcher"]
  /\ disp' = [pc |-> "send", msg |-> m, conn |-> c]
  /\ UNCHANGED <<phase, isOpen, net, lists, conn, buffer, releasing, leaked>>

\* disconnectClient(): a message that is sent at once, and then the connection closed.
DisconnectClient(c, m) ==
  /\ disp.pc = "task" /\ conn[c].attached /\ MayWrite
  /\ CanLock("dispatcher", "pool")
  /\ Configure(c, m)
  /\ disp' = [pc |-> "send", msg |-> m, conn |-> c]
  /\ UNCHANGED <<threads, net, lists, conn, buffer, releasing, leaked>>

DispSends ==
  /\ disp.pc = "send"
  /\ \A l \in {disp.conn} \cup SendNeeds(disp.conn) : CanLock("dispatcher", l)
  /\ Send(disp.conn, disp.msg)
  /\ disp' = [disp EXCEPT !.pc = "hangUp", !.msg = NoMsg]
  /\ UNCHANGED <<threads, net, autoSend, age, msgConn>>

DispHangsUp ==
  /\ disp.pc = "hangUp"
  /\ \A l \in {disp.conn} \cup CloseNeeds(disp.conn) : CanLock("dispatcher", l)
  /\ RequestClose(disp.conn)
  /\ disp' = [disp EXCEPT !.pc = "task", !.conn = NoConn]
  /\ UNCHANGED <<threads, net, lists, age, msgConn, buffer, releasing, leaked>>

\* closeConnectionTask(): the protocol gets no more messages.
CloseConnectionTask(c) ==
  /\ disp.pc = "task" /\ conn[c].closeTask
  /\ CanLock("dispatcher", c)
  /\ conn' = [conn EXCEPT ![c].attached = FALSE, ![c].closeTask = FALSE]
  /\ UNCHANGED <<threads, disp, net, lists, age, msgConn, buffer, releasing, leaked>>

\* internalReleaseMessage()
ReleaseMessage(m) ==
  /\ disp.pc = "task" /\ m \in releasing
  /\ CanLock("dispatcher", "pool")
  /\ msgConn' = [msgConn EXCEPT ![m] = NoConn]
  /\ age' = [age EXCEPT ![m] = 0]
  /\ releasing' = releasing \ {m}
  /\ UNCHANGED <<threads, disp, net, lists, conn, buffer, leaked>>

EndTask ==
  /\ disp.pc = "task"
  /\ disp' = [disp EXCEPT !.pc = "lock"]
  /\ UNCHANGED <<threads, net, lists, age, msgConn, conn, buffer, releasing, leaked>>

----------------------------------------------------------------------------
(* sendAll() *)

TooOld(m) == age[m] > DropAge

\* Mutant: behind the messages that were not sent yet.
PutBackLast(list) == autoSend \o Only(list, {m \in Msg : ~TooOld(m)})

\* The waiting messages that are put in front of the others: from the first to the
\* last, so that the last of them ends up first.
PutBack(list) ==
  LET kept == {m \in Msg : ~TooOld(m)}
      due == {m \in kept : Due(m)}
  IN  Reverse(Only(list, due)) \o autoSend \o Only(list, kept \ due)

Requeue ==
  LET old == {m \in ToSet(toAdd) : TooOld(m)}
      back == ToSet(toAdd) \ old
      auto == {m \in back : m \in ToSet(issued[msgConn[m]])}
  IN  /\ autoSend' = PutBack(toAdd)
      /\ toAdd' = <<>>
      /\ Drop(old) /\ Sealed(old)
      /\ issued' = [c \in Conn |-> Only(issued[c], Msg \ old)]
      /\ together' = (together \ old) \cup
           {m \in auto : \E n \in auto \ {m} : msgConn[n] = msgConn[m]}

BeginSendAll ==
  /\ disp.pc = "lock"
  /\ CanLock("dispatcher", "pool")
  /\ (\E m \in ToSet(toAdd) : TooOld(m)) => CanLock("dispatcher", "task")
  /\ owner' = [owner EXCEPT !["pool"] = "dispatcher"]
  /\ Requeue
  /\ disp' = [disp EXCEPT !.pc = "sendAll"]
  /\ UNCHANGED <<phase, isOpen, net, age, msgConn, conn>>

\* The loop goes on to the next message.
NextToSend == autoSend # <<>> /\ Due(Head(autoSend))

SendNext ==
  /\ disp.pc = "sendAll" /\ NextToSend
  /\ LET m == Head(autoSend)
         c == msgConn[m]
     IN  /\ \A l \in {c} \cup SendNeeds(c) : CanLock("dispatcher", l)
         /\ Send(c, m)
         /\ autoSend' = Tail(autoSend)
  /\ UNCHANGED <<threads, disp, net, age, msgConn>>

\* "if(frameTime <= omsg->getFrame()) break"
EndSendAll ==
  /\ disp.pc = "sendAll" /\ ~NextToSend
  /\ owner' = [owner EXCEPT !["pool"] = "none"]
  /\ disp' = [disp EXCEPT !.pc =
       CASE phase = "flushing" -> "task" [] phase = "ended" -> "end" [] OTHER -> "idle"]
  /\ UNCHANGED <<phase, isOpen, net, lists, age, msgConn, conn, buffer, releasing, leaked>>

----------------------------------------------------------------------------
(* Shutdown: stop(), then flush(), which runs tasks under m_taskLock *)

StopDispatcher ==
  /\ disp.pc = "task" /\ phase = "running"
  /\ phase' = "stopped"
  /\ UNCHANGED <<owner, isOpen, disp, net, lists, age, msgConn, conn, buffer, releasing, leaked>>

BeginFlush ==
  /\ disp.pc = "task" /\ phase = "stopped"
  /\ CanLock("dispatcher", "task")
  /\ phase' = "flushing"
  /\ owner' = [owner EXCEPT !["task"] = "dispatcher"]
  /\ UNCHANGED <<isOpen, disp, net, lists, age, msgConn, conn, buffer, releasing, leaked>>

\* The rest of Game::shutdown: ServiceManager::stop() closes the pool.
EndFlush ==
  /\ disp.pc = "task" /\ phase = "flushing"
  /\ phase' = "ended"
  /\ owner' = [owner EXCEPT !["task"] = "none"]
  /\ isOpen' = FALSE
  /\ disp' = [disp EXCEPT !.pc = "lock"]
  /\ UNCHANGED <<net, lists, age, msgConn, conn, buffer, releasing, leaked>>

----------------------------------------------------------------------------
(* The network thread: a handler holds the lock of its connection *)

Enter(c, pc) ==
  /\ net.pc = "idle"
  /\ CanLock("network", c)
  /\ owner' = [owner EXCEPT ![c] = "network"]
  /\ net' = [pc |-> pc, msg |-> NoMsg, conn |-> c]
  /\ UNCHANGED <<phase, isOpen, disp, lists, age, msgConn, conn, buffer, releasing, leaked>>

Return ==
  /\ owner' = [owner EXCEPT ![net.conn] = "none"]
  /\ net' = [pc |-> "idle", msg |-> NoMsg, conn |-> NoConn]

\* The handler of a packet posts a task, or answers the client at once and hangs up
\* (status, login, a refused client); an error or a timeout hangs up.
EnterPacket(c) ==
  /\ conn[c].open
  /\ Enter(c, "finish") \/ (Enter(c, "answer") /\ MayWrite)

EnterWritten(c) == conn[c].writing # NoMsg /\ Enter(c, "written")

\* getOutputMessage(), with a look at m_isOpen before the lock.
NetGetsMessage ==
  /\ net.pc = "answer"
  /\ \/ /\ isOpen /\ conn[net.conn].attached
        /\ CanLock("network", "pool")
        /\ \E m \in Msg : Configure(net.conn, m) /\ net' = [net EXCEPT !.pc = "state", !.msg = m]
     \/ /\ ~(isOpen /\ conn[net.conn].attached)
        /\ net' = [net EXCEPT !.pc = "finish"]
        /\ UNCHANGED <<age, msgConn>>
  /\ UNCHANGED <<threads, disp, lists, conn, buffer, releasing, leaked>>

\* OutputMessagePool::send() looks at the state of the message under its lock.
NetReadsState ==
  /\ net.pc = "state"
  /\ CanLock("network", "pool")
  /\ net' = [net EXCEPT !.pc = "send"]
  /\ UNCHANGED <<threads, disp, lists, age, msgConn, conn, buffer, releasing, leaked>>

NetSends ==
  /\ net.pc = "send"
  /\ \A l \in SendNeeds(net.conn) : CanLock("network", l)
  /\ Send(net.conn, net.msg)
  /\ net' = [net EXCEPT !.pc = "finish", !.msg = NoMsg]
  /\ UNCHANGED <<threads, disp, autoSend, age, msgConn>>

\* closeConnection(), or a task for the dispatcher; then it returns.
NetReturns ==
  /\ net.pc = "finish"
  /\ \/ /\ \A l \in CloseNeeds(net.conn) : CanLock("network", l)
        /\ RequestClose(net.conn)
     \/ CanLock("network", "task") /\ UNCHANGED conn
  /\ Return
  /\ UNCHANGED <<phase, isOpen, disp, lists, age, msgConn, buffer, releasing, leaked>>

\* onWriteOperation(): an error, or a connection that is being closed, closes it.
NetWritten(error) ==
  /\ net.pc = "written"
  /\ LET c == net.conn
         done == [conn EXCEPT ![c].writing = NoMsg]
     IN  /\ IF error /\ conn[c].open
            THEN /\ CanLock("network", "task")
                 /\ conn' = [done EXCEPT ![c].open = FALSE, ![c].closeTask = (phase = "running")]
            ELSE conn' = done
         /\ net' = [pc |-> "release", msg |-> conn[c].writing, conn |-> NoConn]
         /\ owner' = [owner EXCEPT ![c] = "none"]
  /\ UNCHANGED <<phase, isOpen, disp, lists, age, msgConn, buffer, releasing, leaked>>

\* The handler object, which held on to the message, goes.
NetReleases ==
  /\ net.pc = "release"
  /\ CanLock("network", "task")
  /\ Drop({net.msg})
  /\ net' = [pc |-> "idle", msg |-> NoMsg, conn |-> NoConn]
  /\ UNCHANGED <<threads, disp, lists, age, msgConn, conn, buffer>>

----------------------------------------------------------------------------
Dispatcher ==
  \/ \E e \in 0..1 : StartTask(e)
  \/ \E c \in Conn : CloseConnectionTask(c)
  \/ \E m \in Msg : ReleaseMessage(m)
  \/ DispSends \/ DispHangsUp
  \/ EndTask \/ BeginSendAll \/ SendNext \/ EndSendAll

Network ==
  NetGetsMessage \/ NetReadsState \/ NetSends \/ NetReturns \/ NetReleases
  \/ \E error \in BOOLEAN : NetWritten(error)

Next ==
  \/ Dispatcher
  \/ \E c \in Conn, m \in Msg : GameWrites(c, m) \/ DisconnectClient(c, m)
  \/ StopDispatcher \/ BeginFlush \/ EndFlush
  \/ Network
  \/ \E c \in Conn : EnterPacket(c) \/ EnterWritten(c)

Spec == Init /\ [][Next]_vars

\* Both threads run on, and get a lock that is free again and again; a task ends; tasks
\* keep coming, and time passes between them; a write ends or times out.
FairSpec ==
  /\ Spec
  /\ SF_vars(DispSends \/ DispHangsUp \/ BeginSendAll \/ SendNext \/ EndSendAll)
  /\ SF_vars(EndTask)
  /\ SF_vars(StartTask(1))
  /\ WF_vars(Network)
  /\ \A c \in Conn : SF_vars(EnterWritten(c))

----------------------------------------------------------------------------
Writing == {conn[c].writing : c \in Conn} \ {NoMsg}
InHand == {disp.msg, net.msg} \ {NoMsg}

\* The type invariant.
TypeOK ==
  /\ owner \in [Locks -> {"dispatcher", "network", "none"}]
  /\ phase \in {"running", "stopped", "flushing", "ended"}
  /\ isOpen \in BOOLEAN
  /\ disp \in [pc : {"idle", "task", "send", "hangUp", "lock", "sendAll", "end"},
               msg : Msg \cup {NoMsg}, conn : Conn \cup {NoConn}]
  /\ net \in [pc : {"idle", "answer", "state", "send", "finish", "written", "release"},
              msg : Msg \cup {NoMsg}, conn : Conn \cup {NoConn}]
  /\ autoSend \in Seq(Msg) /\ toAdd \in Seq(Msg)
  /\ age \in [Msg -> 0..(DropAge + 1)]
  /\ msgConn \in [Msg -> Conn \cup {NoConn}]
  /\ conn \in [Conn -> [open : BOOLEAN, attached : BOOLEAN, closeTask : BOOLEAN,
                        writing : Msg \cup {NoMsg}]]
  /\ buffer \in [Conn -> Msg \cup {NoMsg}]
  /\ releasing \subseteq Msg /\ leaked \subseteq Msg
  /\ issued \in [Conn -> Seq(Msg)]
  /\ together \subseteq Msg

\* A message in use is in exactly one place: on one of the two lists, once, being
\* written, in the hands of a thread, on its way back, or leaked.
OnePlace ==
  /\ IsInjective(autoSend \o toAdd)
  /\ \A m \in Msg :
       LET places == <<m \in OnLists, m \in Writing, m \in InHand, m \in releasing, m \in leaked>>
       IN  Cardinality({i \in 1..5 : places[i]}) = IF m \in Free THEN 0 ELSE 1

\* The game writes into a message only as long as it has not been handed to the socket
\* and is going to be: nothing is appended to a packet that was encrypted, nor to one
\* of another client.
BufferIsUnsent ==
  \A c \in Conn : buffer[c] # NoMsg =>
    buffer[c] \in OnLists /\ msgConn[buffer[c]] = c

\* Where every message is, and what the game may still write to.
Inv == TypeOK /\ OnePlace /\ BufferIsUnsent

\* The locks a thread needs for its next step.
DispNeeds ==
  CASE disp.pc = "send" -> {disp.conn} \cup SendNeeds(disp.conn)
    [] disp.pc = "hangUp" -> {disp.conn} \cup CloseNeeds(disp.conn)
    [] disp.pc = "lock" ->
         {"pool"} \cup IF \E m \in ToSet(toAdd) : TooOld(m) THEN {"task"} ELSE {}
    [] disp.pc = "sendAll" /\ NextToSend ->
         {msgConn[Head(autoSend)]} \cup SendNeeds(msgConn[Head(autoSend)])
    [] OTHER -> {}

NetNeeds ==
  CASE net.pc = "finish" -> CloseNeeds(net.conn)
    [] net.pc = "release" -> {"task"}
    [] net.pc = "answer" /\ isOpen /\ conn[net.conn].attached -> {"pool"}
    [] net.pc = "state" -> {"pool"}
    [] net.pc = "send" -> SendNeeds(net.conn)
    [] OTHER -> {}

\* Each thread waits for the other, or the dispatcher's for itself: for ever.
Deadlocked ==
  \/ /\ \E l \in DispNeeds : owner[l] = "network"
     /\ \E l \in NetNeeds : owner[l] = "dispatcher"
  \/ \E l \in DispNeeds : l = "task" /\ owner[l] = "dispatcher"

\* The threads lock each other out in two ways only, whatever else they do: sendAll()
\* wants to send to the very connection whose handler wants a message of the pool,
\* which it must take in the other order; or flush() holds m_taskLock.
OnlyKnownDeadlocks ==
  Deadlocked =>
    \/ disp.pc = "sendAll" /\ net.pc \in {"answer", "state", "send"}
         /\ net.conn = msgConn[Head(autoSend)]
    \/ phase = "flushing"

\* A client gets what the game wrote in the order it was written, save for two ways in
\* which a message is overtaken while the write before it ends: by one that had to wait
\* at the same time, as sendAll() puts these back one in front of the other; and by the
\* next one in the same sendAll(), as one that has to wait is put aside.
OrderKept ==
  [][\A c \in Conn :
       LET m == conn'[c].writing
       IN  m # conn[c].writing =>
             \A n \in Msg :
               Precedes(issued[c], n, m) =>
                 {m, n} \subseteq together \/ n \in ToSet(toAdd)]_vars

\* Whatever is to be sent is sent, dropped after ten seconds, or given up with its
\* connection, unless the server shuts down or its threads have locked each other out.
EverythingLeaves ==
  Watched \in OnLists ~> (Watched \notin OnLists \/ Deadlocked \/ phase # "running")
=============================================================================
