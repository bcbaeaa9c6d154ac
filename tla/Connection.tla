------------------------------ MODULE Connection ------------------------------
(****************************************************************************)
(* One client connection (connection.cpp) with its protocol object          *)
(* (protocol.cpp) and the output messages that refer to both                *)
(* (outputmessage.cpp), from the accept to the deletion.  The network       *)
(* thread runs the handlers of boost::asio, the dispatcher's thread runs    *)
(* tasks.  A handler holds m_connectionLock throughout, so it is one step;  *)
(* the reference counts are changed without a lock of their own, so         *)
(* internalReleaseMessage(), on the dispatcher's thread, is two steps.      *)
(*                                                                          *)
(* `conn' is the state the handlers change; the operators from              *)
(* CloseConnection to GetMessage map it to the one a method leaves behind,  *)
(* so that an action can apply them one after the other as the code does.   *)
(****************************************************************************)
EXTENDS Integers, Sequences, FiniteSets

CONSTANTS
  Msg,           \* the OutputMessage objects
  NoMsg,
  MaxTasks,      \* bound: no more protocol tasks while so many tasks wait
  Races          \* bound: whether the counts may be changed by both threads (once)

\* The elements of conn.tasks, the part of the dispatcher's queue that concerns this
\* connection: closeConnectionTask, a task bound to the protocol object, or the
\* message to release.
CloseTask == "closeConnectionTask"
ProtocolTask == "protocolTask"

ASSUME ConnectionAssumption ==
  /\ IsFiniteSet(Msg)
  /\ Msg \cap {NoMsg, CloseTask, ProtocolTask} = {}
  /\ MaxTasks \in Nat
  /\ Races \in BOOLEAN

VARIABLES
  conn,       \* the connection, its protocol, its messages
  accepting,  \* the dispatcher accepts tasks: its state is STATE_RUNNING
  releasing,  \* the message internalReleaseMessage() is working on
  overlap,    \* meanwhile the network thread changed the counts
  raced       \* it ever did

vars == <<conn, accepting, releasing, overlap, raced>>

NewConnection ==
  [state |-> "OPEN", socket |-> "open",
   pendingRead |-> 0, pendingWrite |-> 0, readError |-> FALSE, writeError |-> FALSE,
   readOp |-> "none",      \* the async_read under way: "header" or "packet"
   writeOp |-> NoMsg,      \* the message of the async_write under way
   readTimer |-> FALSE, writeTimer |-> FALSE,  \* armed
   readFired |-> FALSE, writeFired |-> FALSE,  \* expired, handler not run yet
   m_protocol |-> FALSE,   \* the pointer is not NULL
   protocol |-> "none",    \* the object: "live", "released", "deleted"
   protocolRef |-> 0, refCount |-> 0,
   release |-> "none",     \* releaseConnection(): "retry", "posted", "done"
   msg |-> [m \in Msg |-> "free"],  \* see MsgStates
   tasks |-> <<>>]

Init ==
  /\ conn = NewConnection
  /\ accepting = TRUE
  /\ releasing = NoMsg
  /\ overlap = FALSE
  /\ raced = FALSE

----------------------------------------------------------------------------
(* The methods, as functions of the connection's state *)

\* g_dispatcher.addTask()
AddTask(c, t) == IF accepting THEN [c EXCEPT !.tasks = Append(@, t)] ELSE c

\* Mutant: the task goes to the front of the dispatcher's queue.
CloseConnectionFirst(c) ==
  IF c.state \in {"CLOSED", "REQUEST_CLOSE"} THEN c
  ELSE [c EXCEPT !.state = "REQUEST_CLOSE", !.tasks = <<CloseTask>> \o @]

\* Mutant: a connection that waits for its last write is not asked again.
CloseConnectionOnce(c) ==
  IF c.state # "OPEN" THEN c
  ELSE AddTask([c EXCEPT !.state = "REQUEST_CLOSE"], CloseTask)

CloseConnection(c) ==
  IF c.state \in {"CLOSED", "REQUEST_CLOSE"} THEN c
  ELSE AddTask([c EXCEPT !.state = "REQUEST_CLOSE"], CloseTask)

CloseSocket(c) ==
  IF c.socket = "open"
  THEN [c EXCEPT !.socket = "closed", !.pendingRead = 0, !.pendingWrite = 0]
  ELSE c

\* The last reference to m goes: releaseMessage() posts internalReleaseMessage.
DropMessage(c, m) ==
  IF accepting THEN AddTask([c EXCEPT !.msg[m] = "releasing"], m)
  ELSE [c EXCEPT !.msg[m] = "leaked"]

\* Connection::send() and, when it fails, what its callers do.  A message that
\* has to wait for the write under way goes back to the pool, to m_toAddQueue.
Send(c, m) ==
  IF c.state # "OPEN" \/ c.writeError THEN DropMessage(c, m)
  ELSE IF c.pendingWrite = 0
       THEN [c EXCEPT !.pendingWrite = @ + 1, !.writeTimer = TRUE, !.writeOp = m,
                      !.msg[m] = "writing"]
       ELSE [c EXCEPT !.msg[m] = "waiting"]

\* getOutputMessage(): the message refers to the protocol and to the connection.
GetMessage(c, m) ==
  [c EXCEPT !.protocolRef = @ + 1, !.refCount = @ + 1, !.msg[m] = "held"]

\* A count that is not 0 makes them try again SCHEDULER_MINTICKS later.
ReleaseProtocol(c) ==
  [c EXCEPT !.protocol = IF c.protocolRef # 0 THEN "released" ELSE "deleted"]

ReleaseConnection(c) ==
  [c EXCEPT !.release = IF c.refCount # 0 THEN "retry" ELSE "posted"]

\* An operation aborted because the socket was closed is no reason to close.
HandleReadError(c, error) ==
  [(IF error = "aborted" THEN c ELSE CloseConnection(c)) EXCEPT !.readError = TRUE]

HandleWriteError(c, error) ==
  [(IF error = "aborted" THEN c ELSE CloseConnection(c)) EXCEPT !.writeError = TRUE]

\* The next async_read, with its timeout.
StartRead(c, what) ==
  [c EXCEPT !.readOp = what, !.readTimer = TRUE, !.pendingRead = @ + 1]

\* What an asynchronous operation may report.  Once the socket is closed it is
\* aborted, unless it had ended before and its handler was only waiting to run.
Reports == {"ok", "lost"} \cup (IF conn.socket = "open" THEN {} ELSE {"aborted"})

----------------------------------------------------------------------------
(* The network thread *)

Unchanged == UNCHANGED <<accepting, releasing, overlap, raced>>

\* acceptConnection().  A port of one protocol makes it here, and that protocol
\* (game) sends a message first; otherwise the first packet decides.
AcceptConnection ==
  /\ conn.state = "OPEN" /\ conn.readOp = "none" /\ conn.pendingRead = 0
  /\ \/ conn' = StartRead(conn, "header")
     \/ LET made == [conn EXCEPT !.m_protocol = TRUE, !.protocol = "live"]
        IN  \E m \in Msg : conn' = StartRead(Send(GetMessage(made, m), m), "header")
  /\ Unchanged

ParseHeader(error) ==
  /\ conn.readOp = "header"
  /\ LET cancelled == [conn EXCEPT !.readOp = "none", !.readTimer = FALSE]
         c == IF error = "ok" THEN cancelled ELSE HandleReadError(cancelled, error)
     IN  conn' = IF c.state # "OPEN" \/ c.readError
                 THEN CloseConnection(c)
                 ELSE StartRead([c EXCEPT !.pendingRead = @ - 1], "packet")
  /\ Unchanged

\* The packet of an open connection: the first one may find no protocol for
\* itself.  The protocol then answers at once, posts a task, hangs up, or not.
Receive(c, answer, task, close) ==
  LET made == [c EXCEPT !.m_protocol = TRUE, !.protocol = "live"]
      answered == IF answer = NoMsg THEN made ELSE Send(GetMessage(made, answer), answer)
      posted == IF task THEN AddTask(answered, ProtocolTask) ELSE answered
  IN  IF close THEN CloseConnection(posted) ELSE posted

\* The messages the network thread may take from the pool now, or none.
Answers(c) ==
  {m \in Msg : c.msg[m] = "free" /\ (releasing # NoMsg => Races /\ ~raced)} \cup {NoMsg}

ParsePacket(error) ==
  /\ conn.readOp = "packet"
  /\ LET cancelled == [conn EXCEPT !.readOp = "none", !.readTimer = FALSE]
         c == IF error = "ok" THEN cancelled ELSE HandleReadError(cancelled, error)
         opened == [c EXCEPT !.pendingRead = @ - 1]
     IN  IF c.state # "OPEN" \/ c.readError
         THEN conn' = CloseConnection(c) /\ Unchanged
         ELSE \/ /\ ~c.m_protocol
                 /\ conn' = CloseConnection(opened)
                 /\ Unchanged
              \/ \E answer \in Answers(c),
                    task \in {t \in BOOLEAN : t => Len(c.tasks) < MaxTasks},
                    close \in BOOLEAN :
                   /\ conn' = StartRead(Receive(opened, answer, task, close), "header")
                   /\ overlap' = (overlap \/ (answer # NoMsg /\ releasing # NoMsg))
                   /\ raced' = (raced \/ overlap')
                   /\ UNCHANGED <<accepting, releasing>>

OnWriteOperation(error) ==
  /\ conn.writeOp # NoMsg
  /\ LET cancelled == [conn EXCEPT !.writeOp = NoMsg, !.writeTimer = FALSE]
         dropped == DropMessage(cancelled, conn.writeOp)
         c == IF error = "ok" THEN dropped ELSE HandleWriteError(dropped, error)
     IN  conn' = IF c.state # "OPEN" \/ c.writeError
                 THEN CloseConnection(CloseSocket(c))
                 ELSE [c EXCEPT !.pendingWrite = @ - 1]
  /\ Unchanged

\* A timer expires; the handler is queued and a later cancel() comes too late.
TimerExpires ==
  /\ \/ conn.readTimer /\ conn' = [conn EXCEPT !.readTimer = FALSE, !.readFired = TRUE]
     \/ conn.writeTimer /\ conn' = [conn EXCEPT !.writeTimer = FALSE, !.writeFired = TRUE]
  /\ Unchanged

\* The Connection object exists: the manager, an operation under way or a message
\* holds a shared_ptr to it.
Alive(c) ==
  \/ c.release # "done"
  \/ c.readOp # "none" \/ c.writeOp # NoMsg
  \/ \E m \in Msg : c.msg[m] # "free"

OnReadTimeout ==
  /\ conn.readFired
  /\ LET c == [conn EXCEPT !.readFired = FALSE]
     IN  conn' = IF Alive(c) /\ (c.pendingRead > 0 \/ c.readError)
                 THEN CloseConnection(CloseSocket(c)) ELSE c
  /\ Unchanged

OnWriteTimeout ==
  /\ conn.writeFired
  /\ LET c == [conn EXCEPT !.writeFired = FALSE]
     IN  conn' = IF Alive(c) /\ (c.pendingWrite > 0 \/ c.writeError)
                 THEN CloseConnection(CloseSocket(c)) ELSE c
  /\ Unchanged

\* onStopOperation(): the handlers of the operations closeSocket() aborted were
\* queued before it.
OnStopOperation ==
  /\ conn.release = "posted"
  /\ conn.readOp = "none" /\ conn.writeOp = NoMsg
  /\ conn' = [conn EXCEPT !.release = "done", !.socket = "deleted",
                          !.readTimer = FALSE, !.writeTimer = FALSE]
  /\ Unchanged

----------------------------------------------------------------------------
(* The dispatcher's thread; between two tasks unless it is releasing a message *)

\* Mutant: the socket is closed under the write that is under way.
CloseTaskWithoutWaiting ==
  /\ releasing = NoMsg
  /\ conn.tasks # <<>> /\ Head(conn.tasks) = CloseTask
  /\ LET c == [conn EXCEPT !.tasks = Tail(@)]
         freed == IF c.m_protocol
                  THEN ReleaseProtocol([c EXCEPT !.m_protocol = FALSE]) ELSE c
     IN  conn' = [ReleaseConnection(CloseSocket(freed)) EXCEPT !.state = "CLOSED"]
  /\ Unchanged

\* closeConnectionTask(); only a connection in REQUEST_CLOSE gets past its first
\* lines.
CloseConnectionTask ==
  /\ releasing = NoMsg
  /\ conn.tasks # <<>> /\ Head(conn.tasks) = CloseTask
  /\ LET c == [conn EXCEPT !.tasks = Tail(@)]
         freed == IF c.m_protocol
                  THEN ReleaseProtocol([c EXCEPT !.m_protocol = FALSE]) ELSE c
     IN  conn' = IF c.state # "REQUEST_CLOSE" THEN c
                 ELSE IF c.pendingWrite = 0 \/ c.writeError
                 THEN [ReleaseConnection(CloseSocket(freed)) EXCEPT !.state = "CLOSED"]
                 ELSE [freed EXCEPT !.state = "CLOSING"]
  /\ Unchanged

\* A task bound to the protocol object, such as ProtocolGame::login.
RunProtocolTask ==
  /\ releasing = NoMsg
  /\ conn.tasks # <<>> /\ Head(conn.tasks) = ProtocolTask
  /\ conn' = [conn EXCEPT !.tasks = Tail(@)]
  /\ Unchanged

\* The game writes to the client, or disconnects it; the protocol reaches its
\* connection until closeConnectionTask() has run.
GameWrites(m) ==
  /\ releasing = NoMsg
  /\ conn.protocol = "live"
  /\ conn.msg[m] = "free"
  /\ conn' = GetMessage(conn, m)
  /\ Unchanged

GameDisconnects ==
  /\ releasing = NoMsg
  /\ conn.protocol = "live"
  /\ conn.state \notin {"CLOSED", "REQUEST_CLOSE"}
  /\ conn' = CloseConnection(conn)
  /\ Unchanged

\* sendAll(); a message that waited for more than ten seconds is dropped.
SendHeld(m) ==
  /\ releasing = NoMsg
  /\ \/ conn.msg[m] \in {"held", "waiting"} /\ conn' = Send(conn, m)
     \/ conn.msg[m] = "waiting" /\ conn' = DropMessage(conn, m)
  /\ conn' # conn
  /\ Unchanged

ReleaseRetries ==
  /\ releasing = NoMsg
  /\ \/ conn.release = "retry" /\ conn' = ReleaseConnection(conn)
     \/ conn.protocol = "released" /\ conn' = ReleaseProtocol(conn)
  /\ conn' # conn
  /\ Unchanged

\* internalReleaseMessage(): unRef() reads a count and writes it back, and the
\* network thread may change it in between.
BeginRelease ==
  /\ releasing = NoMsg
  /\ conn.tasks # <<>> /\ Head(conn.tasks) \in Msg
  /\ releasing' = Head(conn.tasks)
  /\ conn' = [conn EXCEPT !.tasks = Tail(@)]
  /\ UNCHANGED <<accepting, overlap, raced>>

\* Both changes count, or only one of them does.
AfterUnRef(count) == IF overlap THEN {count - 2, count - 1, count} ELSE {count - 1}

EndRelease ==
  /\ releasing # NoMsg
  /\ \E p \in AfterUnRef(conn.protocolRef), r \in AfterUnRef(conn.refCount) :
       conn' = [conn EXCEPT !.protocolRef = p, !.refCount = r,
                            !.msg[releasing] = "free"]
  /\ releasing' = NoMsg
  /\ overlap' = FALSE
  /\ UNCHANGED <<accepting, raced>>

\* setGameState(GAME_STATE_SHUTDOWN) stops the dispatcher.
DispatcherStops ==
  /\ accepting
  /\ releasing = NoMsg
  /\ accepting' = FALSE
  /\ UNCHANGED <<conn, releasing, overlap, raced>>

----------------------------------------------------------------------------
Network ==
  \/ \E error \in Reports :
       ParseHeader(error) \/ ParsePacket(error) \/ OnWriteOperation(error)
  \/ OnReadTimeout \/ OnWriteTimeout \/ OnStopOperation

DispatcherTasks ==
  \/ CloseConnectionTask \/ RunProtocolTask \/ BeginRelease \/ EndRelease
  \/ ReleaseRetries
  \/ \E m \in Msg : SendHeld(m)

Next ==
  \/ AcceptConnection
  \/ Network
  \/ TimerExpires
  \/ DispatcherTasks
  \/ \E m \in Msg : GameWrites(m)
  \/ GameDisconnects
  \/ DispatcherStops

Spec == Init /\ [][Next]_vars

\* A closed socket ends its operations, a timer that is armed expires, tasks and
\* scheduled retries run, and sendAll() runs after every task.
FairSpec ==
  /\ Spec
  /\ WF_vars(conn.socket # "open" /\ Network)
  /\ WF_vars(OnReadTimeout) /\ WF_vars(OnWriteTimeout)
  /\ WF_vars(TimerExpires)
  /\ WF_vars(CloseConnectionTask \/ RunProtocolTask \/ BeginRelease)
  /\ WF_vars(EndRelease)
  /\ SF_vars(ReleaseRetries)
  /\ \A m \in Msg : SF_vars(SendHeld(m))

----------------------------------------------------------------------------
\* A message is in the pool's list of free ones; to be sent, or sent again; with the
\* socket; queued for internalReleaseMessage(); or nobody will release it.
MsgStates == {"free", "held", "waiting", "writing", "releasing", "leaked"}

Connections ==
  [state : {"OPEN", "REQUEST_CLOSE", "CLOSING", "CLOSED"},
   socket : {"open", "closed", "deleted"},
   pendingRead : {0, 1}, pendingWrite : {0, 1},
   readError : BOOLEAN, writeError : BOOLEAN,
   readOp : {"none", "header", "packet"}, writeOp : Msg \cup {NoMsg},
   readTimer : BOOLEAN, writeTimer : BOOLEAN,
   readFired : BOOLEAN, writeFired : BOOLEAN,
   m_protocol : BOOLEAN,
   protocol : {"none", "live", "released", "deleted"},
   protocolRef : Int, refCount : Int,
   release : {"none", "retry", "posted", "done"},
   msg : [Msg -> MsgStates],
   tasks : Seq(Msg \cup {CloseTask, ProtocolTask})]

\* The type invariant; at most one read and one write are pending.
TypeOK ==
  /\ conn \in Connections
  /\ accepting \in BOOLEAN
  /\ releasing \in Msg \cup {NoMsg}
  /\ overlap \in BOOLEAN /\ raced \in BOOLEAN

CloseTasks == {i \in 1..Len(conn.tasks) : conn.tasks[i] = CloseTask}

\* closeConnection() may be called by any thread, any number of times:
\* closeConnectionTask is queued exactly once while the connection is in
\* REQUEST_CLOSE, so that it never finds it in another state.
OneCloseTask ==
  /\ Cardinality(CloseTasks) <= 1
  /\ CloseTasks # {} => conn.state = "REQUEST_CLOSE"
  /\ accepting /\ conn.state = "REQUEST_CLOSE" => CloseTasks # {}

\* The connection is given up exactly once, when it is closed, and with its socket
\* closed: m_socket is not deleted twice.
ReleasedWhenClosed ==
  /\ conn.release # "none" <=> conn.state = "CLOSED"
  /\ conn.state = "CLOSED" => conn.socket # "open"

\* The counts are the number of messages that refer to the objects, again unless
\* the two threads changed them at the same time.
CountsAreReferences ==
  ~raced => /\ conn.refCount = Cardinality({m \in Msg : conn.msg[m] # "free"})
            /\ conn.protocolRef = conn.refCount

\* As long as an output message refers to them, neither the protocol nor the
\* connection's socket is deleted, unless the unsynchronised counts were damaged.
MessageKeepsOwners ==
  (~raced /\ \E m \in Msg : conn.msg[m] \in {"held", "waiting", "writing", "releasing"}) =>
    /\ conn.protocol \in {"live", "released"}
    /\ conn.release \notin {"posted", "done"}

\* No task bound to the protocol object runs after the object was deleted: what
\* keeps it alive is only that closeConnectionTask comes last in the queue.
TaskFindsProtocol ==
  (\E i \in 1..Len(conn.tasks) : conn.tasks[i] = ProtocolTask) =>
    conn.protocol = "live"

\* How the state of the connection, its queue entry, its counts and the objects that
\* others point to hang together.
Inv ==
  /\ TypeOK
  /\ OneCloseTask
  /\ ReleasedWhenClosed
  /\ CountsAreReferences
  /\ MessageKeepsOwners
  /\ TaskFindsProtocol

\* A message that is being written when the connection is asked to close, such as
\* the reason of disconnectClient(), is written to its end: nothing but a timeout
\* closes the socket under it.
LastMessageNotCutOff ==
  [][conn.socket = "open" /\ conn'.socket # "open" /\ conn'.writeOp # NoMsg
       => conn.readFired \/ conn.writeFired]_vars

\* "will be closed by onWriteOperation/handleWriteTimeout/handleReadTimeout
\* instead": whatever happens, a connection that was asked to close is closed and
\* both objects are deleted, unless the server stops or the counts were damaged.
CloseCompletes ==
  conn.state = "REQUEST_CLOSE" ~>
    \/ conn.release = "done" /\ conn.protocol \in {"none", "deleted"}
    \/ ~accepting \/ raced
=============================================================================
