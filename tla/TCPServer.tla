----------------------------- MODULE TCPServer -----------------------------
(***************************************************************************)
(* raner::TCPServer (src/raner/tcp_server.cc) with its EventLoopThreadPool *)
(* (src/raner/event_loop_thread_pool.cc): Start, the listening socket and  *)
(* its accept handler with the idle-fd answer to EMFILE, the dispatch of   *)
(* each accepted connection to a pool loop by GetNextLoop, the             *)
(* name -> connection map, and the removal path from a connection's close *)
(* on its io loop back to the base loop and on to ConnectDestroyed.        *)
(*                                                                         *)
(* Each connection is reduced to where it is on that path; its own state   *)
(* machine is TCPConnection.tla.  The base loop runs one handler or        *)
(* functor at a time; so does each io loop.  A connection's steps on its   *)
(* io loop and the base loop's steps for it are separate actions, so the   *)
(* model interleaves them with everything else.                            *)
(*                                                                         *)
(* Descriptors are counted: the listening socket, idle_fd_ (/dev/null,    *)
(* open from the constructor on: the EMFILE branch closes and reopens it   *)
(* within one handler) and each connection's socket, which ~Socket closes  *)
(* when the last TCPConnectionPtr goes, after ConnectDestroyed.  accept()  *)
(* fails with EMFILE when MaxFds are open.                                 *)
(***************************************************************************)
EXTENDS Naturals, Sequences, FiniteSets

CONSTANTS
  MaxThreads,  \* the largest SetThreadNum argument the program passes
  MaxConns,    \* bound on the clients that connect
  MaxFds       \* descriptors the process may still open (RLIMIT_NOFILE)

ASSUME MaxThreads \in Nat /\ MaxConns \in Nat /\ MaxFds \in Nat \ {0, 1}

\* The base loop; the pool's loops are 1..num_threads_.
Base == 0

\* Where an accepted connection is: ConnectEstablished queued on its io
\* loop, up, closed and removeConnectionInLoop queued on the base loop,
\* erased and ConnectDestroyed queued on its io loop, or gone (its socket
\* closed by ~Socket).
Stages == {"queued", "up", "removing", "destroying", "destroyed"}

VARIABLES
  numThreads,   \* EventLoopThreadPool::num_threads_
  started,      \* TCPServer::started_ (calls of Start so far)
  loops,        \* EventLoopThreadPool::loops_
  next,         \* EventLoopThreadPool::next_
  initDone,     \* loops whose ThreadInitCallback has run
  listening,    \* TCPServer::listenning_
  lfdOpen,      \* the listening socket_ holds an open fd
  backlog,      \* connections the kernel completed and accept() can take
  arrived,      \* clients that tried to connect
  nextConnId,   \* TCPServer::next_conn_id_
  connMap,      \* the names (ids) in TCPServer::connections_
  conns,        \* accepted connections: [name, loop, stage], in order
  assertFailed  \* removeConnectionInLoop's assert(n == 1) failed

vars == <<numThreads, started, loops, next, initDone, listening, lfdOpen,
          backlog, arrived, nextConnId, connMap, conns, assertFailed>>
poolVars == <<numThreads, loops, next, initDone>>
listenVars == <<listening, lfdOpen, backlog>>

\* The descriptors open now.
OpenFds ==
  (IF lfdOpen THEN 1 ELSE 0) + 1
    + Cardinality({k \in DOMAIN conns : conns[k].stage # "destroyed"})

\* TCPServer::TCPServer: idle_fd_ = open("/dev/null") (asserted >= 0),
\* started_ 0, next_conn_id_ 1, and an unstarted pool with no threads.
Init ==
  /\ numThreads = 0 /\ started = 0 /\ loops = <<>> /\ next = 0
  /\ initDone = {}
  /\ listening = FALSE /\ lfdOpen = FALSE
  /\ backlog = 0 /\ arrived = 0
  /\ nextConnId = 1 /\ connMap = {} /\ conns = <<>> /\ assertFailed = FALSE

-----------------------------------------------------------------------------
(* EventLoopThreadPool.                                                    *)

\* EventLoopThreadPool::Start(cb): one EventLoopThread per thread; StartLoop
\* returns once run() has called cb on the new loop and published it.
\* With no threads, cb runs on the base loop.
PoolStart(n) ==
  /\ loops' = [i \in 1..n |-> i]
  /\ initDone' = IF n = 0 THEN {Base} ELSE 1..n

\* Mutation: GetNextLoop wraps next_ only past the size (> for >=).
GetNextLoop_offByOne(ls, nx) ==
  IF ls = <<>> THEN [loop |-> Base, next |-> nx]
  ELSE [loop |-> ls[nx + 1],
        next |-> IF nx + 1 > Len(ls) THEN 0 ELSE nx + 1]

\* Mutation: GetNextLoop forgets ++next_.
GetNextLoop_stuck(ls, nx) ==
  IF ls = <<>> THEN [loop |-> Base, next |-> nx]
  ELSE [loop |-> ls[nx + 1], next |-> nx]

\* EventLoopThreadPool::GetNextLoop: round robin over loops_, next_ back to
\* 0 when it reaches the size; the base loop when there is no thread.
GetNextLoop(ls, nx) ==
  IF ls = <<>> THEN [loop |-> Base, next |-> nx]
  ELSE [loop |-> ls[nx + 1],
        next |-> IF nx + 1 >= Len(ls) THEN 0 ELSE nx + 1]

-----------------------------------------------------------------------------
(* The base loop thread (the program's main thread before Loop()).         *)

\* TCPServer::SetThreadNum -> EventLoopThreadPool::SetThreadNum, called
\* before Start (the examples do; later it changes nothing the server uses).
SetThreadNum(n) ==
  /\ started = 0
  /\ numThreads' = n
  /\ UNCHANGED <<started, loops, next, initDone, listenVars, arrived,
                 nextConnId, connMap, conns, assertFailed>>

\* TCPServer::createSocketAndListen (RunInLoop, inline on the base loop
\* thread): a new Socket, BindAndListen (a failure is LOG(FATAL)), then
\* listenning_ and RegisterFD for EPOLLIN.
createSocketAndListen ==
  /\ listening' = TRUE /\ lfdOpen' = TRUE

\* TCPServer::Start: the first call (started_.fetch_add(1) == 0) starts the
\* pool and then createSocketAndListen.  Later calls do nothing.
Start ==
  /\ started < 2
  /\ started' = started + 1
  /\ IF started = 0
     THEN /\ PoolStart(numThreads)
          /\ createSocketAndListen
          /\ UNCHANGED <<numThreads, next, backlog>>
     ELSE UNCHANGED <<poolVars, listenVars>>
  /\ UNCHANGED <<arrived, nextConnId, connMap, conns, assertFailed>>

\* A client connects: the kernel queues it on an open listening socket,
\* and refuses it otherwise.
ClientConnect ==
  /\ arrived < MaxConns
  /\ arrived' = arrived + 1
  /\ backlog' = IF lfdOpen THEN backlog + 1 ELSE backlog
  /\ UNCHANGED <<numThreads, started, loops, next, initDone, listening,
                 lfdOpen, nextConnId, connMap, conns, assertFailed>>

\* Mutation: the name is built from next_conn_id_ without ++next_conn_id_.
newConnection_noIncrement ==
  LET nl == GetNextLoop(loops, next) IN
  /\ next' = nl.next
  /\ nextConnId' = nextConnId
  /\ connMap' = connMap \cup {nextConnId}
  /\ conns' = Append(conns, [name |-> nextConnId, loop |-> nl.loop,
                             stage |-> IF nl.loop = Base THEN "up"
                                       ELSE "queued"])

\* TCPServer::newConnection: io_loop = GetNextLoop(), the name from
\* next_conn_id_ (then incremented), connections_[name] = conn, and
\* RunInLoop(ConnectEstablished) on io_loop, inline when that is the base
\* loop.
newConnection ==
  LET nl == GetNextLoop(loops, next) IN
  /\ next' = nl.next
  /\ nextConnId' = nextConnId + 1
  /\ connMap' = connMap \cup {nextConnId}
  /\ conns' = Append(conns, [name |-> nextConnId, loop |-> nl.loop,
                             stage |-> IF nl.loop = Base THEN "up"
                                       ELSE "queued"])

\* Socket::Accept on the listening socket: accept() takes a queued client
\* and returns true (SetNonBlocking on the new fd is not expected to
\* fail), or fails with EMFILE when MaxFds are open; then setSocketError()
\* Close()s the listening socket itself, and the kernel resets the queued
\* clients and drops the fd from epoll.
Accept ==
  \/ /\ OpenFds < MaxFds
     /\ backlog' = backlog - 1
     /\ UNCHANGED lfdOpen
  \/ /\ OpenFds = MaxFds
     /\ lfdOpen' = FALSE /\ backlog' = 0

\* TCPServer::OnEvent with EPOLLIN on the listening socket (level
\* triggered: while the backlog is not empty) calls handleRead: Accept, and
\* newConnection on success.  On EMFILE it closes idle_fd_, accepts on
\* socket_->fd() -- now -1, so EBADF -- closes that and reopens /dev/null,
\* which leaves the descriptors as they were.
handleRead ==
  /\ lfdOpen /\ backlog > 0
  /\ Accept
  /\ IF lfdOpen' THEN newConnection
                  ELSE UNCHANGED <<next, nextConnId, connMap, conns>>
  /\ UNCHANGED <<listening, numThreads, started, loops, initDone, arrived,
                 assertFailed>>

\* TCPServer::removeConnectionInLoop: erase the name, assert(n == 1), and
\* QueueInLoop(ConnectDestroyed) on the connection's io loop.
removeConnectionInLoop(k) ==
  /\ connMap' = connMap \ {conns[k].name}
  /\ assertFailed' = (assertFailed \/ conns[k].name \notin connMap)
  /\ conns' = [conns EXCEPT ![k].stage = "destroying"]

\* doPendingFunctors on the base loop runs a queued removeConnectionInLoop.
RemoveInLoop(k) ==
  /\ conns[k].stage = "removing"
  /\ removeConnectionInLoop(k)
  /\ UNCHANGED <<numThreads, started, loops, next, initDone, listenVars,
                 arrived, nextConnId>>

-----------------------------------------------------------------------------
(* The io loops.                                                           *)

\* TCPConnection::ConnectEstablished, queued by newConnection.
ConnectEstablished(k) ==
  /\ conns[k].stage = "queued"
  /\ conns' = [conns EXCEPT ![k].stage = "up"]
  /\ UNCHANGED <<numThreads, started, loops, next, initDone, listenVars,
                 arrived, nextConnId, connMap, assertFailed>>

\* The connection closes (the peer's FIN or reset read by handleRead, or a
\* ForceClose): handleClose calls the close callback TCPServer::
\* removeConnection, which does RunInLoop(removeConnectionInLoop) on the
\* base loop -- inline when the io loop is the base loop.
removeConnection(k) ==
  /\ conns[k].stage = "up"
  /\ IF conns[k].loop = Base
     THEN removeConnectionInLoop(k)
     ELSE /\ conns' = [conns EXCEPT ![k].stage = "removing"]
          /\ UNCHANGED <<connMap, assertFailed>>
  /\ UNCHANGED <<numThreads, started, loops, next, initDone, listenVars,
                 arrived, nextConnId>>

\* TCPConnection::ConnectDestroyed runs (the state is already
\* kDisconnected, so it does nothing); the functor, holding the last
\* TCPConnectionPtr, is destroyed and ~Socket closes the descriptor.
ConnectDestroyed(k) ==
  /\ conns[k].stage = "destroying"
  /\ conns' = [conns EXCEPT ![k].stage = "destroyed"]
  /\ UNCHANGED <<numThreads, started, loops, next, initDone, listenVars,
                 arrived, nextConnId, connMap, assertFailed>>

-----------------------------------------------------------------------------
Next ==
  \/ \E n \in 0..MaxThreads : SetThreadNum(n)
  \/ Start \/ ClientConnect \/ handleRead
  \/ \E k \in DOMAIN conns :
       RemoveInLoop(k) \/ ConnectEstablished(k) \/ removeConnection(k)
         \/ ConnectDestroyed(k)

\* Each loop keeps running its handlers and its queued functors.  Clients
\* connecting and connections closing are up to the peers.
Fairness ==
  /\ WF_vars(handleRead)
  /\ \A k \in 1..MaxConns :
       /\ WF_vars(k \in DOMAIN conns /\ RemoveInLoop(k))
       /\ WF_vars(k \in DOMAIN conns /\ ConnectEstablished(k))
       /\ WF_vars(k \in DOMAIN conns /\ ConnectDestroyed(k))

Spec == Init /\ [][Next]_vars /\ Fairness

-----------------------------------------------------------------------------
(* Properties.                                                             *)

\* Connections the base loop has not yet erased.
InMap == {conns[k].name :
            k \in {j \in DOMAIN conns :
                      conns[j].stage \in {"queued", "up", "removing"}}}

\* How many accepted connections GetNextLoop gave pool loop i.
AssignedTo(i) == Cardinality({k \in DOMAIN conns : conns[k].loop = i})

\* Types; next_ always indexes loops_ (GetNextLoop wraps it at the size).
TypeOK ==
  /\ numThreads \in 0..MaxThreads /\ started \in 0..2
  /\ loops \in Seq(1..MaxThreads)
  /\ next \in IF loops = <<>> THEN {0} ELSE 0..(Len(loops) - 1)
  /\ initDone \subseteq 0..MaxThreads
  /\ {listening, lfdOpen, assertFailed} \subseteq BOOLEAN
  /\ backlog \in 0..MaxConns /\ arrived \in 0..MaxConns
  /\ nextConnId \in 1..(MaxConns + 1) /\ connMap \subseteq Nat
  /\ conns \in Seq([name : Nat, loop : 0..MaxThreads, stage : Stages])

\* connections_ holds exactly the accepted connections whose removal has
\* not yet run on the base loop -- whether the close came inline (no pool
\* threads) or through the base loop's queue -- so ~TCPServer finds every
\* live connection and removeConnectionInLoop's assert(n == 1) holds.
MapTracksConnections == connMap = InMap /\ ~assertFailed

\* GetNextLoop spreads the accepted connections over the pool's loops
\* round robin: no loop has more than one connection more than another.
Balanced ==
  \A i, j \in 1..Len(loops) : AssignedTo(i) <= AssignedTo(j) + 1

\* While the server says it is listening (listenning_ is never reset), its
\* listening socket is open, so new clients are accepted.
ListenerAlive == listening => lfdOpen
=============================================================================
