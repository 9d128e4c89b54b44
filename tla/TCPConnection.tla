--------------------------- MODULE TCPConnection ---------------------------
(***************************************************************************)
(* One raner::TCPConnection bound to its EventLoop (src/raner/             *)
(* tcp_connection.cc), together with                                       *)
(*   - the loop's pending-functor queue and its poll/drain phases          *)
(*     (EventLoop::Loop, QueueInLoop, doPendingFunctors),                  *)
(*   - the owning TCPServer on its base loop, a different thread from the  *)
(*     connection's pool loop: the close callback removeConnection, the    *)
(*     base loop's removeConnectionInLoop, and ~TCPServer,                 *)
(*   - foreign user threads that call Send/Shutdown/ForceClose on a        *)
(*     TCPConnectionPtr they hold, and loop-thread user code (callbacks)   *)
(*     that calls the same API inline,                                     *)
(*   - the peer and the kernel socket buffer as an environment.            *)
(* Payload bytes are model values; a message m is the two bytes <<m, m>>  *)
(* so that partial writes happen.                                          *)
(***************************************************************************)
EXTENDS Naturals, Sequences, SequencesExt, EpollTimer

CONSTANTS
  Users,        \* foreign threads holding a TCPConnectionPtr
  Msgs,         \* message payloads (model values)
  ForeignOps,   \* API calls the foreign threads make: subset of APIs
  LoopOps,      \* API calls loop-thread user code makes: subset of APIs
  ServerMayDestroy, \* the TCPServer may be destroyed while the loop runs
  UserMutex,    \* TRUE: the user serialises its foreign calls with its
                \* "down" connection callback under one mutex (as the
                \* threaded chat server does); FALSE: no such discipline
  SendFaults,   \* the kernel may refuse a send: a complete write may fill
                \* the send buffer (the next direct send gets EAGAIN), and
                \* the peer may reset (sends get EPIPE/ECONNRESET)
  LogsPeerAddr, \* the connection callback logs conn->GetPeerAddr(), as
                \* defaultConnectionCallback and the chat examples do
  HighWaterMark,\* high_water_mark_ in bytes
  MaxOps        \* bound on the number of API calls

APIs == {"Send", "Shutdown", "ForceClose", "ForceCloseWithDelay",
         "StartRead", "StopRead"}

\* The calls that test state_ on the calling thread before they act.
CheckedAPIs == {"Send", "Shutdown", "ForceClose", "ForceCloseWithDelay"}

ASSUME /\ ForeignOps \subseteq APIs /\ LoopOps \subseteq APIs
       /\ UserMutex \in BOOLEAN /\ ServerMayDestroy \in BOOLEAN
       /\ SendFaults \in BOOLEAN /\ LogsPeerAddr \in BOOLEAN
       /\ HighWaterMark \in Nat \ {0} /\ MaxOps \in Nat

\* TCPConnection::State
States == {"Connecting", "Connected", "Disconnecting", "Disconnected"}

\* The functors this component puts on the loop's queue.  strong = the
\* closure holds shared_from_this(); FALSE = it binds the raw `this`.
Ops == {"ConnectEstablished", "sendInLoop", "shutdownInLoop",
        "forceCloseInLoop", "ConnectDestroyed", "writeComplete",
        "highWaterMark", "startReadInLoop", "stopReadInLoop"}
NoMsg == "none"
Fn(op, m, strong) == [op |-> op, msg |-> m, strong |-> strong]
Functors == [op : Ops, msg : Msgs \cup {NoMsg}, strong : BOOLEAN]

Payload(m) == <<m, m>>

VARIABLES
  state,         \* state_
  registered,    \* fd registered with the loop's EpollServer
  readInterest,  \* EPOLLIN in the registration
  writeInterest, \* HasRegisterWrite(fd)
  out,           \* output_buffer_ readable bytes
  wire,          \* bytes the kernel accepted from write(), in order
  accepted,      \* history: messages sendInLoop took into the stream
  shutWr,        \* socket_->ShutdownWrite() done
  sockFull,      \* kernel send buffer full: write() returns EAGAIN
  fdOpen,        \* Socket::fd_ >= 0: socket_ not closed (Socket::IsClosed)
  peerData,      \* peer bytes waiting to be read
  peerFin,       \* peer closed or reset: read() returns 0
  peerReset,     \* peer reset: write() fails with EPIPE/ECONNRESET
  pending,       \* EventLoop::pending_functors_
  running,       \* the local vector doPendingFunctors swapped out
  phase,         \* "poll": WaitForEventsAndExecuteCallbacks; "drain"
  upc,           \* foreign thread program counter: [pc, msg]
  userRef,       \* foreign thread holds a TCPConnectionPtr
  owner,         \* the server's ConnectionMap entry holds a reference
  baseQ,         \* removeConnectionInLoop closures queued on the base loop
  serverAlive,   \* the TCPServer object exists
  upCalls,       \* connection_callback_ invocations while Connected
  downCalls,     \* connection_callback_ invocations after Disconnected
  closeCalls,    \* close_callback_ invocations
  ops,           \* API calls made so far
  reading,       \* reading_
  delayTimer,    \* force_close_delay_timer_ (a never-armed timer before
                 \* the first ForceCloseWithDelay)
  downCb         \* the loop thread has run setState(kDisconnected) and
                 \* UnregisterFD in handleClose or ConnectDestroyed and is
                 \* about to call connection_callback_: "none" otherwise

vars == <<state, registered, readInterest, writeInterest, out, wire,
          accepted, shutWr, sockFull, fdOpen, peerData, peerFin, peerReset,
          pending, running, phase, upc, userRef, owner, baseQ, serverAlive,
          upCalls, downCalls, closeCalls, ops, reading, delayTimer, downCb>>
sockVars == <<wire, sockFull, shutWr, fdOpen>>
streamVars == <<wire, sockFull, shutWr>>
peerVars == <<peerData, peerFin, peerReset>>
readVars == <<reading, delayTimer, downCb>>
userVars == <<upc, userRef, ops>>
cbVars == <<upCalls, downCalls, closeCalls>>
srvVars == <<owner, baseQ, serverAlive>>

\* The object is alive while some strong reference exists.
Queued == {pending[i] : i \in DOMAIN pending} \cup
          {running[i] : i \in DOMAIN running}
\* handleClose's guard_this and the running ConnectDestroyed functor hold
\* one while the down callback is pending.
Alive == \/ owner \/ baseQ > 0 \/ \E u \in Users : userRef[u]
         \/ \E f \in Queued : f.strong
         \/ downCb # "none"

\* The loop thread is not stopped between handleClose's (or
\* ConnectDestroyed's) UnregisterFD and its connection callback.
LoopFree == downCb = "none"

\* With UserMutex the user's connection callback locks the mutex that its
\* foreign calls hold, so it waits for every foreign thread to leave its
\* critical section.  The state_ writes before it take no lock.
UserMutexFree == UserMutex => \A u \in Users : upc[u].pc = "idle"

Init ==
  /\ state = "Connecting"
  /\ registered = FALSE /\ readInterest = FALSE /\ writeInterest = FALSE
  /\ out = <<>> /\ wire = <<>> /\ accepted = <<>>
  /\ shutWr = FALSE /\ sockFull = FALSE /\ fdOpen = TRUE
  /\ peerData = FALSE /\ peerFin = FALSE /\ peerReset = FALSE
  \* TCPServer::newConnection, on the base loop, inserts the map entry and
  \* hands ConnectEstablished to the pool loop: io_loop->RunInLoop queues it.
  /\ pending = <<Fn("ConnectEstablished", NoMsg, TRUE)>>
  /\ running = <<>> /\ phase = "poll"
  /\ upc = [u \in Users |-> [pc |-> "idle", msg |-> NoMsg]]
  /\ userRef = [u \in Users |-> FALSE]
  /\ owner = TRUE /\ baseQ = 0 /\ serverAlive = TRUE
  /\ upCalls = 0 /\ downCalls = 0 /\ closeCalls = 0 /\ ops = 0
  /\ reading = TRUE /\ delayTimer = NewTimer /\ downCb = "none"

-----------------------------------------------------------------------------
(* Loop-thread operations.  Each operator describes the primed state of    *)
(* the variables it writes; the caller supplies the rest.                  *)

\* EpollServer::HasRegisterWrite(socket_->fd()): false once fd_ is -1.
HasRegisterWrite == fdOpen /\ writeInterest

\* send() of socket_->fd() fails with EPIPE/ECONNRESET after a half-close
\* or a reset, with EBADF once the fd is closed, with EAGAIN when the send
\* buffer is full.
SendEPIPE == fdOpen /\ (shutWr \/ peerReset)
SendFails == ~fdOpen \/ shutWr \/ peerReset \/ sockFull

\* Socket::Write that sent k > 0 bytes of `data`.  A short write leaves the
\* send buffer full; with SendFaults a complete one may fill it too.
WriteOK(data, k) ==
  /\ wire' = wire \o SubSeq(data, 1, k)
  /\ sockFull' \in IF k < Len(data) THEN {TRUE}
                   ELSE IF SendFaults THEN BOOLEAN ELSE {FALSE}
  /\ UNCHANGED fdOpen

\* Socket::Close: close the fd and set fd_ = -1 (a no-op when closed).
\* The kernel drops a closed fd from the epoll set; the EpollServer's
\* entry for the old fd number stays.
SocketClose == fdOpen' = FALSE

\* Socket::Write whose send() returned -1: setSocketError() calls Close().
WriteError ==
  /\ SocketClose
  /\ UNCHANGED <<wire, sockFull>>

\* EpollServer::UnregisterFD(socket_->fd()): with fd_ == -1 nothing is
\* found and the entry for the old fd stays.
UnregisterFD ==
  /\ registered' = (registered /\ ~fdOpen)
  /\ readInterest' = (readInterest /\ ~fdOpen)
  /\ writeInterest' = (writeInterest /\ ~fdOpen)

\* Socket::GetPeerAddr: getpeername() fails with ENOTCONN once a reset has
\* moved the socket to TCP_CLOSE, and setSocketError() closes it.  (The
\* TCP_CLOSE after both FINs are acknowledged is not followed: there the
\* call comes after the fd was unregistered and changes nothing else.)
GetPeerAddr == fdOpen' = (fdOpen /\ ~peerReset)

\* The connection callback's log line, when it has one.
connectionCallback ==
  IF LogsPeerAddr THEN GetPeerAddr ELSE UNCHANGED fdOpen

handleClose ==
  /\ state' = "Disconnected"
  /\ UnregisterFD
  /\ downCb' = "handleClose"
  /\ UNCHANGED <<fdOpen, cbVars, srvVars>>

\* TCPConnection::sendInLoop(data, len) for the payload of message m.
sendInLoop(m) ==
  LET data == Payload(m)
      direct == ~HasRegisterWrite /\ out = <<>>
  IN
  \/ /\ state = "Disconnected"
     /\ UNCHANGED <<out, accepted, writeInterest, pending, sockVars>>
  \/ /\ state # "Disconnected"
     /\ \/ \* direct write fails with EPIPE/ECONNRESET: fault_error, dropped
           /\ direct /\ SendEPIPE
           /\ WriteError
           /\ UNCHANGED <<out, accepted, writeInterest, pending, shutWr>>
        \/ \* direct write of everything: queue write_complete_callback_
           /\ direct /\ ~SendFails
           /\ WriteOK(data, Len(data))
           /\ accepted' = Append(accepted, m)
           /\ pending' = Append(pending, Fn("writeComplete", NoMsg, TRUE))
           /\ UNCHANGED <<out, writeInterest, shutWr>>
        \/ \* k bytes written (k = 0: no direct write, or one that failed
           \* with EAGAIN/EBADF, not fault_error): queue the rest and
           \* StartWrite(socket_->fd()), a no-op once fd_ is -1
           \E k \in 0..(Len(data) - 1) :
             LET remaining == SubSeq(data, k + 1, Len(data))
                 oldLen == Len(out)
                 crosses == oldLen + Len(remaining) >= HighWaterMark
                            /\ oldLen < HighWaterMark
             IN /\ k > 0 => direct /\ ~SendFails
                /\ k = 0 => ~direct \/ (SendFails /\ ~SendEPIPE)
                /\ CASE k > 0 -> WriteOK(data, k)
                     [] direct -> WriteError
                     [] OTHER -> UNCHANGED <<wire, sockFull, fdOpen>>
                /\ accepted' = Append(accepted, m)
                /\ pending' = IF crosses
                              THEN Append(pending, Fn("highWaterMark", NoMsg, TRUE))
                              ELSE pending
                /\ out' = out \o remaining
                /\ writeInterest' = (writeInterest \/ fdOpen')
                /\ UNCHANGED shutWr

\* Mutation: shutdownInLoop without the HasRegisterWrite test.
shutdownInLoop_ignoresWriting(wi) == shutWr' = TRUE

\* TCPConnection::shutdownInLoop: half-close only when not writing.
shutdownInLoop(wi) ==
  shutWr' = (shutWr \/ (fdOpen /\ ~wi))

\* EpollServer::HasRegisterRead(socket_->fd()): false once fd_ is -1.
HasRegisterRead == fdOpen /\ readInterest

\* EpollServer::StartRead/StopRead(fd) modify a registered fd's events and
\* do nothing for fd -1 or an fd no longer registered.
CanModifyRead == fdOpen /\ registered

\* TCPConnection::startReadInLoop
startReadInLoop ==
  IF ~reading \/ ~HasRegisterRead
  THEN reading' = TRUE /\ readInterest' = (readInterest \/ CanModifyRead)
  ELSE UNCHANGED <<reading, readInterest>>

\* TCPConnection::stopReadInLoop
stopReadInLoop ==
  IF reading \/ HasRegisterRead
  THEN reading' = FALSE /\ readInterest' = (readInterest /\ ~CanModifyRead)
  ELSE UNCHANGED <<reading, readInterest>>

\* Mutation: ForceClose acts only on a kConnected connection.
ForceClose_connectedOnly ==
  IF state = "Connected"
  THEN /\ state' = "Disconnecting"
       /\ pending' = Append(pending, Fn("forceCloseInLoop", NoMsg, TRUE))
  ELSE UNCHANGED <<state, pending>>

\* TCPConnection::ForceClose on the loop thread (the delay timer's
\* callback): when kConnected or kDisconnecting, setState(kDisconnecting)
\* and QueueInLoop(bind(forceCloseInLoop, shared_from_this())).
ForceClose ==
  IF state \in {"Connected", "Disconnecting"}
  THEN /\ state' = "Disconnecting"
       /\ pending' = Append(pending, Fn("forceCloseInLoop", NoMsg, TRUE))
  ELSE UNCHANGED <<state, pending>>

\* ForceCloseWithDelay after its state_ test: setState(kDisconnecting);
\* force_close_delay_timer_ = CreateTimer(bind(ForceClose, this)), which
\* destroys the previous timer (its alarm is unregistered), and
\* Update(now + delay) arms the new one.
forceCloseWithDelay ==
  /\ state' = "Disconnecting"
  /\ delayTimer' = Update(CreateTimer)

\* TCPConnection::ConnectEstablished
ConnectEstablished ==
  /\ state = "Connecting"
  /\ state' = "Connected"
  /\ registered' = TRUE /\ readInterest' = TRUE
  /\ upCalls' = upCalls + 1 /\ connectionCallback
  /\ UNCHANGED <<writeInterest, out, accepted, streamVars, srvVars, pending,
                 downCalls, closeCalls>>

\* Mutation: forceCloseInLoop without its state test.
forceCloseInLoop_noStateCheck ==
  /\ handleClose
  /\ UNCHANGED <<out, accepted, streamVars, pending>>

\* TCPConnection::forceCloseInLoop
forceCloseInLoop ==
  \/ /\ state \in {"Connected", "Disconnecting"}
     /\ handleClose
     /\ UNCHANGED <<out, accepted, streamVars, pending>>
  \/ /\ state \notin {"Connected", "Disconnecting"}
     /\ UNCHANGED <<state, registered, readInterest, writeInterest, out,
                    accepted, sockVars, pending, srvVars, cbVars, downCb>>

\* TCPConnection::ConnectDestroyed up to its connection callback: when
\* kConnected, setState(kDisconnected) and UnregisterFD, with no lock held
\* (ConnectDestroyedCallback is the rest).
ConnectDestroyed ==
  \/ /\ state = "Connected"
     /\ state' = "Disconnected"
     /\ UnregisterFD
     /\ downCb' = "ConnectDestroyed"
     /\ UNCHANGED <<out, accepted, sockVars, pending, srvVars, cbVars>>
  \/ /\ state # "Connected"
     /\ UNCHANGED <<state, registered, readInterest, writeInterest, out,
                    accepted, sockVars, pending, srvVars, cbVars, downCb>>

\* Mutation: removeConnectionInLoop erases but never queues ConnectDestroyed.
BaseRemoveConnection_noDestroy ==
  /\ baseQ > 0
  /\ baseQ' = baseQ - 1
  /\ owner' = FALSE
  /\ UNCHANGED <<state, registered, readInterest, writeInterest, out,
                 accepted, sockVars, pending, running, phase, serverAlive,
                 cbVars, peerVars, userVars>>
  /\ UNCHANGED readVars

\* TCPServer::removeConnectionInLoop(conn) on the base loop: erase the map
\* entry (assert(n == 1)) and queue ConnectDestroyed on the conn's loop.
BaseRemoveConnection ==
  /\ baseQ > 0
  /\ baseQ' = baseQ - 1
  /\ owner' = FALSE
  /\ pending' = Append(pending, Fn("ConnectDestroyed", NoMsg, TRUE))
  /\ UNCHANGED <<state, registered, readInterest, writeInterest, out,
                 accepted, sockVars, running, phase, serverAlive, cbVars,
                 peerVars, userVars>>
  /\ UNCHANGED readVars

\* Mutation: ~TCPServer drops its references without ConnectDestroyed.
ServerDestroy_noDestroy ==
  /\ ServerMayDestroy /\ serverAlive
  /\ serverAlive' = FALSE
  /\ owner' = FALSE
  /\ UNCHANGED <<state, registered, readInterest, writeInterest, out,
                 accepted, sockVars, pending, running, phase, baseQ, cbVars,
                 peerVars, userVars>>
  /\ UNCHANGED readVars

\* ~TCPServer on the base loop: for each map entry, drop the map's
\* reference and RunInLoop(ConnectDestroyed) on the conn's loop (queued).
ServerDestroy ==
  /\ ServerMayDestroy /\ serverAlive
  /\ serverAlive' = FALSE
  /\ owner' = FALSE
  /\ pending' = IF owner
                THEN Append(pending, Fn("ConnectDestroyed", NoMsg, TRUE))
                ELSE pending
  /\ UNCHANGED <<state, registered, readInterest, writeInterest, out,
                 accepted, sockVars, running, phase, baseQ, cbVars,
                 peerVars, userVars>>
  /\ UNCHANGED readVars

\* One functor of the swapped-out vector, in FIFO order.
RunFunctor ==
  /\ phase = "drain" /\ running # <<>> /\ LoopFree
  /\ running' = Tail(running)
  /\ LET f == Head(running) IN
     CASE f.op = "ConnectEstablished" -> ConnectEstablished
       [] f.op = "sendInLoop" ->
            /\ sendInLoop(f.msg)
            /\ UNCHANGED <<state, registered, readInterest, srvVars, cbVars>>
       [] f.op = "shutdownInLoop" ->
            /\ shutdownInLoop(writeInterest)
            /\ UNCHANGED <<state, registered, readInterest, writeInterest,
                           out, accepted, wire, sockFull, fdOpen, pending, srvVars,
                           cbVars>>
       [] f.op = "forceCloseInLoop" -> forceCloseInLoop
       [] f.op = "ConnectDestroyed" -> ConnectDestroyed
       [] f.op \in {"writeComplete", "highWaterMark"} ->
            UNCHANGED <<state, registered, readInterest, writeInterest, out,
                        accepted, sockVars, pending, srvVars, cbVars>>
       [] f.op = "startReadInLoop" ->
            /\ startReadInLoop
            /\ UNCHANGED <<state, registered, writeInterest, out, accepted,
                           sockVars, pending, srvVars, cbVars>>
       [] f.op = "stopReadInLoop" ->
            /\ stopReadInLoop
            /\ UNCHANGED <<state, registered, writeInterest, out, accepted,
                           sockVars, pending, srvVars, cbVars>>
  /\ Head(running).op \notin {"startReadInLoop", "stopReadInLoop"} =>
       UNCHANGED reading
  /\ Head(running).op \notin {"forceCloseInLoop", "ConnectDestroyed"} =>
       UNCHANGED downCb
  /\ UNCHANGED <<phase, peerVars, userVars, delayTimer>>
-----------------------------------------------------------------------------
(* The loop thread: TCPConnection::OnEvent handlers during the poll phase, *)
(* then doPendingFunctors.                                                 *)

\* TCPConnection::handleRead: n > 0 runs message_callback_; n == 0 closes.
\* (n < 0 only logs in handleError, a stuttering step.)
HandleRead ==
  /\ phase = "poll" /\ LoopFree /\ fdOpen /\ registered /\ readInterest
  /\ \/ /\ peerData
        /\ peerData' = FALSE
        /\ UNCHANGED <<state, registered, readInterest, writeInterest,
                       pending, srvVars, cbVars, peerFin, peerReset, fdOpen,
                       downCb>>
     \/ /\ ~peerData /\ peerFin
        /\ handleClose
        /\ UNCHANGED <<pending, peerVars>>
  /\ UNCHANGED <<out, accepted, streamVars, running, phase, userVars>>
  /\ UNCHANGED <<reading, delayTimer>>

\* Mutation: handleWrite skips one byte too few after a write.
HandleWrite_offByOne(k) ==
  /\ phase = "poll" /\ LoopFree /\ fdOpen /\ registered /\ writeInterest /\ ~sockFull
  /\ ~SendEPIPE
  /\ k \in 1..Len(out)
  /\ WriteOK(out, k)
  /\ out' = SubSeq(out, k, Len(out))
  /\ IF out' = <<>>
     THEN /\ writeInterest' = FALSE
          /\ pending' = Append(pending, Fn("writeComplete", NoMsg, TRUE))
          /\ IF state = "Disconnecting" THEN shutdownInLoop(FALSE)
                                        ELSE UNCHANGED shutWr
     ELSE UNCHANGED <<writeInterest, pending, shutWr>>
  /\ UNCHANGED <<state, registered, readInterest, accepted, running, phase,
                 fdOpen, srvVars, cbVars, peerVars, userVars>>
  /\ UNCHANGED readVars

\* Mutation: handleWrite never resumes the pending half-close.
HandleWrite_noShutdown(k) ==
  /\ phase = "poll" /\ LoopFree /\ fdOpen /\ registered /\ writeInterest /\ ~sockFull
  /\ ~SendEPIPE
  /\ k \in 1..Len(out)
  /\ WriteOK(out, k)
  /\ out' = SubSeq(out, k + 1, Len(out))
  /\ IF out' = <<>>
     THEN /\ writeInterest' = FALSE
          /\ pending' = Append(pending, Fn("writeComplete", NoMsg, TRUE))
     ELSE UNCHANGED <<writeInterest, pending>>
  /\ UNCHANGED <<state, registered, readInterest, accepted, running, phase,
                 shutWr, fdOpen, srvVars, cbVars, peerVars, userVars>>
  /\ UNCHANGED readVars

\* TCPConnection::handleWrite on EPOLLOUT: write what the kernel takes;
\* once drained stop writing, queue write_complete_callback_ and, when
\* Disconnecting, shutdownInLoop.  (A failing write is HandleWriteError.)
HandleWrite(k) ==
  /\ phase = "poll" /\ LoopFree /\ fdOpen /\ registered /\ writeInterest /\ ~sockFull
  /\ ~SendEPIPE
  /\ k \in 1..Len(out)
  /\ WriteOK(out, k)
  /\ out' = SubSeq(out, k + 1, Len(out))
  /\ IF out' = <<>>
     THEN /\ writeInterest' = FALSE
          /\ pending' = Append(pending, Fn("writeComplete", NoMsg, TRUE))
          /\ IF state = "Disconnecting" THEN shutdownInLoop(FALSE)
                                        ELSE UNCHANGED shutWr
     ELSE UNCHANGED <<writeInterest, pending, shutWr>>
  /\ UNCHANGED <<state, registered, readInterest, accepted, running, phase,
                 fdOpen, srvVars, cbVars, peerVars, userVars>>
  /\ UNCHANGED readVars

\* handleWrite whose Socket::Write fails (EPIPE/ECONNRESET after a reset):
\* setSocketError closes the fd; handleWrite only logs.
HandleWriteError ==
  /\ phase = "poll" /\ LoopFree /\ fdOpen /\ registered /\ writeInterest /\ ~sockFull
  /\ SendEPIPE
  /\ WriteError
  /\ UNCHANGED <<state, registered, readInterest, writeInterest, out,
                 accepted, shutWr, pending, running, phase, srvVars, cbVars,
                 peerVars, userVars>>
  /\ UNCHANGED readVars

\* The rest of handleClose: connection_callback_(guard_this) (down), which
\* waits for the user mutex, then, as its last line, close_callback_ =
\* TCPServer::removeConnection, whose RunInLoop on the base loop (another
\* thread) queues removeConnectionInLoop(conn).
HandleCloseCallbacks ==
  /\ downCb = "handleClose" /\ UserMutexFree
  /\ downCalls' = downCalls + 1 /\ connectionCallback
  /\ closeCalls' = closeCalls + 1 /\ baseQ' = baseQ + 1
  /\ downCb' = "none"
  /\ UNCHANGED <<state, registered, readInterest, writeInterest, out,
                 accepted, streamVars, pending, running, phase, owner,
                 serverAlive, upCalls, peerVars, userVars, reading, delayTimer>>

\* The rest of ConnectDestroyed: connection_callback_(shared_from_this())
\* (down), which waits for the user mutex.
ConnectDestroyedCallback ==
  /\ downCb = "ConnectDestroyed" /\ UserMutexFree
  /\ downCalls' = downCalls + 1 /\ connectionCallback
  /\ downCb' = "none"
  /\ UNCHANGED <<state, registered, readInterest, writeInterest, out,
                 accepted, streamVars, pending, running, phase, srvVars,
                 upCalls, closeCalls, peerVars, userVars, reading, delayTimer>>

\* WaitForEventsAndExecuteCallbacks returned; doPendingFunctors swaps the
\* queue out under the mutex.
EndPoll ==
  /\ phase = "poll" /\ LoopFree
  /\ phase' = "drain" /\ running' = pending /\ pending' = <<>>
  /\ UNCHANGED <<state, registered, readInterest, writeInterest, out,
                 accepted, sockVars, srvVars, cbVars, peerVars, userVars>>
  /\ UNCHANGED readVars

EndDrain ==
  /\ phase = "drain" /\ running = <<>> /\ LoopFree
  /\ phase' = "poll"
  /\ UNCHANGED <<state, registered, readInterest, writeInterest, out,
                 accepted, sockVars, pending, running, srvVars, cbVars,
                 peerVars, userVars>>
  /\ UNCHANGED readVars

-----------------------------------------------------------------------------
(* User code on the loop thread (inside a callback): the public API runs   *)
(* inline because IsInLoopThread() holds.                                  *)

LoopCall(api) ==
  /\ api \in LoopOps /\ ops < MaxOps /\ upCalls > 0 /\ LoopFree
  /\ ops' = ops + 1

\* TCPConnection::Send in the loop thread: sendInLoop inline.
LoopSend(m) ==
  /\ LoopCall("Send") /\ state = "Connected"
  /\ sendInLoop(m)
  /\ UNCHANGED <<state, registered, readInterest, running, phase, srvVars,
                 cbVars, peerVars, upc, userRef>>
  /\ UNCHANGED readVars

\* Mutation: Shutdown without its kConnected test.
LoopShutdown_noStateCheck ==
  /\ LoopCall("Shutdown")
  /\ state' = "Disconnecting"
  /\ shutdownInLoop(writeInterest)
  /\ UNCHANGED <<registered, readInterest, writeInterest, out, accepted,
                 wire, sockFull, fdOpen, pending, running, phase, srvVars, cbVars,
                 peerVars, upc, userRef>>
  /\ UNCHANGED readVars

\* TCPConnection::Shutdown in the loop thread.
LoopShutdown ==
  /\ LoopCall("Shutdown") /\ state = "Connected"
  /\ state' = "Disconnecting"
  /\ shutdownInLoop(writeInterest)
  /\ UNCHANGED <<registered, readInterest, writeInterest, out, accepted,
                 wire, sockFull, fdOpen, pending, running, phase, srvVars, cbVars,
                 peerVars, upc, userRef>>
  /\ UNCHANGED readVars

\* TCPConnection::ForceClose in the loop thread.
LoopForceClose ==
  /\ LoopCall("ForceClose") /\ state \in {"Connected", "Disconnecting"}
  /\ state' = "Disconnecting"
  /\ pending' = Append(pending, Fn("forceCloseInLoop", NoMsg, TRUE))
  /\ UNCHANGED <<registered, readInterest, writeInterest, out, accepted,
                 sockVars, running, phase, srvVars, cbVars, peerVars, upc,
                 userRef>>
  /\ UNCHANGED readVars

\* TCPConnection::ForceCloseWithDelay in the loop thread.
LoopForceCloseWithDelay ==
  /\ LoopCall("ForceCloseWithDelay") /\ state \in {"Connected", "Disconnecting"}
  /\ forceCloseWithDelay
  /\ UNCHANGED <<registered, readInterest, writeInterest, out, accepted,
                 sockVars, pending, running, phase, srvVars, cbVars, peerVars,
                 upc, userRef, reading, downCb>>

\* StartRead/StopRead in the loop thread: RunInLoop runs the InLoop half.
LoopStartRead ==
  /\ LoopCall("StartRead")
  /\ startReadInLoop
  /\ UNCHANGED <<state, registered, writeInterest, out, accepted, sockVars,
                 pending, running, phase, srvVars, cbVars, peerVars, upc,
                 userRef, delayTimer, downCb>>

LoopStopRead ==
  /\ LoopCall("StopRead")
  /\ stopReadInLoop
  /\ UNCHANGED <<state, registered, writeInterest, out, accepted, sockVars,
                 pending, running, phase, srvVars, cbVars, peerVars, upc,
                 userRef, delayTimer, downCb>>

-----------------------------------------------------------------------------
(* Foreign threads.  Send/Shutdown/ForceClose read state_ on the calling   *)
(* thread, then act: the check and the act are separate steps.             *)

\* Obtain a TCPConnectionPtr, e.g. TCPClient::Connection() or a copy from
\* a set filled by the "up" connection callback.
UserAcquire(u) ==
  /\ owner /\ upCalls > 0 /\ ~userRef[u] /\ upc[u].pc = "idle"
  /\ userRef' = [userRef EXCEPT ![u] = TRUE]
  /\ UNCHANGED <<state, registered, readInterest, writeInterest, out, wire,
                 accepted, shutWr, sockFull, fdOpen, peerVars, pending, running,
                 phase, upc, srvVars, cbVars, ops>>
  /\ UNCHANGED readVars

\* Drop the TCPConnectionPtr; with UserMutex only after the "down" callback.
UserRelease(u) ==
  /\ userRef[u] /\ upc[u].pc = "idle"
  /\ UserMutex => downCalls > 0
  /\ userRef' = [userRef EXCEPT ![u] = FALSE]
  /\ UNCHANGED <<state, registered, readInterest, writeInterest, out, wire,
                 accepted, shutWr, sockFull, fdOpen, peerVars, pending, running,
                 phase, upc, srvVars, cbVars, ops>>
  /\ UNCHANGED readVars

\* The state_ test at the top of Send, Shutdown, ForceClose and
\* ForceCloseWithDelay.  With UserMutex the user calls only while the
\* connection is in its set, before the "down" callback.
UserCall(u, api, m) ==
  /\ userRef[u] /\ upc[u].pc = "idle"
  /\ api \in ForeignOps \cap CheckedAPIs /\ ops < MaxOps
  /\ UserMutex => downCalls = 0
  /\ IF api \in {"ForceClose", "ForceCloseWithDelay"}
     THEN state \in {"Connected", "Disconnecting"}
     ELSE state = "Connected"
  /\ m = IF api = "Send" THEN m ELSE NoMsg
  /\ upc' = [upc EXCEPT ![u] = [pc |-> api, msg |-> m]]
  /\ ops' = ops + 1
  /\ UNCHANGED <<state, registered, readInterest, writeInterest, out, wire,
                 accepted, shutWr, sockFull, fdOpen, peerVars, pending, running,
                 phase, userRef, srvVars, cbVars>>
  /\ UNCHANGED readVars

\* Send from another thread: RunInLoop(bind(sendInLoop, this, string)).
UserSendQueue(u) ==
  /\ upc[u].pc = "Send"
  /\ pending' = Append(pending, Fn("sendInLoop", upc[u].msg, FALSE))
  /\ upc' = [upc EXCEPT ![u] = [pc |-> "idle", msg |-> NoMsg]]
  /\ UNCHANGED <<state, registered, readInterest, writeInterest, out, wire,
                 accepted, shutWr, sockFull, fdOpen, peerVars, running, phase,
                 userRef, srvVars, cbVars, ops>>
  /\ UNCHANGED readVars

\* Shutdown from another thread: setState(kDisconnecting), then
\* RunInLoop(bind(shutdownInLoop, this)).
UserShutdownAct(u) ==
  /\ upc[u].pc = "Shutdown"
  /\ state' = "Disconnecting"
  /\ pending' = Append(pending, Fn("shutdownInLoop", NoMsg, FALSE))
  /\ upc' = [upc EXCEPT ![u] = [pc |-> "idle", msg |-> NoMsg]]
  /\ UNCHANGED <<registered, readInterest, writeInterest, out, wire,
                 accepted, shutWr, sockFull, fdOpen, peerVars, running, phase,
                 userRef, srvVars, cbVars, ops>>
  /\ UNCHANGED readVars

\* ForceClose from another thread: setState(kDisconnecting), then
\* QueueInLoop(bind(forceCloseInLoop, shared_from_this())).
UserForceCloseAct(u) ==
  /\ upc[u].pc = "ForceClose"
  /\ state' = "Disconnecting"
  /\ pending' = Append(pending, Fn("forceCloseInLoop", NoMsg, TRUE))
  /\ upc' = [upc EXCEPT ![u] = [pc |-> "idle", msg |-> NoMsg]]
  /\ UNCHANGED <<registered, readInterest, writeInterest, out, wire,
                 accepted, shutWr, sockFull, fdOpen, peerVars, running, phase,
                 userRef, srvVars, cbVars, ops>>
  /\ UNCHANGED readVars

\* ForceCloseWithDelay from another thread: setState(kDisconnecting) and
\* the timer created and armed on the loop's EpollServer from this thread.
UserForceCloseDelayAct(u) ==
  /\ upc[u].pc = "ForceCloseWithDelay"
  /\ forceCloseWithDelay
  /\ upc' = [upc EXCEPT ![u] = [pc |-> "idle", msg |-> NoMsg]]
  /\ UNCHANGED <<registered, readInterest, writeInterest, out, wire,
                 accepted, shutWr, sockFull, fdOpen, peerVars, pending, running,
                 phase, userRef, srvVars, cbVars, ops, reading, downCb>>

\* StartRead/StopRead from another thread: RunInLoop(bind(start/
\* stopReadInLoop, this)) queues a functor bound to the raw `this`.  There
\* is no state_ test.
UserReadCall(u, api) ==
  /\ userRef[u] /\ upc[u].pc = "idle"
  /\ api \in ForeignOps \ CheckedAPIs /\ ops < MaxOps
  /\ UserMutex => downCalls = 0
  /\ ops' = ops + 1
  /\ pending' = Append(pending, Fn(IF api = "StartRead" THEN "startReadInLoop"
                                                       ELSE "stopReadInLoop",
                                   NoMsg, FALSE))
  /\ UNCHANGED <<state, registered, readInterest, writeInterest, out, wire,
                 accepted, shutWr, sockFull, fdOpen, peerVars, running, phase,
                 upc, userRef, srvVars, cbVars, reading, delayTimer, downCb>>

-----------------------------------------------------------------------------
(* The delay timer's alarm.                                                *)

\* The EpollServer runs the alarm during the poll (EpollTimerImpl::
\* OnAlarm): fire() clears deadline_ and calls ForceClose.  The timer is a
\* member: ~TCPConnection destroys it and its alarm with the object.
DelayAlarm ==
  /\ phase = "poll" /\ LoopFree /\ Alive /\ delayTimer.alarm
  /\ delayTimer' = OnAlarm(delayTimer)
  /\ IF Fires(delayTimer) THEN ForceClose ELSE UNCHANGED <<state, pending>>
  /\ UNCHANGED <<registered, readInterest, writeInterest, out, accepted,
                 sockVars, running, phase, srvVars, cbVars, peerVars, userVars,
                 reading, downCb>>

-----------------------------------------------------------------------------
(* The peer and the kernel.                                                *)

PeerSend ==
  /\ ~peerFin /\ ~peerData
  /\ peerData' = TRUE
  /\ UNCHANGED <<state, registered, readInterest, writeInterest, out, wire,
                 accepted, shutWr, sockFull, fdOpen, peerFin, peerReset, pending,
                 running, phase, userVars, srvVars, cbVars>>
  /\ UNCHANGED readVars

PeerClose ==
  /\ ~peerFin
  /\ peerFin' = TRUE
  /\ UNCHANGED <<state, registered, readInterest, writeInterest, out, wire,
                 accepted, shutWr, sockFull, fdOpen, peerData, peerReset, pending,
                 running, phase, userVars, srvVars, cbVars>>
  /\ UNCHANGED readVars

PeerReset ==
  /\ SendFaults /\ ~peerReset
  /\ peerReset' = TRUE /\ peerFin' = TRUE
  /\ UNCHANGED <<state, registered, readInterest, writeInterest, out, wire,
                 accepted, shutWr, sockFull, fdOpen, peerData, pending, running,
                 phase, userVars, srvVars, cbVars>>
  /\ UNCHANGED readVars

\* The peer acknowledges data: the send buffer has room again.
PeerDrain ==
  /\ sockFull
  /\ sockFull' = FALSE
  /\ UNCHANGED <<state, registered, readInterest, writeInterest, out, wire,
                 accepted, shutWr, fdOpen, peerVars, pending, running, phase,
                 userVars, srvVars, cbVars>>
  /\ UNCHANGED readVars

-----------------------------------------------------------------------------
Next ==
  \/ HandleRead \/ (\E k \in 1..Len(out) : HandleWrite(k)) \/ HandleWriteError
  \/ EndPoll \/ RunFunctor \/ EndDrain \/ DelayAlarm
  \/ HandleCloseCallbacks \/ ConnectDestroyedCallback
  \/ BaseRemoveConnection \/ ServerDestroy
  \/ (\E m \in Msgs : LoopSend(m)) \/ LoopShutdown \/ LoopForceClose
  \/ \E u \in Users :
       \/ UserAcquire(u) \/ UserRelease(u)
       \/ \E api \in APIs, m \in Msgs \cup {NoMsg} :
            /\ (api = "Send") = (m \in Msgs)
            /\ UserCall(u, api, m)
       \/ UserSendQueue(u) \/ UserShutdownAct(u) \/ UserForceCloseAct(u)
  \/ PeerSend \/ PeerClose \/ PeerReset \/ PeerDrain
  \/ LoopForceCloseWithDelay \/ LoopStartRead \/ LoopStopRead
  \/ \E u \in Users :
       \/ UserForceCloseDelayAct(u)
       \/ \E api \in APIs : UserReadCall(u, api)

\* The loop thread never stops (the poll is bounded at kPollTimeMs); an fd
\* that is ready is returned by the next level-triggered epoll wait, so the
\* handlers, enabled only in the poll phase, are strongly fair; a foreign
\* thread finishes a call it started; the peer keeps reading; the delay
\* alarm of a live connection fires once its deadline has passed.
Fairness ==
  /\ WF_vars(EndPoll) /\ WF_vars(RunFunctor) /\ WF_vars(EndDrain)
  /\ WF_vars(HandleCloseCallbacks) /\ WF_vars(ConnectDestroyedCallback)
  /\ SF_vars(HandleRead) /\ SF_vars(\E k \in 1..Len(out) : HandleWrite(k))
  /\ SF_vars(HandleWriteError) /\ SF_vars(DelayAlarm)
  /\ WF_vars(PeerDrain) /\ WF_vars(BaseRemoveConnection)
  /\ \A u \in Users : /\ WF_vars(UserSendQueue(u))
                      /\ WF_vars(UserShutdownAct(u))
                      /\ WF_vars(UserForceCloseAct(u))
                      /\ WF_vars(UserForceCloseDelayAct(u))

Spec == Init /\ [][Next]_vars /\ Fairness

-----------------------------------------------------------------------------
TypeOK ==
  /\ state \in States
  /\ {registered, readInterest, writeInterest, shutWr, sockFull, fdOpen,
      peerData,
      peerFin, peerReset, owner, serverAlive} \subseteq BOOLEAN
  /\ baseQ \in Nat
  /\ out \in Seq(Msgs) /\ wire \in Seq(Msgs) /\ accepted \in Seq(Msgs)
  /\ pending \in Seq(Functors) /\ running \in Seq(Functors)
  /\ phase \in {"poll", "drain"}
  /\ upc \in [Users -> [pc : {"idle"} \cup APIs, msg : Msgs \cup {NoMsg}]]
  /\ userRef \in [Users -> BOOLEAN]
  /\ {upCalls, downCalls, closeCalls, ops} \subseteq Nat
  /\ reading \in BOOLEAN /\ delayTimer \in [set : BOOLEAN, alarm : BOOLEAN]
  /\ downCb \in {"none", "handleClose", "ConnectDestroyed"}

\* Every byte sendInLoop took into the stream is, exactly once and in
\* order, either already written to the socket or still in output_buffer_
\* (sendInLoop's direct-write fast path versus handleWrite's partial writes).
StreamIntegrity ==
  wire \o out = FlattenSeq([i \in DOMAIN accepted |-> Payload(accepted[i])])

\* shutdownInLoop/handleWrite never half-close a live connection while
\* output_buffer_ still holds bytes: Shutdown loses no queued data.
NoHalfCloseWithPendingOutput ==
  [][~shutWr /\ shutWr' /\ state' # "Disconnected" => out' = <<>>]_vars

\* Disconnected is terminal: no Shutdown/ForceClose brings it back.
DisconnectedIsFinal ==
  [][state = "Disconnected" => state' = "Disconnected"]_vars

\* connection_callback_ fires once up and at most once down, and
\* close_callback_ (the owner's map erase, assert(n == 1)) at most once.
CallbacksOnce == upCalls <= 1 /\ downCalls <= 1 /\ closeCalls <= 1

\* No functor that binds the raw `this` (Send, Shutdown, StartRead or
\* StopRead from another thread) is still queued once the last
\* TCPConnectionPtr is gone.
NoDanglingFunctor == ~Alive => \A f \in Queued : f.strong

\* ForceCloseWithDelay ends the connection: once its delay alarm is
\* registered the connection eventually reaches Disconnected.  The call
\* has already set kDisconnecting, so the alarm's ForceClose must accept
\* that state, and with reads stopped no FIN from the peer would close it.
DelayedCloseCompletes == delayTimer.alarm ~> state = "Disconnected"

\* A Shutdown eventually half-closes the socket or the connection closes.
ShutdownCompletes ==
  state = "Disconnecting" ~> (shutWr \/ state = "Disconnected")

\* The close callback (TCPServer::removeConnection, bound to a raw server
\* `this`) and the base loop's removeConnectionInLoop run only while the
\* TCPServer object exists.
NoCallIntoDestroyedServer ==
  [][(closeCalls' > closeCalls \/ baseQ' < baseQ) => serverAlive]_vars

DestroyedOnlyDisconnected ==
  ~Alive => state = "Disconnected" /\ ~registered

\* A connection whose peer has closed or reset is eventually Disconnected:
\* handleRead reads 0 and handleClose runs the close callback, however
\* the loop's own sends (sendInLoop, handleWrite) fared on the socket.
PeerCloseNoticed ==
  peerFin /\ state # "Disconnected" ~> state = "Disconnected"

\* Once the TCPServer is destroyed, its connection ends up Disconnected
\* (~TCPServer's ConnectDestroyed, even before ConnectEstablished ran).
TeardownDisconnects == ~serverAlive ~> state = "Disconnected"
=============================================================================
