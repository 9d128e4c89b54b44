----------------------------- MODULE TCPClient -----------------------------
(***************************************************************************)
(* raner::TCPClient (src/raner/tcp_client.cc) on its EventLoop: the       *)
(* non-blocking connect, the retry with exponential backoff driven by the *)
(* reconnect_timer_ EpollTimer (src/raner/epoll_timer.cc) whose callback  *)
(* is the public Connect(), Stop/Disconnect from a user thread, and the   *)
(* established TCPConnection reduced to whether it is up, shutting down   *)
(* or gone.  The loop thread runs one handler or queued functor at a time;*)
(* a user thread's call is one step (its write of connect_ and its push   *)
(* onto pending_functors_ are adjacent).  socket_ is reduced to whether   *)
(* it holds an open fd, reconnect_timer_ is an EpollTimer record.  The    *)
(* user thread may also destroy the client (~TCPClient) while the loop    *)
(* runs, as the chat client's main() does.                                *)
(***************************************************************************)
EXTENDS Naturals, Sequences, EpollTimer

CONSTANTS
  UserOps,     \* the public calls the user thread makes
  Reconnect,   \* whether the user calls Connect again after Stop/Disconnect
  Retry,       \* retry_: EnableRetry() was called
  MaxOps       \* bound on the user's calls

\* TCPClient's kInitRetryIntervalMs and kMaxRetryIntervalMs (tcp_client.h).
kInitRetryIntervalMs == 500
kMaxRetryIntervalMs == 30 * 1000

States == {"Disconnected", "Connecting", "Connected"}
Calls == {"Connect", "Stop", "Disconnect", "Destroy"}

\* The retry intervals reachable from 500 by doubling under the cap.
RECURSIVE Backoff(_)
Backoff(iv) == IF iv >= kMaxRetryIntervalMs THEN {iv}
               ELSE {iv} \cup Backoff(IF iv * 2 < kMaxRetryIntervalMs
                                      THEN iv * 2 ELSE kMaxRetryIntervalMs)
RetryIntervals == Backoff(kInitRetryIntervalMs)

VARIABLES
  connect_,          \* the desired-connect flag
  state,             \* TCPClient::state_
  retryIntervalMs,   \* retry_interval_ms_
  timer,             \* reconnect_timer_: [set |-> IsSet(), alarm registered]
  registered,        \* socket_ registered for EPOLLOUT (connect in flight)
  fdOpen,            \* socket_ holds an open fd (fd_ >= 0)
  connection,        \* connection_: "none", or the TCPConnection's state
  closeCb,           \* its close_callback_: TCPClient::removeConnection
                     \* ("client") or detail::removeConnection ("detail")
  pending,           \* the loop's pending_functors_ (this client's)
  aborted,           \* an assert() of the client failed (debug build)
  lastCall,          \* the user's last public call
  ops

vars == <<connect_, state, retryIntervalMs, timer, registered, fdOpen,
          connection, closeCb, pending, aborted, lastCall, ops>>
coreVars == <<state, retryIntervalMs, timer, registered, fdOpen>>

Init ==
  /\ connect_ = FALSE /\ state = "Disconnected"
  /\ retryIntervalMs = kInitRetryIntervalMs
  /\ timer = NewTimer /\ registered = FALSE /\ fdOpen = FALSE
  /\ connection = "none" /\ closeCb = "client"
  /\ pending = <<>> /\ aborted = FALSE /\ lastCall = "none" /\ ops = 0

-----------------------------------------------------------------------------
(* Socket::Connect (src/raner/socket.cc), as the set of its outcomes:     *)
(* whether it returned true, and whether fd_ is left open.                 *)

\* Socket::initInternal: socket() fails and there is no fd; or, after
\* DisableNagle and SetReuseAddr (results ignored), SetNonBlocking's
\* fcntl fails with the fd open, or succeeds.
sockInitInternal ==
  {[ok |-> FALSE, fd |-> FALSE], [ok |-> FALSE, fd |-> TRUE],
   [ok |-> TRUE, fd |-> TRUE]}

\* Socket::init: the empty host is the loopback, a numeric host (the
\* examples pass 127.0.0.1) always resolves; then initInternal.  (A name
\* that getaddrinfo fails on is not modelled: resolve() then frees the
\* uninitialized res; see README.)
sockInit == sockInitInternal

\* Socket::connect on a descriptor init made: ::connect returns 0 or
\* EINPROGRESS, or fails and setSocketError() closes the fd.
sockConnect(r) == {r, [ok |-> FALSE, fd |-> FALSE]}

\* Socket::Connect: init, then connect; a failure of either ends in Close().
SocketConnect ==
  LET tried == UNION {IF i.ok THEN sockConnect(i) ELSE {i} : i \in sockInit}
  IN  {[ok |-> r.ok, fd |-> r.ok /\ r.fd] : r \in tried}

\* Socket::GetSocketError: SO_ERROR, or getsockopt's own errno; zero or not.
SocketErrors == BOOLEAN

-----------------------------------------------------------------------------
(* Helpers called inside handlers.  They take the values the caller has   *)
(* already set (st, c, iv, tm) and give state', retryIntervalMs', timer', *)
(* fdOpen' and registered' (the caller gives registered').               *)

MinInt(a, b) == IF a < b THEN a ELSE b

\* Mutation: retry doubles the interval without the std::min cap.
retry_noCap(c, iv, tm) ==
  /\ fdOpen' = FALSE /\ state' = "Disconnected"
  /\ IF c THEN timer' = Update(tm) /\ retryIntervalMs' = iv * 2
          ELSE timer' = tm /\ retryIntervalMs' = iv

\* Mutation: retry arms the timer but forgets setState(kDisconnected).
retry_noSetState(c, iv, tm) ==
  /\ fdOpen' = FALSE /\ state' = state
  /\ IF c THEN /\ timer' = Update(tm)
               /\ retryIntervalMs' = MinInt(iv * 2, kMaxRetryIntervalMs)
          ELSE /\ timer' = tm
               /\ retryIntervalMs' = iv

\* Mutation: retry forgets socket_->Close().
retry_noClose(c, iv, tm) ==
  /\ fdOpen' = fdOpen /\ state' = "Disconnected"
  /\ IF c THEN /\ timer' = Update(tm)
               /\ retryIntervalMs' = MinInt(iv * 2, kMaxRetryIntervalMs)
          ELSE /\ timer' = tm
               /\ retryIntervalMs' = iv

\* TCPClient::retry: socket_->Close(), kDisconnected and, while connect_,
\* reconnect_timer_ (made on first use by EventLoop::CreateTimer with the
\* callback TCPClient::Connect) ->Update(now + interval), then double the
\* interval under the cap.
retry(c, iv, tm) ==
  /\ fdOpen' = FALSE /\ state' = "Disconnected"
  /\ IF c THEN /\ timer' = Update(tm)
               /\ retryIntervalMs' = MinInt(iv * 2, kMaxRetryIntervalMs)
          ELSE /\ timer' = tm
               /\ retryIntervalMs' = iv

\* TCPClient::connect: socket_.reset(new Socket()) (the old Socket's
\* destructor closes a fd it still holds) and Socket::Connect; a failure
\* retries, success is connecting(): kConnecting and RegisterFD for EPOLLOUT.
connect(iv, tm) ==
  \E r \in SocketConnect :
    /\ IF r.ok THEN /\ state' = "Connecting" /\ fdOpen' = r.fd
                    /\ retryIntervalMs' = iv /\ timer' = tm
               ELSE retry(TRUE, iv, tm)
    /\ registered' = r.ok

\* TCPClient::startInLoop: assert(state_ == kDisconnected), then connect()
\* when connect_.
startInLoop(st, c, iv, tm) ==
  \/ /\ st # "Disconnected"
     /\ aborted' = TRUE
     /\ state' = st /\ retryIntervalMs' = iv /\ timer' = tm
     /\ UNCHANGED <<registered, fdOpen>>
  \/ /\ st = "Disconnected" /\ ~c
     /\ state' = st /\ retryIntervalMs' = iv /\ timer' = tm
     /\ UNCHANGED <<registered, fdOpen, aborted>>
  \/ /\ st = "Disconnected" /\ c
     /\ connect(iv, tm)
     /\ UNCHANGED aborted

-----------------------------------------------------------------------------
(* The user thread.                                                        *)

UserCall(call) ==
  /\ ~aborted /\ call \in UserOps /\ ops < MaxOps /\ lastCall # "Destroy"
  /\ lastCall' = call /\ ops' = ops + 1

\* TCPClient::Connect (FIXME: check state): connect_ = true and
\* RunInLoop(startInLoop), queued from this thread.  The user connects
\* first, and again only after Stop/Disconnect when Reconnect.
Connect ==
  /\ UserCall("Connect")
  /\ \/ lastCall = "none"
     \/ Reconnect /\ lastCall \in {"Stop", "Disconnect"}
  /\ connect_' = TRUE
  /\ pending' = Append(pending, "startInLoop")
  /\ UNCHANGED <<coreVars, connection, closeCb, aborted>>

\* TCPClient::Stop: connect_ = false, QueueInLoop(stopInLoop).
Stop ==
  /\ UserCall("Stop")
  /\ connect_' = FALSE
  /\ pending' = Append(pending, "stopInLoop")
  /\ UNCHANGED <<coreVars, connection, closeCb, aborted>>

\* TCPClient::Disconnect: connect_ = false and, under mutex_,
\* connection_->Shutdown(), which acts only on a kConnected connection.
Disconnect ==
  /\ UserCall("Disconnect")
  /\ connect_' = FALSE
  /\ connection' = IF connection = "Connected" THEN "Disconnecting"
                                               ELSE connection
  /\ UNCHANGED <<coreVars, pending, closeCb, aborted>>

\* TCPClient::~TCPClient on the user thread.  With a connection_ (unique:
\* nothing else holds it): RunInLoop(SetCloseCallback(detail::
\* removeConnection)), queued from this thread, then conn->ForceClose():
\* kDisconnecting and QueueInLoop(forceCloseInLoop).  Without one, a
\* connect in flight is abandoned from this thread (kDisconnected,
\* UnregisterFD).  Then the members go: socket_ (~Socket closes a fd it
\* holds) and reconnect_timer_ (its EpollAlarm's destructor unregisters a
\* pending alarm).
Destroy ==
  /\ UserCall("Destroy")
  /\ IF connection # "none"
     THEN /\ pending' = pending \o <<"setCloseCallback", "forceCloseInLoop">>
          /\ connection' = "Disconnecting"
          /\ UNCHANGED <<state, registered>>
     ELSE /\ IF state = "Connecting"
             THEN state' = "Disconnected" /\ registered' = FALSE
             ELSE UNCHANGED <<state, registered>>
          /\ UNCHANGED <<pending, connection>>
  /\ fdOpen' = FALSE /\ timer' = NewTimer
  /\ UNCHANGED <<connect_, retryIntervalMs, closeCb, aborted>>

-----------------------------------------------------------------------------
(* The loop thread.                                                        *)

\* doPendingFunctors running startInLoop.
RunStartInLoop ==
  /\ ~aborted /\ pending # <<>> /\ Head(pending) = "startInLoop"
  /\ pending' = Tail(pending)
  /\ startInLoop(state, connect_, retryIntervalMs, timer)
  /\ UNCHANGED <<connect_, connection, closeCb, lastCall, ops>>

\* TCPClient::stopInLoop: abandon a connect in flight (unregister, retry).
RunStopInLoop ==
  /\ ~aborted /\ pending # <<>> /\ Head(pending) = "stopInLoop"
  /\ pending' = Tail(pending)
  /\ IF state = "Connecting"
     THEN /\ registered' = FALSE
          /\ retry(connect_, retryIntervalMs, timer)
     ELSE UNCHANGED coreVars
  /\ UNCHANGED <<connect_, connection, closeCb, aborted, lastCall, ops>>

\* The EpollServer calls EpollTimerImpl::OnAlarm for the registered
\* reconnect alarm: the alarm is unregistered, and fire() (when the timer
\* is set) clears deadline_ and calls TCPClient::Connect on the loop
\* thread: connect_ = true, and RunInLoop runs startInLoop inline.
TimerFire ==
  /\ ~aborted /\ timer.alarm
  /\ IF Fires(timer)
     THEN /\ connect_' = TRUE
          /\ startInLoop(state, TRUE, retryIntervalMs, OnAlarm(timer))
     ELSE /\ timer' = OnAlarm(timer)
          /\ UNCHANGED <<connect_, state, retryIntervalMs, registered, fdOpen,
                         aborted>>
  /\ UNCHANGED <<connection, closeCb, pending, lastCall, ops>>

\* TCPClient::newConnection: a TCPConnection takes socket_ with
\* close_callback_ TCPClient::removeConnection, becomes connection_ under
\* mutex_, and ConnectEstablished (inline) makes it kConnected.
newConnection == connection' = "Connected" /\ closeCb' = "client"

\* Mutation: handleWrite logs SO_ERROR but never retries.
handleWrite_noRetry(err) ==
  /\ ~aborted /\ registered /\ state = "Connecting"
  /\ registered' = FALSE
  /\ \/ /\ err
        /\ UNCHANGED <<state, retryIntervalMs, timer, fdOpen, connection,
                       closeCb>>
     \/ /\ ~err
        /\ state' = "Connected"
        /\ IF connect_ THEN newConnection ELSE UNCHANGED <<connection, closeCb>>
        /\ fdOpen' = FALSE
        /\ UNCHANGED <<retryIntervalMs, timer>>
  /\ UNCHANGED <<connect_, pending, aborted, lastCall, ops>>

\* TCPClient::OnEvent for EPOLLOUT on the connecting socket: handleWrite
\* unregisters and reads SO_ERROR; an error retries, otherwise kConnected
\* and newConnection (which moves socket_ into the TCPConnection) when
\* connect_, else socket_->Close().  handleError
\* for the EPOLLERR that comes with a failed connect then finds the
\* state no longer kConnecting and does nothing.
handleWrite(err) ==
  /\ ~aborted /\ registered /\ state = "Connecting"
  /\ registered' = FALSE
  /\ \/ /\ err
        /\ retry(connect_, retryIntervalMs, timer)
        /\ UNCHANGED <<connection, closeCb>>
     \/ /\ ~err
        /\ state' = "Connected"
        /\ IF connect_ THEN newConnection ELSE UNCHANGED <<connection, closeCb>>
        /\ fdOpen' = FALSE
        /\ UNCHANGED <<retryIntervalMs, timer>>
  /\ UNCHANGED <<connect_, pending, aborted, lastCall, ops>>

\* Mutation: restart() without its setState(kDisconnected).
removeConnection_noReset ==
  /\ connection' = "none"
  /\ IF Retry /\ connect_
     THEN /\ connect_' = TRUE
          /\ startInLoop(state, TRUE, kInitRetryIntervalMs, timer)
     ELSE UNCHANGED <<connect_, coreVars, aborted>>

\* TCPClient::removeConnection, the close_callback_ newConnection installs:
\* reset connection_, queue ConnectDestroyed, and restart() when retry_
\* and connect_: kDisconnected, interval back to 500, connect_,
\* startInLoop.
removeConnection ==
  /\ connection' = "none"
  /\ IF Retry /\ connect_
     THEN /\ connect_' = TRUE
          /\ startInLoop("Disconnected", TRUE, kInitRetryIntervalMs, timer)
     ELSE UNCHANGED <<connect_, coreVars, aborted>>

\* detail::removeConnection, the close callback ~TCPClient installs:
\* QueueInLoop(ConnectDestroyed); the client is not touched.
detail_removeConnection ==
  /\ connection' = "none"
  /\ UNCHANGED <<connect_, coreVars, aborted>>

\* TCPConnection::handleClose ends with close_callback_(conn).
handleClose ==
  IF closeCb = "client" THEN removeConnection ELSE detail_removeConnection

\* The established connection closes (peer FIN, or the answer to our
\* Shutdown): handleRead reads 0 and runs handleClose.
PeerClose ==
  /\ ~aborted /\ connection # "none"
  /\ handleClose
  /\ UNCHANGED <<pending, closeCb, lastCall, ops>>

\* doPendingFunctors running ~TCPClient's SetCloseCallback(cb).
RunSetCloseCallback ==
  /\ ~aborted /\ pending # <<>> /\ Head(pending) = "setCloseCallback"
  /\ pending' = Tail(pending)
  /\ closeCb' = "detail"
  /\ UNCHANGED <<connect_, coreVars, connection, aborted, lastCall, ops>>

\* TCPConnection::forceCloseInLoop: handleClose, unless already closed.
RunForceCloseInLoop ==
  /\ ~aborted /\ pending # <<>> /\ Head(pending) = "forceCloseInLoop"
  /\ pending' = Tail(pending)
  /\ IF connection # "none" THEN handleClose
     ELSE UNCHANGED <<connect_, coreVars, connection, aborted>>
  /\ UNCHANGED <<closeCb, lastCall, ops>>

-----------------------------------------------------------------------------
Next ==
  \/ Connect \/ Stop \/ Disconnect \/ Destroy
  \/ RunStartInLoop \/ RunStopInLoop \/ TimerFire
  \/ \E err \in BOOLEAN : handleWrite(err)
  \/ PeerClose \/ RunSetCloseCallback \/ RunForceCloseInLoop

\* The loop keeps running its queue and its alarms; the kernel finishes a
\* connect in flight (success or error; EPOLLOUT is level-triggered); the
\* peer answers a Shutdown with its FIN.
Fairness ==
  /\ WF_vars(RunStartInLoop) /\ WF_vars(RunStopInLoop) /\ WF_vars(TimerFire)
  /\ WF_vars(\E err \in BOOLEAN : handleWrite(err))
  /\ WF_vars(RunSetCloseCallback) /\ WF_vars(RunForceCloseInLoop)
  /\ WF_vars(connection = "Disconnecting" /\ PeerClose)

Spec == Init /\ [][Next]_vars /\ Fairness

-----------------------------------------------------------------------------
(* Properties.                                                             *)

\* Types; the retry interval stays on the 500-doubling ladder capped at
\* kMaxRetryIntervalMs (the std::min in TCPClient::retry).
TypeOK ==
  /\ connect_ \in BOOLEAN /\ state \in States
  /\ retryIntervalMs \in RetryIntervals
  /\ timer \in [set : BOOLEAN, alarm : BOOLEAN]
  /\ {registered, fdOpen, aborted} \subseteq BOOLEAN
  /\ connection \in {"none", "Connected", "Disconnecting"}
  /\ closeCb \in {"client", "detail"}
  /\ pending \in Seq({"startInLoop", "stopInLoop", "setCloseCallback",
                      "forceCloseInLoop"})
  /\ lastCall \in Calls \cup {"none"} /\ ops \in Nat

\* No assert() of the client fails: startInLoop's state_ == kDisconnected
\* (reached from Connect, the reconnect timer and restart).
ClientAssertsHold == ~aborted

\* The client is in one phase at a time: waiting for the reconnect alarm
\* (kDisconnected), a connect in flight (kConnecting, registered), or one
\* established connection (kConnected) -- never two sockets at once.
OnePhase ==
  /\ registered => state = "Connecting" /\ ~IsSet(timer) /\ connection = "none"
  /\ connection # "none" => state = "Connected" /\ ~IsSet(timer)
  /\ IsSet(timer) => state = "Disconnected"

\* The client's resources follow its phase: socket_ holds an open fd
\* exactly while a connect is in flight and registered for EPOLLOUT (every
\* failure path of Socket::Connect, retry, and the success path that
\* closes or hands the socket over release it), and the reconnect alarm is
\* registered with the EpollServer exactly while the timer is set (Update,
\* OnAlarm and fire keep deadline_ and the registration together).
ResourcesFollowPhase ==
  /\ fdOpen = registered
  /\ timer.alarm = IsSet(timer)

\* Once ~TCPClient has returned, the loop can run nothing that calls into
\* the destroyed client: no startInLoop functor bound to its raw this is
\* still queued (stopInLoop holds shared_from_this()), no connect of its
\* is registered for EPOLLOUT, no reconnect alarm of its is pending, and a
\* live connection's close callback is no longer TCPClient::removeConnection
\* (the FIXMEs at tcp_client.cc:54 and 167: the peer's close can be
\* handled before the queued SetCloseCallback runs).
NoDanglingClient ==
  lastCall = "Destroy" =>
    /\ \A i \in DOMAIN pending : pending[i] # "startInLoop"
    /\ ~registered /\ ~timer.alarm
    /\ connection # "none" => closeCb = "detail"

\* Every connect in flight ends: handleWrite (or stopInLoop) takes the
\* client out of kConnecting.
AttemptEnds == state = "Connecting" ~> state # "Connecting"

\* After the user's Stop() or Disconnect(), the client starts no new
\* connect (the spec: retry only while the desired-connect flag is set).
StopHonoured ==
  [][(lastCall \in {"Stop", "Disconnect"}) =>
       ~(state' = "Connecting" /\ state # "Connecting")]_vars
=============================================================================
