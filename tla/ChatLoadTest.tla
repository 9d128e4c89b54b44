----------------------------- MODULE ChatLoadTest -----------------------------
(***************************************************************************)
(* The chat load test (src/examples/chat/loadtest.cc) against a chat      *)
(* server.  main() puts g_connections ChatClients on the loops of an      *)
(* EventLoopThreadPool (GetNextLoop, round robin; the base loop when      *)
(* threads is 0) and connects them.  Each client's onConnection(up) bumps *)
(* the atomic g_aliveConnections and then reads it: the client that reads *)
(* g_connections arms a send timer, whose send() writes one "hello" on    *)
(* connection_.  The server broadcasts it; each client's onStringMessage  *)
(* bumps the atomic g_messagesReceived and then reads it: the one that    *)
(* reads g_connections queues g_statistic on the base loop.               *)
(*                                                                         *)
(* An atomic increment and the later load are two steps (pc "check"       *)
(* between them); a loop runs one handler at a time, so the steps of      *)
(* clients on one loop do not interleave.  The server is the threaded     *)
(* chat server at the message level: it reads a connection only after its *)
(* own onConnection(up) for it, and sends a message to the connections it *)
(* has registered.  It may close a connection (accept() at EMFILE closes  *)
(* what it accepts; any connection may be reset), and the client's        *)
(* onConnection(down) then resets connection_.  send() on a null          *)
(* connection_ dereferences it: the process crashes and nothing more      *)
(* happens.  A client's send_timer_ before CreateTimer is an unset        *)
(* EpollTimer: neither fires.                                             *)
(***************************************************************************)
EXTENDS Naturals, EpollTimer

CONSTANTS
  NumClients,  \* g_connections, argv[3]
  Threads      \* the pool's thread count, argv[4]

Clients == 1..NumClients

\* main(): SetThreadNum(threads), Start, and clients[i] gets
\* loop_pool.GetNextLoop(): the pool threads' loops 1..Threads round
\* robin, or the base loop 0 when there are none.
LoopOf(i) == IF Threads = 0 THEN 0 ELSE ((i - 1) % Threads) + 1

VARIABLES
  conn,       \* client i's connection_: "connecting", "up" or "down"
  srvConn,    \* the server's side of it: "none", "up" or "closed"
  alive,      \* g_aliveConnections
  connPc,     \* client i between ++g_aliveConnections and the read
  timer,      \* client i's send_timer_
  sentBy,     \* clients whose send() wrote "hello"
  relayed,    \* senders whose "hello" the server has broadcast
  inbox,      \* "hello"s on their way to client i
  received,   \* g_messagesReceived
  msgPc,      \* client i between ++g_messagesReceived and the read
  statQ,      \* times g_statistic was queued
  crashed     \* a send() dereferenced a null connection_

vars == <<conn, srvConn, alive, connPc, timer, sentBy, relayed, inbox,
          received, msgPc, statQ, crashed>>

\* No handler of a client on i's loop is half done.
LoopFree(i) ==
  /\ ~crashed
  /\ \A j \in Clients :
       LoopOf(j) = LoopOf(i) => connPc[j] = "idle" /\ msgPc[j] = "idle"

\* The clients constructed (no send_timer_ yet) and Connect()ed.
Init ==
  /\ conn = [i \in Clients |-> "connecting"]
  /\ srvConn = [i \in Clients |-> "none"]
  /\ alive = 0 /\ received = 0 /\ statQ = 0 /\ crashed = FALSE
  /\ connPc = [i \in Clients |-> "idle"] /\ msgPc = [i \in Clients |-> "idle"]
  /\ timer = [i \in Clients |-> NewTimer]
  /\ sentBy = {} /\ relayed = {}
  /\ inbox = [i \in Clients |-> 0]

-----------------------------------------------------------------------------
(* ChatClient.                                                             *)

\* onConnection(up): connection_ = conn; ++g_aliveConnections.
onConnection(i) ==
  /\ conn[i] = "connecting" /\ srvConn[i] # "closed" /\ LoopFree(i)
  /\ conn' = [conn EXCEPT ![i] = "up"]
  /\ alive' = alive + 1
  /\ connPc' = [connPc EXCEPT ![i] = "check"]
  /\ UNCHANGED <<srvConn, timer, sentBy, relayed, inbox, received, msgPc,
                 statQ, crashed>>

\* if (g_aliveConnections == g_connections): send_timer_ =
\* CreateTimer(send), Set(now + 10 s).
allConnected(i) ==
  /\ connPc[i] = "check" /\ ~crashed
  /\ connPc' = [connPc EXCEPT ![i] = "idle"]
  /\ timer' = IF alive = NumClients THEN [timer EXCEPT ![i] = Set(CreateTimer)]
                                    ELSE timer
  /\ UNCHANGED <<conn, srvConn, alive, sentBy, relayed, inbox, received,
                 msgPc, statQ, crashed>>

\* onConnection(down), when the server has closed the connection:
\* connection_.reset().  g_aliveConnections stays as it is.
onConnectionDown(i) ==
  /\ conn[i] = "up" /\ srvConn[i] = "closed" /\ LoopFree(i)
  /\ conn' = [conn EXCEPT ![i] = "down"]
  /\ UNCHANGED <<srvConn, alive, connPc, timer, sentBy, relayed, inbox,
                 received, msgPc, statQ, crashed>>

\* The send timer's alarm: fire() calls send(), which writes "hello" with
\* codec_.Send(connection_.get(), ...): on a reset connection_, a null
\* dereference.
send(i) ==
  /\ timer[i].alarm /\ LoopFree(i)
  /\ timer' = [timer EXCEPT ![i] = OnAlarm(@)]
  /\ IF Fires(timer[i]) /\ conn[i] = "up"
     THEN sentBy' = sentBy \cup {i} /\ UNCHANGED crashed
     ELSE crashed' = Fires(timer[i]) /\ UNCHANGED sentBy
  /\ UNCHANGED <<conn, srvConn, alive, connPc, relayed, inbox, received,
                 msgPc, statQ>>

\* onStringMessage: ++g_messagesReceived.
onStringMessage(i) ==
  /\ inbox[i] > 0 /\ conn[i] = "up" /\ LoopFree(i)
  /\ inbox' = [inbox EXCEPT ![i] = @ - 1]
  /\ received' = received + 1
  /\ msgPc' = [msgPc EXCEPT ![i] = "check"]
  /\ UNCHANGED <<conn, srvConn, alive, connPc, timer, sentBy, relayed, statQ,
                 crashed>>

\* int received = g_messagesReceived; if (received == g_connections)
\* g_loop->QueueInLoop(g_statistic).
allReceived(i) ==
  /\ msgPc[i] = "check" /\ ~crashed
  /\ msgPc' = [msgPc EXCEPT ![i] = "idle"]
  /\ statQ' = IF received = NumClients THEN statQ + 1 ELSE statQ
  /\ UNCHANGED <<conn, srvConn, alive, connPc, timer, sentBy, relayed, inbox,
                 received, crashed>>

-----------------------------------------------------------------------------
(* The chat server.                                                        *)

\* The server's onConnection(up) for client i's connection.
ServerConnection(i) ==
  /\ srvConn[i] = "none" /\ ~crashed
  /\ srvConn' = [srvConn EXCEPT ![i] = "up"]
  /\ UNCHANGED <<conn, alive, connPc, timer, sentBy, relayed, inbox, received,
                 msgPc, statQ, crashed>>

\* The server closes client i's connection: the codec's Shutdown on an
\* invalid length header (any close by the server leads to the same state).
ServerClose(i) ==
  /\ srvConn[i] # "closed" /\ ~crashed
  /\ srvConn' = [srvConn EXCEPT ![i] = "closed"]
  /\ UNCHANGED <<conn, alive, connPc, timer, sentBy, relayed, inbox, received,
                 msgPc, statQ, crashed>>

\* The server reads sender i's "hello" and sends it to every connection
\* it has.
ServerBroadcast(i) ==
  /\ i \in sentBy \ relayed /\ srvConn[i] = "up" /\ ~crashed
  /\ relayed' = relayed \cup {i}
  /\ inbox' = [j \in Clients |-> IF srvConn[j] = "up" THEN inbox[j] + 1
                                                      ELSE inbox[j]]
  /\ UNCHANGED <<conn, srvConn, alive, connPc, timer, sentBy, received, msgPc,
                 statQ, crashed>>

Next ==
  \E i \in Clients :
    \/ onConnection(i) \/ allConnected(i) \/ onConnectionDown(i) \/ send(i)
    \/ onStringMessage(i) \/ allReceived(i)
    \/ ServerConnection(i) \/ ServerClose(i) \/ ServerBroadcast(i)

\* Every loop runs its handlers and alarms.
Spec == Init /\ [][Next]_vars /\ WF_vars(Next)

-----------------------------------------------------------------------------
(* Properties.                                                             *)

\* g_statistic, the report of the run, is queued once: of the clients'
\* onStringMessage calls, exactly one reads g_messagesReceived at
\* g_connections (loadtest.cc:67-73).
StatisticOnce == statQ <= 1
=============================================================================
