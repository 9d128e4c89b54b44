----------------------------- MODULE ChatServer -----------------------------
(***************************************************************************)
(* The multi-threaded chat servers of src/examples/chat on top of         *)
(* TCPServer.tla: each keeps the live connections and, on every message   *)
(* a connection's codec decodes, sends it to all of them.  The four       *)
(* variants differ in where the set lives and who may touch it:           *)
(*   "single"          (server.cc): one set, no lock, no SetThreadNum: all *)
(*                     connections are on the base loop;                   *)
(*   "threaded"        (server_threaded.cc): one set under mutex_, the    *)
(*                     broadcast iterates it holding the lock;             *)
(*   "efficient"       (server_threaded_efficient.cc): a copy-on-write     *)
(*                     shared_ptr<set>; the broadcast copies the pointer   *)
(*                     under the lock and iterates outside it;             *)
(*   "highperformance" (server_threaded_highperformance.cc): a            *)
(*                     thread_local set per io loop, made by the           *)
(*                     ThreadInitCallback, and a broadcast that queues     *)
(*                     distributeMessage on every loop in loops_.          *)
(* The connection callback onConnection runs on the connection's io loop  *)
(* in ConnectEstablished (up) and in handleClose (down, before the close   *)
(* callback), so it is composed with those steps of TCPServer.tla.  A     *)
(* connection is its index in conns; a message is a model value that one   *)
(* connection sends once.  codec_.Send is recorded in sentTo.  Running     *)
(* onStringMessage occupies the sender's io loop: the efficient           *)
(* broadcast's iteration is one step per connection, and that loop runs   *)
(* nothing else meanwhile (Busy).                                          *)
(***************************************************************************)
EXTENDS TCPServer

CONSTANTS
  Variants,  \* the chat servers checked, a subset of the four
  Msgs       \* the messages clients send

ASSUME Variants \subseteq {"single", "threaded", "efficient", "highperformance"}

Loops == 0..MaxThreads

VARIABLES
  variant,      \* which chat server runs
  connections,  \* connections_ (threaded; efficient: the current list)
  readers,      \* efficient broadcasts in progress: [msg, loop, snap,
                \* view, alias, sent]; alias: view is connections_ itself
  local,        \* highperformance: each io thread's localConnections
  chatLoops,    \* highperformance: loops_
  distQ,        \* distributeMessage functors queued on each loop
  received,     \* messages onStringMessage has been called with
  due,          \* for each message, the connections up when it arrived
                \* and not closed since
  sentTo        \* for each message, the connections codec_.Send was
                \* called on

chatVars == <<variant, connections, readers, local, chatLoops, distQ,
              received, due, sentTo>>
allVars == <<vars, chatVars>>

\* The connections up now: onConnection(up) has run, onConnection(down) not.
Up == {k \in DOMAIN conns : conns[k].stage = "up"}

\* Loops inside onStringMessage.
Busy == {r.loop : r \in readers}

InsertOrErase(S, k, up) == IF up THEN S \cup {k} ELSE S \ {k}

ChatInit ==
  /\ Init
  /\ variant \in Variants
  /\ connections = {} /\ readers = {}
  /\ local = [l \in Loops |-> {}] /\ chatLoops = {}
  /\ distQ = [l \in Loops |-> <<>>]
  /\ received = {}
  /\ due = [m \in Msgs |-> {}] /\ sentTo = [m \in Msgs |-> {}]

-----------------------------------------------------------------------------
(* onConnection, per variant.  k is the connection, l its io loop.         *)

\* server.cc: insert or erase, on the one loop.
onConnection_single(k, l, up) ==
  /\ connections' = InsertOrErase(connections, k, up)
  /\ UNCHANGED <<readers, local>>

\* server_threaded.cc: insert or erase under mutex_.
onConnection_threaded(k, l, up) ==
  /\ connections' = InsertOrErase(connections, k, up)
  /\ UNCHANGED <<readers, local>>

\* Mutation: the efficient server modifies connections_ in place even when
\* a broadcast shares it.
onConnection_efficient_noCopy(k, l, up) ==
  /\ connections' = InsertOrErase(connections, k, up)
  /\ readers' = {IF r.alias
                 THEN [r EXCEPT !.view = InsertOrErase(@, k, up)] ELSE r :
                 r \in readers}
  /\ UNCHANGED local

\* server_threaded_efficient.cc: under mutex_, when connections_ is not
\* unique() (a broadcast holds it) reset it to a fresh copy, which leaves
\* the broadcasts with the old list; then insert or erase in the list that
\* is now unique.
onConnection_efficient(k, l, up) ==
  /\ connections' = InsertOrErase(connections, k, up)
  /\ readers' = {[r EXCEPT !.alias = FALSE] : r \in readers}
  /\ UNCHANGED local

\* server_threaded_highperformance.cc: insert or erase in this io thread's
\* localConnections.
onConnection_highperformance(k, l, up) ==
  /\ local' = [local EXCEPT ![l] = InsertOrErase(@, k, up)]
  /\ UNCHANGED <<connections, readers>>

onConnection(k, l, up) ==
  CASE variant = "single" -> onConnection_single(k, l, up)
    [] variant = "threaded" -> onConnection_threaded(k, l, up)
    [] variant = "efficient" -> onConnection_efficient(k, l, up)
    [] variant = "highperformance" -> onConnection_highperformance(k, l, up)

-----------------------------------------------------------------------------
(* onStringMessage, per variant: the codec on k's io loop l decoded m.     *)

\* server.cc: codec_.Send(m) to every connection.
onStringMessage_single(k, l, m) ==
  /\ sentTo' = [sentTo EXCEPT ![m] = connections]
  /\ UNCHANGED <<readers, distQ>>

\* server_threaded.cc: under mutex_, codec_.Send(m) to every connection.
onStringMessage_threaded(k, l, m) ==
  /\ sentTo' = [sentTo EXCEPT ![m] = connections]
  /\ UNCHANGED <<readers, distQ>>

\* server_threaded_efficient.cc: getConnectionList copies the
\* ConnectionListPtr under mutex_; the loop over it is SendNext below.
getConnectionList(k, l, m) ==
  /\ readers' = readers \cup
       {[msg |-> m, loop |-> l, snap |-> connections, view |-> connections,
         alias |-> TRUE, sent |-> {}]}
  /\ UNCHANGED <<sentTo, distQ>>

\* Mutation: distributeMessage is queued on the sender's own loop only.
onStringMessage_highperformance_ownLoop(k, l, m) ==
  /\ distQ' = [distQ EXCEPT ![l] = Append(@, m)]
  /\ UNCHANGED <<readers, sentTo>>

\* server_threaded_highperformance.cc: under mutex_,
\* QueueInLoop(distributeMessage(m)) on every loop in loops_.
onStringMessage_highperformance(k, l, m) ==
  /\ distQ' = [j \in Loops |-> IF j \in chatLoops THEN Append(distQ[j], m)
                                                  ELSE distQ[j]]
  /\ UNCHANGED <<readers, sentTo>>

onStringMessage(k, l, m) ==
  CASE variant = "single" -> onStringMessage_single(k, l, m)
    [] variant = "threaded" -> onStringMessage_threaded(k, l, m)
    [] variant = "efficient" -> getConnectionList(k, l, m)
    [] variant = "highperformance" -> onStringMessage_highperformance(k, l, m)

\* highperformance threadInit, the pool's ThreadInitCallback, on each loop
\* that gets one (ls): a fresh localConnections, and loops_.insert(loop).
\* The other servers set no callback.
threadInit(ls) ==
  chatLoops' = IF variant = "highperformance" THEN ls ELSE chatLoops

-----------------------------------------------------------------------------
(* Steps.                                                                  *)

\* The codec on connection k's io loop decodes m: onStringMessage.
Receive(k, m) ==
  /\ conns[k].stage = "up" /\ conns[k].loop \notin Busy
  /\ m \notin received
  /\ received' = received \cup {m}
  /\ due' = [due EXCEPT ![m] = Up]
  /\ onStringMessage(k, conns[k].loop, m)
  /\ UNCHANGED <<vars, variant, connections, local, chatLoops>>

\* The efficient onStringMessage's loop: codec_.Send to the next
\* connection of the list it holds.
SendNext(r) ==
  /\ \E c \in r.view \ r.sent :
       /\ sentTo' = [sentTo EXCEPT ![r.msg] = @ \cup {c}]
       /\ readers' = (readers \ {r}) \cup {[r EXCEPT !.sent = @ \cup {c}]}
  /\ UNCHANGED <<vars, variant, connections, local, chatLoops, distQ,
                 received, due>>

\* The loop ends and onStringMessage returns, dropping its list.
EndBroadcast(r) ==
  /\ r.view \subseteq r.sent
  /\ readers' = readers \ {r}
  /\ UNCHANGED <<vars, variant, connections, local, chatLoops, distQ,
                 received, due, sentTo>>

\* highperformance distributeMessage, run by loop l's doPendingFunctors:
\* codec_.Send to every connection in this thread's localConnections.
distributeMessage(l) ==
  /\ l \notin Busy /\ distQ[l] # <<>>
  /\ sentTo' = [sentTo EXCEPT ![Head(distQ[l])] = @ \cup local[l]]
  /\ distQ' = [distQ EXCEPT ![l] = Tail(@)]
  /\ UNCHANGED <<vars, variant, connections, readers, local, chatLoops,
                 received, due>>

\* ChatServer::Start (highperformance: SetThreadInitCallback first) and
\* TCPServer::Start.
ChatStart ==
  /\ Base \notin Busy
  /\ Start
  /\ threadInit(initDone')
  /\ UNCHANGED <<variant, connections, readers, local, distQ, received, due,
                 sentTo>>

\* Accepting on the base loop: a connection given to the base loop itself
\* is established inline, and onConnection(up) runs in the same handler.
ChatHandleRead ==
  /\ Base \notin Busy
  /\ handleRead
  /\ IF Len(conns') > Len(conns) /\ conns'[Len(conns')].stage = "up"
     THEN onConnection(Len(conns'), Base, TRUE)
     ELSE UNCHANGED <<connections, readers, local>>
  /\ UNCHANGED <<variant, chatLoops, distQ, received, due, sentTo>>

\* ConnectEstablished on the io loop calls onConnection(up).
ChatConnectEstablished(k) ==
  /\ conns[k].loop \notin Busy
  /\ ConnectEstablished(k)
  /\ onConnection(k, conns[k].loop, TRUE)
  /\ UNCHANGED <<variant, chatLoops, distQ, received, due, sentTo>>

\* handleClose calls onConnection(down), then the close callback.
ChatRemoveConnection(k) ==
  /\ conns[k].loop \notin Busy
  /\ removeConnection(k)
  /\ onConnection(k, conns[k].loop, FALSE)
  /\ due' = [m \in Msgs |-> due[m] \ {k}]
  /\ UNCHANGED <<variant, chatLoops, distQ, received, sentTo>>

ChatRemoveInLoop(k) ==
  Base \notin Busy /\ RemoveInLoop(k) /\ UNCHANGED chatVars

ChatConnectDestroyed(k) ==
  conns[k].loop \notin Busy /\ ConnectDestroyed(k) /\ UNCHANGED chatVars

\* main() calls SetThreadNum with argv[2]; server.cc has no such call.
ChatSetThreadNum(n) ==
  variant # "single" /\ SetThreadNum(n) /\ UNCHANGED chatVars

ChatNext ==
  \/ \E n \in 0..MaxThreads : ChatSetThreadNum(n)
  \/ ClientConnect /\ UNCHANGED chatVars
  \/ ChatStart \/ ChatHandleRead
  \/ \E k \in DOMAIN conns :
       \/ ChatConnectEstablished(k) \/ ChatRemoveConnection(k)
       \/ ChatRemoveInLoop(k) \/ ChatConnectDestroyed(k)
       \/ \E m \in Msgs : Receive(k, m)
  \/ \E r \in readers : SendNext(r) \/ EndBroadcast(r)
  \/ \E l \in Loops : distributeMessage(l)

\* Every loop runs its handlers and queued functors, and a running
\* onStringMessage finishes its loop.
ChatFairness ==
  /\ WF_allVars(ChatHandleRead)
  /\ \A k \in 1..MaxConns :
       /\ WF_allVars(k \in DOMAIN conns /\ ChatRemoveInLoop(k))
       /\ WF_allVars(k \in DOMAIN conns /\ ChatConnectEstablished(k))
       /\ WF_allVars(k \in DOMAIN conns /\ ChatConnectDestroyed(k))
  /\ WF_allVars(\E r \in readers : SendNext(r) \/ EndBroadcast(r))
  /\ \A l \in Loops : WF_allVars(distributeMessage(l))

ChatSpec == ChatInit /\ [][ChatNext]_allVars /\ ChatFairness

-----------------------------------------------------------------------------
(* Properties.                                                             *)

\* A message whose broadcast is over (no loop over it in progress, no
\* distributeMessage for it queued) has been sent to every connection
\* that was up when it arrived and is still up: across the efficient
\* server's copy-on-write and the high-performance server's per-thread
\* lists and queued functors, whatever opened or closed in between.
BroadcastReachesAll ==
  \A m \in received :
    /\ ~\E r \in readers : r.msg = m
    /\ \A l \in Loops : \A i \in DOMAIN distQ[l] : distQ[l][i] # m
    => due[m] \subseteq sentTo[m]

\* An efficient broadcast iterates an unchanging list: onConnection on
\* another io thread never inserts into or erases from the list a loop is
\* iterating (which would invalidate its iterator).
IterationStable == \A r \in readers : r.view = r.snap
====
