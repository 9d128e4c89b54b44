----------------------------- MODULE ChatClient -----------------------------
(***************************************************************************)
(* The chat client (src/examples/chat/client.cc) on top of TCPClient.tla. *)
(* main() makes a ChatClient on an EventLoopThread's loop (EnableRetry),  *)
(* Connects, hands every stdin line to Write on the main thread,          *)
(* Disconnects and, a second later, destroys the ChatClient.              *)
(*                                                                         *)
(* ChatClient::onConnection is the connection callback TCPClient gives    *)
(* every connection it makes: ConnectEstablished, run inline by           *)
(* newConnection inside handleWrite, calls it with the connection up, and *)
(* handleClose calls it with the connection down just before the close    *)
(* callback.  Both are composed with those steps of TCPClient.tla.        *)
(* Destroying the ChatClient runs its members' destructors in reverse     *)
(* order: connection_, mutex_ and codec_, and then client_                *)
(* (~TCPClient, TCPClient.tla's Destroy).  A callback that runs after     *)
(* that is a call into the destroyed object, recorded in calledDead.      *)
(* TCPClient::Stop is not a ChatClient call; it stays in the spec so that *)
(* the library client is checked under its whole API.                     *)
(***************************************************************************)
EXTENDS TCPClient

VARIABLES
  chatConn,    \* ChatClient::connection_ is set
  chatAlive,   \* the ChatClient has not been destroyed
  calledDead,  \* onConnection ran on the destroyed ChatClient
  writes,      \* lines main() has passed to Write
  sentLines    \* lines Write handed to codec_.Send

chatVars == <<chatConn, chatAlive, calledDead, writes, sentLines>>
allVars == <<vars, chatVars>>

\* ChatClient's constructor: the TCPClient with its callbacks, retry
\* enabled, connection_ empty.
ChatInit ==
  /\ Init
  /\ chatConn = FALSE /\ chatAlive = TRUE /\ calledDead = FALSE
  /\ writes = 0 /\ sentLines = 0

\* Mutation: the down branch leaves connection_ set.
onConnection_noReset(up) ==
  IF chatAlive THEN chatConn' = (chatConn \/ up) /\ UNCHANGED calledDead
               ELSE calledDead' = TRUE /\ UNCHANGED chatConn

\* ChatClient::onConnection: under mutex_, connection_ = conn when it is
\* connected, else connection_.reset().
onConnection(up) ==
  IF chatAlive THEN chatConn' = up /\ UNCHANGED calledDead
               ELSE calledDead' = TRUE /\ UNCHANGED chatConn

-----------------------------------------------------------------------------
(* The main thread.                                                        *)

ChatConnect == Connect /\ UNCHANGED chatVars

ChatDisconnect == Disconnect /\ UNCHANGED chatVars

ChatStop == Stop /\ UNCHANGED chatVars

\* ChatClient::Write: under mutex_, codec_.Send on connection_ if it is
\* set; the line is dropped otherwise.  main() stops writing before it
\* destroys the client.
Write ==
  /\ ~aborted /\ chatAlive /\ writes < MaxOps
  /\ writes' = writes + 1
  /\ sentLines' = IF chatConn THEN sentLines + 1 ELSE sentLines
  /\ UNCHANGED <<vars, chatConn, chatAlive, calledDead>>

\* The end of main()'s scope: ~ChatClient drops connection_, then
\* ~TCPClient runs.
ChatDestroy ==
  /\ Destroy
  /\ chatAlive' = FALSE /\ chatConn' = FALSE
  /\ UNCHANGED <<calledDead, writes, sentLines>>

-----------------------------------------------------------------------------
(* The loop thread.                                                        *)

\* handleWrite; when it makes a connection, ConnectEstablished calls
\* onConnection(up).
ChatHandleWrite(err) ==
  /\ handleWrite(err)
  /\ IF connection = "none" /\ connection' # "none"
     THEN onConnection(TRUE) ELSE UNCHANGED <<chatConn, calledDead>>
  /\ UNCHANGED <<chatAlive, writes, sentLines>>

\* handleClose: onConnection(down), then the close callback.
ChatPeerClose ==
  /\ PeerClose
  /\ onConnection(FALSE)
  /\ UNCHANGED <<chatAlive, writes, sentLines>>

ChatRunForceCloseInLoop ==
  /\ RunForceCloseInLoop
  /\ IF connection # "none" THEN onConnection(FALSE)
                            ELSE UNCHANGED <<chatConn, calledDead>>
  /\ UNCHANGED <<chatAlive, writes, sentLines>>

\* The loop steps that call nothing of ChatClient.
ChatLoopStep ==
  /\ RunStartInLoop \/ RunStopInLoop \/ TimerFire \/ RunSetCloseCallback
  /\ UNCHANGED chatVars

ChatNext ==
  \/ ChatConnect \/ ChatStop \/ ChatDisconnect \/ Write \/ ChatDestroy
  \/ ChatLoopStep \/ \E err \in BOOLEAN : ChatHandleWrite(err)
  \/ ChatPeerClose \/ ChatRunForceCloseInLoop

\* TCPClient's fairness, on the composed steps.
ChatFairness ==
  /\ WF_allVars(RunStartInLoop /\ UNCHANGED chatVars)
  /\ WF_allVars(RunStopInLoop /\ UNCHANGED chatVars)
  /\ WF_allVars(TimerFire /\ UNCHANGED chatVars)
  /\ WF_allVars(RunSetCloseCallback /\ UNCHANGED chatVars)
  /\ WF_allVars(\E err \in BOOLEAN : ChatHandleWrite(err))
  /\ WF_allVars(ChatRunForceCloseInLoop)
  /\ WF_allVars(connection = "Disconnecting" /\ ChatPeerClose)

ChatSpec == ChatInit /\ [][ChatNext]_allVars /\ ChatFairness

-----------------------------------------------------------------------------
(* Properties.                                                             *)

\* While the ChatClient lives, its connection_ is set exactly while
\* TCPClient holds a connection: a line Write passes on goes to the
\* connection of the current attempt, and once that connection has closed
\* (before a reconnect, or after the peer went away) Write drops the line
\* rather than sending on the closed one.
ConnectionMirrors == chatAlive => (chatConn <=> connection # "none")

\* No connection callback runs on the destroyed ChatClient (client.cc:75:
\* main() waits a fixed second after Disconnect before destroying it).
NoCallIntoDestroyedChatClient == ~calledDead
=============================================================================
