---------------------------- MODULE MC_TCPClient ----------------------------
(* TLC instantiation of TCPClient: which calls the user thread makes.       *)
EXTENDS ChatClient

AllCalls == {"Connect", "Stop", "Disconnect", "Destroy"}
ConnectDisconnectDestroy == {"Connect", "Disconnect", "Destroy"}
ConnectStop == {"Connect", "Stop"}
ConnectDisconnect == {"Connect", "Disconnect"}
=============================================================================
