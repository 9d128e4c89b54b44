------------------------- MODULE MC_TCPConnection --------------------------
(* Model-checking instance of TCPConnection: one foreign user thread, two *)
(* two-byte messages, a high-water mark of three bytes (one message below,*)
(* two messages above) and at most three API calls.                       *)
EXTENDS TCPConnection, TLC

CONSTANTS u1, m1, m2

MCUsers == {u1}
MCMsgs == {m1, m2}
AllAPIs == APIs
SendOnly == {"Send"}
ShutdownOnly == {"Shutdown"}
ForceCloseOnly == {"ForceClose"}
\* the foreign calls that cannot write state_ after handleClose
SendAndRead == {"Send", "StartRead", "StopRead"}
NoOps == {}
=============================================================================
