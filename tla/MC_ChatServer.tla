---------------------------- MODULE MC_ChatServer ----------------------------
(* TLC instantiation of ChatServer: all four servers, two messages.        *)
EXTENDS ChatServer

CONSTANTS m1, m2

MCMsgs == {m1, m2}
AllVariants == {"single", "threaded", "efficient", "highperformance"}
==============================================================================
