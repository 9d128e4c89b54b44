---------------------------- MODULE MC_TCPServer ----------------------------
(* TLC instantiation of TCPServer.                                          *)
EXTENDS TCPServer
=============================================================================
