---------------------------- MODULE MC_EventLoop ----------------------------
(* TLC instantiation of EventLoop: the other thread queues a and quits;   *)
(* a queues b when it runs (inside doPendingFunctors); an event callback  *)
(* queues c.  The loop is owned either by its caller or by an            *)
(* EventLoopThread.                                                        *)
EXTENDS EventLoop, TLC

CONSTANTS a, b, c, quitFn

MCForeign == {a}
MCLoop == {c}
MCChain == a :> b
BothQuits == {"queued", "direct"}
DirectQuit == {"direct"}
BothOwners == {"caller", "EventLoopThread"}
CallerOwned == {"caller"}
ThreadOwned == {"EventLoopThread"}
=============================================================================
