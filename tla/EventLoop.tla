----------------------------- MODULE EventLoop -----------------------------
(***************************************************************************)
(* raner::EventLoop (src/raner/event_loop.cc): the loop thread's          *)
(* while (!quit_) { poll; doPendingFunctors(); }, the mutex-guarded       *)
(* pending_functors_ that doPendingFunctors swaps out and runs in order,  *)
(* QueueInLoop's wake-up rule and Quit, with one other thread that queues *)
(* functors and quits the loop.                                           *)
(*                                                                         *)
(* A functor is a model value.  Chain[f] is what f queues when it runs    *)
(* (QueueInLoop from the loop thread inside doPendingFunctors), QuitFn is *)
(* bind(&EventLoop::Quit, loop) as ~EventLoopThread queues it, and the    *)
(* loop's own event callbacks queue LoopFunctors during the poll.  The    *)
(* poll returns on the wake-up fd, on an event, or on its 10 ms timeout;  *)
(* the timeout is not fair, so the liveness properties say the wake-ups   *)
(* alone keep the loop moving.                                            *)
(*                                                                         *)
(* Who owns the loop is chosen at the start (Owners):                     *)
(*  - "caller": the loop is a stack object of the thread that calls       *)
(*    Loop() and outlives the other thread, as the tests' main loops do;  *)
(*    the other thread queues functors, a queued Quit, or calls Quit().   *)
(*  - "EventLoopThread": the loop lives in EventLoopThread::run on its own*)
(*    thread and dies when Loop() returns; the other thread is the owner  *)
(*    of the EventLoopThread: StartLoop, functors, then ~EventLoopThread, *)
(*    which queues Quit and joins.                                        *)
(***************************************************************************)
EXTENDS Naturals, Sequences, SequencesExt

CONSTANTS
  ForeignFunctors,  \* functors the other thread queues, each once
  LoopFunctors,     \* functors an event callback queues during the poll
  Chain,            \* [f |-> g]: running f calls QueueInLoop(g)
  QuitFn,           \* the functor bind(&EventLoop::Quit, loop)
  QuitModes,        \* how the other thread quits the loop: "queued" is
                    \* QueueInLoop(QuitFn), "direct" is Quit()
  QuitEarly,        \* whether a direct Quit() may come before Loop() starts
  Owners            \* subset of {"caller", "EventLoopThread"}

Functors == ForeignFunctors \cup LoopFunctors \cup
            {Chain[f] : f \in DOMAIN Chain} \cup {QuitFn}

VARIABLES
  owner,     \* "caller" or "EventLoopThread"
  lpc,       \* loop thread: "ctor" (run() before loop_ is published),
             \* "init" (before Loop), "top", "poll", "swap", "drain",
             \* "done" (Loop returned), "exit" (loop_ = NULL), "gone"
             \* (~EventLoop ran: the loop object is destroyed)
  quit_,
  calling,   \* calling_pending_functors_
  pending,   \* pending_functors_
  running,   \* the swapped-out vector doPendingFunctors is running
  wake,      \* the EpollServer's wake-up fd is readable
  tpc,       \* the other thread: "start" (in StartLoop), "idle", "wake"
             \* (between QueueInLoop's unlock, or Quit's store, and Wake()),
             \* "dwake" (the same inside ~EventLoopThread), "join",
             \* "joined"
  quitAsked, \* the other thread has asked the loop to quit
  queued,    \* every functor ever pushed, in push order
  ran        \* every functor run, in run order

vars == <<owner, lpc, quit_, calling, pending, running, wake, tpc, quitAsked,
          queued, ran>>

Threaded == owner = "EventLoopThread"

Init ==
  /\ owner \in Owners
  /\ lpc = IF Threaded THEN "ctor" ELSE "init"
  /\ tpc = IF Threaded THEN "start" ELSE "idle"
  /\ quit_ = FALSE /\ calling = FALSE
  /\ pending = <<>> /\ running = <<>> /\ wake = FALSE
  /\ quitAsked = FALSE /\ queued = <<>> /\ ran = <<>>

Pushed(f) == f \in ToSet(queued)

-----------------------------------------------------------------------------
(* The other thread.                                                       *)

\* EventLoopThread::StartLoop: start the thread, then wait on
\* condition_variable_ until run() has published loop_.
StartLoop ==
  /\ tpc = "start" /\ lpc # "ctor"
  /\ tpc' = "idle"
  /\ UNCHANGED <<owner, lpc, quit_, calling, pending, running, wake, quitAsked,
                 queued, ran>>

\* EventLoop::QueueInLoop from another thread: push under mutex_, then,
\* since !IsInLoopThread(), Wake() after the unlock.  The queued Quit of a
\* caller-owned loop is the tests' QueueInLoop(bind(&EventLoop::Quit, ..)).
ForeignQueue(f) ==
  /\ tpc = "idle" /\ ~Pushed(f)
  /\ \/ f \in ForeignFunctors
     \/ f = QuitFn /\ "queued" \in QuitModes /\ ~Threaded
  /\ pending' = Append(pending, f) /\ queued' = Append(queued, f)
  /\ tpc' = "wake"
  /\ quitAsked' = (quitAsked \/ f = QuitFn)
  /\ UNCHANGED <<owner, lpc, quit_, calling, running, wake, ran>>

\* EventLoop::Quit from another thread on a caller-owned loop
\* (quitMainLoop in event_loop_thread_test.cc): quit_ = true, then Wake().
ForeignQuit ==
  /\ tpc = "idle" /\ "direct" \in QuitModes /\ ~quitAsked /\ ~Threaded
  /\ QuitEarly \/ lpc # "init"
  /\ quit_' = TRUE /\ quitAsked' = TRUE
  /\ tpc' = "wake"
  /\ UNCHANGED <<owner, lpc, calling, pending, running, wake, queued, ran>>

\* Mutation: ~EventLoopThread joins without queueing Quit.
EventLoopThreadDtor_noQuit ==
  /\ Threaded /\ tpc = "idle"
  /\ tpc' = "join"
  /\ UNCHANGED <<owner, lpc, quit_, calling, pending, running, wake, quitAsked,
                 queued, ran>>

\* ~EventLoopThread: exiting_ = true; loop_ is set (StartLoop returned), so
\* loop_->QueueInLoop(bind(&EventLoop::Quit, loop_)): push under the
\* loop's mutex_; its Wake() and the join follow.
EventLoopThreadDtor ==
  /\ Threaded /\ tpc = "idle"
  /\ pending' = Append(pending, QuitFn) /\ queued' = Append(queued, QuitFn)
  /\ quitAsked' = TRUE
  /\ tpc' = "dwake"
  /\ UNCHANGED <<owner, lpc, quit_, calling, running, wake, ran>>

\* The Wake() that ends QueueInLoop or Quit: it writes the loop's wake-up
\* fd, on whatever the loop object is by then.
ForeignWake ==
  /\ tpc \in {"wake", "dwake"}
  /\ wake' = TRUE
  /\ tpc' = IF tpc = "wake" THEN "idle" ELSE "join"
  /\ UNCHANGED <<owner, lpc, quit_, calling, pending, running, quitAsked,
                 queued, ran>>

\* thread_->join() returns once run() has returned.
Join ==
  /\ tpc = "join" /\ lpc = "gone"
  /\ tpc' = "joined"
  /\ UNCHANGED <<owner, lpc, quit_, calling, pending, running, wake, quitAsked,
                 queued, ran>>

-----------------------------------------------------------------------------
(* The loop thread.                                                        *)

\* EventLoopThread::run: construct the loop, run callback_, and under
\* mutex_ set loop_ = &loop and notify StartLoop.
Publish ==
  /\ lpc = "ctor"
  /\ lpc' = "init"
  /\ UNCHANGED <<owner, quit_, calling, pending, running, wake, tpc, quitAsked,
                 queued, ran>>

\* EventLoop::Loop: assert(!looping_), quit_ = false, enter the while.
Loop ==
  /\ lpc = "init"
  /\ quit_' = FALSE /\ lpc' = "top"
  /\ UNCHANGED <<owner, calling, pending, running, wake, tpc, quitAsked, queued,
                 ran>>

\* The while (!quit_) test.
LoopTest ==
  /\ lpc = "top"
  /\ lpc' = IF quit_ THEN "done" ELSE "poll"
  /\ UNCHANGED <<owner, quit_, calling, pending, running, wake, tpc, quitAsked,
                 queued, ran>>

\* WaitForEventsAndExecuteCallbacks returns because the wake-up fd was
\* readable (its handler reads it).
PollWake ==
  /\ lpc = "poll" /\ wake
  /\ wake' = FALSE /\ lpc' = "swap"
  /\ UNCHANGED <<owner, quit_, calling, pending, running, tpc, quitAsked, queued,
                 ran>>

\* An fd event whose callback calls QueueInLoop(g) on the loop thread:
\* not calling_pending_functors_, so no Wake().
PollEvent(g) ==
  /\ lpc = "poll" /\ g \in LoopFunctors /\ ~Pushed(g)
  /\ pending' = Append(pending, g) /\ queued' = Append(queued, g)
  /\ lpc' = "swap"
  /\ UNCHANGED <<owner, quit_, calling, running, wake, tpc, quitAsked, ran>>

\* The poll times out (kPollTimeMs).
PollTimeout ==
  /\ lpc = "poll"
  /\ lpc' = "swap"
  /\ UNCHANGED <<owner, quit_, calling, pending, running, wake, tpc, quitAsked,
                 queued, ran>>

\* Mutation: doPendingFunctors copies the queue instead of swapping it.
Swap_copy ==
  /\ lpc = "swap"
  /\ calling' = TRUE
  /\ running' = pending
  /\ lpc' = "drain"
  /\ UNCHANGED <<owner, quit_, pending, wake, tpc, quitAsked, queued, ran>>

\* doPendingFunctors: calling_pending_functors_ = true, swap under mutex_.
Swap ==
  /\ lpc = "swap"
  /\ calling' = TRUE
  /\ running' = pending /\ pending' = <<>>
  /\ lpc' = "drain"
  /\ UNCHANGED <<owner, quit_, wake, tpc, quitAsked, queued, ran>>

LoopQueueInLoop(g) ==
  /\ pending' = Append(pending, g) /\ queued' = Append(queued, g)
  /\ wake' = (wake \/ calling)

\* functors[i]() for the next i.
RunFunctor ==
  /\ lpc = "drain" /\ running # <<>>
  /\ LET f == Head(running) IN
     /\ running' = Tail(running) /\ ran' = Append(ran, f)
     /\ IF f \in DOMAIN Chain
        THEN LoopQueueInLoop(Chain[f])
        ELSE UNCHANGED <<pending, queued, wake>>
     /\ quit_' = (quit_ \/ f = QuitFn)
  /\ UNCHANGED <<owner, lpc, calling, tpc, quitAsked>>

\* Mutation: doPendingFunctors leaves calling_pending_functors_ set.
EndDrain_noReset ==
  /\ lpc = "drain" /\ running = <<>>
  /\ lpc' = "top"
  /\ UNCHANGED <<owner, quit_, calling, pending, running, wake, tpc, quitAsked,
                 queued, ran>>

\* calling_pending_functors_ = false, back to the while test.
EndDrain ==
  /\ lpc = "drain" /\ running = <<>>
  /\ calling' = FALSE /\ lpc' = "top"
  /\ UNCHANGED <<owner, quit_, pending, running, wake, tpc, quitAsked, queued, ran>>

\* EventLoopThread::run after Loop() returns: loop_ = NULL.
ThreadExit ==
  /\ lpc = "done" /\ Threaded
  /\ lpc' = "exit"
  /\ UNCHANGED <<owner, quit_, calling, pending, running, wake, tpc, quitAsked,
                 queued, ran>>

\* ~EventLoop as run() returns and its stack loop goes out of scope:
\* t_loopInThisThread = nullptr.  Functors still in pending_functors_
\* are destroyed with the vector, unrun.
EventLoopDtor ==
  /\ lpc = "exit"
  /\ lpc' = "gone"
  /\ UNCHANGED <<owner, quit_, calling, pending, running, wake, tpc, quitAsked,
                 queued, ran>>

-----------------------------------------------------------------------------
Next ==
  \/ \E f \in Functors : ForeignQueue(f)
  \/ ForeignQuit \/ ForeignWake
  \/ StartLoop \/ EventLoopThreadDtor \/ Join
  \/ Publish \/ ThreadExit \/ EventLoopDtor
  \/ Loop \/ LoopTest \/ PollWake \/ PollTimeout
  \/ \E g \in LoopFunctors : PollEvent(g)
  \/ Swap \/ RunFunctor \/ EndDrain

\* The loop thread runs (it is started and never blocks outside the poll);
\* the other thread finishes its QueueInLoop/Quit.  PollTimeout is not
\* fair: a wake-up must not depend on it.
Fairness ==
  /\ WF_vars(Loop) /\ WF_vars(LoopTest) /\ WF_vars(PollWake)
  /\ WF_vars(Swap) /\ WF_vars(RunFunctor) /\ WF_vars(EndDrain)
  /\ WF_vars(ForeignWake) /\ WF_vars(StartLoop) /\ WF_vars(Join)
  /\ WF_vars(Publish) /\ WF_vars(ThreadExit) /\ WF_vars(EventLoopDtor)

Spec == Init /\ [][Next]_vars /\ Fairness

-----------------------------------------------------------------------------
(* Properties.                                                             *)

Exited == lpc \in {"done", "exit", "gone"}

TypeOK ==
  /\ owner \in {"caller", "EventLoopThread"}
  /\ lpc \in {"ctor", "init", "top", "poll", "swap", "drain", "done", "exit",
              "gone"}
  /\ {quit_, calling, wake, quitAsked} \subseteq BOOLEAN
  /\ tpc \in {"start", "idle", "wake", "dwake", "join", "joined"}
  /\ {pending, running, queued, ran} \subseteq Seq(Functors)
  \* calling_pending_functors_ is set exactly while doPendingFunctors runs
  /\ calling = (lpc = "drain")

\* doPendingFunctors runs every pushed functor exactly once and in push
\* order, across the swap: what ran, then what the swapped-out vector
\* still holds, then pending_functors_, is the push order.
FunctorsInOrderOnce == ran \o running \o pending = queued

QuitStopsLoop == quitAsked ~> Exited

\* ~EventLoopThread's join returns: the Quit it queues reaches the loop
\* thread, which leaves Loop() and run().
JoinReturns == tpc = "join" ~> tpc = "joined"

\* The other thread never calls into a destroyed EventLoop: when it is
\* about to Wake() the loop (after QueueInLoop's unlock, in particular in
\* ~EventLoopThread), the loop object still exists.
NoUseOfDestroyedLoop == tpc \in {"wake", "dwake"} => lpc # "gone"
=============================================================================
