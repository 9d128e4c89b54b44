----------------------------- MODULE EpollTimer -----------------------------
(***************************************************************************)
(* raner::EpollTimer (src/raner/epoll_timer.cc, epoll_timer.h): a one-shot *)
(* deadline kept in deadline_ (Time::UnixEpoch() when not set) and an      *)
(* EpollAlarm, epoll_timer_impl_, registered with the loop's EpollServer   *)
(* while the deadline is pending.                                          *)
(*                                                                         *)
(* A timer is a record [set, alarm]: set is IsSet() (deadline_ is         *)
(* initialized), alarm is whether epoll_timer_impl_ is registered.  The    *)
(* deadline's value only orders alarms of different timers; each module   *)
(* that uses a timer has one, so the value is left out.  Each method is an *)
(* operator from a timer to a timer, so that a method that calls another   *)
(* (Update calls Cancel, updateImpl calls cancelImpl and setImpl) is the   *)
(* composition of the operators.  Every call runs on the loop thread.      *)
(***************************************************************************)

\* EpollTimer(epoll_server): deadline_(Time::UnixEpoch()), impl unregistered.
NewTimer == [set |-> FALSE, alarm |-> FALSE]

IsSet(t) == t.set

\* setImpl: epoll_server_->RegisterAlarm(deadline, &epoll_timer_impl_).
setImpl(t) == [t EXCEPT !.alarm = TRUE]

\* cancelImpl: epoll_timer_impl_.UnregisterIfRegistered().
cancelImpl(t) == [t EXCEPT !.alarm = FALSE]

\* updateImpl: clear deadline_, cancelImpl, restore deadline_, setImpl.
updateImpl(t) == setImpl(cancelImpl(t))

\* Cancel: nothing when not set; else clear deadline_ and cancelImpl.
Cancel(t) ==
  IF ~IsSet(t) THEN t ELSE cancelImpl([t EXCEPT !.set = FALSE])

\* Set(new_deadline): DCHECK(!IsSet()), deadline_ = new_deadline, setImpl.
\* Callers set a timer that is not set, as the DCHECK demands.
Set(t) == setImpl([t EXCEPT !.set = TRUE])

\* EventLoop::CreateTimer(cb): a new EpollTimer on the loop's EpollServer,
\* with cb as its timer_cb_.
CreateTimer == NewTimer

\* Update(new_deadline) with an initialized new_deadline (a later time):
\* re-arm through updateImpl when already set, else setImpl.  (An
\* uninitialized new_deadline is Cancel.)
Update(t) ==
  IF IsSet(t) THEN updateImpl([t EXCEPT !.set = TRUE])
              ELSE setImpl([t EXCEPT !.set = TRUE])

\* EpollTimerImpl::OnAlarm: EpollAlarm::OnAlarm() marks the alarm
\* unregistered, then fire() clears deadline_ when set.  Fires(t) says
\* whether fire() goes on to call timer_cb_.
OnAlarm(t) == [alarm |-> FALSE, set |-> FALSE]

Fires(t) == IsSet(t)
=============================================================================
