----------------------------- MODULE AsioTimer -----------------------------
(***************************************************************************)
(* boost::asio::deadline_timer and the part of io_service that the three   *)
(* clients of asio-client/ use: one timer object, the waits queued on it   *)
(* and the wait handlers that are ready to run.  The library is not in the *)
(* repository; it is modelled from the calls the clients make.             *)
(*                                                                         *)
(* A timer is a record:                                                    *)
(*   expiry   ticks until expires_at(); 0 once it has passed, Inf for      *)
(*            pos_infin                                                    *)
(*   waiting  number of async_wait operations not yet completed            *)
(*   wakeAt   ticks until the timer queue completes them.  It is fixed     *)
(*            when the first of them is queued and does not follow expiry  *)
(*   mayWait  the library's might_have_pending_waits flag: cancelling is   *)
(*            skipped when it is false                                     *)
(*   queued   completed waits whose handlers io_service has yet to run     *)
(***************************************************************************)
EXTENDS Integers

Inf == -1

Ticks == Nat \cup {Inf}

TimerState == [expiry : Ticks, wakeAt : Ticks, waiting : Nat,
               mayWait : BOOLEAN, queued : Nat]

NewTimer == [expiry |-> Inf, wakeAt |-> Inf, waiting |-> 0,
             mayWait |-> FALSE, queued |-> 0]

(* Every wait on the timer completes: its handler becomes ready. *)
CompleteWaits(t) ==
  [t EXCEPT !.queued = t.queued + t.waiting, !.waiting = 0, !.wakeAt = Inf]

(* deadline_timer::cancel *)
CancelWaits(t) ==
  IF t.mayWait THEN [CompleteWaits(t) EXCEPT !.mayWait = FALSE] ELSE t

(* deadline_timer::expires_at and expires_from_now: cancel, then set. *)
ExpiresAt(t, e) == [CancelWaits(t) EXCEPT !.expiry = e]

(* deadline_timer::async_wait *)
AsyncWait(t) ==
  [t EXCEPT !.waiting = t.waiting + 1,
            !.mayWait = TRUE,
            !.wakeAt  = IF t.waiting = 0 THEN t.expiry ELSE t.wakeAt]

(* The timer queue finds, inside run_one, that the waits are due. *)
WaitDue(t) == t.waiting > 0 /\ t.wakeAt = 0

(* io_service takes one wait handler off its queue to run it. *)
TakeHandler(t) == [t EXCEPT !.queued = t.queued - 1]

Passed(t) == t.expiry = 0

(* One tick of time. *)
Less(x) == IF x > 0 THEN x - 1 ELSE x

TickTimer(t) == [t EXCEPT !.expiry = Less(t.expiry), !.wakeAt = Less(t.wakeAt)]

CountsDown(t) == t.expiry > 0 \/ t.wakeAt > 0

=============================================================================
