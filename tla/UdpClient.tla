----------------------------- MODULE UdpClient -----------------------------
(***************************************************************************)
(* asio_udp_client: receive with a timeout, made of one asynchronous       *)
(* receive and the same check_deadline actor as the TCP client's.  Here    *)
(* the actor cancels the operation and keeps the socket, so that what the  *)
(* socket holds stays there for the next receive.  send_to touches nothing *)
(* that receive uses; what it provokes is among the datagrams that arrive. *)
(***************************************************************************)
EXTENDS AsioTimer, Sequences

CONSTANTS
  Timeouts,    \* the durations callers pass, in ticks, or Inf for pos_infin
  MaxTimeout,  \* an upper bound of Timeouts
  Datagrams,   \* what the network may deliver
  Backlog,     \* datagrams the socket's receive buffer holds
  MaxArrivals  \* bound on the datagrams of one behaviour

ASSUME UdpConstants ==
  /\ MaxTimeout \in Nat
  /\ Timeouts \subseteq 0..MaxTimeout \cup {Inf}
  /\ Backlog \in Nat \ {0}
  /\ MaxArrivals \in Nat
  /\ Datagrams \cap {"nothing", "timeout", "failed"} = {}

VARIABLES
  pc,        \* the owner: "idle", in the "loop" of receive, or "gone"
  call,      \* timeout of the receive, and whether a datagram was waiting
  ec,        \* the caller's error_code
  length,    \* the datagram handle_receive was given, if any
  op,        \* the asynchronous receive
  inbox,     \* the socket's receive buffer
  timer,     \* deadline_
  ret,       \* what the last receive returned
  age,       \* history: ticks since the deadline was set, up to MaxTimeout
  accepted,  \* history: datagrams the socket took in
  returned   \* history: datagrams receive returned

vars == <<pc, call, ec, length, op, inbox, timer, ret, age, accepted, returned>>

NoOp      == [at |-> "none", err |-> "ok", got |-> <<>>]
InKernel  == [at |-> "kernel", err |-> "ok", got |-> <<>>]
Failed(e) == [at |-> "queued", err |-> e, got |-> <<>>]
Filled(d) == [at |-> "queued", err |-> "ok", got |-> <<d>>]

NoCall == [timeout |-> Inf, waiting |-> FALSE]

NoReturn == [err |-> "none", got |-> <<>>, waiting |-> FALSE]

(* The constructor binds the socket, to any port: listen_endpoint is not   *)
(* used.  No deadline yet; check_deadline goes to sleep.                   *)
Init ==
  /\ pc = "idle"
  /\ call = NoCall
  /\ ec = "ok"
  /\ length = <<>>
  /\ op = NoOp
  /\ inbox = <<>>
  /\ timer = AsyncWait(ExpiresAt(NewTimer, Inf))
  /\ ret = NoReturn
  /\ age = 0
  /\ accepted = <<>>
  /\ returned = <<>>

-----------------------------------------------------------------------------

(* The network.  A datagram that finds the buffer full is lost. *)
Arrive(d) ==
  /\ pc # "gone"
  /\ Len(accepted) < MaxArrivals
  /\ Len(inbox) < Backlog
  /\ inbox' = Append(inbox, d)
  /\ accepted' = Append(accepted, d)
  /\ UNCHANGED <<pc, call, ec, length, op, timer, ret, age, returned>>

(* Mutant: async_receive is left to the reactor even if data is there. *)
StartAndWait == op' = InKernel /\ UNCHANGED inbox

(* async_receive tries the socket at once. *)
StartReceive ==
  \/ /\ inbox = <<>>
     /\ op' = InKernel
     /\ UNCHANGED inbox
  \/ /\ inbox # <<>>
     /\ op' = Filled(Head(inbox))
     /\ inbox' = Tail(inbox)

(* Mutant: the new deadline does not wake the actor. *)
SetDeadlineQuietly(timeout) == timer' = [timer EXCEPT !.expiry = timeout]

SetDeadline(timeout) == timer' = ExpiresAt(timer, timeout)

Receive(timeout) ==
  /\ pc = "idle"
  /\ pc' = "loop"
  /\ call' = [timeout |-> timeout, waiting |-> inbox # <<>>]
  /\ SetDeadline(timeout)
  /\ ec' = "would_block"
  /\ length' = <<>>
  /\ StartReceive
  /\ age' = 0
  /\ UNCHANGED <<ret, accepted, returned>>

Looping == pc = "loop" /\ ec = "would_block"

(* The reactor completes the operation with the first datagram, or the     *)
(* socket reports an error.                                                *)
DatagramReady ==
  /\ Looping
  /\ op.at = "kernel"
  /\ inbox # <<>>
  /\ op' = Filled(Head(inbox))
  /\ inbox' = Tail(inbox)
  /\ UNCHANGED <<pc, call, ec, length, timer, ret, age, accepted, returned>>

SocketError ==
  /\ Looping
  /\ op.at = "kernel"
  /\ op' = Failed("failed")
  /\ UNCHANGED <<pc, call, ec, length, inbox, timer, ret, age, accepted, returned>>

HandleReceive ==
  /\ Looping
  /\ op.at = "queued"
  /\ ec' = op.err
  /\ length' = op.got
  /\ op' = NoOp
  /\ UNCHANGED <<pc, call, inbox, timer, ret, age, accepted, returned>>

DeadlineWakes ==
  /\ Looping
  /\ WaitDue(timer)
  /\ timer' = CompleteWaits(timer)
  /\ UNCHANGED <<pc, call, ec, length, op, inbox, ret, age, accepted, returned>>

(* Mutant: an operation that has completed is aborted as well. *)
AbortAnyway == op' = Failed("aborted")

(* socket_.cancel(): an operation that has completed keeps its datagram. *)
Cancel == op' = IF op.at = "kernel" THEN Failed("aborted") ELSE op

(* Mutants: any finite deadline counts as passed; the actor does not go    *)
(* back to sleep after a timeout.                                          *)
DeadlineSet == timer.expiry # Inf

DisarmedAfterTimeout == ExpiresAt(TakeHandler(timer), Inf)

DeadlinePassed == Passed(timer)

AfterTimeout == AsyncWait(ExpiresAt(TakeHandler(timer), Inf))

CheckDeadline ==
  /\ Looping
  /\ timer.queued > 0
  /\ \/ /\ DeadlinePassed
        /\ Cancel
        /\ timer' = AfterTimeout
     \/ /\ ~DeadlinePassed
        /\ timer' = AsyncWait(TakeHandler(timer))
        /\ UNCHANGED op
  /\ UNCHANGED <<pc, call, ec, length, inbox, ret, age, accepted, returned>>

(* Mutant: run_one is called once. *)
LoopDoneEarly == pc = "loop"

LoopDone == pc = "loop" /\ ec # "would_block"

Return ==
  /\ LoopDone
  /\ pc' = "idle"
  /\ call' = NoCall
  /\ ec' = "ok"
  /\ length' = <<>>
  /\ ret' = [err |-> ec, got |-> length, waiting |-> call.waiting]
  /\ returned' = returned \o length
  /\ UNCHANGED <<op, inbox, timer, age, accepted>>

Tick ==
  /\ pc # "gone"
  /\ CountsDown(timer)
  /\ timer' = TickTimer(timer)
  /\ age' = IF age < MaxTimeout THEN age + 1 ELSE age
  /\ UNCHANGED <<pc, call, ec, length, op, inbox, ret, accepted, returned>>

(* The members are destroyed: the timer first, then the socket. *)
Destroy ==
  /\ pc = "idle"
  /\ pc' = "gone"
  /\ timer' = CancelWaits(timer)
  /\ UNCHANGED <<call, ec, length, op, inbox, ret, age, accepted, returned>>

Gone == pc = "gone" /\ UNCHANGED vars

Next ==
  \/ \E d \in Datagrams : Arrive(d)
  \/ \E t \in Timeouts : Receive(t)
  \/ DatagramReady
  \/ SocketError
  \/ HandleReceive
  \/ DeadlineWakes
  \/ CheckDeadline
  \/ Return
  \/ Tick
  \/ Destroy
  \/ Gone

Spec == Init /\ [][Next]_vars

(* As for the TCP client: run_one runs what is ready and polls the timers, *)
(* time passes, and nothing is assumed of the network.                     *)
Fairness ==
  /\ WF_vars(HandleReceive)
  /\ WF_vars(DeadlineWakes)
  /\ WF_vars(CheckDeadline)
  /\ WF_vars(Return)
  /\ WF_vars(Tick)

FairSpec == Spec /\ Fairness

-----------------------------------------------------------------------------
(* Properties. *)

Errors == {"ok", "would_block", "failed", "aborted"}

Content == {<<>>} \cup {<<d>> : d \in Datagrams}

(* The range of every variable. *)
TypeOK ==
  /\ pc \in {"idle", "loop", "gone"}
  /\ call \in [timeout : 0..MaxTimeout \cup {Inf}, waiting : BOOLEAN]
  /\ ec \in Errors
  /\ length \in Content
  /\ op \in [at : {"none", "kernel", "queued"}, err : Errors, got : Content]
  /\ inbox \in Seq(Datagrams)
  /\ timer \in TimerState
  /\ ret \in [err : {"none", "ok", "failed", "aborted"}, got : Content,
              waiting : BOOLEAN]
  /\ age \in 0..MaxTimeout
  /\ accepted \in Seq(Datagrams)
  /\ returned \in Seq(Datagrams)

(* There is always exactly one check_deadline, as in the TCP client. *)
OneDeadlineActor == pc # "gone" => timer.waiting + timer.queued = 1

(* The operation's handler writes to the caller's stack and ends with it. *)
NoOrphanedOperation == op.at # "none" => Looping

(* Every datagram the socket took in is received exactly once and in       *)
(* order: a timeout that races with a datagram neither loses nor repeats   *)
(* it, whichever of the two run_one sees first.                            *)
NothingLost == accepted = returned \o length \o op.got \o inbox

(* A receive that began with a datagram waiting gets one, even if its time *)
(* is up at once: a zero timeout polls.                                    *)
PollFindsWaiting == ret.waiting => ret.err = "ok" /\ ret.got # <<>>

(* Only a receive whose own timeout has run in full is timed out. *)
NeverCutEarly ==
  [][op.err # "aborted" /\ op'.err = "aborted"
       => call.timeout # Inf /\ age >= call.timeout]_vars

(* A receive with a timeout returns, though no datagram may ever come. *)
TimedReceiveReturns == (pc = "loop" /\ call.timeout # Inf) ~> (pc # "loop")

(* The mailbox: its messages that nobody has received yet, its receiver,   *)
(* and what the last receive gave.                                         *)
Box == length \o op.got \o inbox

Phase == IF pc = "loop" THEN "waiting" ELSE pc

Limited == call.timeout # Inf

Due == Limited /\ age >= call.timeout

Outcome ==
  CASE ret.err = "none"    -> "nothing"
    [] ret.err = "ok"      -> ret.got[1]
    [] ret.err = "aborted" -> "timeout"
    [] ret.err = "failed"  -> "failed"

Mailbox == INSTANCE TimedMailbox WITH
  Messages <- Datagrams, box <- Box, state <- Phase, limit <- Limited,
  due <- Due, last <- Outcome

(* receive is a mailbox with a time limit. *)
MailboxSpec == Mailbox!Spec

=============================================================================
