----------------------------- MODULE TcpClient -----------------------------
(***************************************************************************)
(* asio_tcp_client: a blocking TCP client made of asynchronous operations. *)
(* Each call sets the one deadline of the object, starts an asynchronous   *)
(* operation whose handler writes to the caller's stack, and runs          *)
(* io_service handlers one at a time until that handler has run.  A second *)
(* chain of handlers, check_deadline, sleeps on the deadline: it closes    *)
(* the socket when the deadline has passed and always goes back to sleep.  *)
(*                                                                         *)
(* Three parties take steps: the thread that owns the client, the network, *)
(* and other threads that call abort().  Time is counted in ticks.         *)
(***************************************************************************)
EXTENDS AsioTimer

CONSTANTS
  Timeouts,      \* the timeout arguments callers pass; 0 means none
  MaxTimeout,    \* an upper bound of Timeouts
  BodyTimeout,   \* the timeout read(asio_message&) gives the body
  MaxEndpoints,  \* most endpoints the resolver returns
  MaxLen,        \* most bytes in one transfer, or in a message body
  HeaderLength,  \* asio_message::header_length
  Aborters       \* threads other than the owner that may call abort()

ASSUME TcpConstants ==
  /\ MaxTimeout \in Nat \ {0}
  /\ Timeouts \subseteq 0..MaxTimeout
  /\ BodyTimeout \in 1..MaxTimeout
  /\ MaxEndpoints \in Nat \ {0}
  /\ MaxLen \in Nat \ {0}
  /\ HeaderLength \in Nat \ {0}

VARIABLES
  pc,      \* the owner: "idle", "resolving", "loop" or, destroyed, "gone"
  call,    \* arguments of the call in progress, and its socket at the start
  stage,   \* which half of read(asio_message&) the call is, if any
  ec,      \* the error_code on the owner's stack
  moved,   \* bytes the operation has transferred, or endpoints it has tried
  op,      \* the operation's current step
  sock,    \* socket_: "closed", "open" (not connected) or "connected"
  live,    \* directions in which the connection can still carry bytes
  timer,   \* deadline_
  abort,   \* each aborter's place inside deadline_.expires_from_now
  ret,     \* what the last call returned
  age,     \* history: ticks since the deadline was set, up to MaxTimeout
  aborted, \* history: abort() took effect after the deadline was set
  torn     \* history: directions a failed call left in the middle of its data

vars == <<pc, call, stage, ec, moved, op, sock, live, timer, abort, ret,
          age, aborted, torn>>

netVars     == <<op, sock, live>>
historyVars == <<age, aborted, torn>>

Directions == {"read", "write"}

(* boost::system::error_code values the handlers see. *)
ErrValue == [ok |-> 0, eof |-> 2, bad_descriptor |-> 9, would_block |-> 11,
             failed |-> 111, aborted |-> 125]

Complement(v) == -v - 1

(* td of connect, read and write: a zero timeout is pos_infin. *)
Duration(timeout) == IF timeout = 0 THEN Inf ELSE timeout

NoOp         == [at |-> "none", err |-> "ok", n |-> 0]
InKernel     == [at |-> "kernel", err |-> "ok", n |-> 0]
Queued(e, n) == [at |-> "queued", err |-> e, n |-> n]

NoCall == [kind |-> "none", timeout |-> 0, size |-> 0, from |-> "closed"]

NoReturn == [kind |-> "none", val |-> 0, size |-> 0, from |-> "closed"]

(* The constructor: no deadline, and check_deadline put to sleep on it. *)
Init ==
  /\ pc = "idle"
  /\ call = NoCall
  /\ stage = "none"
  /\ ec = "ok"
  /\ moved = 0
  /\ op = NoOp
  /\ sock = "closed"
  /\ live = {}
  /\ timer = AsyncWait(ExpiresAt(NewTimer, Inf))
  /\ abort = [a \in Aborters |-> "out"]
  /\ ret = NoReturn
  /\ age = 0
  /\ aborted = FALSE
  /\ torn = {}

-----------------------------------------------------------------------------
(* The owner starts a call. *)

(* Mutants: the deadline is stored but the sleeping actor is not woken; a  *)
(* call without a timeout leaves the previous call's deadline in force.    *)
SetDeadlineQuietly(timeout) ==
  /\ timer' = [timer EXCEPT !.expiry = Duration(timeout)]
  /\ age' = 0
  /\ aborted' = FALSE

SetDeadlineIfAny(timeout) ==
  /\ timer' = IF timeout = 0 THEN timer ELSE ExpiresAt(timer, timeout)
  /\ age' = 0
  /\ aborted' = FALSE

(* The deadline is set for the call; what it was set to before is gone. *)
SetDeadline(timeout) ==
  /\ timer' = ExpiresAt(timer, Duration(timeout))
  /\ age' = 0
  /\ aborted' = FALSE

(* A transfer step on a socket without a connection fails at once. *)
StartStep ==
  CASE sock = "closed"    -> Queued("bad_descriptor", 0)
    [] sock = "open"      -> Queued("failed", 0)
    [] sock = "connected" -> InKernel

(* Mutant: the byte count of the previous transfer is not cleared. *)
StartTransferOnward(kind, timeout, size) ==
  /\ pc' = "loop"
  /\ call' = [kind |-> kind, timeout |-> timeout, size |-> size, from |-> sock]
  /\ ec' = "would_block"
  /\ op' = StartStep
  /\ SetDeadline(timeout)
  /\ UNCHANGED <<moved, sock, live, abort, torn>>

StartTransfer(kind, timeout, size) ==
  /\ pc' = "loop"
  /\ call' = [kind |-> kind, timeout |-> timeout, size |-> size, from |-> sock]
  /\ ec' = "would_block"
  /\ moved' = 0
  /\ op' = StartStep
  /\ SetDeadline(timeout)
  /\ UNCHANGED <<sock, live, abort, torn>>

Read(timeout, len) ==
  /\ pc = "idle"
  /\ StartTransfer("read", timeout, len)
  /\ UNCHANGED <<stage, ret>>

Write(timeout, len) ==
  /\ pc = "idle"
  /\ StartTransfer("write", timeout, len)
  /\ UNCHANGED <<stage, ret>>

ReadMessage(timeout) ==
  /\ pc = "idle"
  /\ StartTransfer("read", timeout, HeaderLength)
  /\ stage' = "header"
  /\ UNCHANGED ret

(* connect first resolves the name, in the calling thread and before any   *)
(* deadline is set.                                                        *)
Connect(timeout) ==
  /\ pc = "idle"
  /\ pc' = "resolving"
  /\ call' = [kind |-> "connect", timeout |-> timeout, size |-> 0, from |-> sock]
  /\ UNCHANGED <<stage, ec, moved, netVars, timer, abort, ret, historyVars>>

ResolveFails ==
  /\ pc = "resolving"
  /\ pc' = "idle"
  /\ call' = NoCall
  /\ ret' = [kind |-> "connect", val |-> ErrValue["failed"], size |-> 0,
             from |-> call.from]
  /\ UNCHANGED <<stage, ec, moved, netVars, timer, abort, historyVars>>

(* async_connect closes the socket and opens it again for each endpoint. *)
ResolveSucceeds(endpoints) ==
  /\ pc = "resolving"
  /\ pc' = "loop"
  /\ call' = [call EXCEPT !.size = endpoints]
  /\ ec' = "would_block"
  /\ moved' = 0
  /\ op' = InKernel
  /\ sock' = "open"
  /\ live' = {}
  /\ torn' = {}
  /\ SetDeadline(call.timeout)
  /\ UNCHANGED <<stage, abort, ret>>

-----------------------------------------------------------------------------
(* The network completes the current step of the operation; run_one's      *)
(* reactor puts its handler on the ready queue.                            *)

InFlight(kinds) == pc = "loop" /\ op.at = "kernel" /\ call.kind \in kinds

Connected ==
  /\ InFlight({"connect"})
  /\ op' = Queued("ok", 0)
  /\ sock' = "connected"
  /\ live' = Directions
  /\ UNCHANGED <<pc, call, stage, ec, moved, timer, abort, ret, historyVars>>

ConnectRefused ==
  /\ InFlight({"connect"})
  /\ op' = Queued("failed", 0)
  /\ UNCHANGED <<pc, call, stage, ec, moved, sock, live, timer, abort, ret,
                 historyVars>>

(* Some of the bytes still wanted are transferred. *)
Transferred(n) ==
  /\ InFlight(live)
  /\ n <= call.size - moved
  /\ op' = Queued("ok", n)
  /\ UNCHANGED <<pc, call, stage, ec, moved, sock, live, timer, abort, ret,
                 historyVars>>

(* The peer has ended its stream, but may still read. *)
EndOfStream ==
  /\ InFlight({"read"})
  /\ op' = Queued("eof", 0)
  /\ live' = live \ {"read"}
  /\ UNCHANGED <<pc, call, stage, ec, moved, sock, timer, abort, ret,
                 historyVars>>

(* The connection is reset. *)
TransferFails ==
  /\ InFlight(Directions)
  /\ op' = Queued("failed", 0)
  /\ live' = {}
  /\ UNCHANGED <<pc, call, stage, ec, moved, sock, timer, abort, ret,
                 historyVars>>

-----------------------------------------------------------------------------
(* The owner runs io_service handlers until ec is set. *)

Looping == pc = "loop" /\ ec = "would_block"

(* The operation is over: its handler stores the result on the stack. *)
Complete(e) ==
  /\ ec' = e
  /\ op' = NoOp

(* async_connect's own handler, and handle_connect once it is over. *)
RunConnectStep ==
  /\ Looping
  /\ op.at = "queued"
  /\ call.kind = "connect"
  /\ \/ /\ sock = "closed"
        /\ Complete("aborted")
        /\ UNCHANGED <<moved, sock, live>>
     \/ /\ sock # "closed"
        /\ op.err = "ok"
        /\ Complete("ok")
        /\ UNCHANGED <<moved, sock, live>>
     \/ /\ sock # "closed"
        /\ op.err # "ok"
        /\ moved + 1 = call.size
        /\ Complete(op.err)
        /\ UNCHANGED <<moved, sock, live>>
     \/ /\ sock # "closed"
        /\ op.err # "ok"
        /\ moved + 1 < call.size
        /\ moved' = moved + 1
        /\ op' = InKernel
        /\ sock' = "open"
        /\ live' = {}
        /\ UNCHANGED ec
  /\ UNCHANGED <<pc, call, stage, timer, abort, ret, historyVars>>

(* async_read's and async_write's own handler: start the next step, or     *)
(* call handle_write when all bytes are through or the step failed.        *)
RunTransferStep ==
  /\ Looping
  /\ op.at = "queued"
  /\ call.kind \in Directions
  /\ moved' = moved + op.n
  /\ \/ /\ op.err # "ok" \/ moved' = call.size
        /\ Complete(op.err)
     \/ /\ op.err = "ok"
        /\ moved' < call.size
        /\ op' = StartStep
        /\ UNCHANGED ec
  /\ UNCHANGED <<pc, call, stage, sock, live, timer, abort, ret, historyVars>>

(* The deadline's wait is due: run_one puts check_deadline on the queue. *)
DeadlineWakes ==
  /\ Looping
  /\ WaitDue(timer)
  /\ timer' = CompleteWaits(timer)
  /\ UNCHANGED <<pc, call, stage, ec, moved, netVars, abort, ret, historyVars>>

(* Mutant: cancel the operation and keep the connection. *)
CancelOperation ==
  /\ op' = IF op.at = "kernel" THEN Queued("aborted", 0) ELSE op
  /\ UNCHANGED <<sock, live>>

(* Closing the socket completes its outstanding step with                  *)
(* operation_aborted; a step that has completed already keeps its result.  *)
CloseSocket ==
  /\ sock' = "closed"
  /\ live' = {}
  /\ op' = IF op.at = "kernel" THEN Queued("aborted", 0) ELSE op

(* Mutants: any finite deadline counts as passed; the actor does not go    *)
(* back to sleep after a timeout.                                          *)
DeadlineSet == timer.expiry # Inf

DisarmedAfterTimeout == ExpiresAt(TakeHandler(timer), Inf)

DeadlinePassed == Passed(timer)

AfterTimeout == AsyncWait(ExpiresAt(TakeHandler(timer), Inf))

CheckDeadline ==
  /\ Looping
  /\ timer.queued > 0
  /\ \/ /\ DeadlinePassed
        /\ CloseSocket
        /\ timer' = AfterTimeout
     \/ /\ ~DeadlinePassed
        /\ timer' = AsyncWait(TakeHandler(timer))
        /\ UNCHANGED netVars
  /\ UNCHANGED <<pc, call, stage, ec, moved, abort, ret, historyVars>>

-----------------------------------------------------------------------------
(* The loop has ended and the call returns. *)

(* Mutant: one handler is run and the loop condition is not checked. *)
LoopDoneEarly(kinds) == pc = "loop" /\ call.kind \in kinds

LoopDone(kinds) == pc = "loop" /\ ec # "would_block" /\ call.kind \in kinds

(* Mutant: bytes that did arrive are reported in spite of the error. *)
CountPartial ==
  IF ec = "ok" \/ moved > 0 THEN moved ELSE Complement(ErrValue[ec])

(* What read and write of a buffer return. *)
Count == IF ec = "ok" THEN moved ELSE Complement(ErrValue[ec])

(* History: a failed transfer stops inside its data, or inside a message. *)
Torn == IF Count < 0 /\ (moved > 0 \/ stage = "body")
        THEN torn \cup {call.kind} ELSE torn

ReturnWith(kind, val) ==
  /\ pc' = "idle"
  /\ call' = NoCall
  /\ stage' = "none"
  /\ ec' = "ok"
  /\ moved' = 0
  /\ ret' = [kind |-> kind, val |-> val, size |-> call.size, from |-> call.from]

(* Whether ec is an error or the socket is not open, ec.value() is what    *)
(* connect returns, and otherwise 0.                                       *)
ReturnFromConnect ==
  /\ LoopDone({"connect"})
  /\ ReturnWith("connect", ErrValue[ec])
  /\ UNCHANGED <<netVars, timer, abort, historyVars>>

ReturnFromTransfer ==
  /\ LoopDone(Directions)
  /\ stage = "none"
  /\ ReturnWith(call.kind, Count)
  /\ torn' = Torn
  /\ UNCHANGED <<netVars, timer, abort, age, aborted>>

(* read(asio_message&) after the header: give up, or read the body.  The   *)
(* length the header decodes to is the peer's choice.                      *)
HeaderDone(bodyLength) ==
  /\ LoopDone({"read"})
  /\ stage = "header"
  /\ \/ /\ Count # HeaderLength
        /\ ReturnWith("message", 0)
        /\ torn' = Torn
        /\ UNCHANGED <<netVars, timer, abort, age, aborted>>
     \/ /\ Count = HeaderLength
        /\ bodyLength = 0
        /\ ReturnWith("message", HeaderLength)
        /\ UNCHANGED <<netVars, timer, abort, historyVars>>
     \/ /\ Count = HeaderLength
        /\ bodyLength > 0
        /\ StartTransfer("read", BodyTimeout, bodyLength)
        /\ stage' = "body"
        /\ UNCHANGED ret

BodyDone ==
  /\ LoopDone({"read"})
  /\ stage = "body"
  /\ ReturnWith("message", IF Count <= 0 THEN 0 ELSE Count)
  /\ torn' = Torn
  /\ UNCHANGED <<netVars, timer, abort, age, aborted>>

-----------------------------------------------------------------------------
(* abort(), time and the destructor. *)

(* The owner can call abort() only between its calls. *)
OwnerAborts ==
  /\ pc = "idle"
  /\ timer' = ExpiresAt(timer, 0)
  /\ UNCHANGED <<pc, call, stage, ec, moved, netVars, abort, ret, historyVars>>

(* Another thread's expires_from_now(0) is not atomic and takes no lock:   *)
(* it cancels the waits if the flag says that there are any, then clears   *)
(* the flag, then stores the new expiry.                                   *)
AborterCancels(a) ==
  /\ pc # "gone"
  /\ abort[a] = "out"
  /\ \/ /\ timer.mayWait
        /\ timer' = CompleteWaits(timer)
        /\ abort' = [abort EXCEPT ![a] = "cancelled"]
     \/ /\ ~timer.mayWait
        /\ UNCHANGED timer
        /\ abort' = [abort EXCEPT ![a] = "cleared"]
  /\ UNCHANGED <<pc, call, stage, ec, moved, netVars, ret, historyVars>>

AborterClears(a) ==
  /\ abort[a] = "cancelled"
  /\ timer' = [timer EXCEPT !.mayWait = FALSE]
  /\ abort' = [abort EXCEPT ![a] = "cleared"]
  /\ UNCHANGED <<pc, call, stage, ec, moved, netVars, ret, historyVars>>

AborterSets(a) ==
  /\ abort[a] = "cleared"
  /\ timer' = [timer EXCEPT !.expiry = 0]
  /\ abort' = [abort EXCEPT ![a] = "out"]
  /\ aborted' = (aborted \/ pc = "loop")
  /\ UNCHANGED <<pc, call, stage, ec, moved, netVars, ret, age, torn>>

Tick ==
  /\ pc # "gone"
  /\ CountsDown(timer)
  /\ timer' = TickTimer(timer)
  /\ age' = IF age < MaxTimeout THEN age + 1 ELSE age
  /\ UNCHANGED <<pc, call, stage, ec, moved, netVars, abort, ret, aborted, torn>>

(* The destructor.  It must not run while another thread is in abort(). *)
Destroy ==
  /\ pc = "idle"
  /\ \A a \in Aborters : abort[a] = "out"
  /\ pc' = "gone"
  /\ sock' = "closed"
  /\ live' = {}
  /\ timer' = CancelWaits(timer)
  /\ UNCHANGED <<call, stage, ec, moved, op, abort, ret, historyVars>>

(* After the destructor nothing is left to happen. *)
Gone == pc = "gone" /\ UNCHANGED vars

-----------------------------------------------------------------------------

Owner ==
  \/ \E t \in Timeouts :
       \/ Connect(t)
       \/ ReadMessage(t)
       \/ \E n \in 1..MaxLen : Read(t, n) \/ Write(t, n)
  \/ ResolveFails
  \/ \E k \in 1..MaxEndpoints : ResolveSucceeds(k)
  \/ RunConnectStep
  \/ RunTransferStep
  \/ DeadlineWakes
  \/ CheckDeadline
  \/ ReturnFromConnect
  \/ ReturnFromTransfer
  \/ \E n \in 0..MaxLen : HeaderDone(n)
  \/ BodyDone
  \/ OwnerAborts
  \/ Destroy
  \/ Gone

Network ==
  \/ Connected
  \/ ConnectRefused
  \/ \E n \in 1..(MaxLen + HeaderLength) : Transferred(n)
  \/ EndOfStream
  \/ TransferFails

OtherThreads ==
  \E a \in Aborters : AborterCancels(a) \/ AborterClears(a) \/ AborterSets(a)

Next == Owner \/ Network \/ OtherThreads \/ Tick

Spec == Init /\ [][Next]_vars

(* run_one runs every ready handler, polls the timer queue, and does not   *)
(* block while either has something for it; time passes.  Nothing is       *)
(* assumed of the network, of callers or of threads that call abort().     *)
Fairness ==
  /\ WF_vars(RunConnectStep)
  /\ WF_vars(RunTransferStep)
  /\ WF_vars(DeadlineWakes)
  /\ WF_vars(CheckDeadline)
  /\ WF_vars(ReturnFromConnect)
  /\ WF_vars(ReturnFromTransfer)
  /\ WF_vars(\E n \in 0..MaxLen : HeaderDone(n))
  /\ WF_vars(BodyDone)
  /\ WF_vars(Tick)

FairSpec == Spec /\ Fairness

-----------------------------------------------------------------------------
(* Properties. *)

Sizes == 0..(MaxEndpoints + MaxLen + HeaderLength)

SockStates == {"closed", "open", "connected"}

(* The range of every variable; a transfer never exceeds its buffer. *)
TypeOK ==
  /\ pc \in {"idle", "resolving", "loop", "gone"}
  /\ call \in [kind : {"none", "connect"} \cup Directions,
               timeout : 0..MaxTimeout, size : Sizes, from : SockStates]
  /\ stage \in {"none", "header", "body"}
  /\ ec \in DOMAIN ErrValue
  /\ moved \in 0..call.size
  /\ op \in [at : {"none", "kernel", "queued"}, err : DOMAIN ErrValue, n : Sizes]
  /\ sock \in SockStates
  /\ live \in SUBSET Directions
  /\ timer \in TimerState
  /\ abort \in [Aborters -> {"out", "cancelled", "cleared"}]
  /\ ret \in [kind : {"none", "connect", "message"} \cup Directions,
              val : Int, size : Sizes, from : SockStates]
  /\ age \in 0..MaxTimeout
  /\ aborted \in BOOLEAN
  /\ torn \in SUBSET Directions

(* There is exactly one check_deadline: asleep on the deadline or ready to *)
(* run, whatever was cancelled, fired or reset in whatever order.  None    *)
(* would leave every later timeout dead; two would never merge again.      *)
OneDeadlineActor == pc # "gone" => timer.waiting + timer.queued = 1

(* Handlers write through pointers to ec and length on the caller's stack: *)
(* no operation outlives the loop of the call that started it.             *)
NoOrphanedOperation == op.at # "none" => Looping

(* The socket is closed under a call only when that call's own timeout has *)
(* run in full since it was set, or abort() hit it: no stale timeout of an *)
(* earlier call, none at all in a call without one.                        *)
NeverCutEarly ==
  [][pc = "loop" /\ sock # "closed" /\ sock' = "closed"
       => aborted \/ (call.timeout > 0 /\ age >= call.timeout)]_vars

(* What the callers are told is true: connect returns 0 only with a        *)
(* connected socket, read and write return all the bytes asked for or an   *)
(* error, and never succeed on a socket that was not connected.            *)
TruthfulReturn ==
  /\ ret.kind = "connect" /\ ret.val = 0 /\ pc = "idle" => sock = "connected"
  /\ ret.kind \in Directions /\ ret.val >= 0
       => ret.val = ret.size /\ ret.from = "connected"
  /\ ret.kind = "message" /\ ret.val > 0 => ret.from = "connected"

(* A stream that a failed call left in the middle of its data or of a      *)
(* message is never continued: until the next connect no byte more moves   *)
(* in that direction.                                                      *)
NoResumeAfterTear ==
  call.kind \in torn => moved = 0 /\ op.n = 0

(* With no abort() from other threads the actor never oversleeps: when it  *)
(* waits, it waits for the deadline now in force, and can still be woken.  *)
ActorSleepsOnDeadline ==
  timer.waiting > 0 => timer.wakeAt = timer.expiry /\ timer.mayWait

(* "timeout = 5s": a call with a timeout leaves its loop, though the peer  *)
(* may never answer.                                                       *)
TimedCallReturns == (pc = "loop" /\ call.timeout > 0) ~> (pc # "loop")

Outcome ==
  IF ret.kind = "none" THEN "none"
  ELSE IF \/ ret.kind = "connect" /\ ret.val = 0
          \/ ret.kind \in Directions /\ ret.val >= 0
          \/ ret.kind = "message" /\ ret.val > 0
       THEN "ok" ELSE "failed"

Phase ==
  CASE pc = "idle" -> "idle"
    [] pc = "gone" -> "gone"
    [] pc \in {"resolving", "loop"} ->
         IF call.kind = "connect" THEN "connecting" ELSE "transferring"

Contract == INSTANCE BlockingCall WITH
  Abortable <- Aborters # {},
  phase     <- Phase,
  limit     <- call.timeout > 0,
  due       <- pc = "loop" /\ timer.expiry = 0,
  link      <- sock = "connected",
  had       <- call.from = "connected",
  outcome   <- Outcome

(* The client keeps the contract of a blocking call with a time limit. *)
ContractSpec == Contract!Spec

=============================================================================
