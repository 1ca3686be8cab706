----------------------------- MODULE SslClient -----------------------------
(***************************************************************************)
(* ssl_tcp_client: the TCP client's calls over TLS.  What is different:    *)
(* the objects are built by the first connect and the building may stop    *)
(* half way; there is a handshake; the TLS session is part of the socket   *)
(* object and so outlives the connection; read reports the bytes it got    *)
(* in spite of an error.  One thread owns the client.                      *)
(***************************************************************************)
EXTENDS AsioTimer

CONSTANTS
  Timeouts,      \* the timeout arguments callers pass; 0 means none
  MaxTimeout,    \* an upper bound of Timeouts
  MaxEndpoints,  \* most endpoints the resolver returns
  MaxLen,        \* most bytes in one transfer
  MaxPlain,      \* most bytes of a record left over after a read
  MayThrow       \* steps of init() that may throw: a subset of BuildSteps

(* 1..4 assign context_, io_service_, deadline_ and socket_; 5 configures  *)
(* them; 6 is check_deadline.                                              *)
BuildSteps == 1..6

ASSUME SslConstants ==
  /\ MaxTimeout \in Nat \ {0}
  /\ Timeouts \subseteq 0..MaxTimeout
  /\ MaxEndpoints \in Nat \ {0}
  /\ MaxLen \in Nat \ {0}
  /\ MaxPlain \in Nat
  /\ MayThrow \subseteq BuildSteps

VARIABLES
  pc,       \* the owner: "idle", "resolving", "loop" or, destroyed, "gone"
  call,     \* the call in progress
  ec,       \* the error_code on the owner's stack
  moved,    \* bytes the operation has transferred, or endpoints it has tried
  op,       \* the operation's current step
  parts,    \* how many of the four pointers are not NULL
  sock,     \* the TCP socket: "closed", "open" (not connected), "connected"
  live,     \* directions in which the connection can still carry bytes
  session,  \* the SSL object: "fresh", "midway" or "done" with its handshake
  stale,    \* history: the session was begun on an earlier connection
  plain,    \* decrypted bytes nobody has read yet
  timer,    \* deadline_
  stopped,  \* io_service ran out of work: run_one returns at once
  ret,      \* what the last call returned
  halfBuilt, \* history: init() threw after it had assigned socket_
  age,      \* history: ticks since the deadline was set, up to MaxTimeout
  short     \* history: a read on this connection was given less than it asked

connVars  == <<sock, live, session, stale, plain>>
buildVars == <<parts, stopped, halfBuilt>>

vars == <<pc, call, ec, moved, op, parts, sock, live, session, stale, plain,
          timer, stopped, ret, halfBuilt, age, short>>

Directions == {"read", "write"}

ErrValue == [ok |-> 0, eof |-> 2, bad_descriptor |-> 9, would_block |-> 11,
             failed |-> 111, aborted |-> 125]

Complement(v) == -v - 1

Duration(timeout) == IF timeout = 0 THEN Inf ELSE timeout

Lesser(a, b) == IF a < b THEN a ELSE b

NoOp         == [at |-> "none", err |-> "ok", n |-> 0]
InKernel     == [at |-> "kernel", err |-> "ok", n |-> 0]
Queued(e, n) == [at |-> "queued", err |-> e, n |-> n]

NoCall == [kind |-> "none", timeout |-> 0, size |-> 0]

(* The constructor: four null pointers. *)
Init ==
  /\ pc = "idle"
  /\ call = NoCall
  /\ ec = "ok"
  /\ moved = 0
  /\ op = NoOp
  /\ parts = 0
  /\ sock = "closed"
  /\ live = {}
  /\ session = "fresh"
  /\ stale = FALSE
  /\ plain = 0
  /\ timer = NewTimer
  /\ stopped = FALSE
  /\ ret = [kind |-> "none", val |-> 0, size |-> 0]
  /\ halfBuilt = FALSE
  /\ age = 0
  /\ short = FALSE

-----------------------------------------------------------------------------
(* connect: init(), then resolve, then async_connect. *)

Answer(kind, val) == ret' = [kind |-> kind, val |-> val, size |-> call.size]

StartResolving(timeout) ==
  /\ pc' = "resolving"
  /\ call' = [kind |-> "connect", timeout |-> timeout, size |-> 0]
  /\ UNCHANGED <<ec, moved, op, ret, age, short>>

(* init() finds socket_ set and does nothing. *)
ConnectAgain(timeout) ==
  /\ pc = "idle"
  /\ parts = 4
  /\ StartResolving(timeout)
  /\ UNCHANGED <<connVars, buildVars, timer>>

ConnectFirst(timeout) ==
  /\ pc = "idle"
  /\ parts < 4
  /\ StartResolving(timeout)
  /\ parts' = 4
  /\ timer' = AsyncWait(ExpiresAt(NewTimer, Inf))
  /\ UNCHANGED <<connVars, stopped, halfBuilt>>

(* Step k of init() throws.  The pointers assigned before it keep their    *)
(* values, and older ones that step k or a later step would have replaced. *)
InitThrows(k) ==
  /\ pc = "idle"
  /\ parts < 4
  /\ parts' = IF k - 1 > parts THEN Lesser(k - 1, 4) ELSE parts
  /\ timer' = IF k > 3 THEN NewTimer ELSE timer
  /\ halfBuilt' = (k > 4)
  /\ Answer("connect", -1)
  /\ UNCHANGED <<pc, call, ec, moved, op, connVars, stopped, age, short>>

ResolveFails ==
  /\ pc = "resolving"
  /\ pc' = "idle"
  /\ call' = NoCall
  /\ Answer("connect", ErrValue["failed"])
  /\ UNCHANGED <<ec, moved, op, connVars, buildVars, timer, age, short>>

(* Mutant: the deadline is stored but the sleeping actor is not woken. *)
SetDeadlineQuietly(timeout) ==
  /\ timer' = [timer EXCEPT !.expiry = Duration(timeout)]
  /\ age' = 0

(* Mutant: a call without a timeout keeps the deadline of the last one. *)
SetDeadlineIfAny(timeout) ==
  /\ timer' = IF timeout = 0 THEN timer ELSE ExpiresAt(timer, timeout)
  /\ age' = 0

SetDeadline(timeout) ==
  /\ timer' = ExpiresAt(timer, Duration(timeout))
  /\ age' = 0

(* The socket is opened anew; the session and what it holds are not reset. *)
ResolveSucceeds(endpoints) ==
  /\ pc = "resolving"
  /\ pc' = "loop"
  /\ call' = [call EXCEPT !.size = endpoints]
  /\ SetDeadline(call.timeout)
  /\ ec' = "would_block"
  /\ moved' = 0
  /\ op' = InKernel
  /\ sock' = "open"
  /\ live' = {}
  /\ stale' = (session # "fresh")
  /\ short' = FALSE
  /\ UNCHANGED <<session, plain, buildVars, ret>>

-----------------------------------------------------------------------------
(* hand_shake, read and write.  Callers must have connected before, for    *)
(* until then the pointers are null, and heed a connect that returned -1.  *)

StartOperation(kind, timeout, size) ==
  /\ pc = "idle"
  /\ parts = 4
  /\ ret.kind = "connect" => ret.val # -1
  /\ pc' = "loop"
  /\ call' = [kind |-> kind, timeout |-> timeout, size |-> size]
  /\ SetDeadline(timeout)
  /\ ec' = "would_block"
  /\ moved' = 0
  /\ UNCHANGED <<sock, live, stale, buildVars, ret, short>>

(* An operation that needs the network fails at once without a connection. *)
NeedsNetwork ==
  CASE sock = "closed"    -> Queued("bad_descriptor", 0)
    [] sock = "open"      -> Queued("failed", 0)
    [] sock = "connected" -> InKernel

(* A session that is done has nothing left to negotiate. *)
HandShake(timeout) ==
  /\ StartOperation("handshake", timeout, 0)
  /\ \/ /\ session = "done"
        /\ op' = Queued("ok", 0)
        /\ UNCHANGED session
     \/ /\ session # "done"
        /\ op' = NeedsNetwork
        /\ session' = "midway"
  /\ UNCHANGED plain

(* Mutant: what is decrypted is handed over whole. *)
WholeRecord(len) == plain

(* How many of the decrypted bytes fit into the caller's buffer. *)
FromRecord(len) == Lesser(plain, len)

(* Bytes that are decrypted already need no network. *)
Read(timeout, len) ==
  /\ StartOperation("read", timeout, len)
  /\ \/ /\ plain > 0
        /\ op' = Queued("ok", FromRecord(len))
        /\ plain' = plain - FromRecord(len)
     \/ /\ plain = 0
        /\ op' = IF session = "fresh" THEN Queued("failed", 0) ELSE NeedsNetwork
        /\ UNCHANGED plain
  /\ UNCHANGED session

Write(timeout, len) ==
  /\ StartOperation("write", timeout, len)
  /\ op' = IF session = "fresh" THEN Queued("failed", 0) ELSE NeedsNetwork
  /\ UNCHANGED <<session, plain>>

-----------------------------------------------------------------------------
(* The network, and the TLS library on top of it. *)

InFlight(kinds) == pc = "loop" /\ op.at = "kernel" /\ call.kind \in kinds

Connected ==
  /\ InFlight({"connect"})
  /\ op' = Queued("ok", 0)
  /\ sock' = "connected"
  /\ live' = Directions
  /\ UNCHANGED <<pc, call, ec, moved, session, stale, plain, buildVars, timer,
                 ret, age, short>>

ConnectRefused ==
  /\ InFlight({"connect"})
  /\ op' = Queued("failed", 0)
  /\ UNCHANGED <<pc, call, ec, moved, connVars, buildVars, timer, ret, age, short>>

(* The server has taken part; it knows nothing of an earlier connection.   *)
Negotiated ==
  /\ InFlight({"handshake"})
  /\ "read" \in live
  /\ ~stale
  /\ op' = Queued("ok", 0)
  /\ session' = "done"
  /\ UNCHANGED <<pc, call, ec, moved, sock, live, stale, plain, buildVars, timer,
                 ret, age, short>>

(* A record is decrypted; more of it than the caller has room for is kept. *)
Received(n, left) ==
  /\ InFlight({"read"} \cap live)
  /\ session = "done"
  /\ ~stale
  /\ n <= call.size - moved
  /\ left > 0 => n = call.size - moved
  /\ op' = Queued("ok", n)
  /\ plain' = left
  /\ UNCHANGED <<pc, call, ec, moved, sock, live, session, stale, buildVars,
                 timer, ret, age, short>>

(* The kernel takes encrypted bytes whether or not the peer can read them. *)
Sent(n) ==
  /\ InFlight({"write"} \cap live)
  /\ session = "done"
  /\ n <= call.size - moved
  /\ op' = Queued("ok", n)
  /\ UNCHANGED <<pc, call, ec, moved, connVars, buildVars, timer, ret, age, short>>

EndOfStream ==
  /\ InFlight({"read", "handshake"})
  /\ op' = Queued("eof", 0)
  /\ live' = live \ {"read"}
  /\ UNCHANGED <<pc, call, ec, moved, sock, session, stale, plain, buildVars,
                 timer, ret, age, short>>

(* The connection is reset, or the session is in an error for good. *)
OperationFails ==
  /\ InFlight(Directions \cup {"handshake"})
  /\ op' = Queued("failed", 0)
  /\ live' = {}
  /\ UNCHANGED <<pc, call, ec, moved, sock, session, stale, plain, buildVars,
                 timer, ret, age, short>>

-----------------------------------------------------------------------------
(* The owner runs handlers until ec is set. *)

Looping == pc = "loop" /\ ec = "would_block"

Work == timer.waiting + timer.queued + (IF op.at = "none" THEN 0 ELSE 1)

(* The operation is over.  If nothing else is pending, io_service stops,   *)
(* and nobody ever restarts it.                                            *)
Complete(e) ==
  /\ ec' = e
  /\ op' = NoOp
  /\ stopped' = (Work = 1)

RunConnectStep ==
  /\ Looping
  /\ ~stopped
  /\ op.at = "queued"
  /\ call.kind = "connect"
  /\ \/ /\ sock = "closed"
        /\ Complete("aborted")
        /\ UNCHANGED <<moved, sock, live>>
     \/ /\ sock # "closed"
        /\ op.err = "ok" \/ moved + 1 = call.size
        /\ Complete(op.err)
        /\ UNCHANGED <<moved, sock, live>>
     \/ /\ sock # "closed"
        /\ op.err # "ok"
        /\ moved + 1 < call.size
        /\ moved' = moved + 1
        /\ op' = InKernel
        /\ sock' = "open"
        /\ live' = {}
        /\ UNCHANGED <<ec, stopped>>
  /\ UNCHANGED <<pc, call, parts, halfBuilt, session, stale, plain, timer, ret, age,
                 short>>

RunOperationStep ==
  /\ Looping
  /\ ~stopped
  /\ op.at = "queued"
  /\ call.kind # "connect"
  /\ moved' = moved + op.n
  /\ \/ /\ op.err # "ok" \/ moved' >= call.size
        /\ Complete(op.err)
     \/ /\ op.err = "ok"
        /\ moved' < call.size
        /\ op' = NeedsNetwork
        /\ UNCHANGED <<ec, stopped>>
  /\ UNCHANGED <<pc, call, connVars, parts, halfBuilt, timer, ret, age, short>>

DeadlineWakes ==
  /\ Looping
  /\ ~stopped
  /\ WaitDue(timer)
  /\ timer' = CompleteWaits(timer)
  /\ UNCHANGED <<pc, call, ec, moved, op, connVars, buildVars, ret, age, short>>

(* Mutant: cancel the operation and keep the connection. *)
CancelOperation ==
  /\ op' = IF op.at = "kernel" THEN Queued("aborted", 0) ELSE op
  /\ UNCHANGED <<sock, live>>

(* The TCP socket under the session is closed. *)
CloseSocket ==
  /\ sock' = "closed"
  /\ live' = {}
  /\ op' = IF op.at = "kernel" THEN Queued("aborted", 0) ELSE op

(* Mutants: any finite deadline counts as passed; the actor does not go    *)
(* back to sleep after a timeout.                                          *)
DeadlineSet == timer.expiry # Inf

DisarmedAfterTimeout == ExpiresAt(TakeHandler(timer), Inf)

DeadlinePassed == Passed(timer)

AfterTimeout == AsyncWait(ExpiresAt(TakeHandler(timer), Inf))

CheckDeadline ==
  /\ Looping
  /\ ~stopped
  /\ timer.queued > 0
  /\ \/ /\ DeadlinePassed
        /\ CloseSocket
        /\ timer' = AfterTimeout
     \/ /\ ~DeadlinePassed
        /\ timer' = AsyncWait(TakeHandler(timer))
        /\ UNCHANGED <<sock, live, op>>
  /\ UNCHANGED <<pc, call, ec, moved, session, stale, plain, buildVars, ret, age,
                 short>>

(* run_one returns at once, without an error, and the loop goes round. *)
Spin == Looping /\ stopped /\ UNCHANGED vars

-----------------------------------------------------------------------------
(* The loop has ended and the call returns. *)

(* Mutant: one handler is run and the loop condition is not checked. *)
LoopDoneEarly(kind) == pc = "loop" /\ call.kind = kind

LoopDone(kind) == pc = "loop" /\ ec # "would_block" /\ call.kind = kind

Return(kind, val) ==
  /\ LoopDone(kind)
  /\ pc' = "idle"
  /\ call' = NoCall
  /\ ec' = "ok"
  /\ moved' = 0
  /\ Answer(kind, val)
  /\ UNCHANGED <<op, connVars, buildVars, timer, age>>

ReturnFromConnect == Return("connect", ErrValue[ec]) /\ UNCHANGED short

(* Mutant: the session's word is taken without a look at the socket. *)
HandShakeBlindly == IF ec # "ok" THEN -1 ELSE 0

HandShakeResult == IF ec # "ok" \/ sock = "closed" THEN -1 ELSE 0

ReturnFromHandShake == Return("handshake", HandShakeResult) /\ UNCHANGED short

(* read prefers the bytes it got to the error that ended it. *)
ReadResult == IF ec # "ok" /\ moved = 0 THEN Complement(ErrValue[ec]) ELSE moved

ReturnFromRead ==
  /\ Return("read", ReadResult)
  /\ short' = (short \/ (moved > 0 /\ moved < call.size))

ReturnFromWrite ==
  /\ Return("write", IF ec # "ok" THEN Complement(ErrValue[ec]) ELSE moved)
  /\ UNCHANGED short

-----------------------------------------------------------------------------
(* abort() between calls, time and the destructor. *)

OwnerAborts ==
  /\ pc = "idle"
  /\ parts >= 3
  /\ timer' = ExpiresAt(timer, 0)
  /\ UNCHANGED <<pc, call, ec, moved, op, connVars, buildVars, ret, age, short>>

Tick ==
  /\ pc # "gone"
  /\ CountsDown(timer)
  /\ timer' = TickTimer(timer)
  /\ age' = IF age < MaxTimeout THEN age + 1 ELSE age
  /\ UNCHANGED <<pc, call, ec, moved, op, connVars, buildVars, ret, short>>

Destroy ==
  /\ pc = "idle"
  /\ pc' = "gone"
  /\ sock' = "closed"
  /\ live' = {}
  /\ parts' = 0
  /\ timer' = NewTimer
  /\ UNCHANGED <<call, ec, moved, op, session, stale, plain, stopped, halfBuilt,
                 ret, age, short>>

Gone == pc = "gone" /\ UNCHANGED vars

-----------------------------------------------------------------------------

Owner ==
  \/ \E t \in Timeouts :
       \/ ConnectAgain(t)
       \/ ConnectFirst(t)
       \/ HandShake(t)
       \/ \E n \in 1..MaxLen : Read(t, n) \/ Write(t, n)
  \/ \E k \in MayThrow : InitThrows(k)
  \/ ResolveFails
  \/ \E k \in 1..MaxEndpoints : ResolveSucceeds(k)
  \/ RunConnectStep
  \/ RunOperationStep
  \/ DeadlineWakes
  \/ CheckDeadline
  \/ Spin
  \/ ReturnFromConnect
  \/ ReturnFromHandShake
  \/ ReturnFromRead
  \/ ReturnFromWrite
  \/ OwnerAborts
  \/ Destroy
  \/ Gone

Network ==
  \/ Connected
  \/ ConnectRefused
  \/ Negotiated
  \/ \E n \in 1..MaxLen, left \in 0..MaxPlain : Received(n, left)
  \/ \E n \in 1..MaxLen : Sent(n)
  \/ EndOfStream
  \/ OperationFails

Next == Owner \/ Network \/ Tick

Spec == Init /\ [][Next]_vars

(* As for the TCP client. *)
Fairness ==
  /\ WF_vars(RunConnectStep)
  /\ WF_vars(RunOperationStep)
  /\ WF_vars(DeadlineWakes)
  /\ WF_vars(CheckDeadline)
  /\ WF_vars(ReturnFromConnect)
  /\ WF_vars(ReturnFromHandShake)
  /\ WF_vars(ReturnFromRead)
  /\ WF_vars(ReturnFromWrite)
  /\ WF_vars(Tick)

FairSpec == Spec /\ Fairness

-----------------------------------------------------------------------------
(* Properties. *)

Kinds == {"none", "connect", "handshake"} \cup Directions

Sizes == 0..(MaxEndpoints + MaxLen)

(* The range of every variable. *)
TypeOK ==
  /\ pc \in {"idle", "resolving", "loop", "gone"}
  /\ call \in [kind : Kinds, timeout : 0..MaxTimeout, size : Sizes]
  /\ ec \in DOMAIN ErrValue
  /\ moved \in 0..call.size
  /\ op \in [at : {"none", "kernel", "queued"}, err : DOMAIN ErrValue, n : 0..MaxLen]
  /\ parts \in 0..4
  /\ sock \in {"closed", "open", "connected"}
  /\ live \in SUBSET Directions
  /\ session \in {"fresh", "midway", "done"}
  /\ stale \in BOOLEAN
  /\ plain \in 0..MaxPlain
  /\ timer \in TimerState
  /\ stopped \in BOOLEAN
  /\ ret \in [kind : Kinds, val : Int, size : Sizes]
  /\ halfBuilt \in BOOLEAN
  /\ age \in 0..MaxTimeout
  /\ short \in BOOLEAN

(* Once the objects are built there is exactly one check_deadline, and so  *)
(* io_service never runs out of work and never stops: also after an init() *)
(* that threw and was repeated, unless it threw after its last assignment. *)
DeadlineActorKeepsServiceAlive ==
  parts = 4 /\ ~halfBuilt => timer.waiting + timer.queued = 1 /\ ~stopped

(* No operation outlives its call, whatever happened to init(). *)
NoOrphanedOperation == op.at # "none" => Looping

(* Only a call whose own timeout has run in full loses its connection. *)
NeverCutEarly ==
  [][pc = "loop" /\ sock # "closed" /\ sock' = "closed"
       => call.timeout > 0 /\ age >= call.timeout]_vars

(* connect returns 0 only with a connection.  hand_shake returns 0 only    *)
(* with a session that is done on a socket that is not closed, and, unless *)
(* the session is left from an earlier connection, with a connection.      *)
TruthfulReturn ==
  pc = "idle" /\ ret.val = 0 =>
    /\ ret.kind = "connect" => sock = "connected"
    /\ ret.kind = "handshake" =>
         session = "done" /\ sock # "closed" /\ (stale \/ sock = "connected")

(* A read that returns less than it was asked for has hit the end: until   *)
(* the next connect no read gets another byte.  A caller who takes the     *)
(* short count for success loses nothing by it.                            *)
ShortReadIsTheLast ==
  [][pc = "loop" /\ pc' = "idle" /\ ret'.kind = "read" /\ short => ret'.val < 0]_vars

(* A call with a timeout leaves its loop, unless init() left no actor.     *)
TimedCallReturns ==
  (pc = "loop" /\ call.timeout > 0 /\ ~halfBuilt) ~> (pc # "loop")

(* "Block until the asynchronous operation has completed": once it has,    *)
(* the call returns.                                                       *)
CompletedOperationReturns == (Looping /\ op.at = "queued") ~> (pc # "loop" \/ op.at = "kernel")

=============================================================================
