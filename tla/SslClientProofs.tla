--------------------------- MODULE SslClientProofs ---------------------------
(***************************************************************************)
(* Theorems about ssl_tcp_client for every set of timeouts, every number   *)
(* of endpoints and bytes, and every set of steps at which init() throws.  *)
(*                                                                         *)
(* IInv is the inductive invariant: the operation fits the owner's place   *)
(* in the code; a session is done only where a handshake ended well; bytes *)
(* are left decrypted only behind a read that was filled; the deadline in  *)
(* force belongs to the call in progress; and io_service stops only where  *)
(* init() left it without a deadline actor.                                *)
(***************************************************************************)
EXTENDS SslClient, AsioTimerProofs

(* The call, its operation and the owner's place agree. *)
CallShape ==
  /\ pc \in {"idle", "gone"} => call = NoCall
  /\ pc = "resolving" => call.kind = "connect" /\ call.size = 0
  /\ pc = "loop" => call.kind # "none"
  /\ pc # "loop" => op = NoOp /\ moved = 0
  /\ Looping <=> op.at # "none"
  /\ op.at = "none" => op = NoOp

(* The operation's step fits what is left of the buffer or the endpoints. *)
StepFits ==
  /\ op.n <= call.size - moved
  /\ op.err # "would_block"
  /\ op.at # "queued" \/ op.err # "ok" => op.n = 0
  /\ call.kind = "connect" => op.n = 0
  /\ pc = "loop" /\ call.kind = "connect" => moved < call.size
  /\ call.kind = "handshake" => call.size = 0

(* What connect and hand_shake may report when they are over. *)
ResultSound ==
  /\ pc = "loop" /\ call.kind = "connect" =>
       /\ ec = "ok" => sock = "connected"
       /\ (op.at = "queued" /\ op.err = "ok" /\ sock # "closed") => sock = "connected"
       /\ session # "fresh" => stale
  /\ pc = "loop" /\ call.kind = "handshake" =>
       (ec = "ok" \/ (op.at = "queued" /\ op.err = "ok") => session = "done")
  /\ session = "done" /\ ~stale => sock # "open"

(* Where the bytes of a read come from, and when there are no more. *)
ReadSound ==
  /\ sock # "connected" => live = {}
  /\ short => "read" \notin live /\ plain = 0
  /\ pc = "loop" /\ call.kind = "connect" => ~short
  /\ pc = "loop" /\ call.kind = "read" =>
       /\ moved + op.n < call.size => plain = 0
       /\ ec = "ok" => moved = call.size
       /\ moved > 0 /\ ((op.at = "queued" /\ op.err # "ok") \/ ec \notin {"ok", "would_block"})
            => "read" \notin live
       /\ short => moved = 0 /\ op.n = 0 /\ ec # "ok" /\ (op.at = "queued" => op.err # "ok")

CallOK ==
  /\ CallShape
  /\ StepFits
  /\ ResultSound
  /\ ReadSound
  /\ TruthfulReturn

(* The deadline in force was set for this call. *)
DeadlineOwned ==
  pc = "loop" /\ timer.expiry # Inf =>
    call.timeout > 0 /\ age + timer.expiry >= call.timeout

(* What init() has built, and what it left out. *)
BuildSound ==
  /\ pc \in {"resolving", "loop"} => parts = 4
  /\ halfBuilt => parts = 4 \/ pc = "gone"
  /\ stopped => halfBuilt
  /\ parts = 4 /\ ~halfBuilt => Actors(timer) = 1

IInv ==
  /\ TypeOK
  /\ CallOK
  /\ DeadlineOwned
  /\ BuildSound

-----------------------------------------------------------------------------
(* The error codes, and which of them is success. *)
LEMMA ErrValues ==
  /\ DOMAIN ErrValue = {"ok", "eof", "bad_descriptor", "would_block", "failed", "aborted"}
  /\ \A e \in DOMAIN ErrValue : ErrValue[e] \in Nat
  /\ ErrValue["ok"] = 0
  /\ \A e \in DOMAIN ErrValue : e # "ok" => ErrValue[e] > 0
BY DEF ErrValue

OpStates == [at : {"none", "kernel", "queued"}, err : DOMAIN ErrValue, n : 0..MaxLen]

(* What an operation looks like that needs the network. *)
LEMMA NeedsNetworkFacts ==
  ASSUME TypeOK
  PROVE  /\ NeedsNetwork \in OpStates
         /\ NeedsNetwork.n = 0 /\ NeedsNetwork.at # "none"
         /\ NeedsNetwork.err # "would_block"
         /\ NeedsNetwork.at = "queued" => NeedsNetwork.err # "ok" /\ sock # "connected"
         /\ NeedsNetwork.at = "kernel" => NeedsNetwork.err = "ok"
         /\ \A n \in 0..MaxLen, e \in DOMAIN ErrValue : Queued(e, n) \in OpStates
         /\ NoOp \in OpStates /\ InKernel \in OpStates
<1>1. 0 \in 0..MaxLen
  BY SslConstants
<1> QED
  BY <1>1, ErrValues DEF TypeOK, NeedsNetwork, Queued, InKernel, NoOp, OpStates

(* Beginning connect, before the name is resolved. *)
LEMMA ConnectSteps ==
  ASSUME TypeOK, CallOK, timer' \in TimerState,
         \/ \E t \in Timeouts : ConnectAgain(t) \/ ConnectFirst(t)
         \/ \E k \in MayThrow : InitThrows(k)
         \/ ResolveFails
  PROVE  TypeOK' /\ CallOK'
<1> USE DEF connVars, buildVars
<1>1. ASSUME NEW t \in Timeouts, ConnectAgain(t) \/ ConnectFirst(t)
      PROVE  TypeOK' /\ CallOK'
  <2>1. /\ pc = "idle" /\ pc' = "resolving"
        /\ call' = [kind |-> "connect", timeout |-> t, size |-> 0]
        /\ parts' \in {parts, 4}
        /\ UNCHANGED <<ec, moved, op, connVars, stopped, halfBuilt, ret, age, short>>
    BY <1>1 DEF ConnectAgain, ConnectFirst, StartResolving
  <2>2. call' \in [kind : Kinds, timeout : 0..MaxTimeout, size : Sizes]
        /\ moved' \in 0..call'.size
    BY <2>1, SslConstants DEF Kinds, Sizes, CallOK, CallShape
  <2>3. TypeOK'
    BY <2>1, <2>2 DEF TypeOK
  <2>4. CallOK'
    BY <2>1
    DEF CallOK, CallShape, StepFits, ResultSound, ReadSound, TruthfulReturn,
        Looping, NoCall, NoOp
  <2> QED BY <2>3, <2>4
<1>2. ASSUME NEW k \in MayThrow, InitThrows(k)
      PROVE  TypeOK' /\ CallOK'
  <2>1. /\ pc = "idle"
        /\ ret' = [kind |-> "connect", val |-> -1, size |-> call.size]
        /\ UNCHANGED <<pc, call, ec, moved, op, connVars, stopped, age, short>>
    BY <1>2 DEF InitThrows, Answer
  <2>2. parts' \in 0..4 /\ halfBuilt' \in BOOLEAN
    BY <1>2, SslConstants DEF InitThrows, Lesser, BuildSteps, TypeOK
  <2>3. TypeOK'
    BY <2>1, <2>2 DEF TypeOK, Kinds
  <2>4. CallOK'
    BY <2>1
    DEF CallOK, CallShape, StepFits, ResultSound, ReadSound, TruthfulReturn, Looping
  <2> QED BY <2>3, <2>4
<1>3. CASE ResolveFails
  <2>1. /\ pc = "resolving" /\ pc' = "idle" /\ call' = NoCall
        /\ ret' = [kind |-> "connect", val |-> ErrValue["failed"], size |-> call.size]
        /\ UNCHANGED <<ec, moved, op, connVars, parts, stopped, halfBuilt, age, short>>
    BY <1>3 DEF ResolveFails, Answer
  <2>2. call' \in [kind : Kinds, timeout : 0..MaxTimeout, size : Sizes]
        /\ moved' \in 0..call'.size
    BY <2>1, SslConstants DEF Kinds, Sizes, NoCall, CallOK, CallShape
  <2>3. ErrValue["failed"] \in Int /\ ErrValue["failed"] # 0
    BY DEF ErrValue
  <2>4. TypeOK'
    BY <2>1, <2>2, <2>3 DEF TypeOK, Kinds
  <2>5. CallOK'
    BY <2>1, <2>3
    DEF CallOK, CallShape, StepFits, ResultSound, ReadSound, TruthfulReturn,
        Looping, NoCall, NoOp
  <2> QED BY <2>4, <2>5
<1> QED BY <1>1, <1>2, <1>3

(* connect goes on with the endpoints: the socket is opened anew. *)
LEMMA ResolvedSteps ==
  ASSUME TypeOK, CallOK, timer' \in TimerState,
         NEW k \in 1..MaxEndpoints, ResolveSucceeds(k)
  PROVE  TypeOK' /\ CallOK'
<1>1. /\ pc = "resolving" /\ pc' = "loop"
      /\ call' = [call EXCEPT !.size = k]
      /\ age' = 0 /\ ec' = "would_block" /\ moved' = 0 /\ op' = InKernel
      /\ sock' = "open" /\ live' = {} /\ stale' = (session # "fresh")
      /\ short' = FALSE
      /\ UNCHANGED <<session, plain, parts, stopped, halfBuilt, ret>>
  BY DEF ResolveSucceeds, SetDeadline, buildVars
<1>2. k \in Sizes /\ k > 0 /\ call.kind = "connect"
  BY <1>1, SslConstants DEF Sizes, CallOK, CallShape
<1>3. /\ call' \in [kind : Kinds, timeout : 0..MaxTimeout, size : Sizes]
      /\ call'.kind = "connect" /\ call'.size = k
  BY <1>1, <1>2 DEF TypeOK
<1>4. op' \in OpStates /\ moved' \in 0..call'.size /\ age' \in 0..MaxTimeout
  BY <1>1, <1>2, <1>3, NeedsNetworkFacts, SslConstants
<1>5. TypeOK'
  BY <1>1, <1>3, <1>4, ErrValues DEF TypeOK, OpStates
<1>6. op'.at = "kernel" /\ op'.n = 0 /\ op'.err = "ok" /\ k \in Nat
  BY <1>1, <1>2 DEF InKernel, Sizes
<1>7. CallShape' /\ StepFits'
  BY <1>1, <1>2, <1>3, <1>6 DEF CallShape, StepFits, Looping
<1>8. ResultSound' /\ ReadSound' /\ TruthfulReturn'
  BY <1>1, <1>2, <1>3, <1>6 DEF ResultSound, ReadSound, TruthfulReturn
<1> QED BY <1>5, <1>7, <1>8 DEF CallOK

(* What hand_shake, read and write have in common. *)
LEMMA StartFacts ==
  ASSUME TypeOK, CallOK, NEW kind \in {"handshake"} \cup Directions,
         NEW timeout \in Timeouts, NEW size \in 0..MaxLen,
         StartOperation(kind, timeout, size)
  PROVE  /\ pc = "idle" /\ pc' = "loop" /\ ec' = "would_block" /\ moved' = 0
         /\ call' \in [kind : Kinds, timeout : 0..MaxTimeout, size : Sizes]
         /\ call'.kind = kind /\ call'.size = size /\ call'.timeout = timeout
         /\ size \in Nat /\ moved' \in 0..call'.size
         /\ age' \in 0..MaxTimeout
         /\ UNCHANGED <<sock, live, stale, parts, stopped, halfBuilt, ret, short>>
<1>1. /\ call' = [kind |-> kind, timeout |-> timeout, size |-> size]
      /\ pc = "idle" /\ pc' = "loop" /\ ec' = "would_block" /\ moved' = 0 /\ age' = 0
      /\ UNCHANGED <<sock, live, stale, parts, stopped, halfBuilt, ret, short>>
  BY DEF StartOperation, SetDeadline, buildVars
<1>2. kind \in Kinds /\ timeout \in 0..MaxTimeout /\ size \in Sizes /\ size \in Nat
  BY SslConstants DEF Kinds, Sizes
<1> QED BY <1>1, <1>2, SslConstants

(* Beginning a handshake, a read or a write. *)
LEMMA StartSteps ==
  ASSUME TypeOK, CallOK, timer' \in TimerState, NEW t \in Timeouts,
         \/ HandShake(t)
         \/ \E n \in 1..MaxLen : Read(t, n) \/ Write(t, n)
  PROVE  TypeOK' /\ CallOK'
<1>1. CASE HandShake(t)
  <2>1. /\ StartOperation("handshake", t, 0) /\ plain' = plain
        /\ "handshake" \in {"handshake"} \cup Directions /\ 0 \in 0..MaxLen
    BY <1>1, SslConstants DEF HandShake
  <2>2. \/ session = "done" /\ op' = Queued("ok", 0) /\ session' = session
        \/ session # "done" /\ op' = NeedsNetwork /\ session' = "midway"
    BY <1>1 DEF HandShake
  <2>3. /\ op' \in OpStates /\ op'.n = 0 /\ op'.at # "none" /\ op'.err # "would_block"
        /\ op'.at = "queued" /\ op'.err = "ok" => session' = "done"
        /\ session' = "done" => session = "done"
        /\ session' \in {"fresh", "midway", "done"}
    <3>1. Queued("ok", 0) \in OpStates
      BY <2>1, NeedsNetworkFacts, ErrValues
    <3>2. /\ Queued("ok", 0).n = 0 /\ Queued("ok", 0).at = "queued"
          /\ Queued("ok", 0).err = "ok"
      BY DEF Queued
    <3> QED BY <2>2, <3>1, <3>2, NeedsNetworkFacts DEF TypeOK
  <2>4. TypeOK'
    BY <2>1, <2>3, StartFacts, ErrValues DEF TypeOK, OpStates
  <2>5. CallOK'
    BY <2>1, <2>3, StartFacts
    DEF CallOK, CallShape, StepFits, ResultSound, ReadSound, TruthfulReturn,
        Looping, NoOp
  <2> QED BY <2>4, <2>5
<1>2. ASSUME NEW n \in 1..MaxLen, Read(t, n)
      PROVE  TypeOK' /\ CallOK'
  <2>1. /\ StartOperation("read", t, n) /\ session' = session
        /\ "read" \in {"handshake"} \cup Directions /\ n \in 0..MaxLen
        /\ n > 0 /\ plain \in Nat /\ 0 \in 0..MaxLen
    BY <1>2, SslConstants DEF Read, TypeOK, Directions
  <2>2. \/ /\ plain > 0 /\ op' = Queued("ok", FromRecord(n))
           /\ plain' = plain - FromRecord(n)
        \/ plain = 0 /\ op' = Queued("failed", 0) /\ plain' = plain
        \/ plain = 0 /\ op' = NeedsNetwork /\ plain' = plain
    BY <1>2 DEF Read
  <2>3. FromRecord(n) \in 0..n /\ FromRecord(n) <= plain
        /\ (FromRecord(n) < n => plain - FromRecord(n) = 0)
        /\ FromRecord(n) \in 0..MaxLen
    BY <2>1, SslConstants DEF FromRecord, Lesser
  <2>4. /\ op' \in OpStates /\ op'.at # "none" /\ op'.err # "would_block"
        /\ op'.n \in 0..n /\ (op'.err # "ok" => op'.n = 0)
        /\ op'.n < n => plain' = 0
        /\ op'.at # "queued" => op'.n = 0
        /\ plain = 0 => op'.n = 0 /\ (op'.at = "queued" => op'.err # "ok") /\ plain' = 0
        /\ plain' \in 0..MaxPlain
    <3>1. /\ Queued("ok", FromRecord(n)) \in OpStates
          /\ Queued("failed", 0) \in OpStates
      BY <2>1, <2>3, NeedsNetworkFacts, ErrValues
    <3>2. /\ Queued("ok", FromRecord(n)).n = FromRecord(n)
          /\ Queued("ok", FromRecord(n)).at = "queued"
          /\ Queued("ok", FromRecord(n)).err = "ok"
          /\ Queued("failed", 0).n = 0 /\ Queued("failed", 0).at = "queued"
          /\ Queued("failed", 0).err = "failed"
      BY DEF Queued
    <3>3. plain \in 0..MaxPlain /\ MaxPlain \in Nat
      BY SslConstants DEF TypeOK
    <3>4. CASE plain > 0 /\ op' = Queued("ok", FromRecord(n))
               /\ plain' = plain - FromRecord(n)
      BY <2>1, <2>3, <3>1, <3>2, <3>3, <3>4
    <3>5. CASE plain = 0 /\ op' = Queued("failed", 0) /\ plain' = plain
      BY <2>1, <3>1, <3>2, <3>3, <3>5
    <3>6. CASE plain = 0 /\ op' = NeedsNetwork /\ plain' = plain
      BY <2>1, <3>3, <3>6, NeedsNetworkFacts
    <3> QED BY <2>2, <3>4, <3>5, <3>6
  <2>5. TypeOK'
    BY <2>1, <2>4, StartFacts, ErrValues DEF TypeOK, OpStates
  <2>6. CallOK'
    BY <2>1, <2>4, StartFacts
    DEF CallOK, CallShape, StepFits, ResultSound, ReadSound, TruthfulReturn,
        Looping, NoOp
  <2> QED BY <2>5, <2>6
<1>3. ASSUME NEW n \in 1..MaxLen, Write(t, n)
      PROVE  TypeOK' /\ CallOK'
  <2>1. /\ StartOperation("write", t, n) /\ session' = session /\ plain' = plain
        /\ "write" \in {"handshake"} \cup Directions /\ n \in 0..MaxLen /\ n > 0
        /\ op' \in {Queued("failed", 0), NeedsNetwork} /\ 0 \in 0..MaxLen
    BY <1>3, SslConstants DEF Write, Directions
  <2>2. op' \in OpStates /\ op'.n = 0 /\ op'.at # "none" /\ op'.err # "would_block"
    <3>1. Queued("failed", 0) \in OpStates
      BY <2>1, NeedsNetworkFacts, ErrValues
    <3>2. /\ Queued("failed", 0).n = 0 /\ Queued("failed", 0).at = "queued"
          /\ Queued("failed", 0).err = "failed"
      BY DEF Queued
    <3> QED BY <2>1, <3>1, <3>2, NeedsNetworkFacts
  <2>3. TypeOK'
    BY <2>1, <2>2, StartFacts, ErrValues DEF TypeOK, OpStates
  <2>4. CallOK'
    BY <2>1, <2>2, StartFacts
    DEF CallOK, CallShape, StepFits, ResultSound, ReadSound, TruthfulReturn,
        Looping, NoOp
  <2> QED BY <2>3, <2>4
<1> QED BY <1>1, <1>2, <1>3

(* The network completing a step of the operation. *)
LEMMA NetworkSteps ==
  ASSUME TypeOK, CallOK, timer' \in TimerState, Network
  PROVE  TypeOK' /\ CallOK'
<1> USE SslConstants, ErrValues
    DEF TypeOK, CallOK, CallShape, StepFits, ResultSound, ReadSound,
        TruthfulReturn, Looping, Sizes, Kinds, Directions, InFlight, Queued,
        connVars, buildVars
<1>1. CASE Connected
  BY <1>1 DEF Connected
<1>2. CASE ConnectRefused
  BY <1>2 DEF ConnectRefused
<1>3. CASE Negotiated
  BY <1>3 DEF Negotiated
<1>4. ASSUME NEW n \in 1..MaxLen, NEW left \in 0..MaxPlain, Received(n, left)
      PROVE  TypeOK' /\ CallOK'
  BY <1>4 DEF Received
<1>5. ASSUME NEW n \in 1..MaxLen, Sent(n)
      PROVE  TypeOK' /\ CallOK'
  BY <1>5 DEF Sent
<1>6. CASE EndOfStream
  BY <1>6 DEF EndOfStream
<1>7. CASE OperationFails
  BY <1>7 DEF OperationFails
<1> QED BY <1>1, <1>2, <1>3, <1>4, <1>5, <1>6, <1>7 DEF Network

(* async_connect's handler: the next endpoint, or the end. *)
LEMMA ConnectHandlerStep ==
  ASSUME TypeOK, CallOK, timer' \in TimerState, RunConnectStep
  PROVE  TypeOK' /\ CallOK'
<1>1. /\ Looping /\ op.at = "queued" /\ call.kind = "connect"
      /\ UNCHANGED <<pc, call, parts, halfBuilt, session, stale, plain, ret, age, short>>
  BY DEF RunConnectStep
<1>2. /\ op.err \in DOMAIN ErrValue /\ op.err # "would_block"
      /\ moved < call.size /\ "aborted" \in DOMAIN ErrValue
      /\ moved \in Nat /\ call.size \in Nat
      /\ op.err = "ok" /\ sock # "closed" => sock = "connected"
  BY <1>1, ErrValues, SslConstants
  DEF TypeOK, CallOK, StepFits, ResultSound, Looping, Sizes
<1>3. ASSUME NEW e \in DOMAIN ErrValue, e # "would_block", Complete(e),
             e = "ok" => sock = "connected", UNCHANGED <<moved, sock, live>>
      PROVE  TypeOK' /\ CallOK'
  <2>1. ec' = e /\ op' = NoOp /\ stopped' \in BOOLEAN
    BY <1>3 DEF Complete
  <2>2. op' \in OpStates
    BY <2>1, NeedsNetworkFacts
  <2>3. TypeOK'
    BY <1>1, <1>3, <2>1, <2>2 DEF TypeOK, OpStates
  <2>4. CallOK'
    BY <1>1, <1>2, <1>3, <2>1
    DEF CallOK, CallShape, StepFits, ResultSound, ReadSound, TruthfulReturn,
        Looping, NoOp
  <2> QED BY <2>3, <2>4
<1>4. ASSUME sock # "closed", moved + 1 < call.size, moved' = moved + 1,
             op' = InKernel, sock' = "open", live' = {}, UNCHANGED <<ec, stopped>>
      PROVE  TypeOK' /\ CallOK'
  <2>1. op' \in OpStates /\ op'.at = "kernel" /\ op'.n = 0 /\ op'.err = "ok"
    BY <1>4, NeedsNetworkFacts DEF InKernel
  <2>2. TypeOK'
    BY <1>1, <1>2, <1>4, <2>1 DEF TypeOK, OpStates
  <2>3. CallShape' /\ StepFits'
    BY <1>1, <1>2, <1>4, <2>1 DEF CallOK, CallShape, StepFits, Looping
  <2>4. ResultSound' /\ ReadSound' /\ TruthfulReturn'
    BY <1>1, <1>4, <2>1 DEF CallOK, ResultSound, ReadSound, TruthfulReturn, Looping
  <2> QED BY <2>2, <2>3, <2>4 DEF CallOK
<1>5. \/ Complete("aborted") /\ UNCHANGED <<moved, sock, live>>
      \/ op.err = "ok" /\ sock # "closed" /\ Complete(op.err)
         /\ UNCHANGED <<moved, sock, live>>
      \/ op.err # "ok" /\ Complete(op.err) /\ UNCHANGED <<moved, sock, live>>
      \/ /\ sock # "closed" /\ moved + 1 < call.size /\ moved' = moved + 1
         /\ op' = InKernel /\ sock' = "open" /\ live' = {}
         /\ UNCHANGED <<ec, stopped>>
  BY DEF RunConnectStep
<1> QED BY <1>2, <1>3, <1>4, <1>5

(* The handlers of the other operations: the end, or the next step. *)
LEMMA OperationHandlerStep ==
  ASSUME TypeOK, CallOK, timer' \in TimerState, RunOperationStep
  PROVE  TypeOK' /\ CallOK'
<1>1. /\ Looping /\ op.at = "queued" /\ call.kind # "connect"
      /\ moved' = moved + op.n
      /\ UNCHANGED <<pc, call, sock, live, session, stale, plain, parts, halfBuilt,
                     ret, age, short>>
  BY DEF RunOperationStep, connVars
<1>2. /\ op.err \in DOMAIN ErrValue /\ op.err # "would_block"
      /\ moved \in Nat /\ call.size \in Nat /\ op.n \in Nat
      /\ moved + op.n <= call.size
      /\ moved' \in 0..call.size
  BY <1>1, ErrValues, SslConstants DEF TypeOK, CallOK, StepFits, Sizes
<1>3. CASE Complete(op.err) /\ (op.err # "ok" \/ moved' >= call.size)
  <2>1. ec' = op.err /\ op' = NoOp /\ stopped' \in BOOLEAN
        /\ NoOp.at = "none" /\ NoOp.n = 0 /\ NoOp.err = "ok"
    BY <1>3 DEF Complete, NoOp
  <2>2. op' \in OpStates
    BY <2>1, NeedsNetworkFacts
  <2>3. TypeOK'
    BY <1>1, <1>2, <2>1, <2>2 DEF TypeOK, OpStates
  <2>4. CallShape' /\ StepFits'
    BY <1>1, <1>2, <2>1 DEF CallOK, CallShape, StepFits, Looping
  <2>5. ResultSound' /\ TruthfulReturn'
    BY <1>1, <2>1 DEF CallOK, ResultSound, TruthfulReturn, Looping
  <2>6. ReadSound'
    BY <1>1, <1>2, <1>3, <2>1 DEF CallOK, ReadSound, StepFits, Looping
  <2> QED BY <2>3, <2>4, <2>5, <2>6 DEF CallOK
<1>4. CASE op.err = "ok" /\ moved' < call.size /\ op' = NeedsNetwork
           /\ UNCHANGED <<ec, stopped>>
  <2>1. TypeOK'
    BY <1>1, <1>2, <1>4, NeedsNetworkFacts DEF TypeOK, OpStates
  <2>2. CallShape' /\ StepFits'
    BY <1>1, <1>2, <1>4, NeedsNetworkFacts DEF CallOK, CallShape, StepFits, Looping
  <2>3. call.kind # "handshake"
    BY <1>1, <1>2, <1>4 DEF CallOK, StepFits
  <2>4. ResultSound' /\ TruthfulReturn'
    BY <1>1, <1>4, <2>3 DEF CallOK, ResultSound, TruthfulReturn, Looping
  <2>5. ReadSound'
    BY <1>1, <1>2, <1>4, NeedsNetworkFacts DEF CallOK, ReadSound, Looping
  <2> QED BY <2>1, <2>2, <2>4, <2>5 DEF CallOK
<1> QED BY <1>3, <1>4 DEF RunOperationStep

(* The timer queue, check_deadline, and a loop that spins. *)
LEMMA DeadlineSteps ==
  ASSUME TypeOK, CallOK, timer' \in TimerState,
         DeadlineWakes \/ CheckDeadline \/ Spin
  PROVE  TypeOK' /\ CallOK'
<1> USE DEF connVars, buildVars
<1>1. CASE UNCHANGED <<pc, call, ec, moved, op, connVars, buildVars, ret, age, short>>
  BY <1>1
  DEF TypeOK, CallOK, CallShape, StepFits, ResultSound, ReadSound, TruthfulReturn,
      Looping
<1>2. CASE Looping /\ CloseSocket
           /\ UNCHANGED <<pc, call, ec, moved, session, stale, plain, buildVars, ret,
                          age, short>>
  <2>1. /\ sock' = "closed" /\ live' = {}
        /\ \/ op' = op /\ op.at # "kernel"
           \/ op.at = "kernel" /\ op' = Queued("aborted", 0)
    BY <1>2 DEF CloseSocket
  <2>2. /\ Queued("aborted", 0) \in OpStates
        /\ Queued("aborted", 0).n = 0 /\ Queued("aborted", 0).at = "queued"
        /\ Queued("aborted", 0).err = "aborted"
    <3>1. 0 \in 0..MaxLen /\ "aborted" \in DOMAIN ErrValue
      BY ErrValues, SslConstants
    <3>2. Queued("aborted", 0) \in OpStates
      BY <3>1, NeedsNetworkFacts
    <3> QED BY <3>2 DEF Queued
  <2>3. TypeOK'
    BY <1>2, <2>1, <2>2 DEF TypeOK, OpStates
  <2>4. CallShape' /\ StepFits'
    BY <1>2, <2>1, <2>2 DEF TypeOK, CallOK, CallShape, StepFits, Looping
  <2>5. ResultSound' /\ ReadSound' /\ TruthfulReturn'
    BY <1>2, <2>1, <2>2
    DEF CallOK, StepFits, ResultSound, ReadSound, TruthfulReturn, Looping
  <2> QED BY <2>3, <2>4, <2>5 DEF CallOK
<1> QED BY <1>1, <1>2 DEF DeadlineWakes, CheckDeadline, Spin, vars

(* What read returns: bytes, or an error that is negative. *)
LEMMA ReadResultFacts ==
  ASSUME TypeOK
  PROVE  /\ ReadResult \in Int
         /\ moved > 0 => ReadResult = moved
         /\ moved = 0 /\ ec # "ok" => ReadResult < 0
         /\ ErrValue[ec] \in Nat /\ (ErrValue[ec] = 0 <=> ec = "ok")
         /\ Complement(ErrValue[ec]) \in Int
<1>1. ErrValue[ec] \in Nat /\ (ErrValue[ec] = 0 <=> ec = "ok")
  BY ErrValues DEF TypeOK
<1>2. moved \in Nat
  BY DEF TypeOK, Sizes
<1> QED BY <1>1, <1>2 DEF ReadResult, Complement

(* Each call's way back to its caller. *)
LEMMA ReturnSteps ==
  ASSUME TypeOK, CallOK, timer' \in TimerState,
         \/ ReturnFromConnect \/ ReturnFromHandShake
         \/ ReturnFromRead \/ ReturnFromWrite
  PROVE  TypeOK' /\ CallOK'
<1>1. ASSUME NEW kind \in Kinds, NEW val \in Int, Return(kind, val),
             short' \in BOOLEAN,
             short' => "read" \notin live /\ plain = 0,
             kind = "connect" /\ val = 0 => sock = "connected",
             kind = "handshake" /\ val = 0 =>
               session = "done" /\ sock # "closed" /\ (stale \/ sock = "connected")
      PROVE  TypeOK' /\ CallOK'
  <2>1. /\ pc = "loop" /\ ec # "would_block" /\ call.kind = kind
        /\ pc' = "idle" /\ call' = NoCall /\ ec' = "ok" /\ moved' = 0
        /\ ret' = [kind |-> kind, val |-> val, size |-> call.size]
        /\ UNCHANGED <<op, sock, live, session, stale, plain, parts, stopped,
                       halfBuilt, age>>
    BY <1>1 DEF Return, LoopDone, Answer, connVars, buildVars
  <2>2. op = NoOp
    BY <2>1 DEF CallOK, CallShape, Looping, TypeOK, NoOp
  <2>3. NoCall \in [kind : Kinds, timeout : 0..MaxTimeout, size : Sizes]
        /\ moved' \in 0..NoCall.size
    BY <2>1, SslConstants DEF NoCall, Kinds, Sizes
  <2>4. ret' \in [kind : Kinds, val : Int, size : Sizes]
    BY <1>1, <2>1 DEF TypeOK
  <2>5. TypeOK'
    BY <1>1, <2>1, <2>3, <2>4, ErrValues DEF TypeOK
  <2>6. CallShape' /\ StepFits' /\ ResultSound'
    BY <2>1, <2>2
    DEF CallOK, CallShape, StepFits, ResultSound, Looping, NoCall, NoOp
  <2>7. ReadSound' /\ TruthfulReturn'
    BY <1>1, <2>1 DEF CallOK, ReadSound, TruthfulReturn
  <2> QED BY <2>5, <2>6, <2>7 DEF CallOK
<1>2. /\ short => "read" \notin live /\ plain = 0
      /\ short \in BOOLEAN
      /\ {"connect", "handshake", "read", "write"} \subseteq Kinds
  BY DEF CallOK, ReadSound, TypeOK, Kinds, Directions
<1>3. CASE ReturnFromConnect
  <2>1. pc = "loop" /\ call.kind = "connect" /\ short' = short
        /\ Return("connect", ErrValue[ec])
    BY <1>3 DEF ReturnFromConnect, Return, LoopDone
  <2>2. ErrValue[ec] \in Int /\ (ErrValue[ec] = 0 => sock = "connected")
    BY <2>1, ReadResultFacts DEF CallOK, ResultSound
  <2> QED BY <1>1, <1>2, <2>1, <2>2
<1>4. CASE ReturnFromHandShake
  <2>1. pc = "loop" /\ call.kind = "handshake" /\ short' = short
        /\ Return("handshake", HandShakeResult)
    BY <1>4 DEF ReturnFromHandShake, Return, LoopDone
  <2>2. HandShakeResult \in Int
    BY DEF HandShakeResult
  <2>3. HandShakeResult = 0 => ec = "ok" /\ sock # "closed"
    BY DEF HandShakeResult
  <2>4. HandShakeResult = 0 =>
          session = "done" /\ sock # "closed" /\ (stale \/ sock = "connected")
    BY <2>1, <2>3 DEF CallOK, ResultSound, TypeOK
  <2> QED BY <1>1, <1>2, <2>1, <2>2, <2>4
<1>5. CASE ReturnFromRead
  <2>1. pc = "loop" /\ call.kind = "read" /\ Return("read", ReadResult)
        /\ ec # "would_block"
        /\ short' = (short \/ (moved > 0 /\ moved < call.size))
    BY <1>5 DEF ReturnFromRead, Return, LoopDone
  <2>2. op.n = 0 /\ moved \in Nat /\ call.size \in Nat
    BY <2>1, SslConstants DEF CallOK, CallShape, Looping, TypeOK, NoOp, Sizes
  <2>3. ASSUME short' PROVE "read" \notin live /\ plain = 0
    BY <1>2, <2>1, <2>2, <2>3 DEF CallOK, ReadSound
  <2>4. short' \in BOOLEAN
    BY <1>2, <2>1
  <2> QED BY <1>1, <1>2, <2>1, <2>3, <2>4, ReadResultFacts
<1>6. CASE ReturnFromWrite
  <2> DEFINE v == IF ec # "ok" THEN Complement(ErrValue[ec]) ELSE moved
  <2>1. v \in Int
    BY ReadResultFacts DEF TypeOK, Sizes
  <2>2. Return("write", v) /\ short' = short
    BY <1>6 DEF ReturnFromWrite
  <2> HIDE DEF v
  <2> QED BY <1>1, <1>2, <2>1, <2>2
<1> QED BY <1>3, <1>4, <1>5, <1>6

(* abort() between calls, the clock and the destructor. *)
LEMMA OtherSteps ==
  ASSUME TypeOK, CallOK, timer' \in TimerState,
         OwnerAborts \/ Tick \/ Destroy \/ Gone
  PROVE  TypeOK' /\ CallOK'
<1> USE DEF TypeOK, CallOK, CallShape, StepFits, ResultSound, ReadSound,
            TruthfulReturn, Looping, connVars, buildVars
<1>1. CASE OwnerAborts
  BY <1>1 DEF OwnerAborts
<1>2. CASE Tick
  BY <1>2, SslConstants DEF Tick
<1>3. CASE Destroy
  BY <1>3 DEF Destroy, NoCall, NoOp
<1>4. CASE Gone
  BY <1>4 DEF Gone, vars
<1> QED BY <1>1, <1>2, <1>3, <1>4

-----------------------------------------------------------------------------
(* What each action does to the timer: its type, the deadline it stands    *)
(* for, and the actor that keeps io_service alive.                         *)

(* The duration made of a timeout is never zero. *)
LEMMA DurationFacts ==
  ASSUME NEW timeout \in 0..MaxTimeout
  PROVE  /\ Duration(timeout) \in Ticks
         /\ Duration(timeout) # Inf => timeout > 0 /\ Duration(timeout) = timeout
BY SslConstants DEF Duration, Ticks, Inf

TimerOK == DeadlineOwned /\ BuildSound

(* A call that sets the deadline owns it. *)
LEMMA SetDeadlineKeeps ==
  ASSUME IInv, NEW timeout \in 0..MaxTimeout, SetDeadline(timeout),
         call'.timeout = timeout, parts = 4, pc' = "loop",
         UNCHANGED <<parts, stopped, halfBuilt>>, pc # "gone"
  PROVE  timer' \in TimerState /\ TimerOK'
<1>1. /\ timer' = ExpiresAt(timer, Duration(timeout)) /\ timer \in TimerState
      /\ age' = 0 /\ BuildSound
  BY DEF SetDeadline, IInv, TypeOK
<1>2. timer' \in TimerState /\ timer'.expiry = Duration(timeout)
      /\ Actors(timer') = Actors(timer)
  BY <1>1, DurationFacts, ExpiresAtFacts
<1>3. DeadlineOwned'
  BY <1>1, <1>2, DurationFacts DEF DeadlineOwned
<1>4. BuildSound'
  BY <1>1, <1>2 DEF BuildSound, Actors
<1> QED BY <1>2, <1>3, <1>4 DEF TimerOK

(* init(), which makes the timer or throws. *)
LEMMA InitSteps ==
  ASSUME IInv,
         \/ \E t \in Timeouts : ConnectAgain(t) \/ ConnectFirst(t)
         \/ \E k \in MayThrow : InitThrows(k)
  PROVE  timer' \in TimerState /\ TimerOK'
<1>1. timer \in TimerState /\ BuildSound /\ Inf \in Ticks /\ parts \in 0..4
  BY DEF IInv, TypeOK, Ticks
<1>2. ASSUME NEW t \in Timeouts, ConnectAgain(t)
      PROVE  timer' \in TimerState /\ TimerOK'
  BY <1>1, <1>2
  DEF ConnectAgain, StartResolving, TimerOK, DeadlineOwned, BuildSound, buildVars,
      Actors
<1>3. ASSUME NEW t \in Timeouts, ConnectFirst(t)
      PROVE  timer' \in TimerState /\ TimerOK'
  <2> DEFINE e == ExpiresAt(NewTimer, Inf)
  <2>1. e \in TimerState /\ Actors(e) = 0
    BY <1>1, NewTimerFacts, ExpiresAtFacts
  <2>2. timer' = AsyncWait(e) /\ pc = "idle" /\ pc' = "resolving" /\ parts < 4
        /\ parts' = 4 /\ UNCHANGED <<stopped, halfBuilt>>
    BY <1>3 DEF ConnectFirst, StartResolving
  <2> HIDE DEF e
  <2>3. timer' \in TimerState /\ Actors(timer') = 1
    BY <2>1, <2>2, AsyncWaitFacts
  <2> QED BY <1>1, <2>2, <2>3 DEF TimerOK, DeadlineOwned, BuildSound, Actors
<1>4. ASSUME NEW k \in MayThrow, InitThrows(k)
      PROVE  timer' \in TimerState /\ TimerOK'
  <2>1. /\ pc = "idle" /\ pc' = "idle" /\ parts < 4 /\ stopped' = stopped
        /\ parts' = (IF k - 1 > parts THEN Lesser(k - 1, 4) ELSE parts)
        /\ halfBuilt' = (k > 4) /\ timer' \in {NewTimer, timer}
        /\ k \in 1..6
    BY <1>4, SslConstants DEF InitThrows, BuildSteps
  <2>2. timer' \in TimerState
    BY <1>1, <2>1, NewTimerFacts
  <2>3. ~stopped /\ (halfBuilt' <=> parts' = 4)
    <3>1. ~stopped
      BY <1>1, <2>1 DEF BuildSound
    <3>2. parts' = 4 <=> k > 4
      BY <1>1, <2>1 DEF Lesser
    <3> QED BY <2>1, <3>1, <3>2
  <2> QED BY <2>1, <2>2, <2>3 DEF TimerOK, DeadlineOwned, BuildSound
<1> QED BY <1>2, <1>3, <1>4

(* When the operation's handler has run, io_service still has the actor's  *)
(* wait, unless init() left none.                                          *)
LEMMA CompletionSteps ==
  ASSUME IInv, RunConnectStep \/ RunOperationStep
  PROVE  timer' \in TimerState /\ TimerOK'
<1>1. /\ Looping /\ ~stopped /\ op.at = "queued"
      /\ UNCHANGED <<pc, call, parts, halfBuilt, timer, age>>
      /\ stopped' = stopped \/ stopped' = (Work = 1)
  BY DEF RunConnectStep, RunOperationStep, Complete
<1>2. /\ timer \in TimerState /\ BuildSound /\ DeadlineOwned /\ parts = 4
  BY <1>1 DEF IInv, TypeOK, BuildSound, Looping
<1>3. Work = Actors(timer) + 1
  BY <1>1, <1>2, TimerFields DEF Work, Actors
<1>4. ASSUME stopped' PROVE halfBuilt
  <2>1. Work = 1
    BY <1>1, <1>4
  <2>2. Actors(timer) # 1
    BY <1>3, <2>1
  <2> QED BY <1>2, <2>2 DEF BuildSound
<1>5. DeadlineOwned'
  BY <1>1, <1>2 DEF DeadlineOwned
<1>6. BuildSound'
  BY <1>1, <1>2, <1>4 DEF BuildSound
<1> QED BY <1>1, <1>2, <1>5, <1>6 DEF TimerOK

(* Every action keeps the timer's type, its actor and its deadline's owner. *)
LEMMA TimerSteps ==
  ASSUME IInv, Next
  PROVE  timer' \in TimerState /\ TimerOK'
<1> DEFINE Goal == timer' \in TimerState /\ TimerOK'
<1>1. /\ timer \in TimerState /\ TypeOK /\ CallOK /\ DeadlineOwned /\ BuildSound
      /\ 0 \in Ticks /\ Inf \in Ticks /\ Inf # 0
  BY DEF IInv, TypeOK, Ticks, Inf
<1>2. ASSUME timer' \in TimerState, Actors(timer') = Actors(timer),
             UNCHANGED <<parts, stopped, halfBuilt>>,
             pc' \in {"resolving", "loop"} => pc \in {"resolving", "loop"},
             pc = "gone" => pc' = "gone",
             DeadlineOwned'
      PROVE  Goal
  BY <1>1, <1>2 DEF TimerOK, BuildSound
<1>3. ASSUME UNCHANGED <<timer, age, parts, stopped, halfBuilt>>,
             pc' \in {"resolving", "loop"} => pc \in {"resolving", "loop"},
             pc = "gone" => pc' = "gone",
             pc' = "loop" => pc = "loop" /\ call' = call
      PROVE  Goal
  <2>1. DeadlineOwned'
    BY <1>1, <1>3 DEF DeadlineOwned
  <2>2. timer' \in TimerState /\ Actors(timer') = Actors(timer)
    BY <1>1, <1>3 DEF Actors
  <2> QED BY <1>2, <1>3, <2>1, <2>2
<1>4. ASSUME NEW kind, NEW timeout \in Timeouts, NEW size,
             StartOperation(kind, timeout, size)
      PROVE  Goal
  <2>1. /\ pc = "idle" /\ pc' = "loop" /\ parts = 4 /\ SetDeadline(timeout)
        /\ call'.timeout = timeout /\ timeout \in 0..MaxTimeout
        /\ UNCHANGED <<parts, stopped, halfBuilt>>
    BY <1>4, SslConstants DEF StartOperation, buildVars
  <2> QED BY <2>1, SetDeadlineKeeps
<1>5. ASSUME NEW t \in Timeouts, NEW n \in 1..MaxLen,
             HandShake(t) \/ Read(t, n) \/ Write(t, n)
      PROVE  Goal
  BY <1>4, <1>5 DEF HandShake, Read, Write
<1>6. ASSUME NEW k \in 1..MaxEndpoints, ResolveSucceeds(k)
      PROVE  Goal
  <2>1. /\ pc = "resolving" /\ pc' = "loop" /\ SetDeadline(call.timeout)
        /\ call.timeout \in 0..MaxTimeout /\ call'.timeout = call.timeout
        /\ UNCHANGED <<parts, stopped, halfBuilt>>
    BY <1>1, <1>6 DEF ResolveSucceeds, TypeOK, buildVars
  <2>2. parts = 4
    BY <1>1, <2>1 DEF BuildSound
  <2> QED BY <2>1, <2>2, SetDeadlineKeeps
<1>7. CASE DeadlineWakes
  <2>1. timer' = CompleteWaits(timer) /\ pc = "loop"
        /\ UNCHANGED <<pc, call, age, parts, stopped, halfBuilt>>
    BY <1>7 DEF DeadlineWakes, Looping, buildVars
  <2>2. timer' \in TimerState /\ timer'.expiry = timer.expiry
        /\ Actors(timer') = Actors(timer)
    BY <1>1, <2>1, CompleteWaitsFacts
  <2>3. DeadlineOwned'
    BY <1>1, <2>1, <2>2 DEF DeadlineOwned
  <2> QED BY <1>2, <2>1, <2>2, <2>3
<1>8. CASE CheckDeadline
  <2> DEFINE h == TakeHandler(timer)
  <2>1. /\ UNCHANGED <<pc, call, age, parts, stopped, halfBuilt>> /\ pc = "loop"
        /\ timer' = AsyncWait(ExpiresAt(h, Inf)) \/ timer' = AsyncWait(h)
    BY <1>8 DEF CheckDeadline, AfterTimeout, Looping, buildVars
  <2>2. h \in TimerState /\ h.expiry = timer.expiry /\ Actors(h) = Actors(timer) - 1
    BY <1>1, <1>8, TakeHandlerFacts DEF CheckDeadline
  <2> HIDE DEF h
  <2>3. ExpiresAt(h, Inf) \in TimerState /\ ExpiresAt(h, Inf).expiry = Inf
        /\ Actors(ExpiresAt(h, Inf)) = Actors(timer) - 1
    BY <1>1, <2>2, ExpiresAtFacts
  <2>4. Actors(timer) \in Nat
    BY <1>1, TimerFields DEF Actors
  <2>5. timer' \in TimerState /\ Actors(timer') = Actors(timer)
        /\ (timer'.expiry = timer.expiry \/ timer'.expiry = Inf)
    BY <2>1, <2>2, <2>3, <2>4, AsyncWaitFacts
  <2>6. DeadlineOwned'
    BY <1>1, <2>1, <2>5 DEF DeadlineOwned
  <2> QED BY <1>2, <2>1, <2>5, <2>6
<1>9. CASE OwnerAborts
  <2>1. timer' = ExpiresAt(timer, 0) /\ pc = "idle"
        /\ UNCHANGED <<pc, parts, stopped, halfBuilt>>
    BY <1>9 DEF OwnerAborts, buildVars
  <2>2. timer' \in TimerState /\ Actors(timer') = Actors(timer)
    BY <1>1, <2>1, ExpiresAtFacts
  <2>3. DeadlineOwned'
    BY <2>1 DEF DeadlineOwned
  <2> QED BY <1>2, <2>1, <2>2, <2>3
<1>10. CASE Destroy
  <2>1. pc' = "gone" /\ parts' = 0 /\ timer' = NewTimer /\ pc = "idle"
        /\ UNCHANGED <<stopped, halfBuilt>>
    BY <1>10 DEF Destroy
  <2> QED BY <1>1, <2>1, NewTimerFacts DEF TimerOK, DeadlineOwned, BuildSound
<1>11. CASE Tick
  <2>1. /\ timer' = TickTimer(timer) /\ UNCHANGED <<pc, call, parts, stopped, halfBuilt>>
        /\ age' = IF age < MaxTimeout THEN age + 1 ELSE age
    BY <1>11 DEF Tick, buildVars
  <2>2. /\ timer' \in TimerState /\ Actors(timer') = Actors(timer)
        /\ timer'.expiry = IF timer.expiry > 0 THEN timer.expiry - 1 ELSE timer.expiry
    BY <1>1, <2>1, TickTimerFacts
  <2>3. /\ timer.expiry \in Ticks /\ age \in 0..MaxTimeout
        /\ call.timeout \in 0..MaxTimeout
    BY <1>1, TimerFields DEF TypeOK
  <2>4. DeadlineOwned'
    BY <1>1, <2>1, <2>2, <2>3, SslConstants DEF DeadlineOwned, Ticks, Inf
  <2> QED BY <1>2, <2>1, <2>2, <2>4
<1>12. CASE Spin \/ Gone
  BY <1>3, <1>12 DEF Spin, Gone, vars
<1>13. CASE ResolveFails
  BY <1>3, <1>13 DEF ResolveFails, buildVars
<1>14. CASE ReturnFromConnect \/ ReturnFromHandShake \/ ReturnFromRead \/ ReturnFromWrite
  BY <1>3, <1>14
  DEF ReturnFromConnect, ReturnFromHandShake, ReturnFromRead, ReturnFromWrite,
      Return, LoopDone, buildVars
<1>15. CASE Network
  BY <1>3, <1>15
  DEF Network, Connected, ConnectRefused, Negotiated, Received, Sent, EndOfStream,
      OperationFails, InFlight, buildVars
<1>16. 1 \in 1..MaxLen
  BY SslConstants
<1> QED
  BY <1>5, <1>6, <1>7, <1>8, <1>9, <1>10, <1>11, <1>12, <1>13, <1>14, <1>15, <1>16,
     InitSteps, CompletionSteps
  DEF Next, Owner

-----------------------------------------------------------------------------
(* The inductive invariant, and what follows from it. *)

(* The constructor establishes the invariant. *)
LEMMA InitHolds == Init => IInv
<1> SUFFICES ASSUME Init PROVE IInv
  OBVIOUS
<1> USE DEF Init
<1>1. NoCall \in [kind : Kinds, timeout : 0..MaxTimeout, size : Sizes]
      /\ moved \in 0..NoCall.size
  BY SslConstants DEF NoCall, Kinds, Sizes
<1>2. ret \in [kind : Kinds, val : Int, size : Sizes]
  BY SslConstants DEF Kinds, Sizes
<1>3. op \in OpStates
  BY SslConstants, ErrValues DEF NoOp, OpStates
<1>4. TypeOK
  <2>1. timer \in TimerState /\ 0 \in 0..MaxTimeout /\ 0 \in 0..MaxPlain
    BY NewTimerFacts, SslConstants
  <2>2. moved \in 0..call.size /\ "ok" \in DOMAIN ErrValue
    BY <1>1, ErrValues
  <2>3. call \in [kind : Kinds, timeout : 0..MaxTimeout, size : Sizes]
    BY <1>1
  <2>4. op \in [at : {"none", "kernel", "queued"}, err : DOMAIN ErrValue, n : 0..MaxLen]
    BY <1>3 DEF OpStates
  <2>5. live \in SUBSET Directions /\ parts \in 0..4 /\ plain \in 0..MaxPlain
        /\ age \in 0..MaxTimeout /\ ec \in DOMAIN ErrValue
    BY <2>1, <2>2
  <2> HIDE DEF Init
  <2>6. /\ pc \in {"idle", "resolving", "loop", "gone"}
        /\ sock \in {"closed", "open", "connected"}
        /\ session \in {"fresh", "midway", "done"}
        /\ stale \in BOOLEAN /\ stopped \in BOOLEAN /\ halfBuilt \in BOOLEAN
        /\ short \in BOOLEAN
    BY DEF Init
  <2> QED BY <1>2, <2>1, <2>2, <2>3, <2>4, <2>5, <2>6 DEF TypeOK
<1>5. CallOK
  BY DEF CallOK, CallShape, StepFits, ResultSound, ReadSound, TruthfulReturn,
         Looping, NoCall, NoOp
<1>6. DeadlineOwned /\ BuildSound
  BY DEF DeadlineOwned, BuildSound
<1> QED BY <1>4, <1>5, <1>6 DEF IInv

(* Every step preserves it. *)
LEMMA StepKeeps == IInv /\ [Next]_vars => IInv'
<1> SUFFICES ASSUME IInv, [Next]_vars PROVE IInv'
  OBVIOUS
<1>1. CASE Next
  <2>1. timer' \in TimerState /\ DeadlineOwned' /\ BuildSound'
    BY <1>1, TimerSteps DEF TimerOK
  <2>2. TypeOK /\ CallOK
    BY DEF IInv
  <2>3. TypeOK' /\ CallOK'
    BY <1>1, <2>1, <2>2, ConnectSteps, ResolvedSteps, StartSteps, NetworkSteps,
       ConnectHandlerStep, OperationHandlerStep, DeadlineSteps, ReturnSteps,
       OtherSteps
    DEF Next, Owner
  <2> QED BY <2>1, <2>3 DEF IInv
<1>2. CASE UNCHANGED vars
  BY <1>2
  DEF vars, IInv, TypeOK, CallOK, CallShape, StepFits, ResultSound, ReadSound,
      DeadlineOwned, BuildSound, TruthfulReturn, Looping, Actors
<1> QED BY <1>1, <1>2

(* IInv holds in every reachable state of ssl_tcp_client. *)
THEOREM Invariant == Spec => []IInv
BY InitHolds, StepKeeps, PTL DEF Spec

(* Every variable keeps its range; no read is given more than it asked. *)
THEOREM TypeCorrect == Spec => []TypeOK
<1>1. IInv => TypeOK
  BY DEF IInv
<1> QED BY <1>1, Invariant, PTL

(* Whichever steps of init() throw, and however often: built objects have  *)
(* one deadline actor and a running io_service, unless init() threw after  *)
(* it had assigned socket_.                                                *)
THEOREM ServiceStaysAlive == Spec => []DeadlineActorKeepsServiceAlive
<1>1. IInv => DeadlineActorKeepsServiceAlive
  BY DEF IInv, BuildSound, DeadlineActorKeepsServiceAlive, Actors, TypeOK
<1> QED BY <1>1, Invariant, PTL

(* No operation that points into the caller's stack outlives its call. *)
THEOREM NothingOutlivesItsCall == Spec => []NoOrphanedOperation
<1>1. IInv => NoOrphanedOperation
  BY DEF IInv, CallOK, CallShape, NoOrphanedOperation
<1> QED BY <1>1, Invariant, PTL

(* What connect and hand_shake report is true. *)
THEOREM ReturnsAreTruthful == Spec => []TruthfulReturn
<1>1. IInv => TruthfulReturn
  BY DEF IInv, CallOK
<1> QED BY <1>1, Invariant, PTL

(* Only check_deadline closes the socket under a call, and only when the   *)
(* deadline has passed that this call set.                                 *)
THEOREM NeverEarly == Spec => NeverCutEarly
<1> DEFINE Cut == pc = "loop" /\ sock # "closed" /\ sock' = "closed"
           Due == call.timeout > 0 /\ age >= call.timeout
<1>1. IInv /\ [Next]_vars => [Cut => Due]_vars
  <2> SUFFICES ASSUME IInv, Next, Cut PROVE Due
    OBVIOUS
  <2>1. ASSUME CheckDeadline PROVE Due
    <3>1. timer.expiry = 0
      BY <2>1 DEF CheckDeadline, DeadlinePassed, Passed
    <3>2. age \in 0..MaxTimeout /\ call.timeout \in 0..MaxTimeout
      BY DEF IInv, TypeOK
    <3> QED BY <3>1, <3>2, SslConstants DEF IInv, DeadlineOwned, Inf
  <2>2. ASSUME ~CheckDeadline PROVE FALSE
    BY <2>2
    DEF Next, Owner, Network, ConnectAgain, ConnectFirst, StartResolving,
        InitThrows, ResolveFails, ResolveSucceeds, HandShake, Read, Write,
        StartOperation, RunConnectStep, RunOperationStep, DeadlineWakes, Spin,
        ReturnFromConnect, ReturnFromHandShake, ReturnFromRead, ReturnFromWrite,
        Return, OwnerAborts, Destroy, Gone, Connected, ConnectRefused, Negotiated,
        Received, Sent, EndOfStream, OperationFails, Tick, connVars, vars
  <2> QED BY <2>1, <2>2
<1>2. NeverCutEarly <=> [][Cut => Due]_vars
  BY DEF NeverCutEarly
<1> QED BY <1>1, <1>2, Invariant, PTL DEF Spec

(* A read that returns less than it was asked for is the last of its       *)
(* connection to return any byte.                                          *)
THEOREM ShortReadsEnd == Spec => ShortReadIsTheLast
<1> DEFINE Ends == pc = "loop" /\ pc' = "idle" /\ ret'.kind = "read" /\ short
           Error == ret'.val < 0
<1>1. IInv /\ [Next]_vars => [Ends => Error]_vars
  <2> SUFFICES ASSUME IInv, Next, Ends PROVE Error
    OBVIOUS
  <2>1. ReturnFromConnect \/ ReturnFromHandShake \/ ReturnFromRead \/ ReturnFromWrite
    <3>1. ~Network /\ ~Tick
      BY DEF Network, Connected, ConnectRefused, Negotiated, Received, Sent,
             EndOfStream, OperationFails, Tick
    <3>2. \A t \in Timeouts :
            /\ ~ConnectAgain(t) /\ ~ConnectFirst(t) /\ ~HandShake(t)
            /\ \A n \in 1..MaxLen : ~Read(t, n) /\ ~Write(t, n)
      BY DEF ConnectAgain, ConnectFirst, HandShake, Read, Write, StartOperation
    <3>3. /\ \A k \in MayThrow : ~InitThrows(k)
          /\ \A k \in 1..MaxEndpoints : ~ResolveSucceeds(k)
      BY DEF InitThrows, ResolveSucceeds
    <3>4. /\ ~ResolveFails /\ ~RunConnectStep /\ ~RunOperationStep /\ ~DeadlineWakes
          /\ ~CheckDeadline /\ ~Spin /\ ~OwnerAborts /\ ~Destroy /\ ~Gone
      BY DEF ResolveFails, RunConnectStep, RunOperationStep, DeadlineWakes,
             CheckDeadline, Spin, OwnerAborts, Destroy, Gone, vars
    <3> QED BY <3>1, <3>2, <3>3, <3>4 DEF Next, Owner
  <2>2. ReturnFromRead
    <3>1. ASSUME NEW kind \in {"connect", "handshake", "write"}, NEW val, Return(kind, val)
          PROVE  FALSE
      <4>1. ret'.kind = kind
        BY <3>1 DEF Return, Answer
      <4> QED BY <4>1
    <3> QED BY <2>1, <3>1 DEF ReturnFromConnect, ReturnFromHandShake, ReturnFromWrite
  <2>3. call.kind = "read" /\ ret'.val = ReadResult
    BY <2>2 DEF ReturnFromRead, Return, LoopDone, Answer
  <2>4. moved = 0 /\ ec # "ok"
    BY <2>3 DEF IInv, CallOK, ReadSound
  <2> QED BY <2>3, <2>4, ReadResultFacts DEF IInv
<1>2. ShortReadIsTheLast <=> [][Ends => Error]_vars
  BY DEF ShortReadIsTheLast
<1> QED BY <1>1, <1>2, Invariant, PTL DEF Spec

=============================================================================
