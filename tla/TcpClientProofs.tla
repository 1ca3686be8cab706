--------------------------- MODULE TcpClientProofs ---------------------------
(***************************************************************************)
(* Theorems about asio_tcp_client for every set of timeouts, every number  *)
(* of endpoints, bytes and aborting threads.                               *)
(*                                                                         *)
(* IInv is the inductive invariant.  Its first part ties the owner's place *)
(* in the code to the operation in progress; the other parts say what the  *)
(* operation may have done so far, which directions of the connection are  *)
(* dead, and how the deadline relates to the ticks the call has taken.     *)
(***************************************************************************)
EXTENDS TcpClient, AsioTimerProofs

(* The call, its operation and the owner's place agree. *)
CallShape ==
  /\ pc \in {"idle", "gone"} => call = NoCall /\ stage = "none"
  /\ pc = "resolving" => call.kind = "connect" /\ call.size = 0 /\ stage = "none"
  /\ pc = "loop" => call.kind \in {"connect"} \cup Directions /\ call.size > 0
  /\ pc # "loop" => op = NoOp /\ moved = 0
  /\ stage # "none" => call.kind = "read"
  /\ Looping <=> op.at # "none"
  /\ op.at = "none" => op = NoOp

(* The operation's step fits what is left of the buffer or the endpoints. *)
StepFits ==
  /\ op.n <= call.size - moved
  /\ op.err # "would_block"
  /\ call.kind = "connect" => op.n = 0
  /\ pc = "loop" /\ call.kind = "connect" => moved < call.size

(* What the operation may report when it is over. *)
ResultSound ==
  /\ pc = "loop" /\ call.kind = "connect" =>
       /\ ec = "ok" => sock = "connected"
       /\ (op.at = "queued" /\ op.err = "ok" /\ sock # "closed") => sock = "connected"
  /\ pc = "loop" /\ call.kind \in Directions =>
       /\ ec = "ok" => moved = call.size
       /\ call.from # "connected" =>
            /\ moved = 0 /\ op.n = 0 /\ ec # "ok"
            /\ (op.at = "queued" /\ op.err # "ok") \/ op.at = "none"

(* A direction in which something failed is dead, and stays so. *)
DeadDirections ==
  /\ sock # "connected" => live = {}
  /\ torn \cap live = {}
  /\ pc = "loop" /\ call.kind = "connect" => torn = {}
  /\ pc = "loop" /\ call.kind \in Directions =>
       /\ op.at = "queued" /\ op.err # "ok" => call.kind \notin live
       /\ ec \notin {"ok", "would_block"} => call.kind \notin live

(* The deadline in force was set for this call, unless somebody aborted. *)
DeadlineOwned ==
  /\ aborted => Aborters # {}
  /\ pc = "loop" /\ ~aborted /\ timer.expiry # Inf
       => call.timeout > 0 /\ age + timer.expiry >= call.timeout

CallOK ==
  /\ CallShape
  /\ StepFits
  /\ ResultSound
  /\ DeadDirections
  /\ TruthfulReturn
  /\ NoResumeAfterTear

IInv ==
  /\ TypeOK
  /\ CallOK
  /\ DeadlineOwned
  /\ OneDeadlineActor

-----------------------------------------------------------------------------
(* The error codes, and which of them is success. *)
LEMMA ErrValues ==
  /\ DOMAIN ErrValue = {"ok", "eof", "bad_descriptor", "would_block", "failed", "aborted"}
  /\ \A e \in DOMAIN ErrValue : ErrValue[e] \in Nat
  /\ ErrValue["ok"] = 0
  /\ \A e \in DOMAIN ErrValue : e # "ok" => ErrValue[e] > 0
BY DEF ErrValue

(* The count that read and write return is a length or an error. *)
LEMMA CountFacts ==
  ASSUME TypeOK
  PROVE  /\ Count \in Int
         /\ Count >= 0 => ec = "ok" /\ Count = moved
         /\ Count < 0 => ec # "ok"
BY ErrValues DEF TypeOK, Count, Complement, Sizes

(* Starting a transfer from a quiet state. *)
LEMMA StartTransferKeeps ==
  ASSUME TypeOK, CallOK, timer' \in TimerState,
         NEW kind \in Directions, NEW timeout \in 0..MaxTimeout,
         NEW size \in 1..(MaxLen + HeaderLength),
         pc # "gone",
         StartTransfer(kind, timeout, size),
         UNCHANGED ret,
         stage' \in {"none", "header", "body"},
         stage' # "none" => kind = "read"
  PROVE  TypeOK' /\ CallOK'
<1> USE DEF StartTransfer, SetDeadline
<1>1. call' = [kind |-> kind, timeout |-> timeout, size |-> size, from |-> sock]
  OBVIOUS
<1>2. size \in Sizes /\ size > 0 /\ sock \in SockStates
  BY TcpConstants DEF TypeOK, Sizes
<1>3. call' \in [kind : {"none", "connect"} \cup Directions,
                 timeout : 0..MaxTimeout, size : Sizes, from : SockStates]
  BY <1>1, <1>2
<1>4. op' \in [at : {"none", "kernel", "queued"}, err : DOMAIN ErrValue, n : Sizes]
  BY ErrValues, TcpConstants
  DEF TypeOK, StartStep, Queued, InKernel, Sizes, SockStates
<1>5. moved' \in 0..call'.size /\ age' \in 0..MaxTimeout /\ ec' \in DOMAIN ErrValue
  BY <1>1, ErrValues, TcpConstants
<1>6. TypeOK'
  BY <1>3, <1>4, <1>5 DEF TypeOK
<1>7. /\ pc' = "loop" /\ ec' = "would_block" /\ moved' = 0
      /\ call'.kind = kind /\ call'.size = size /\ call'.from = sock
      /\ op' = StartStep
  BY <1>1
<1>8. CallShape' /\ StepFits' /\ ResultSound'
  BY <1>2, <1>7
  DEF CallShape, StepFits, ResultSound, Looping, StartStep, Queued, InKernel,
      SockStates, Directions
<1>9. DeadDirections'
  BY <1>2, <1>7
  DEF CallOK, DeadDirections, StartStep, Queued, InKernel, SockStates, Directions
<1>10. TruthfulReturn' /\ NoResumeAfterTear'
  BY <1>2, <1>7
  DEF CallOK, TruthfulReturn, NoResumeAfterTear, StartStep, Queued, InKernel,
      SockStates
<1> QED BY <1>6, <1>8, <1>9, <1>10 DEF CallOK

(* Returning from a loop that has ended. *)
LEMMA ReturnKeeps ==
  ASSUME TypeOK, CallOK, timer' \in TimerState,
         NEW kind \in {"connect", "message"} \cup Directions, NEW val \in Int,
         pc = "loop", ec # "would_block",
         ReturnWith(kind, val),
         UNCHANGED <<op, sock, live, abort, age, aborted>>,
         torn' = torn \/ (torn' = Torn /\ call.kind \in Directions),
         kind = "connect" => call.kind = "connect" /\ val = ErrValue[ec],
         kind \in Directions => call.kind \in Directions /\ val = Count,
         kind = "message" /\ val > 0 => call.kind \in Directions /\ Count > 0
  PROVE  TypeOK' /\ CallOK'
<1> USE DEF ReturnWith
<1>1. /\ pc' = "idle" /\ call' = NoCall /\ stage' = "none" /\ ec' = "ok"
      /\ moved' = 0 /\ op' = op
      /\ ret' = [kind |-> kind, val |-> val, size |-> call.size, from |-> call.from]
  OBVIOUS
<1>2. call.size \in Sizes /\ call.from \in SockStates
  BY DEF TypeOK
<1>3. torn' \in SUBSET Directions
  BY DEF Torn, TypeOK
<1>4. call' \in [kind : {"none", "connect"} \cup Directions,
                 timeout : 0..MaxTimeout, size : Sizes, from : SockStates]
      /\ moved' \in 0..call'.size
  BY <1>1, TcpConstants DEF NoCall, Sizes, SockStates
<1>5. TypeOK'
  BY <1>1, <1>2, <1>3, <1>4, ErrValues DEF TypeOK
<1>6. op = NoOp
  BY DEF CallOK, CallShape, Looping, TypeOK, NoOp
<1>7. CallShape' /\ StepFits' /\ ResultSound'
  BY <1>1, <1>6 DEF CallShape, StepFits, ResultSound, Looping, NoCall, NoOp, Directions
<1>8. DeadDirections'
  BY <1>1, CountFacts DEF CallOK, DeadDirections, Torn
<1>9. TruthfulReturn'
  BY <1>1, ErrValues, CountFacts
  DEF TypeOK, CallOK, TruthfulReturn, ResultSound, Directions
<1>10. NoResumeAfterTear'
  BY <1>1, <1>6 DEF NoResumeAfterTear, NoCall, NoOp
<1> QED BY <1>5, <1>7, <1>8, <1>9, <1>10 DEF CallOK

-----------------------------------------------------------------------------
(* Each action preserves the part of IInv about the call.  What it does to *)
(* the timer enters only through the timer's type.                         *)

(* Beginning a call, once the name is resolved for connect. *)
LEMMA StartSteps ==
  ASSUME TypeOK, CallOK, timer' \in TimerState,
         \/ \E t \in Timeouts :
              \/ Connect(t)
              \/ ReadMessage(t)
              \/ \E n \in 1..MaxLen : Read(t, n) \/ Write(t, n)
         \/ \E k \in 1..MaxEndpoints : ResolveSucceeds(k)
  PROVE  TypeOK' /\ CallOK'
<1>1. ASSUME NEW t \in Timeouts, Connect(t)
      PROVE  TypeOK' /\ CallOK'
  BY <1>1, TcpConstants
  DEF Connect, TypeOK, CallOK, CallShape, StepFits, ResultSound, DeadDirections,
      TruthfulReturn, NoResumeAfterTear, NoCall, NoOp, Looping, Sizes,
      SockStates, Directions, netVars, historyVars
<1>2. ASSUME NEW t \in Timeouts, ReadMessage(t)
      PROVE  TypeOK' /\ CallOK'
  <2>1. "read" \in Directions /\ t \in 0..MaxTimeout
        /\ HeaderLength \in 1..(MaxLen + HeaderLength)
    BY TcpConstants DEF Directions
  <2> QED BY <1>2, <2>1, StartTransferKeeps DEF ReadMessage
<1>3. ASSUME NEW t \in Timeouts, NEW n \in 1..MaxLen, Read(t, n) \/ Write(t, n)
      PROVE  TypeOK' /\ CallOK'
  <2>1. /\ "read" \in Directions /\ "write" \in Directions /\ t \in 0..MaxTimeout
        /\ n \in 1..(MaxLen + HeaderLength)
    BY TcpConstants DEF Directions
  <2>2. stage = "none"
    BY <1>3 DEF Read, Write, CallOK, CallShape
  <2> QED BY <1>3, <2>1, <2>2, StartTransferKeeps DEF Read, Write
<1>4. ASSUME NEW k \in 1..MaxEndpoints, ResolveSucceeds(k)
      PROVE  TypeOK' /\ CallOK'
  <2> USE <1>4 DEF ResolveSucceeds, SetDeadline
  <2>1. /\ pc = "resolving" /\ call.kind = "connect" /\ stage = "none"
        /\ call' = [call EXCEPT !.size = k] /\ k \in Sizes /\ k > 0
    BY TcpConstants DEF CallOK, CallShape, Sizes
  <2>2. call' \in [kind : {"none", "connect"} \cup Directions,
                   timeout : 0..MaxTimeout, size : Sizes, from : SockStates]
    BY <2>1 DEF TypeOK
  <2>3. call'.kind = "connect" /\ call'.size = k
    BY <2>1 DEF TypeOK
  <2>4. op' = InKernel /\ op' \in [at : {"none", "kernel", "queued"},
                                   err : DOMAIN ErrValue, n : Sizes]
    BY ErrValues, TcpConstants DEF InKernel, Sizes
  <2>5. /\ pc' = "loop" /\ moved' = 0 /\ ec' = "would_block" /\ sock' = "open"
        /\ live' = {} /\ torn' = {} /\ age' = 0 /\ aborted' = FALSE
        /\ UNCHANGED <<stage, abort, ret>>
    OBVIOUS
  <2> HIDE <1>4 DEF ResolveSucceeds
  <2>6. moved' \in 0..call'.size /\ age' \in 0..MaxTimeout
    BY <2>1, <2>3, <2>5, TcpConstants
  <2>7. TypeOK'
    BY <2>2, <2>4, <2>5, <2>6, ErrValues DEF TypeOK, SockStates
  <2>8. CallOK'
    BY <2>1, <2>3, <2>4, <2>5
    DEF CallOK, CallShape, StepFits, ResultSound, DeadDirections, TruthfulReturn,
        NoResumeAfterTear, Looping, InKernel, Directions
  <2> QED BY <2>7, <2>8
<1> QED BY <1>1, <1>2, <1>3, <1>4

(* The network completing a step of the operation. *)
LEMMA NetworkSteps ==
  ASSUME TypeOK, CallOK, timer' \in TimerState, Network
  PROVE  TypeOK' /\ CallOK'
<1> USE TcpConstants, ErrValues
    DEF TypeOK, CallOK, CallShape, StepFits, ResultSound, DeadDirections,
        TruthfulReturn, NoResumeAfterTear, Looping, Sizes, SockStates,
        Directions, InFlight, Queued, historyVars
<1>1. CASE Connected
  BY <1>1 DEF Connected
<1>2. CASE ConnectRefused
  BY <1>2 DEF ConnectRefused
<1>3. ASSUME NEW n \in 1..(MaxLen + HeaderLength), Transferred(n)
      PROVE  TypeOK' /\ CallOK'
  BY <1>3 DEF Transferred
<1>4. CASE EndOfStream
  BY <1>4 DEF EndOfStream
<1>5. CASE TransferFails
  BY <1>5 DEF TransferFails
<1> QED BY <1>1, <1>2, <1>3, <1>4, <1>5 DEF Network

(* One handler run by run_one, or the timer queue noticing a wait. *)
LEMMA HandlerSteps ==
  ASSUME TypeOK, CallOK, timer' \in TimerState,
         RunConnectStep \/ RunTransferStep \/ DeadlineWakes \/ CheckDeadline
  PROVE  TypeOK' /\ CallOK'
<1>1. CASE RunConnectStep
  <2>1. UNCHANGED <<pc, call, stage, timer, abort, ret, historyVars>>
        /\ Looping /\ op.at = "queued" /\ call.kind = "connect"
    BY <1>1 DEF RunConnectStep
  <2>2. op.err \in DOMAIN ErrValue /\ op.err # "would_block"
        /\ moved < call.size /\ "aborted" \in DOMAIN ErrValue
    BY <2>1, ErrValues DEF TypeOK, CallOK, StepFits, Looping
  <2>3. ASSUME NEW e \in DOMAIN ErrValue, e # "would_block", Complete(e),
               e = "ok" => sock = "connected",
               UNCHANGED <<moved, sock, live>>
        PROVE  TypeOK' /\ CallOK'
    <3>1. ec' = e /\ op' = NoOp
      BY <2>3 DEF Complete
    <3>2. TypeOK'
      BY <2>1, <2>3, <3>1, TcpConstants, ErrValues
      DEF TypeOK, NoOp, Sizes, historyVars
    <3>3. CallOK'
      BY <2>1, <2>3, <3>1
      DEF CallOK, CallShape, StepFits, ResultSound, DeadDirections,
          TruthfulReturn, NoResumeAfterTear, NoOp, Looping, Directions,
          historyVars
    <3> QED BY <3>2, <3>3
  <2>4. ASSUME sock # "closed", moved + 1 < call.size,
               moved' = moved + 1, op' = InKernel, sock' = "open", live' = {},
               UNCHANGED ec
        PROVE  TypeOK' /\ CallOK'
    <3>0. moved \in Nat /\ call.size \in Nat
      BY TcpConstants DEF TypeOK, Sizes
    <3>1. TypeOK'
      BY <2>1, <2>4, TcpConstants, ErrValues
      DEF TypeOK, InKernel, Sizes, SockStates, historyVars
    <3>2. CallShape'
      BY <2>1, <2>4 DEF CallOK, CallShape, InKernel, Looping
    <3>4. StepFits'
      BY <2>1, <2>4, <3>0
      DEF CallOK, StepFits, InKernel
    <3>3. ResultSound' /\ DeadDirections' /\ TruthfulReturn' /\ NoResumeAfterTear'
      BY <2>1, <2>4
      DEF CallOK, ResultSound, DeadDirections, TruthfulReturn,
          NoResumeAfterTear, InKernel, Looping, Directions, historyVars
    <3> QED BY <3>1, <3>2, <3>3, <3>4 DEF CallOK
  <2>5. op.err = "ok" /\ sock # "closed" => sock = "connected"
    BY <2>1 DEF CallOK, ResultSound, Looping
  <2>6. \/ Complete("aborted") /\ UNCHANGED <<moved, sock, live>>
        \/ op.err = "ok" /\ sock # "closed" /\ Complete(op.err)
           /\ UNCHANGED <<moved, sock, live>>
        \/ op.err # "ok" /\ Complete(op.err) /\ UNCHANGED <<moved, sock, live>>
        \/ /\ sock # "closed" /\ moved + 1 < call.size /\ moved' = moved + 1
           /\ op' = InKernel /\ sock' = "open" /\ live' = {} /\ UNCHANGED ec
    BY <1>1 DEF RunConnectStep
  <2> QED BY <2>2, <2>3, <2>4, <2>5, <2>6
<1>2. CASE RunTransferStep
  BY <1>2, ErrValues, TcpConstants
  DEF RunTransferStep, Complete, StartStep, Queued, InKernel, TypeOK, CallOK,
      CallShape, StepFits, ResultSound, DeadDirections, TruthfulReturn,
      NoResumeAfterTear, NoOp, Looping, Sizes, SockStates, Directions,
      historyVars
<1>3. CASE DeadlineWakes
  BY <1>3
  DEF DeadlineWakes, TypeOK, CallOK, CallShape, StepFits, ResultSound,
      DeadDirections, TruthfulReturn, NoResumeAfterTear, Looping, netVars,
      historyVars
<1>4. CASE CheckDeadline
  <2>1. /\ UNCHANGED <<pc, call, stage, ec, moved, abort, ret, historyVars>>
        /\ Looping
        /\ CloseSocket \/ UNCHANGED netVars
    BY <1>4 DEF CheckDeadline
  <2>2. CASE UNCHANGED netVars
    BY <2>1, <2>2
    DEF TypeOK, CallOK, CallShape, StepFits, ResultSound, DeadDirections,
        TruthfulReturn, NoResumeAfterTear, Looping, netVars, historyVars
  <2>3. CASE CloseSocket
    <3>1. op' \in [at : {"none", "kernel", "queued"}, err : DOMAIN ErrValue,
                   n : Sizes]
      BY <2>3, ErrValues, TcpConstants DEF CloseSocket, Queued, TypeOK, Sizes
    <3>2. TypeOK'
      BY <2>1, <2>3, <3>1 DEF CloseSocket, TypeOK, SockStates, historyVars
    <3>3. /\ sock' = "closed" /\ live' = {}
          /\ op.at = "kernel" => op' = [at |-> "queued", err |-> "aborted", n |-> 0]
          /\ op.at # "kernel" => op' = op
      BY <2>3 DEF CloseSocket, Queued
    <3>4. CallShape' /\ StepFits' /\ ResultSound'
      BY <2>1, <3>3
      DEF TypeOK, CallOK, CallShape, StepFits, ResultSound, Looping, Directions,
          Sizes, NoOp
    <3>5. DeadDirections' /\ TruthfulReturn' /\ NoResumeAfterTear'
      BY <2>1, <3>3
      DEF CallOK, DeadDirections, TruthfulReturn, NoResumeAfterTear, Looping,
          historyVars
    <3> QED BY <3>2, <3>4, <3>5 DEF CallOK
  <2> QED BY <2>1, <2>2, <2>3
<1> QED BY <1>1, <1>2, <1>3, <1>4

(* The loop has ended: a return, or the header's end and the body's start. *)
LEMMA ReturnSteps ==
  ASSUME TypeOK, CallOK, timer' \in TimerState,
         \/ ReturnFromConnect
         \/ ReturnFromTransfer
         \/ \E n \in 0..MaxLen : HeaderDone(n)
         \/ BodyDone
  PROVE  TypeOK' /\ CallOK'
<1> USE DEF LoopDone
<1>1. CASE ReturnFromConnect
  <2>1. "connect" \in {"connect", "message"} \cup Directions /\ ErrValue[ec] \in Int
    BY ErrValues DEF TypeOK
  <2>2. "connect" \notin Directions
    BY DEF Directions
  <2> QED BY <1>1, <2>1, <2>2, ReturnKeeps DEF ReturnFromConnect, netVars, historyVars
<1>2. CASE ReturnFromTransfer
  <2>1. call.kind \in Directions /\ Count \in Int
    BY <1>2, CountFacts DEF ReturnFromTransfer
  <2>2. "connect" \notin Directions /\ "message" \notin Directions
    BY DEF Directions
  <2> QED BY <1>2, <2>1, <2>2, ReturnKeeps DEF ReturnFromTransfer, netVars
<1>3. ASSUME NEW n \in 0..MaxLen, HeaderDone(n)
      PROVE  TypeOK' /\ CallOK'
  <2>1. call.kind = "read" /\ "read" \in Directions /\ "message" \notin Directions
        /\ pc = "loop" /\ ec # "would_block"
    BY <1>3 DEF HeaderDone, Directions
  <2>2. CASE ReturnWith("message", 0) /\ torn' = Torn
             /\ UNCHANGED <<netVars, timer, abort, age, aborted>>
    BY <2>1, <2>2, ReturnKeeps DEF netVars
  <2>3. CASE Count = HeaderLength /\ ReturnWith("message", HeaderLength)
             /\ UNCHANGED <<netVars, timer, abort, historyVars>>
    <3>1. HeaderLength \in Int /\ Count > 0
      BY <2>3, TcpConstants
    <3> QED BY <2>1, <2>3, <3>1, ReturnKeeps DEF netVars, historyVars
  <2>4. CASE n > 0 /\ StartTransfer("read", BodyTimeout, n) /\ stage' = "body"
             /\ UNCHANGED ret
    <3>1. BodyTimeout \in 0..MaxTimeout /\ n \in 1..(MaxLen + HeaderLength)
      BY <2>4, TcpConstants
    <3> QED BY <2>1, <2>4, <3>1, StartTransferKeeps
  <2> QED BY <1>3, <2>2, <2>3, <2>4 DEF HeaderDone
<1>4. CASE BodyDone
  <2> DEFINE v == IF Count <= 0 THEN 0 ELSE Count
  <2>1. v \in Int /\ (v > 0 => Count > 0)
    BY CountFacts
  <2>2. call.kind = "read" /\ "read" \in Directions /\ "message" \notin Directions
    BY <1>4 DEF BodyDone, Directions
  <2> QED BY <1>4, <2>1, <2>2, ReturnKeeps DEF BodyDone, netVars
<1> QED BY <1>1, <1>2, <1>3, <1>4

(* A failed resolution, abort(), the clock and the destructor. *)
LEMMA OtherSteps ==
  ASSUME TypeOK, CallOK, timer' \in TimerState,
         ResolveFails \/ OwnerAborts \/ Destroy \/ Gone \/ OtherThreads \/ Tick
  PROVE  TypeOK' /\ CallOK'
<1> USE DEF TypeOK, CallOK, CallShape, StepFits, ResultSound, DeadDirections,
            TruthfulReturn, NoResumeAfterTear, Looping, netVars, historyVars
<1>1. CASE ResolveFails
  BY <1>1, TcpConstants, ErrValues
  DEF ResolveFails, NoCall, NoOp, Directions, Sizes, SockStates
<1>2. CASE OwnerAborts
  BY <1>2 DEF OwnerAborts
<1>3. CASE Destroy
  BY <1>3 DEF Destroy, SockStates, NoCall, NoOp
<1>4. CASE Gone
  BY <1>4 DEF Gone, vars
<1>5. ASSUME NEW a \in Aborters,
             AborterCancels(a) \/ AborterClears(a) \/ AborterSets(a)
      PROVE  TypeOK' /\ CallOK'
  <2>1. /\ abort' \in [Aborters -> {"out", "cancelled", "cleared"}]
        /\ aborted' \in BOOLEAN
        /\ UNCHANGED <<pc, call, stage, ec, moved, op, sock, live, ret, age, torn>>
    BY <1>5 DEF AborterCancels, AborterClears, AborterSets
  <2> QED BY <2>1
<1>6. CASE Tick
  BY <1>6, TcpConstants DEF Tick
<1> QED BY <1>1, <1>2, <1>3, <1>4, <1>5, <1>6 DEF OtherThreads

-----------------------------------------------------------------------------
(* What each action does to the timer: its type, its one actor, and the    *)
(* deadline it stands for.                                                 *)

(* The duration made of a timeout is never zero. *)
LEMMA DurationFacts ==
  ASSUME NEW timeout \in 0..MaxTimeout
  PROVE  /\ Duration(timeout) \in Ticks
         /\ Duration(timeout) # Inf => timeout > 0 /\ Duration(timeout) = timeout
         /\ Duration(timeout) # 0
BY TcpConstants DEF Duration, Ticks, Inf

(* A call that sets the deadline owns it. *)
LEMMA SetDeadlineKeeps ==
  ASSUME IInv, NEW timeout \in 0..MaxTimeout, pc # "gone",
         SetDeadline(timeout), call'.timeout = timeout
  PROVE  timer' \in TimerState /\ DeadlineOwned' /\ OneDeadlineActor'
<1>1. /\ timer' = ExpiresAt(timer, Duration(timeout))
      /\ timer \in TimerState
      /\ Actors(timer) = 1
      /\ age' = 0 /\ aborted' = FALSE
  BY DEF SetDeadline, IInv, TypeOK, OneDeadlineActor, Actors
<1>2. timer' \in TimerState /\ timer'.expiry = Duration(timeout) /\ Actors(timer') = 1
  BY <1>1, DurationFacts, ExpiresAtFacts
<1> QED
  BY <1>1, <1>2, DurationFacts DEF DeadlineOwned, OneDeadlineActor, Actors

(* Every action keeps the timer's type, its actor and its deadline's owner. *)
LEMMA TimerSteps ==
  ASSUME IInv, Next
  PROVE  timer' \in TimerState /\ DeadlineOwned' /\ OneDeadlineActor'
<1> DEFINE Goal == timer' \in TimerState /\ DeadlineOwned' /\ OneDeadlineActor'
<1>1. /\ timer \in TimerState /\ TypeOK /\ CallOK /\ DeadlineOwned /\ OneDeadlineActor
      /\ pc # "gone" => Actors(timer) = 1
      /\ 0 \in Ticks /\ Inf \in Ticks /\ Inf # 0
  BY DEF IInv, TypeOK, OneDeadlineActor, Actors, Ticks, Inf
<1>2. ASSUME UNCHANGED <<timer, aborted, age>>, pc' # "gone" => pc # "gone",
             pc' = "loop" => pc = "loop" /\ call' = call
      PROVE  Goal
  BY <1>1, <1>2 DEF DeadlineOwned, OneDeadlineActor
<1>3. ASSUME NEW kind, NEW timeout \in 0..MaxTimeout, NEW size,
             pc # "gone", StartTransfer(kind, timeout, size)
      PROVE  Goal
  BY <1>3, SetDeadlineKeeps DEF StartTransfer
<1>4. ASSUME NEW t \in Timeouts, NEW n \in 1..MaxLen,
             ReadMessage(t) \/ Read(t, n) \/ Write(t, n)
      PROVE  Goal
  <2>1. t \in 0..MaxTimeout /\ pc = "idle"
    BY <1>4, TcpConstants DEF ReadMessage, Read, Write
  <2> QED BY <1>3, <1>4, <2>1 DEF ReadMessage, Read, Write
<1>5. ASSUME NEW n \in 0..MaxLen, HeaderDone(n)
      PROVE  Goal
  <2>1. pc = "loop" /\ BodyTimeout \in 0..MaxTimeout
    BY <1>5, TcpConstants DEF HeaderDone, LoopDone
  <2>2. \/ UNCHANGED <<timer, aborted, age>> /\ pc' = "idle"
        \/ StartTransfer("read", BodyTimeout, n)
    BY <1>5 DEF HeaderDone, ReturnWith, historyVars
  <2> QED BY <1>2, <1>3, <2>1, <2>2
<1>6. ASSUME NEW k \in 1..MaxEndpoints, ResolveSucceeds(k)
      PROVE  Goal
  <2>1. call.timeout \in 0..MaxTimeout /\ call'.timeout = call.timeout
    BY <1>1, <1>6 DEF ResolveSucceeds, TypeOK
  <2> QED BY <1>6, <2>1, SetDeadlineKeeps DEF ResolveSucceeds
<1>7. CASE DeadlineWakes
  <2>1. timer' = CompleteWaits(timer) /\ UNCHANGED <<pc, call, age, aborted>> /\ pc = "loop"
    BY <1>7 DEF DeadlineWakes, Looping, historyVars
  <2>2. timer' \in TimerState /\ timer'.expiry = timer.expiry /\ Actors(timer') = 1
    BY <1>1, <2>1, CompleteWaitsFacts
  <2> QED BY <1>1, <2>1, <2>2 DEF DeadlineOwned, OneDeadlineActor, Actors
<1>8. CASE CheckDeadline
  <2> DEFINE h == TakeHandler(timer)
  <2>1. /\ UNCHANGED <<pc, call, age, aborted>> /\ pc = "loop"
        /\ timer' = AsyncWait(ExpiresAt(h, Inf)) \/ timer' = AsyncWait(h)
    BY <1>8 DEF CheckDeadline, AfterTimeout, Looping, historyVars
  <2>2. h \in TimerState /\ h.expiry = timer.expiry /\ Actors(h) = 0
    BY <1>1, <1>8, TakeHandlerFacts DEF CheckDeadline, Looping
  <2> HIDE DEF h
  <2>3. ExpiresAt(h, Inf) \in TimerState /\ ExpiresAt(h, Inf).expiry = Inf
        /\ Actors(ExpiresAt(h, Inf)) = 0
    BY <1>1, <2>2, ExpiresAtFacts
  <2>4. timer' \in TimerState /\ Actors(timer') = 1
        /\ (timer'.expiry = timer.expiry \/ timer'.expiry = Inf)
    BY <2>1, <2>2, <2>3, AsyncWaitFacts
  <2> QED BY <1>1, <2>1, <2>4 DEF DeadlineOwned, OneDeadlineActor, Actors
<1>9. CASE OwnerAborts
  <2>1. timer' = ExpiresAt(timer, 0) /\ UNCHANGED <<pc, aborted>> /\ pc = "idle"
    BY <1>9 DEF OwnerAborts, historyVars
  <2>2. timer' \in TimerState /\ Actors(timer') = 1
    BY <1>1, <2>1, ExpiresAtFacts
  <2> QED BY <1>1, <2>1, <2>2 DEF DeadlineOwned, OneDeadlineActor, Actors
<1>10. CASE Destroy
  BY <1>1, <1>10, CancelWaitsFacts
  DEF Destroy, DeadlineOwned, OneDeadlineActor, historyVars
<1>11. ASSUME NEW a \in Aborters,
              AborterCancels(a) \/ AborterClears(a) \/ AborterSets(a)
       PROVE  Goal
  <2>1. UNCHANGED <<pc, call, age>> /\ Aborters # {}
    BY <1>11 DEF AborterCancels, AborterClears, AborterSets, historyVars
  <2>2. \/ timer' = CompleteWaits(timer) /\ aborted' = aborted
        \/ timer' = timer /\ aborted' = aborted
        \/ timer' = [timer EXCEPT !.mayWait = FALSE] /\ aborted' = aborted
        \/ timer' = [timer EXCEPT !.expiry = 0] /\ aborted' = (aborted \/ pc = "loop")
    BY <1>11 DEF AborterCancels, AborterClears, AborterSets, historyVars
  <2>3. timer' \in TimerState /\ Actors(timer') = Actors(timer)
    BY <1>1, <2>2, CompleteWaitsFacts DEF TimerState, Actors
  <2>4. \/ timer'.expiry = timer.expiry /\ aborted' = aborted
        \/ aborted' = (aborted \/ pc = "loop")
    BY <1>1, <2>2, CompleteWaitsFacts DEF TimerState
  <2> QED BY <1>1, <2>1, <2>3, <2>4 DEF DeadlineOwned, OneDeadlineActor, Actors
<1>12. CASE Tick
  <2>1. /\ timer' = TickTimer(timer) /\ UNCHANGED <<pc, call, aborted>>
        /\ age' = IF age < MaxTimeout THEN age + 1 ELSE age
        /\ pc # "gone"
    BY <1>12 DEF Tick
  <2>2. /\ timer' \in TimerState /\ Actors(timer') = 1
        /\ timer'.expiry = IF timer.expiry > 0 THEN timer.expiry - 1 ELSE timer.expiry
    BY <1>1, <2>1, TickTimerFacts
  <2>3. /\ timer.expiry \in Ticks /\ age \in 0..MaxTimeout
        /\ call.timeout \in 0..MaxTimeout
    BY <1>1, TimerFields DEF TypeOK
  <2> QED
    BY <1>1, <2>1, <2>2, <2>3, TcpConstants
    DEF DeadlineOwned, OneDeadlineActor, Actors, Ticks, Inf
<1>13. ASSUME NEW t \in Timeouts, Connect(t)
       PROVE  Goal
  BY <1>2, <1>13 DEF Connect, historyVars
<1>14. CASE \/ ResolveFails \/ RunConnectStep \/ RunTransferStep
            \/ ReturnFromConnect \/ ReturnFromTransfer \/ BodyDone \/ Gone
            \/ Network
  BY <1>2, <1>14
  DEF ResolveFails, RunConnectStep, RunTransferStep, ReturnFromConnect,
      ReturnFromTransfer, BodyDone, Gone, Network, Connected, ConnectRefused,
      Transferred, EndOfStream, TransferFails, InFlight, LoopDone, ReturnWith,
      Looping, historyVars, vars
<1>15. 1 \in 1..MaxLen
  BY TcpConstants
<1> QED
  BY <1>4, <1>5, <1>6, <1>7, <1>8, <1>9, <1>10, <1>11, <1>12, <1>13, <1>14, <1>15
  DEF Next, Owner, OtherThreads

-----------------------------------------------------------------------------
(* The inductive invariant, and what follows from it. *)

(* The constructor establishes the invariant. *)
LEMMA InitHolds == Init => IInv
<1> SUFFICES ASSUME Init PROVE IInv
  OBVIOUS
<1> USE DEF Init
<1>1. timer \in TimerState /\ Actors(timer) = 1 /\ timer.expiry = Inf
  <2> DEFINE e == ExpiresAt(NewTimer, Inf)
  <2>1. e \in TimerState /\ e.expiry = Inf /\ Actors(e) = 0
    BY NewTimerFacts, ExpiresAtFacts DEF Ticks
  <2> HIDE DEF e
  <2>2. AsyncWait(e) \in TimerState /\ AsyncWait(e).expiry = Inf
        /\ Actors(AsyncWait(e)) = 1
    BY <2>1, AsyncWaitFacts
  <2> QED BY <2>2 DEF e
<1>2. TypeOK
  <2>1. 0 \in Sizes /\ 0 \in 0..MaxTimeout /\ "closed" \in SockStates
        /\ "ok" \in DOMAIN ErrValue
    BY ErrValues, TcpConstants DEF Sizes, SockStates
  <2>2. call \in [kind : {"none", "connect"} \cup Directions,
                  timeout : 0..MaxTimeout, size : Sizes, from : SockStates]
        /\ moved \in 0..call.size
    BY <2>1 DEF NoCall
  <2>3. op \in [at : {"none", "kernel", "queued"}, err : DOMAIN ErrValue, n : Sizes]
    BY <2>1 DEF NoOp
  <2>4. ret \in [kind : {"none", "connect", "message"} \cup Directions,
                 val : Int, size : Sizes, from : SockStates]
    BY <2>1 DEF NoReturn
  <2> QED BY <1>1, <2>1, <2>2, <2>3, <2>4 DEF TypeOK
<1>3. CallOK
  BY DEF CallOK, CallShape, StepFits, ResultSound, DeadDirections,
         TruthfulReturn, NoResumeAfterTear, Looping, NoCall, NoReturn, NoOp,
         Directions
<1>4. DeadlineOwned /\ OneDeadlineActor
  BY <1>1 DEF DeadlineOwned, OneDeadlineActor, Actors
<1> QED BY <1>2, <1>3, <1>4 DEF IInv

(* Every step preserves it. *)
LEMMA StepKeeps == IInv /\ [Next]_vars => IInv'
<1> SUFFICES ASSUME IInv, [Next]_vars PROVE IInv'
  OBVIOUS
<1>1. CASE Next
  <2>1. timer' \in TimerState /\ DeadlineOwned' /\ OneDeadlineActor'
    BY <1>1, TimerSteps
  <2>2. TypeOK /\ CallOK
    BY DEF IInv
  <2>3. TypeOK' /\ CallOK'
    BY <1>1, <2>1, <2>2, StartSteps, NetworkSteps, HandlerSteps, ReturnSteps,
       OtherSteps
    DEF Next, Owner
  <2> QED BY <2>1, <2>3 DEF IInv
<1>2. CASE UNCHANGED vars
  BY <1>2
  DEF vars, IInv, TypeOK, CallOK, CallShape, StepFits, ResultSound,
      DeadDirections, DeadlineOwned, OneDeadlineActor, TruthfulReturn,
      NoResumeAfterTear, Looping
<1> QED BY <1>1, <1>2

(* IInv holds in every reachable state of asio_tcp_client. *)
THEOREM Invariant == Spec => []IInv
BY InitHolds, StepKeeps, PTL DEF Spec

(* Every variable keeps its range; in particular an operation never moves  *)
(* more bytes than the caller's buffer has room for.                       *)
THEOREM TypeCorrect == Spec => []TypeOK
<1>1. IInv => TypeOK
  BY DEF IInv
<1> QED BY <1>1, Invariant, PTL

(* Whatever the order in which the deadline is set, passes, is aborted and *)
(* fires, one check_deadline is asleep on it or about to run.              *)
THEOREM OneActorAlways == Spec => []OneDeadlineActor
<1>1. IInv => OneDeadlineActor
  BY DEF IInv
<1> QED BY <1>1, Invariant, PTL

(* No operation that points into the caller's stack outlives the call.     *)
THEOREM NothingOutlivesItsCall == Spec => []NoOrphanedOperation
<1>1. IInv => NoOrphanedOperation
  BY DEF IInv, CallOK, CallShape, NoOrphanedOperation
<1> QED BY <1>1, Invariant, PTL

(* What connect, read and write return is true. *)
THEOREM ReturnsAreTruthful == Spec => []TruthfulReturn
<1>1. IInv => TruthfulReturn
  BY DEF IInv, CallOK
<1> QED BY <1>1, Invariant, PTL

(* A stream that was left in the middle is not continued. *)
THEOREM TornStreamsStayDead == Spec => []NoResumeAfterTear
<1>1. IInv => NoResumeAfterTear
  BY DEF IInv, CallOK
<1> QED BY <1>1, Invariant, PTL

(* Only check_deadline closes the socket under a call, and it does so only *)
(* when the deadline has passed that this call set, or abort() moved.      *)
THEOREM NeverEarly == Spec => NeverCutEarly
<1> DEFINE Cut == pc = "loop" /\ sock # "closed" /\ sock' = "closed"
           Due == aborted \/ (call.timeout > 0 /\ age >= call.timeout)
<1>1. IInv /\ [Next]_vars => [Cut => Due]_vars
  <2> SUFFICES ASSUME IInv, Next, Cut PROVE Due
    OBVIOUS
  <2>1. ASSUME CheckDeadline PROVE Due
    <3>1. timer.expiry = 0
      BY <2>1 DEF CheckDeadline, DeadlinePassed, Passed, netVars
    <3>2. age \in 0..MaxTimeout /\ call.timeout \in 0..MaxTimeout
      BY DEF IInv, TypeOK
    <3> QED BY <3>1, <3>2, TcpConstants DEF IInv, DeadlineOwned, Inf
  <2>2. ASSUME ~CheckDeadline PROVE FALSE
    BY <2>2
    DEF Next, Owner, Network, OtherThreads, Connect, ReadMessage, Read, Write,
        StartTransfer, ResolveFails, ResolveSucceeds, RunConnectStep,
        RunTransferStep, DeadlineWakes, ReturnFromConnect, ReturnFromTransfer,
        HeaderDone, BodyDone, OwnerAborts, Destroy, Gone, Connected,
        ConnectRefused, Transferred, EndOfStream, TransferFails,
        AborterCancels, AborterClears, AborterSets, Tick, netVars, vars
  <2> QED BY <2>1, <2>2
<1>2. NeverCutEarly <=> [][Cut => Due]_vars
  BY DEF NeverCutEarly
<1> QED BY <1>1, <1>2, Invariant, PTL DEF Spec

-----------------------------------------------------------------------------
(* Without aborting threads the actor's wait follows the deadline. *)

(* Every step preserves that the actor sleeps on the deadline in force. *)
LEMMA ActorStep ==
  ASSUME IInv, ActorSleepsOnDeadline, [Next]_vars, Aborters = {}
  PROVE  ActorSleepsOnDeadline'
<1> USE DEF ActorSleepsOnDeadline
<1>1. timer \in TimerState /\ Inf \in Ticks /\ 0 \in Ticks
  BY DEF IInv, TypeOK, Ticks
<1>2. ASSUME NEW t \in TimerState, t.waiting > 0 => t.mayWait, NEW e \in Ticks
      PROVE  ExpiresAt(t, e).waiting = 0
  <2>1. CASE t.mayWait
    BY <1>2, <2>1 DEF ExpiresAt, CancelWaits, CompleteWaits, TimerState
  <2>2. CASE ~t.mayWait
    BY <1>2, <2>2 DEF ExpiresAt, CancelWaits, TimerState
  <2> QED BY <2>1, <2>2
<1>3. ASSUME NEW t \in TimerState, t.waiting = 0
      PROVE  AsyncWait(t).wakeAt = AsyncWait(t).expiry /\ AsyncWait(t).mayWait
  BY <1>3 DEF AsyncWait, TimerState
<1>4. ASSUME NEW timeout \in 0..MaxTimeout, SetDeadline(timeout)
      PROVE  ActorSleepsOnDeadline'
  BY <1>1, <1>2, <1>4, DurationFacts DEF SetDeadline
<1>5. ASSUME NEW t \in Timeouts, NEW n \in 1..MaxLen,
             ReadMessage(t) \/ Read(t, n) \/ Write(t, n)
      PROVE  ActorSleepsOnDeadline'
  BY <1>4, <1>5, TcpConstants DEF ReadMessage, Read, Write, StartTransfer
<1>6. ASSUME NEW n \in 0..MaxLen, HeaderDone(n)
      PROVE  ActorSleepsOnDeadline'
  <2>1. BodyTimeout \in 0..MaxTimeout
    BY TcpConstants
  <2>2. UNCHANGED timer \/ SetDeadline(BodyTimeout)
    BY <1>6 DEF HeaderDone, StartTransfer
  <2> QED BY <1>4, <2>1, <2>2
<1>7. ASSUME NEW k \in 1..MaxEndpoints, ResolveSucceeds(k)
      PROVE  ActorSleepsOnDeadline'
  BY <1>4, <1>7 DEF ResolveSucceeds, IInv, TypeOK
<1>8. CASE DeadlineWakes
  BY <1>1, <1>8 DEF DeadlineWakes, CompleteWaits, TimerState
<1>9. CASE CheckDeadline
  <2> DEFINE h == TakeHandler(timer)
  <2>1. h \in TimerState /\ h.waiting = 0
    BY <1>1, <1>9, TakeHandlerFacts
    DEF CheckDeadline, IInv, OneDeadlineActor, Looping, TakeHandler, TimerState
  <2> HIDE DEF h
  <2>2. ExpiresAt(h, Inf) \in TimerState /\ ExpiresAt(h, Inf).waiting = 0
    BY <1>1, <1>2, <2>1, ExpiresAtFacts
  <2>3. timer' = AsyncWait(ExpiresAt(h, Inf)) \/ timer' = AsyncWait(h)
    BY <1>9 DEF CheckDeadline, AfterTimeout, h
  <2> QED BY <1>3, <2>1, <2>2, <2>3
<1>10. CASE OwnerAborts
  BY <1>1, <1>2, <1>10 DEF OwnerAborts
<1>11. CASE Destroy
  <2>1. CASE timer.mayWait
    BY <1>1, <1>11, <2>1 DEF Destroy, CancelWaits, CompleteWaits, TimerState
  <2>2. CASE ~timer.mayWait
    BY <1>11, <2>2 DEF Destroy, CancelWaits
  <2> QED BY <2>1, <2>2
<1>12. CASE Tick
  BY <1>1, <1>12 DEF Tick, TickTimer, TimerState
<1>13. ASSUME NEW t \in Timeouts, Connect(t)
       PROVE  ActorSleepsOnDeadline'
  BY <1>13 DEF Connect
<1>14. CASE \/ ResolveFails \/ RunConnectStep \/ RunTransferStep
            \/ ReturnFromConnect \/ ReturnFromTransfer \/ BodyDone \/ Gone
            \/ Network \/ UNCHANGED vars
  BY <1>14
  DEF ResolveFails, RunConnectStep, RunTransferStep, ReturnFromConnect,
      ReturnFromTransfer, BodyDone, Gone, Network, Connected, ConnectRefused,
      Transferred, EndOfStream, TransferFails, vars
<1>15. 1 \in 1..MaxLen
  BY TcpConstants
<1> QED
  BY <1>5, <1>6, <1>7, <1>8, <1>9, <1>10, <1>11, <1>12, <1>13, <1>14, <1>15
  DEF Next, Owner, OtherThreads

(* The thread that owns the client alone: the deadline actor never sleeps  *)
(* past the deadline in force, and setting a new one always wakes it.      *)
THEOREM ActorNeverOversleeps ==
  ASSUME Aborters = {}
  PROVE  Spec => []ActorSleepsOnDeadline
<1>1. Init => ActorSleepsOnDeadline
  BY NewTimerFacts
  DEF Init, ActorSleepsOnDeadline, NewTimer, ExpiresAt, CancelWaits, AsyncWait
<1>2. IInv /\ ActorSleepsOnDeadline /\ [Next]_vars => ActorSleepsOnDeadline'
  BY ActorStep
<1> QED BY <1>1, <1>2, Invariant, PTL DEF Spec

-----------------------------------------------------------------------------
(* asio_tcp_client implements BlockingCall: its initial state is one of    *)
(* the contract's, and each of its steps is a step of the contract or      *)
(* leaves the contract's variables alone.                                  *)

(* The images of the contract's variables. *)

Limit == call.timeout > 0
Due   == pc = "loop" /\ timer.expiry = 0
Link  == sock = "connected"
Had   == call.from = "connected"

(* A step that leaves the contract's variables alone, or is one of its own. *)
Allowed ==
  \/ UNCHANGED <<Phase, Limit, Due, Link, Had, Outcome>>
  \/ Contract!Next

(* Starting a transfer is the contract's BeginTransfer. *)
LEMMA BeginAllowed ==
  ASSUME IInv, NEW kind \in Directions, NEW timeout \in 0..MaxTimeout, NEW size,
         pc = "idle" \/ (pc = "loop" /\ call.kind # "connect"),
         StartTransfer(kind, timeout, size), UNCHANGED ret
  PROVE  Allowed
<1>1. /\ pc' = "loop" /\ call'.kind = kind /\ call'.timeout = timeout
      /\ call'.from = sock /\ sock' = sock
      /\ timer' = ExpiresAt(timer, Duration(timeout))
  BY DEF StartTransfer, SetDeadline
<1>2. timer'.expiry # 0
  BY <1>1, DurationFacts, ExpiresAtFacts DEF IInv, TypeOK
<1>3. Phase \in {"idle", "transferring"} /\ Phase' = "transferring"
  BY <1>1 DEF Phase, Directions
<1>4. /\ ~Due' /\ Had' = Link /\ Link' = Link /\ Outcome' = Outcome
      /\ Limit' \in BOOLEAN
  BY <1>1, <1>2 DEF Due, Had, Link, Outcome, Limit
<1>5. Contract!BeginTransfer(Limit')
  BY <1>3, <1>4 DEF Contract!BeginTransfer, Contract!Begin, Limit, Due, Link, Had
<1> QED BY <1>4, <1>5 DEF Allowed, Contract!Next

(* Returning is the contract's Succeed or Fail. *)
LEMMA EndAllowed ==
  ASSUME IInv, NEW kind \in {"connect", "message"} \cup Directions, NEW val \in Int,
         pc \in {"resolving", "loop"}, pc' = "idle", call' = NoCall, sock' = sock,
         ret'.kind = kind, ret'.val = val,
         kind = "connect" =>
           call.kind = "connect" /\ (val = 0 => sock = "connected"),
         kind \in Directions /\ val >= 0 =>
           call.kind # "connect" /\ call.from = "connected",
         kind = "message" /\ val > 0 =>
           call.kind # "connect" /\ call.from = "connected"
  PROVE  Allowed
<1>1. /\ Phase \in {"connecting", "transferring"} /\ Phase' = "idle"
      /\ ~Limit' /\ ~Due' /\ ~Had' /\ Link' = Link
      /\ Limit' \in BOOLEAN
  BY DEF Phase, Limit, Due, Had, Link, NoCall
<1>2. CASE Outcome' = "failed"
  <2>1. Contract!Fail
    BY <1>1, <1>2
    DEF Contract!Fail, Contract!End, Contract!Busy, Limit, Due, Had, Link
  <2> QED BY <2>1 DEF Allowed, Contract!Next
<1>3. CASE Outcome' # "failed"
  <2>1. Outcome' = "ok"
    BY <1>3 DEF Outcome, Directions
  <2>2. \/ Phase = "connecting" /\ Link
        \/ Phase = "transferring" /\ Had
    BY <1>3 DEF Outcome, Phase, Link, Had, Directions
  <2>3. Contract!Succeed
    BY <1>1, <2>1, <2>2
    DEF Contract!Succeed, Contract!End, Limit, Due, Had, Link
  <2> QED BY <2>3 DEF Allowed, Contract!Next
<1> QED BY <1>2, <1>3

(* Every step is one of the contract's, or leaves its variables alone. *)
LEMMA StepAllowed ==
  ASSUME IInv, IInv', Next
  PROVE  Allowed
<1>1. TypeOK /\ CallOK /\ DeadlineOwned /\ CallOK'
  BY DEF IInv
<1>2. ASSUME NEW t \in Timeouts, Connect(t)
      PROVE  Allowed
  <2>1. /\ Phase = "idle" /\ Phase' = "connecting" /\ ~Due' /\ Had' = Link
        /\ Link' = Link /\ Outcome' = Outcome /\ Limit' \in BOOLEAN
    BY <1>2 DEF Connect, Phase, Due, Had, Link, Outcome, Limit, netVars
  <2>2. Contract!BeginConnect(Limit')
    BY <2>1 DEF Contract!BeginConnect, Contract!Begin, Limit, Due, Link, Had
  <2> QED BY <2>1, <2>2 DEF Allowed, Contract!Next
<1>3. ASSUME NEW t \in Timeouts, NEW n \in 1..MaxLen,
             ReadMessage(t) \/ Read(t, n) \/ Write(t, n)
      PROVE  Allowed
  <2>1. "read" \in Directions /\ "write" \in Directions /\ t \in 0..MaxTimeout
    BY TcpConstants DEF Directions
  <2> QED BY <1>3, <2>1, BeginAllowed DEF ReadMessage, Read, Write
<1>4. CASE ResolveFails
  <2>1. /\ pc = "resolving" /\ call.kind = "connect"
        /\ ret'.kind = "connect" /\ ret'.val = ErrValue["failed"]
        /\ pc' = "idle" /\ call' = NoCall /\ sock' = sock
    BY <1>1, <1>4 DEF ResolveFails, CallOK, CallShape, netVars
  <2>2. ErrValue["failed"] \in Int /\ ErrValue["failed"] # 0
        /\ "connect" \notin Directions
    BY ErrValues DEF Directions
  <2> QED BY <2>1, <2>2, EndAllowed
<1>5. ASSUME NEW k \in 1..MaxEndpoints, ResolveSucceeds(k)
      PROVE  Allowed
  <2>1. /\ call.kind = "connect" /\ call'.kind = call.kind
        /\ call'.timeout = call.timeout /\ call'.from = call.from
        /\ pc = "resolving" /\ pc' = "loop" /\ sock' = "open"
        /\ timer' = ExpiresAt(timer, Duration(call.timeout))
        /\ ret' = ret
    BY <1>1, <1>5 DEF ResolveSucceeds, SetDeadline, CallOK, CallShape, TypeOK
  <2>2. timer'.expiry # 0
    BY <1>1, <2>1, DurationFacts, ExpiresAtFacts DEF TypeOK
  <2>3. /\ Phase = "connecting" /\ Phase' = Phase /\ Limit' = Limit
        /\ Due' = Due /\ Had' = Had /\ Outcome' = Outcome /\ Link' \in BOOLEAN
    BY <2>1, <2>2 DEF Phase, Limit, Due, Had, Outcome, Link
  <2>4. Contract!Relink
    BY <2>3 DEF Contract!Relink, Limit, Due, Had, Link
  <2> QED BY <2>4 DEF Allowed, Contract!Next
<1>6. ASSUME call.kind = "connect", pc = "loop", UNCHANGED <<pc, call, timer, ret>>
      PROVE  Allowed
  <2>1. /\ Phase = "connecting" /\ Phase' = Phase /\ Limit' = Limit
        /\ Due' = Due /\ Had' = Had /\ Outcome' = Outcome /\ Link' \in BOOLEAN
    BY <1>6 DEF Phase, Limit, Due, Had, Outcome, Link
  <2>2. Contract!Relink
    BY <2>1 DEF Contract!Relink, Limit, Due, Had, Link
  <2> QED BY <2>2 DEF Allowed, Contract!Next
<1>7. CASE RunConnectStep \/ Connected
  BY <1>6, <1>7 DEF RunConnectStep, Connected, InFlight, Looping, historyVars
<1>8. ASSUME UNCHANGED <<pc, call, sock, ret>>,
             timer'.expiry = timer.expiry \/ pc # "loop"
      PROVE  Allowed
  BY <1>8 DEF Allowed, Phase, Limit, Due, Link, Had, Outcome
<1>9. CASE \/ RunTransferStep \/ Gone \/ ConnectRefused \/ EndOfStream
           \/ TransferFails
           \/ \E n \in 1..(MaxLen + HeaderLength) : Transferred(n)
  BY <1>8, <1>9
  DEF RunTransferStep, Gone, ConnectRefused, EndOfStream, TransferFails,
      Transferred, historyVars, vars
<1>10. CASE DeadlineWakes
  BY <1>1, <1>8, <1>10, CompleteWaitsFacts DEF DeadlineWakes, netVars, TypeOK
<1>11. CASE CheckDeadline
  <2> DEFINE h == TakeHandler(timer)
  <2>1. h \in TimerState /\ h.expiry = timer.expiry
    BY <1>1, <1>11, TakeHandlerFacts DEF CheckDeadline, TypeOK
  <2>2. UNCHANGED <<pc, call, ret>> /\ pc = "loop"
    BY <1>11 DEF CheckDeadline, Looping
  <2>3. CASE DeadlinePassed /\ CloseSocket /\ timer' = AfterTimeout
    <3>1. timer'.expiry = Inf
      BY <2>1, <2>3, ExpiresAtFacts, AsyncWaitFacts DEF AfterTimeout, Ticks
    <3>2. /\ Phase \in {"connecting", "transferring"} /\ Phase' = Phase
          /\ Limit' = Limit /\ Due /\ ~Due' /\ ~Link' /\ Had' = Had
          /\ Outcome' = Outcome
      BY <2>2, <2>3, <3>1
      DEF Phase, Limit, Due, Link, Had, Outcome, CloseSocket, DeadlinePassed,
          Passed, Inf
    <3>3. Contract!Cut
      BY <3>2 DEF Contract!Cut, Contract!Busy, Limit, Due, Link, Had
    <3> QED BY <3>3 DEF Allowed, Contract!Next
  <2>4. CASE timer' = AsyncWait(h) /\ UNCHANGED netVars
    BY <1>8, <2>1, <2>2, <2>4, AsyncWaitFacts DEF netVars
  <2> QED BY <1>11, <2>3, <2>4 DEF CheckDeadline
<1>12. CASE ReturnFromConnect
  <2>1. /\ pc = "loop" /\ call.kind = "connect" /\ ec # "would_block"
        /\ pc' = "idle" /\ call' = NoCall /\ sock' = sock
        /\ ret'.kind = "connect" /\ ret'.val = ErrValue[ec]
    BY <1>12 DEF ReturnFromConnect, LoopDone, ReturnWith, netVars
  <2>2. ErrValue[ec] \in Int /\ (ErrValue[ec] = 0 => sock = "connected")
    BY <1>1, <2>1, ErrValues DEF CallOK, ResultSound, TypeOK
  <2>3. "connect" \notin Directions
    BY DEF Directions
  <2> QED BY <2>1, <2>2, <2>3, EndAllowed
<1>13. pc = "loop" /\ call.kind \in Directions /\ Count >= 0 => call.from = "connected"
  BY <1>1, CountFacts DEF CallOK, ResultSound
<1>14. Count \in Int /\ "connect" \notin Directions /\ "message" \notin Directions
       /\ "read" \in Directions
  BY <1>1, CountFacts DEF Directions
<1>15. CASE ReturnFromTransfer
  <2>1. /\ pc = "loop" /\ call.kind \in Directions /\ pc' = "idle"
        /\ call' = NoCall /\ sock' = sock
        /\ ret'.kind = call.kind /\ ret'.val = Count
    BY <1>15 DEF ReturnFromTransfer, LoopDone, ReturnWith, netVars
  <2>2. PICK k \in Directions : k = call.kind
    BY <2>1
  <2>3. PICK v \in Int : v = Count
    BY <1>14
  <2>4. ret'.kind = k /\ ret'.val = v /\ k # "connect" /\ k # "message"
        /\ (v >= 0 => call.from = "connected") /\ call.kind # "connect"
    BY <1>13, <1>14, <2>1, <2>2, <2>3
  <2> QED BY <2>1, <2>4, EndAllowed
<1>16. ASSUME NEW v \in Int, v > 0 => Count > 0, pc = "loop", call.kind = "read",
              ReturnWith("message", v), UNCHANGED sock
       PROVE  Allowed
  <2>1. /\ pc' = "idle" /\ call' = NoCall /\ ret'.kind = "message" /\ ret'.val = v
    BY <1>16 DEF ReturnWith
  <2> QED BY <1>13, <1>14, <1>16, <2>1, EndAllowed
<1>17. CASE BodyDone
  BY <1>14, <1>16, <1>17 DEF BodyDone, LoopDone, netVars
<1>18. ASSUME NEW n \in 0..MaxLen, HeaderDone(n)
       PROVE  Allowed
  <2>1. pc = "loop" /\ call.kind = "read" /\ BodyTimeout \in 0..MaxTimeout
        /\ HeaderLength \in Int /\ HeaderLength > 0
    BY <1>18, TcpConstants DEF HeaderDone, LoopDone
  <2>2. \/ ReturnWith("message", 0) /\ UNCHANGED sock
        \/ Count = HeaderLength /\ ReturnWith("message", HeaderLength) /\ UNCHANGED sock
        \/ StartTransfer("read", BodyTimeout, n) /\ UNCHANGED ret
    BY <1>18 DEF HeaderDone, netVars
  <2> QED BY <1>14, <1>16, <2>1, <2>2, BeginAllowed
<1>19. CASE OwnerAborts
  BY <1>8, <1>19 DEF OwnerAborts, netVars
<1>20. ASSUME UNCHANGED <<pc, call, sock, ret>>, pc = "loop", Limit \/ Aborters # {},
              timer'.expiry = 0
       PROVE  Allowed
  <2>1. /\ Phase \in {"connecting", "transferring"} /\ Phase' = Phase
        /\ Limit' = Limit /\ Due' /\ Link' = Link /\ Had' = Had
        /\ Outcome' = Outcome
    BY <1>20 DEF Phase, Limit, Due, Link, Had, Outcome
  <2>2. Contract!TimeUp
    BY <1>20, <2>1 DEF Contract!TimeUp, Contract!Busy, Limit, Due, Link, Had
  <2> QED BY <2>2 DEF Allowed, Contract!Next
<1>21. ASSUME NEW a \in Aborters,
              AborterCancels(a) \/ AborterClears(a) \/ AborterSets(a)
       PROVE  Allowed
  <2>1. UNCHANGED <<pc, call, sock, ret>> /\ Aborters # {}
    BY <1>21 DEF AborterCancels, AborterClears, AborterSets, netVars
  <2>2. timer'.expiry \in {timer.expiry, 0}
    BY <1>1, <1>21, CompleteWaitsFacts
    DEF AborterCancels, AborterClears, AborterSets, TypeOK, TimerState
  <2> QED BY <1>8, <1>20, <2>1, <2>2
<1>22. CASE Tick
  <2>1. /\ UNCHANGED <<pc, call, sock, ret>>
        /\ timer'.expiry = IF timer.expiry > 0 THEN timer.expiry - 1 ELSE timer.expiry
        /\ timer.expiry \in Ticks
    BY <1>1, <1>22, TickTimerFacts, TimerFields DEF Tick, netVars, TypeOK
  <2>2. CASE pc = "loop" /\ timer.expiry > 0 /\ timer'.expiry = 0
    <3>1. Limit \/ Aborters # {}
      BY <1>1, <2>2 DEF DeadlineOwned, Limit, Inf
    <3> QED BY <1>20, <2>1, <2>2, <3>1
  <2>3. CASE pc = "loop" /\ timer.expiry > 0 /\ timer'.expiry # 0
    BY <2>1, <2>3 DEF Allowed, Phase, Limit, Due, Link, Had, Outcome
  <2>4. CASE pc # "loop" \/ ~(timer.expiry > 0)
    BY <1>8, <2>1, <2>4
  <2> QED BY <2>2, <2>3, <2>4
<1>23. CASE Destroy
  <2>1. /\ Phase = "idle" /\ Phase' = "gone" /\ ~Link' /\ Limit' = Limit
        /\ Due' = Due /\ Had' = Had /\ Outcome' = Outcome
    BY <1>23 DEF Destroy, Phase, Limit, Due, Link, Had, Outcome
  <2>2. Contract!Destroy
    BY <2>1 DEF Contract!Destroy, Limit, Due, Link, Had
  <2> QED BY <2>2 DEF Allowed, Contract!Next
<1>24. 1 \in 1..MaxLen
  BY TcpConstants
<1> QED
  BY <1>2, <1>3, <1>4, <1>5, <1>7, <1>9, <1>10, <1>11, <1>12, <1>15, <1>17,
     <1>18, <1>19, <1>21, <1>22, <1>23, <1>24
  DEF Next, Owner, Network, OtherThreads

(* asio_tcp_client is a blocking call with a time limit: its connection is *)
(* cut only in a call whose time is up, and success is never made up.      *)
THEOREM KeepsContract == Spec => ContractSpec
<1>1. Init => Contract!Init
  BY DEF Init, Contract!Init, Phase, Outcome, NoCall, NoReturn
<1>2. IInv /\ IInv' /\ [Next]_vars => [Contract!Next]_(Contract!contractVars)
  <2>1. ASSUME IInv, IInv', Next PROVE [Contract!Next]_(Contract!contractVars)
    BY <2>1, StepAllowed DEF Allowed, Contract!contractVars, Limit, Due, Link, Had
  <2>2. ASSUME UNCHANGED vars PROVE UNCHANGED Contract!contractVars
    BY <2>2 DEF vars, Contract!contractVars, Phase, Outcome
  <2> QED BY <2>1, <2>2
<1> QED BY <1>1, <1>2, Invariant, PTL DEF Spec, ContractSpec, Contract!Spec

=============================================================================
