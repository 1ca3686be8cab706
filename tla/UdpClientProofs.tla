--------------------------- MODULE UdpClientProofs ---------------------------
(***************************************************************************)
(* Theorems about asio_udp_client for every set of timeouts and datagrams  *)
(* and every size of the receive buffer.                                   *)
(*                                                                         *)
(* IInv is the inductive invariant: the operation fits the owner's place   *)
(* in the code, a result is a datagram or an error, a receive that began   *)
(* with a datagram waiting holds on to one, a cancelled operation was due, *)
(* and the deadline in force belongs to the receive in progress.           *)
(***************************************************************************)
EXTENDS UdpClient, AsioTimerProofs, SequenceTheorems

(* The call, its operation and the owner's place agree. *)
CallShape ==
  /\ pc # "loop" => call = NoCall /\ ec = "ok" /\ length = <<>> /\ op = NoOp
  /\ Looping <=> op.at # "none"
  /\ op.at # "queued" => op.err = "ok" /\ op.got = <<>>
  /\ op.at = "queued" => op.err # "would_block" /\ (op.err = "ok" <=> op.got # <<>>)
  /\ ec = "would_block" => length = <<>>
  /\ pc = "loop" /\ ec # "would_block" => (ec = "ok" <=> length # <<>>)

(* Once a datagram was there, it is this receive's. *)
HoldsWaiting ==
  pc = "loop" /\ call.waiting => ec = "ok" \/ (op.at = "queued" /\ op.err = "ok")

(* Only a receive that is due is cancelled. *)
CutWhenDue == op.err = "aborted" \/ ec = "aborted" => Due

(* The deadline in force was set for this receive. *)
DeadlineOwned ==
  pc = "loop" /\ timer.expiry # Inf =>
    call.timeout # Inf /\ age + timer.expiry >= call.timeout

IInv ==
  /\ TypeOK
  /\ CallShape
  /\ HoldsWaiting
  /\ CutWhenDue
  /\ DeadlineOwned
  /\ OneDeadlineActor
  /\ NothingLost
  /\ PollFindsWaiting

-----------------------------------------------------------------------------
(* Sequences. *)

(* Taking the first message of a box and putting it back in front. *)
LEMMA HeadInFront ==
  ASSUME NEW D, NEW s \in Seq(D), s # <<>>
  PROVE  /\ Head(s) \in D
         /\ Tail(s) \in Seq(D)
         /\ <<Head(s)>> \o Tail(s) = s
<1>1. Head(s) \in D /\ Tail(s) \in Seq(D) /\ Len(Tail(s)) = Len(s) - 1
      /\ \A i \in 1 .. Len(Tail(s)) : Tail(s)[i] = s[i + 1]
  BY HeadTailProperties
<1>2. Len(s) \in Nat /\ Len(s) > 0 /\ Head(s) = s[1]
  BY EmptySeq
<1> DEFINE t == <<Head(s)>> \o Tail(s)
<1>3. t \in Seq(D) /\ Len(t) = Len(s)
  BY <1>1, <1>2
<1>4. \A i \in 1 .. Len(t) : t[i] = s[i]
  BY <1>1, <1>2, <1>3
<1> HIDE DEF t
<1>5. t = s
  BY <1>3, <1>4, SeqEqual
<1> QED BY <1>1, <1>5 DEF t

(* The first message of a box and what is behind it. *)
LEMMA FrontAndRest ==
  ASSUME NEW D, NEW d \in D, NEW s \in Seq(D)
  PROVE  /\ <<d>> \o s # <<>>
         /\ Head(<<d>> \o s) = d
         /\ Tail(<<d>> \o s) = s
<1> DEFINE t == <<d>> \o s
<1>1. t \in Seq(D) /\ Len(t) = Len(s) + 1 /\ t[1] = d /\ Len(s) \in Nat
      /\ \A i \in 1 .. Len(s) : t[i + 1] = s[i]
  OBVIOUS
<1> HIDE DEF t
<1>2. t # <<>>
  BY <1>1
<1>3. Head(t) = d /\ Tail(t) \in Seq(D) /\ Len(Tail(t)) = Len(s)
      /\ \A i \in 1 .. Len(s) : Tail(t)[i] = s[i]
  BY <1>1, <1>2, HeadTailProperties
<1>4. Tail(t) = s
  BY <1>3, SeqEqual
<1> QED BY <1>2, <1>3, <1>4 DEF t

(* A message that arrives is behind all others. *)
LEMMA AppendBehind ==
  ASSUME NEW D, NEW r \in Seq(D), NEW s \in Seq(D), NEW d \in D
  PROVE  r \o Append(s, d) = Append(r \o s, d)
<1> DEFINE a == r \o Append(s, d)
           b == Append(r \o s, d)
<1>1. a \in Seq(D) /\ b \in Seq(D) /\ Len(a) = Len(b)
  OBVIOUS
<1>2. \A i \in 1 .. Len(a) : a[i] = b[i]
  OBVIOUS
<1> HIDE DEF a, b
<1>3. a = b
  BY <1>1, <1>2, SeqEqual
<1> QED BY <1>3 DEF a, b

(* What an operation gives is a sequence of at most one datagram. *)
LEMMA ContentFacts ==
  /\ Content \subseteq Seq(Datagrams)
  /\ <<>> \in Content
  /\ \A d \in Datagrams : <<d>> \in Content /\ <<d>> # <<>>
<1>1. \A d \in Datagrams : <<d>> \in Seq(Datagrams) /\ <<d>> # <<>>
  OBVIOUS
<1>2. <<>> \in Seq(Datagrams)
  BY EmptySeq
<1> QED BY <1>1, <1>2 DEF Content

-----------------------------------------------------------------------------
(* What each action does to the timer: its type, its one actor, and the    *)
(* deadline it stands for.                                                 *)

(* The values that timeouts have. *)
LEMMA TimeoutFacts ==
  /\ MaxTimeout \in Nat
  /\ \A t \in Timeouts : t \in 0..MaxTimeout \cup {Inf} /\ t \in Ticks
  /\ Inf \in Ticks /\ 0 \in Ticks /\ Inf # 0 /\ Inf < 0
BY UdpConstants DEF Ticks, Inf

(* Every action keeps the timer's type, its actor and its deadline's owner. *)
LEMMA TimerSteps ==
  ASSUME IInv, Next
  PROVE  timer' \in TimerState /\ DeadlineOwned' /\ OneDeadlineActor'
<1> DEFINE Goal == timer' \in TimerState /\ DeadlineOwned' /\ OneDeadlineActor'
<1>1. /\ timer \in TimerState /\ TypeOK /\ DeadlineOwned /\ OneDeadlineActor
      /\ pc # "gone" => Actors(timer) = 1
  BY DEF IInv, TypeOK, OneDeadlineActor, Actors
<1>2. ASSUME UNCHANGED <<timer, age>>, pc' # "gone" => pc # "gone",
             pc' = "loop" => pc = "loop" /\ call' = call
      PROVE  Goal
  BY <1>1, <1>2 DEF DeadlineOwned, OneDeadlineActor
<1>3. ASSUME NEW t \in Timeouts, Receive(t)
      PROVE  Goal
  <2>1. /\ timer' = ExpiresAt(timer, t) /\ age' = 0 /\ pc = "idle" /\ pc' = "loop"
        /\ call'.timeout = t
    BY <1>3 DEF Receive, SetDeadline
  <2>2. timer' \in TimerState /\ timer'.expiry = t /\ Actors(timer') = 1
    BY <1>1, <2>1, TimeoutFacts, ExpiresAtFacts
  <2> QED BY <2>1, <2>2, TimeoutFacts DEF DeadlineOwned, OneDeadlineActor, Actors
<1>4. CASE DeadlineWakes
  <2>1. timer' = CompleteWaits(timer) /\ UNCHANGED <<pc, call, age>> /\ pc = "loop"
    BY <1>4 DEF DeadlineWakes, Looping
  <2>2. timer' \in TimerState /\ timer'.expiry = timer.expiry /\ Actors(timer') = 1
    BY <1>1, <2>1, CompleteWaitsFacts
  <2> QED BY <1>1, <2>1, <2>2 DEF DeadlineOwned, OneDeadlineActor, Actors
<1>5. CASE CheckDeadline
  <2> DEFINE h == TakeHandler(timer)
  <2>1. /\ UNCHANGED <<pc, call, age>> /\ pc = "loop"
        /\ timer' = AsyncWait(ExpiresAt(h, Inf)) \/ timer' = AsyncWait(h)
    BY <1>5 DEF CheckDeadline, AfterTimeout, Looping
  <2>2. h \in TimerState /\ h.expiry = timer.expiry /\ Actors(h) = 0
    BY <1>1, <1>5, TakeHandlerFacts DEF CheckDeadline, Looping
  <2> HIDE DEF h
  <2>3. ExpiresAt(h, Inf) \in TimerState /\ ExpiresAt(h, Inf).expiry = Inf
        /\ Actors(ExpiresAt(h, Inf)) = 0
    BY <2>2, TimeoutFacts, ExpiresAtFacts
  <2>4. timer' \in TimerState /\ Actors(timer') = 1
        /\ (timer'.expiry = timer.expiry \/ timer'.expiry = Inf)
    BY <2>1, <2>2, <2>3, AsyncWaitFacts
  <2> QED BY <1>1, <2>1, <2>4 DEF DeadlineOwned, OneDeadlineActor, Actors
<1>6. CASE Destroy
  BY <1>1, <1>6, CancelWaitsFacts DEF Destroy, DeadlineOwned, OneDeadlineActor
<1>7. CASE Tick
  <2>1. /\ timer' = TickTimer(timer) /\ UNCHANGED <<pc, call>>
        /\ age' = IF age < MaxTimeout THEN age + 1 ELSE age
        /\ pc # "gone"
    BY <1>7 DEF Tick
  <2>2. /\ timer' \in TimerState /\ Actors(timer') = 1
        /\ timer'.expiry = IF timer.expiry > 0 THEN timer.expiry - 1 ELSE timer.expiry
    BY <1>1, <2>1, TickTimerFacts
  <2>3. /\ timer.expiry \in Ticks /\ age \in 0..MaxTimeout
        /\ call.timeout \in 0..MaxTimeout \cup {Inf}
    BY <1>1, TimerFields DEF TypeOK
  <2> QED
    BY <1>1, <2>1, <2>2, <2>3, TimeoutFacts
    DEF DeadlineOwned, OneDeadlineActor, Actors, Ticks, Inf
<1>8. ASSUME NEW d \in Datagrams, Arrive(d)
      PROVE  Goal
  BY <1>2, <1>8 DEF Arrive
<1>9. CASE DatagramReady \/ SocketError \/ HandleReceive \/ Return \/ Gone
  BY <1>2, <1>9
  DEF DatagramReady, SocketError, HandleReceive, Return, Gone, Looping, LoopDone, vars
<1> QED
  BY <1>3, <1>4, <1>5, <1>6, <1>7, <1>8, <1>9 DEF Next

-----------------------------------------------------------------------------
(* What each action does to the call and its operation. *)

CallOK == CallShape /\ HoldsWaiting /\ CutWhenDue /\ PollFindsWaiting

(* Every action but those of check_deadline and the clock. *)
LEMMA ReceiveSteps ==
  ASSUME IInv, timer' \in TimerState,
         \/ \E d \in Datagrams : Arrive(d)
         \/ \E t \in Timeouts : Receive(t)
         \/ DatagramReady \/ SocketError \/ HandleReceive \/ Return
  PROVE  TypeOK' /\ CallOK'
<1>1. TypeOK /\ CallOK
  BY DEF IInv, CallOK
<1> USE DEF TypeOK, CallOK, CallShape, HoldsWaiting, CutWhenDue, PollFindsWaiting,
            Looping, Limited, Due, Errors
<1>2. ASSUME NEW d \in Datagrams, Arrive(d)
      PROVE  TypeOK' /\ CallOK'
  <2>1. inbox' \in Seq(Datagrams) /\ accepted' \in Seq(Datagrams)
    BY <1>1, <1>2, AppendProperties DEF Arrive
  <2> QED BY <1>1, <1>2, <2>1 DEF Arrive
<1>3. ASSUME NEW t \in Timeouts, Receive(t)
      PROVE  TypeOK' /\ CallOK'
  <2>1. /\ pc' = "loop" /\ call' = [timeout |-> t, waiting |-> inbox # <<>>]
        /\ ec' = "would_block" /\ length' = <<>> /\ age' = 0
        /\ UNCHANGED <<ret, accepted, returned>>
    BY <1>3 DEF Receive
  <2>2. inbox # <<>> => Head(inbox) \in Datagrams /\ Tail(inbox) \in Seq(Datagrams)
    BY <1>1, HeadInFront
  <2>3. \/ inbox = <<>> /\ op' = InKernel /\ inbox' = inbox
        \/ /\ inbox # <<>> /\ op' = Filled(Head(inbox)) /\ inbox' = Tail(inbox)
           /\ Head(inbox) \in Datagrams /\ inbox' \in Seq(Datagrams)
    BY <1>3, <2>2 DEF Receive, StartReceive
  <2>4. call' \in [timeout : 0..MaxTimeout \cup {Inf}, waiting : BOOLEAN]
        /\ age' \in 0..MaxTimeout
    BY <2>1, TimeoutFacts
  <2>5. op' \in [at : {"none", "kernel", "queued"}, err : Errors, got : Content]
        /\ inbox' \in Seq(Datagrams)
    BY <1>1, <2>3, ContentFacts DEF InKernel, Filled
  <2>6. TypeOK'
    BY <1>1, <2>1, <2>4, <2>5, ContentFacts
  <2>7. \/ inbox = <<>> /\ op'.at = "kernel" /\ op'.err = "ok" /\ op'.got = <<>>
        \/ inbox # <<>> /\ op'.at = "queued" /\ op'.err = "ok" /\ op'.got # <<>>
    <3>1. CASE inbox = <<>>
      BY <2>3, <3>1 DEF InKernel
    <3>2. CASE inbox # <<>>
      <4>1. PICK d \in Datagrams : op' = Filled(d)
        BY <2>3, <3>2
      <4>2. op'.at = "queued" /\ op'.err = "ok" /\ op'.got = <<d>>
        BY <4>1 DEF Filled
      <4> QED BY <3>2, <4>2, ContentFacts
    <3> QED BY <3>1, <3>2
  <2>8. CallOK'
    BY <1>1, <2>1, <2>7
  <2> QED BY <2>6, <2>8
<1>4. CASE DatagramReady
  <2>1. /\ op' = Filled(Head(inbox)) /\ inbox' = Tail(inbox)
        /\ Head(inbox) \in Datagrams /\ inbox' \in Seq(Datagrams)
        /\ UNCHANGED <<pc, call, ec, length, ret, age, accepted, returned>>
        /\ op.at = "kernel" /\ Looping
    BY <1>1, <1>4, HeadInFront DEF DatagramReady
  <2>2. TypeOK'
    BY <1>1, <2>1, ContentFacts DEF Filled
  <2>3. CallOK'
    BY <1>1, <2>1, ContentFacts DEF Filled
  <2> QED BY <2>2, <2>3
<1>5. CASE SocketError
  BY <1>1, <1>5, ContentFacts DEF SocketError, Failed
<1>6. CASE HandleReceive
  BY <1>1, <1>6, ContentFacts DEF HandleReceive, NoOp
<1>7. CASE Return
  <2>1. /\ pc' = "idle" /\ call' = NoCall /\ ec' = "ok" /\ length' = <<>>
        /\ ret' = [err |-> ec, got |-> length, waiting |-> call.waiting]
        /\ returned' = returned \o length
        /\ UNCHANGED <<op, inbox, age, accepted>>
        /\ pc = "loop" /\ ec # "would_block"
    BY <1>7 DEF Return, LoopDone
  <2>2. returned' \in Seq(Datagrams)
    BY <1>1, <2>1, ContentFacts, ConcatProperties
  <2>3. op = NoOp
    BY <1>1, <2>1 DEF NoOp
  <2>4. TypeOK'
    BY <1>1, <2>1, <2>2, ContentFacts DEF NoCall, Inf
  <2>5. CallOK'
    BY <1>1, <2>1, <2>3 DEF NoCall, NoOp
  <2> QED BY <2>4, <2>5
<1> QED BY <1>2, <1>3, <1>4, <1>5, <1>6, <1>7

(* check_deadline, the clock and the destructor. *)
LEMMA OtherSteps ==
  ASSUME IInv, timer' \in TimerState,
         DeadlineWakes \/ CheckDeadline \/ Tick \/ Destroy \/ Gone
  PROVE  TypeOK' /\ CallOK'
<1>1. TypeOK /\ CallOK /\ DeadlineOwned
  BY DEF IInv, CallOK
<1> USE DEF TypeOK, CallOK, CallShape, HoldsWaiting, CutWhenDue, PollFindsWaiting,
            Looping, Limited, Due, Errors
<1>2. CASE DeadlineWakes
  BY <1>1, <1>2 DEF DeadlineWakes
<1>3. CASE CheckDeadline
  <2>1. /\ UNCHANGED <<pc, call, ec, length, inbox, ret, age, accepted, returned>>
        /\ Looping
        /\ op' # op => timer.expiry = 0 /\ op.at = "kernel" /\ op' = Failed("aborted")
    BY <1>3 DEF CheckDeadline, DeadlinePassed, Passed, Cancel
  <2>2. CASE op' = op
    BY <1>1, <2>1, <2>2
  <2>3. CASE op' # op
    <3>1. age \in Nat /\ Due
      BY <1>1, <2>1, <2>3, TimeoutFacts DEF DeadlineOwned
    <3>2. TypeOK'
      BY <1>1, <2>1, <2>3, ContentFacts DEF Failed
    <3>3. CallShape' /\ HoldsWaiting' /\ PollFindsWaiting'
      BY <1>1, <2>1, <2>3 DEF Failed
    <3>4. CutWhenDue'
      BY <2>1, <3>1
    <3> QED BY <3>2, <3>3, <3>4
  <2> QED BY <2>2, <2>3
<1>4. CASE Tick
  <2>1. /\ UNCHANGED <<pc, call, ec, length, op, inbox, ret, accepted, returned>>
        /\ age' \in 0..MaxTimeout /\ age' >= age
    BY <1>1, <1>4, TimeoutFacts DEF Tick
  <2>2. TypeOK'
    BY <1>1, <2>1
  <2>3. CallShape' /\ HoldsWaiting' /\ PollFindsWaiting'
    BY <1>1, <2>1
  <2>4. CutWhenDue'
    BY <1>1, <2>1, TimeoutFacts
  <2> QED BY <2>2, <2>3, <2>4
<1>5. CASE Destroy
  BY <1>1, <1>5 DEF Destroy
<1>6. CASE Gone
  BY <1>1, <1>6 DEF Gone, vars
<1> QED BY <1>2, <1>3, <1>4, <1>5, <1>6

-----------------------------------------------------------------------------
(* What each action does to the box of messages that nobody has received.  *)

(* The parts of the box are sequences of datagrams. *)
LEMMA BoxParts ==
  ASSUME TypeOK
  PROVE  /\ length \in Seq(Datagrams) /\ op.got \in Seq(Datagrams)
         /\ inbox \in Seq(Datagrams) /\ returned \in Seq(Datagrams)
         /\ Box \in Seq(Datagrams)
<1>1. /\ length \in Seq(Datagrams) /\ op.got \in Seq(Datagrams)
      /\ inbox \in Seq(Datagrams) /\ returned \in Seq(Datagrams)
  BY ContentFacts DEF TypeOK
<1> QED BY <1>1, ConcatProperties DEF Box

(* With nothing in the caller's hands the box is what the operation holds  *)
(* and the socket's buffer; and the other way round.                       *)
LEMMA BoxFacts ==
  ASSUME TypeOK
  PROVE  /\ length = <<>> => Box = op.got \o inbox
         /\ op.got = <<>> => Box = length \o inbox
         /\ length = <<>> /\ op.got = <<>> => Box = inbox
<1>1. /\ length \in Seq(Datagrams) /\ op.got \in Seq(Datagrams)
      /\ inbox \in Seq(Datagrams)
  BY BoxParts
<1>2. <<>> \o op.got = op.got /\ length \o <<>> = length /\ <<>> \o inbox = inbox
  BY <1>1, ConcatEmptySeq
<1> QED BY <1>2 DEF Box

(* A datagram that arrives is put behind the others. *)
LEMMA ArriveGrowsBox ==
  ASSUME IInv, NEW d \in Datagrams, Arrive(d)
  PROVE  Box' = Append(Box, d)
<1> DEFINE a == length \o op.got
<1>1. a \in Seq(Datagrams) /\ inbox \in Seq(Datagrams)
  BY BoxParts, ConcatProperties DEF IInv
<1>2. Box = a \o inbox /\ Box' = a \o Append(inbox, d)
  BY DEF Box, Arrive
<1> HIDE DEF a
<1> QED BY <1>1, <1>2, AppendBehind

(* Between the socket's buffer, the operation and the caller's hands the   *)
(* first message moves on, and the box stays as it is.                     *)
LEMMA BoxStays ==
  ASSUME IInv, TypeOK', CallShape',
         \/ \E t \in Timeouts : Receive(t)
         \/ DatagramReady \/ SocketError \/ HandleReceive
         \/ DeadlineWakes \/ CheckDeadline \/ Tick \/ Destroy \/ Gone
  PROVE  Box' = Box /\ UNCHANGED <<accepted, returned>>
<1>1. TypeOK /\ CallShape
  BY DEF IInv
<1>2. inbox \in Seq(Datagrams) /\ (inbox # <<>> => <<Head(inbox)>> \o Tail(inbox) = inbox)
  BY <1>1, HeadInFront DEF TypeOK
<1>3. ASSUME UNCHANGED length, op'.got = op.got, UNCHANGED inbox
      PROVE  Box' = Box
  BY <1>3 DEF Box
<1>4. ASSUME length = <<>>, length' = <<>>, op.got = <<>>, inbox # <<>>,
             op' = Filled(Head(inbox)), inbox' = Tail(inbox)
      PROVE  Box' = Box
  <2>1. op'.got = <<Head(inbox)>>
    BY <1>4 DEF Filled
  <2>2. Box' = op'.got \o inbox'
    <3>1. op'.got \in Seq(Datagrams)
      BY ContentFacts DEF TypeOK
    <3>2. <<>> \o op'.got = op'.got
      BY <3>1, ConcatEmptySeq
    <3> QED BY <1>4, <3>2 DEF Box
  <2>3. Box = inbox
    BY <1>1, <1>4, BoxFacts
  <2> QED BY <1>2, <1>4, <2>1, <2>2, <2>3
<1>5. ASSUME NEW t \in Timeouts, Receive(t)
      PROVE  Box' = Box /\ UNCHANGED <<accepted, returned>>
  <2>1. length = <<>> /\ op.got = <<>> /\ length' = <<>>
        /\ UNCHANGED <<accepted, returned>> /\ StartReceive
    BY <1>1, <1>5 DEF Receive, CallShape, NoOp
  <2>2. CASE inbox = <<>> /\ op' = InKernel /\ UNCHANGED inbox
    <3>1. op'.got = <<>>
      BY <2>2 DEF InKernel
    <3> QED BY <1>3, <2>1, <2>2, <3>1
  <2>3. CASE inbox # <<>> /\ op' = Filled(Head(inbox)) /\ inbox' = Tail(inbox)
    BY <1>4, <2>1, <2>3
  <2> QED BY <2>1, <2>2, <2>3 DEF StartReceive
<1>6. CASE DatagramReady
  BY <1>1, <1>4, <1>6 DEF DatagramReady, CallShape, Looping
<1>7. CASE SocketError
  BY <1>1, <1>3, <1>7 DEF SocketError, CallShape, Failed
<1>8. CASE HandleReceive
  <2>1. length = <<>> /\ length' = op.got /\ op' = NoOp
        /\ UNCHANGED <<inbox, accepted, returned>>
    BY <1>1, <1>8 DEF HandleReceive, CallShape, Looping
  <2>2. op.got \in Seq(Datagrams) /\ op'.got = <<>>
    BY <1>1, <2>1, BoxParts DEF NoOp
  <2>3. op.got \o <<>> = op.got /\ <<>> \o op.got = op.got
    BY <2>2, ConcatEmptySeq
  <2> QED BY <2>1, <2>2, <2>3 DEF Box
<1>9. CASE CheckDeadline
  <2>1. UNCHANGED <<length, inbox, accepted, returned>>
    BY <1>9 DEF CheckDeadline
  <2>2. op'.got = op.got
    BY <1>1, <1>9 DEF CheckDeadline, Cancel, CallShape, Failed
  <2> QED BY <1>3, <2>1, <2>2
<1>10. CASE DeadlineWakes \/ Tick \/ Destroy \/ Gone
  BY <1>3, <1>10 DEF DeadlineWakes, Tick, Destroy, Gone, vars
<1> QED BY <1>5, <1>6, <1>7, <1>8, <1>9, <1>10

(* What returns is what was first in the box. *)
LEMMA ReturnTakes ==
  ASSUME IInv, TypeOK', CallShape', Return
  PROVE  /\ Box = length \o inbox /\ Box' = inbox /\ UNCHANGED accepted
         /\ returned' = returned \o length
<1>1. op.got = <<>>
  BY DEF IInv, CallShape, Return, LoopDone, Looping
<1>2. Box = length \o inbox
  BY <1>1, BoxFacts DEF IInv
<1>3. length' = <<>> /\ op' = op /\ inbox' = inbox /\ accepted' = accepted
      /\ returned' = returned \o length
  BY DEF Return
<1>4. inbox \in Seq(Datagrams)
  BY BoxParts DEF IInv
<1>5. <<>> \o <<>> = <<>> /\ <<>> \o inbox = inbox
  BY <1>4, ConcatEmptySeq, EmptySeq
<1> QED BY <1>1, <1>2, <1>3, <1>5 DEF Box

(* What the socket took in was returned or is in the box. *)
LEMMA LostMeansBox ==
  ASSUME TypeOK
  PROVE  NothingLost <=> accepted = returned \o Box
<1>1. returned \o length \o op.got \o inbox = returned \o (length \o op.got \o inbox)
  <2>1. PICK r \in Seq(Datagrams), a \in Seq(Datagrams), b \in Seq(Datagrams),
             c \in Seq(Datagrams) : r = returned /\ a = length /\ b = op.got /\ c = inbox
    BY BoxParts
  <2>2. a \o b \in Seq(Datagrams)
    OBVIOUS
  <2>3. PICK ab \in Seq(Datagrams) : ab = a \o b
    BY <2>2
  <2>4. (r \o a) \o b = r \o ab
    BY <2>3, ConcatAssociative
  <2>5. (r \o ab) \o c = r \o (ab \o c)
    BY ConcatAssociative
  <2> QED BY <2>1, <2>3, <2>4, <2>5
<1> QED BY <1>1 DEF NothingLost, Box

(* Nothing is lost in any step. *)
LEMMA BoxSteps ==
  ASSUME IInv, TypeOK', CallShape', Next
  PROVE  accepted' = returned' \o Box'
<1>1. /\ accepted = returned \o Box /\ returned \in Seq(Datagrams)
      /\ length \in Seq(Datagrams) /\ inbox \in Seq(Datagrams) /\ Box \in Seq(Datagrams)
  BY LostMeansBox, BoxParts DEF IInv
<1>2. ASSUME NEW d \in Datagrams, Arrive(d)
      PROVE  accepted' = returned' \o Box'
  <2>1. Box' = Append(Box, d) /\ accepted' = Append(accepted, d) /\ returned' = returned
    BY <1>2, ArriveGrowsBox DEF Arrive
  <2>2. returned \o Append(Box, d) = Append(returned \o Box, d)
    BY <1>1, AppendBehind
  <2> QED BY <1>1, <2>1, <2>2
<1>3. CASE Return
  <2>1. (returned \o length) \o inbox = returned \o (length \o inbox)
    BY <1>1, ConcatAssociative
  <2> QED BY <1>1, <1>3, <2>1, ReturnTakes
<1>4. CASE \/ \E t \in Timeouts : Receive(t)
           \/ DatagramReady \/ SocketError \/ HandleReceive
           \/ DeadlineWakes \/ CheckDeadline \/ Tick \/ Destroy \/ Gone
  BY <1>1, <1>4, BoxStays
<1> QED BY <1>2, <1>3, <1>4 DEF Next

-----------------------------------------------------------------------------
(* The inductive invariant, and what follows from it. *)

(* The constructor establishes the invariant. *)
LEMMA InitHolds == Init => IInv
<1> SUFFICES ASSUME Init PROVE IInv
  OBVIOUS
<1> USE DEF Init
<1>1. timer \in TimerState /\ Actors(timer) = 1 /\ timer.expiry = Inf
  <2> DEFINE e == ExpiresAt(NewTimer, Inf)
  <2>1. e \in TimerState /\ e.expiry = Inf /\ Actors(e) = 0
    BY NewTimerFacts, ExpiresAtFacts, TimeoutFacts
  <2> HIDE DEF e
  <2>2. AsyncWait(e) \in TimerState /\ AsyncWait(e).expiry = Inf
        /\ Actors(AsyncWait(e)) = 1
    BY <2>1, AsyncWaitFacts
  <2> QED BY <2>2 DEF e
<1>2. TypeOK
  BY <1>1, TimeoutFacts, ContentFacts, EmptySeq
  DEF TypeOK, NoCall, NoOp, NoReturn, Errors
<1>3. CallShape /\ HoldsWaiting /\ CutWhenDue /\ PollFindsWaiting
  BY DEF CallShape, HoldsWaiting, CutWhenDue, PollFindsWaiting, Looping, NoCall,
         NoReturn, NoOp
<1>4. DeadlineOwned /\ OneDeadlineActor
  BY <1>1 DEF DeadlineOwned, OneDeadlineActor, Actors
<1>5. NothingLost
  BY ConcatEmptySeq, EmptySeq DEF NothingLost, NoOp
<1> QED BY <1>2, <1>3, <1>4, <1>5 DEF IInv

(* Every step preserves it. *)
LEMMA StepKeeps == IInv /\ [Next]_vars => IInv'
<1> SUFFICES ASSUME IInv, [Next]_vars PROVE IInv'
  OBVIOUS
<1>1. CASE Next
  <2>1. timer' \in TimerState /\ DeadlineOwned' /\ OneDeadlineActor'
    BY <1>1, TimerSteps
  <2>2. TypeOK' /\ CallOK'
    BY <1>1, <2>1, ReceiveSteps, OtherSteps DEF Next
  <2>3. accepted' = returned' \o Box'
    BY <1>1, <2>2, BoxSteps DEF CallOK
  <2>4. /\ length' \in Seq(Datagrams) /\ op'.got \in Seq(Datagrams)
        /\ inbox' \in Seq(Datagrams) /\ returned' \in Seq(Datagrams)
    BY <2>2, ContentFacts DEF TypeOK
  <2>5. returned' \o length' \o op'.got \o inbox' = returned' \o (length' \o op'.got \o inbox')
    <3>1. PICK r \in Seq(Datagrams), a \in Seq(Datagrams), b \in Seq(Datagrams),
               c \in Seq(Datagrams) : r = returned' /\ a = length' /\ b = op'.got /\ c = inbox'
      BY <2>4
    <3>2. a \o b \in Seq(Datagrams)
      OBVIOUS
    <3>3. PICK ab \in Seq(Datagrams) : ab = a \o b
      BY <3>2
    <3>4. (r \o a) \o b = r \o ab
      BY <3>3, ConcatAssociative
    <3>5. (r \o ab) \o c = r \o (ab \o c)
      BY ConcatAssociative
    <3> QED BY <3>1, <3>3, <3>4, <3>5
  <2>6. NothingLost'
    BY <2>3, <2>5 DEF NothingLost, Box
  <2> QED BY <2>1, <2>2, <2>6 DEF IInv, CallOK
<1>2. CASE UNCHANGED vars
  BY <1>2
  DEF vars, IInv, TypeOK, CallShape, HoldsWaiting, CutWhenDue, DeadlineOwned,
      OneDeadlineActor, NothingLost, PollFindsWaiting, Looping, Limited, Due
<1> QED BY <1>1, <1>2

(* IInv holds in every reachable state of asio_udp_client. *)
THEOREM Invariant == Spec => []IInv
BY InitHolds, StepKeeps, PTL DEF Spec

(* Every variable keeps its range. *)
THEOREM TypeCorrect == Spec => []TypeOK
<1>1. IInv => TypeOK
  BY DEF IInv
<1> QED BY <1>1, Invariant, PTL

(* One check_deadline is asleep on the deadline or about to run. *)
THEOREM OneActorAlways == Spec => []OneDeadlineActor
<1>1. IInv => OneDeadlineActor
  BY DEF IInv
<1> QED BY <1>1, Invariant, PTL

(* No operation that points into the caller's stack outlives receive. *)
THEOREM NothingOutlivesItsCall == Spec => []NoOrphanedOperation
<1>1. IInv => NoOrphanedOperation
  BY DEF IInv, CallShape, NoOrphanedOperation
<1> QED BY <1>1, Invariant, PTL

(* Whatever the order in which a datagram arrives, the deadline passes and *)
(* the handlers run: each datagram is received once, and in order.         *)
THEOREM EachDatagramOnce == Spec => []NothingLost
<1>1. IInv => NothingLost
  BY DEF IInv
<1> QED BY <1>1, Invariant, PTL

(* A receive that began with a datagram waiting returns one, even with a   *)
(* timeout of zero.                                                        *)
THEOREM PollsFind == Spec => []PollFindsWaiting
<1>1. IInv => PollFindsWaiting
  BY DEF IInv
<1> QED BY <1>1, Invariant, PTL

(* check_deadline cancels a receive only when the time has passed that     *)
(* this receive was given.                                                 *)
THEOREM NeverEarly == Spec => NeverCutEarly
<1> DEFINE Cut == op.err # "aborted" /\ op'.err = "aborted"
           WasDue == call.timeout # Inf /\ age >= call.timeout
<1>1. IInv /\ [Next]_vars => [Cut => WasDue]_vars
  <2> SUFFICES ASSUME IInv, Next, Cut PROVE WasDue
    OBVIOUS
  <2>1. ASSUME CheckDeadline PROVE WasDue
    <3>1. timer.expiry = 0 /\ pc = "loop"
      BY <2>1 DEF CheckDeadline, DeadlinePassed, Passed, Looping
    <3>2. age \in 0..MaxTimeout
      BY DEF IInv, TypeOK
    <3> QED BY <3>1, <3>2, TimeoutFacts DEF IInv, DeadlineOwned
  <2>2. ASSUME ~CheckDeadline PROVE FALSE
    BY <2>2
    DEF Next, Arrive, Receive, StartReceive, DatagramReady, SocketError,
        HandleReceive, DeadlineWakes, Return, Tick, Destroy, Gone, InKernel,
        Filled, Failed, NoOp, vars
  <2> QED BY <2>1, <2>2
<1>2. NeverCutEarly <=> [][Cut => WasDue]_vars
  BY DEF NeverCutEarly
<1> QED BY <1>1, <1>2, Invariant, PTL DEF Spec

-----------------------------------------------------------------------------
(* Refinement: what each action is for a mailbox with a time limit. *)

MailStep == [Mailbox!Next]_(Mailbox!mailVars)

(* A step that leaves the call alone, and at most moves a datagram from    *)
(* the socket towards the caller, is none of the mailbox.                  *)
LEMMA Stutters ==
  ASSUME UNCHANGED <<pc, call, ret, age, Box>>
  PROVE  MailStep
<1>1. UNCHANGED <<Phase, Limited, Due, Outcome>>
  BY DEF Phase, Limited, Due, Outcome
<1> QED BY <1>1 DEF MailStep, Mailbox!mailVars

(* A datagram that arrives is one of the mailbox's. *)
LEMMA ArriveMaps ==
  ASSUME IInv, NEW d \in Datagrams, Arrive(d)
  PROVE  MailStep
<1>1. Box' = Append(Box, d)
  BY ArriveGrowsBox
<1>2. UNCHANGED <<Phase, Limited, Due, Outcome>>
  BY DEF Arrive, Phase, Limited, Due, Outcome
<1>3. Mailbox!Arrive
  BY <1>1, <1>2 DEF Mailbox!Arrive
<1> QED BY <1>3 DEF MailStep, Mailbox!Next

(* receive begins to wait; with a timeout of zero its time is up at once. *)
LEMMA ReceiveMaps ==
  ASSUME IInv, IInv', NEW t \in Timeouts, Receive(t)
  PROVE  MailStep
<1>1. Box' = Box
  BY BoxStays DEF IInv
<1>2. /\ pc = "idle" /\ pc' = "loop" /\ age' = 0 /\ ret' = ret
      /\ call'.timeout = t
  BY DEF Receive
<1>3. Phase = "idle" /\ Phase' = "waiting" /\ Outcome' = Outcome
  BY <1>2 DEF Phase, Outcome
<1>4. Limited' \in BOOLEAN /\ Due' \in {FALSE, Limited'}
  BY DEF Limited, Due
<1>5. Mailbox!Begin
  BY <1>1, <1>3, <1>4 DEF Mailbox!Begin
<1> QED BY <1>5 DEF MailStep, Mailbox!Next

(* receive returns the message in front, or why there is none. *)
LEMMA ReturnMaps ==
  ASSUME IInv, IInv', Return
  PROVE  MailStep
<1>1. /\ Box = length \o inbox /\ Box' = inbox
      /\ inbox \in Seq(Datagrams)
  BY ReturnTakes, BoxParts DEF IInv
<1>2. /\ pc = "loop" /\ pc' = "idle" /\ ec # "would_block" /\ ec \in Errors
      /\ length \in Content /\ call' = NoCall
      /\ ret' = [err |-> ec, got |-> length, waiting |-> call.waiting]
      /\ (ec = "ok" <=> length # <<>>)
  BY DEF Return, LoopDone, IInv, TypeOK, CallShape
<1>3. ret'.err = ec /\ ret'.got = length
  BY <1>2
<1>4. Phase = "waiting" /\ Phase' = "idle" /\ Limited' = FALSE /\ Due' = FALSE
  BY <1>2 DEF Phase, Limited, Due, NoCall
<1>5. ASSUME NEW result, Outcome' = result
      PROVE  Mailbox!End(result)
  BY <1>4, <1>5 DEF Mailbox!End
<1>6. CASE ec = "ok"
  <2>1. PICK d \in Datagrams : length = <<d>>
    BY <1>2, <1>6 DEF Content
  <2>2. Box # <<>> /\ Head(Box) = d /\ Tail(Box) = inbox
    BY <1>1, <2>1, FrontAndRest
  <2>3. ret'.got[1] = d
    BY <1>3, <2>1
  <2>4. Outcome' = d
    BY <1>3, <1>6, <2>3 DEF Outcome
  <2>5. Mailbox!Take
    BY <1>1, <1>5, <2>2, <2>4 DEF Mailbox!Take
  <2> QED BY <2>5 DEF MailStep, Mailbox!Next
<1>7. CASE ec # "ok"
  <2>1. Box' = Box
    <3>1. length = <<>> /\ <<>> \o inbox = inbox
      BY <1>1, <1>2, <1>7, ConcatEmptySeq
    <3> QED BY <1>1, <3>1
  <2>2. CASE ec = "aborted"
    <3>1. Due /\ Outcome' = "timeout"
      BY <1>3, <2>2 DEF IInv, CutWhenDue, Outcome
    <3>2. Mailbox!GiveUp
      BY <1>5, <2>1, <3>1 DEF Mailbox!GiveUp
    <3> QED BY <3>2 DEF MailStep, Mailbox!Next
  <2>3. CASE ec = "failed"
    <3>1. Outcome' = "failed"
      BY <1>3, <2>3 DEF Outcome
    <3>2. Mailbox!Fail
      BY <1>5, <2>1, <3>1 DEF Mailbox!Fail
    <3> QED BY <3>2 DEF MailStep, Mailbox!Next
  <2> QED BY <1>2, <1>7, <2>2, <2>3 DEF Errors
<1> QED BY <1>6, <1>7

(* The clock may make a receive due, and never makes it early again. *)
LEMMA TickMaps ==
  ASSUME IInv, IInv', Tick
  PROVE  MailStep
<1>1. Box' = Box
  BY BoxStays DEF IInv
<1>2. /\ UNCHANGED <<pc, call, ret>>
      /\ age \in 0..MaxTimeout /\ call.timeout \in 0..MaxTimeout \cup {Inf}
      /\ age' = IF age < MaxTimeout THEN age + 1 ELSE age
      /\ MaxTimeout \in Nat
  BY TimeoutFacts DEF Tick, IInv, TypeOK
<1>3. UNCHANGED <<Phase, Limited, Outcome>>
  BY <1>2 DEF Phase, Limited, Outcome
<1>4. Due => Due'
  BY <1>2 DEF Due, Limited, Inf
<1>5. Due => Due' = Due
  BY <1>4 DEF Due, Limited
<1>6. CASE Due' = Due
  BY <1>1, <1>3, <1>6 DEF MailStep, Mailbox!mailVars
<1>7. CASE Due' # Due
  <2>1. ~Due /\ Due' = TRUE
    BY <1>5, <1>7 DEF Due, Limited
  <2>2. Limited
    BY <1>2, <2>1 DEF Due, Limited
  <2>3. pc = "loop"
    BY <2>2 DEF IInv, CallShape, NoCall, Limited
  <2>4. Mailbox!TimeUp
    BY <1>1, <1>3, <2>1, <2>2, <2>3 DEF Mailbox!TimeUp, Phase
  <2> QED BY <2>4 DEF MailStep, Mailbox!Next
<1> QED BY <1>6, <1>7

(* The destructor closes the mailbox. *)
LEMMA DestroyMaps ==
  ASSUME IInv, IInv', Destroy
  PROVE  MailStep
<1>1. Box' = Box
  BY BoxStays DEF IInv
<1>2. Phase = "idle" /\ Phase' = "gone" /\ UNCHANGED <<Limited, Due, Outcome>>
  BY DEF Destroy, Phase, Limited, Due, Outcome
<1>3. Mailbox!Close
  BY <1>1, <1>2 DEF Mailbox!Close
<1> QED BY <1>3 DEF MailStep, Mailbox!Next

(* asio_udp_client is a mailbox with a time limit: messages come out once  *)
(* each and in order, and a receive gives up only when its time is up.     *)
THEOREM KeepsMailbox == Spec => MailboxSpec
<1>1. Init => Mailbox!Init
  <2> SUFFICES ASSUME Init PROVE Mailbox!Init
    OBVIOUS
  <2>1. Box = <<>>
    BY BoxFacts, InitHolds DEF Init, IInv, NoOp
  <2>2. Phase = "idle" /\ Limited = FALSE /\ Due = FALSE /\ Outcome = "nothing"
    BY DEF Init, Phase, Limited, Due, Outcome, NoCall, NoReturn
  <2> QED BY <2>1, <2>2 DEF Mailbox!Init
<1>2. IInv /\ IInv' /\ [Next]_vars => [Mailbox!Next]_(Mailbox!mailVars)
  <2> SUFFICES ASSUME IInv, IInv', [Next]_vars PROVE MailStep
    BY DEF MailStep
  <2>1. CASE UNCHANGED vars
    <3>1. UNCHANGED <<pc, call, ret, age, length, op, inbox>>
      BY <2>1 DEF vars
    <3>2. Box' = Box
      BY <3>1 DEF Box
    <3> QED BY <3>1, <3>2, Stutters
  <2>2. CASE DatagramReady \/ SocketError \/ HandleReceive \/ DeadlineWakes
             \/ CheckDeadline \/ Gone
    <3>1. UNCHANGED <<pc, call, ret, age>>
      BY <2>2
      DEF DatagramReady, SocketError, HandleReceive, DeadlineWakes, CheckDeadline,
          Gone, vars
    <3>2. Box' = Box
      BY <2>2, BoxStays DEF IInv
    <3> QED BY <3>1, <3>2, Stutters
  <2> QED
    BY <2>1, <2>2, ArriveMaps, ReceiveMaps, ReturnMaps, TickMaps, DestroyMaps DEF Next
<1> QED BY <1>1, <1>2, Invariant, PTL DEF Spec, MailboxSpec, Mailbox!Spec

=============================================================================
