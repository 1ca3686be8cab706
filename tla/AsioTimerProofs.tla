--------------------------- MODULE AsioTimerProofs ---------------------------
(***************************************************************************)
(* Lemmas about the operations of a deadline_timer: each keeps the timer's *)
(* type, and says what becomes of its expiry and of its waits.             *)
(***************************************************************************)
EXTENDS AsioTimer, TLAPS

(* Waits on the timer that are pending or have a handler to run. *)
Actors(t) == t.waiting + t.queued

(* The fields of a timer. *)
LEMMA TimerFields ==
  ASSUME NEW t \in TimerState
  PROVE  /\ t.expiry \in Ticks
         /\ t.wakeAt \in Ticks
         /\ t.waiting \in Nat
         /\ t.mayWait \in BOOLEAN
         /\ t.queued \in Nat
BY DEF TimerState

(* Completing the waits turns sleeping actors into ready ones. *)
LEMMA CompleteWaitsFacts ==
  ASSUME NEW t \in TimerState
  PROVE  /\ CompleteWaits(t) \in TimerState
         /\ CompleteWaits(t).expiry = t.expiry
         /\ Actors(CompleteWaits(t)) = Actors(t)
<1>1. t.queued + t.waiting \in Nat /\ 0 \in Nat /\ Inf \in Ticks
  BY TimerFields DEF Ticks
<1>2. CompleteWaits(t) \in TimerState
  BY <1>1, Zenon DEF CompleteWaits, TimerState
<1>3. CompleteWaits(t).expiry = t.expiry
  BY DEF CompleteWaits, TimerState
<1>4. Actors(CompleteWaits(t)) = Actors(t)
  BY DEF CompleteWaits, TimerState, Actors
<1> QED BY <1>2, <1>3, <1>4

(* So does cancelling them, if it does anything. *)
LEMMA CancelWaitsFacts ==
  ASSUME NEW t \in TimerState
  PROVE  /\ CancelWaits(t) \in TimerState
         /\ CancelWaits(t).expiry = t.expiry
         /\ Actors(CancelWaits(t)) = Actors(t)
<1>1. CASE t.mayWait
  <2> DEFINE c == CompleteWaits(t)
  <2>1. c \in TimerState /\ c.expiry = t.expiry /\ Actors(c) = Actors(t)
    BY CompleteWaitsFacts
  <2>2. CancelWaits(t) = [c EXCEPT !.mayWait = FALSE]
    BY <1>1 DEF CancelWaits
  <2> HIDE DEF c
  <2> QED
    BY <2>1, <2>2 DEF TimerState, Actors
<1>2. CASE ~t.mayWait
  BY <1>2 DEF CancelWaits
<1> QED BY <1>1, <1>2

(* A new expiry replaces the old one and loses no actor. *)
LEMMA ExpiresAtFacts ==
  ASSUME NEW t \in TimerState, NEW e \in Ticks
  PROVE  /\ ExpiresAt(t, e) \in TimerState
         /\ ExpiresAt(t, e).expiry = e
         /\ Actors(ExpiresAt(t, e)) = Actors(t)
<1> DEFINE c == CancelWaits(t)
<1>1. c \in TimerState /\ Actors(c) = Actors(t)
  BY CancelWaitsFacts
<1>2. ExpiresAt(t, e) = [c EXCEPT !.expiry = e]
  BY DEF ExpiresAt
<1> HIDE DEF c
<1> QED BY <1>1, <1>2 DEF TimerState, Actors

(* async_wait adds one actor and keeps the expiry. *)
LEMMA AsyncWaitFacts ==
  ASSUME NEW t \in TimerState
  PROVE  /\ AsyncWait(t) \in TimerState
         /\ AsyncWait(t).expiry = t.expiry
         /\ Actors(AsyncWait(t)) = Actors(t) + 1
<1> DEFINE w == IF t.waiting = 0 THEN t.expiry ELSE t.wakeAt
<1>1. t.waiting + 1 \in Nat /\ w \in Ticks
  BY TimerFields
<1>2. AsyncWait(t) = [t EXCEPT !.waiting = t.waiting + 1, !.mayWait = TRUE, !.wakeAt = w]
  BY DEF AsyncWait
<1> HIDE DEF w
<1>3. AsyncWait(t) \in TimerState
  BY <1>1, <1>2, Zenon DEF TimerState
<1>4. AsyncWait(t).expiry = t.expiry
  BY <1>2 DEF TimerState
<1>5. Actors(AsyncWait(t)) = Actors(t) + 1
  BY <1>2 DEF TimerState, Actors
<1> QED BY <1>3, <1>4, <1>5

(* Running a wait's handler uses up one actor and keeps the expiry. *)
LEMMA TakeHandlerFacts ==
  ASSUME NEW t \in TimerState, t.queued > 0
  PROVE  /\ TakeHandler(t) \in TimerState
         /\ TakeHandler(t).expiry = t.expiry
         /\ Actors(TakeHandler(t)) = Actors(t) - 1
BY DEF TakeHandler, TimerState, Actors

(* A tick takes one off the expiry and nothing else. *)
LEMMA TickTimerFacts ==
  ASSUME NEW t \in TimerState
  PROVE  /\ TickTimer(t) \in TimerState
         /\ TickTimer(t).expiry = IF t.expiry > 0 THEN t.expiry - 1 ELSE t.expiry
         /\ Actors(TickTimer(t)) = Actors(t)
<1>1. Less(t.expiry) \in Ticks /\ Less(t.wakeAt) \in Ticks
  BY TimerFields DEF Less, Ticks, Inf
<1>2. TickTimer(t) \in TimerState
  BY <1>1, Zenon DEF TickTimer, TimerState
<1>3. TickTimer(t).expiry = IF t.expiry > 0 THEN t.expiry - 1 ELSE t.expiry
  BY DEF TickTimer, Less, TimerState
<1>4. Actors(TickTimer(t)) = Actors(t)
  BY DEF TickTimer, TimerState, Actors
<1> QED BY <1>2, <1>3, <1>4

(* A new timer has no actor. *)
LEMMA NewTimerFacts == NewTimer \in TimerState /\ Actors(NewTimer) = 0
BY DEF NewTimer, TimerState, Ticks, Inf, Actors

=============================================================================
