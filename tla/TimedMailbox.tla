---------------------------- MODULE TimedMailbox ----------------------------
(***************************************************************************)
(* What a receive with a time limit promises: messages come out once each  *)
(* and in the order they came in, and a receive gives up only when its     *)
(* time is up, and then takes nothing out.                                 *)
(***************************************************************************)
EXTENDS Sequences

CONSTANTS Messages

VARIABLES
  box,    \* messages that nobody has received yet
  state,  \* the receiver: "idle", "waiting" or "gone"
  limit,  \* the receive in progress has a time limit
  due,    \* and it has been reached
  last    \* what the last receive gave: a message, or why there is none

mailVars == <<box, state, limit, due, last>>

Init ==
  /\ box = <<>>
  /\ state = "idle"
  /\ limit = FALSE
  /\ due = FALSE
  /\ last = "nothing"

Arrive ==
  /\ \E m \in Messages : box' = Append(box, m)
  /\ UNCHANGED <<state, limit, due, last>>

Begin ==
  /\ state = "idle"
  /\ state' = "waiting"
  /\ limit' \in BOOLEAN
  /\ due' \in {FALSE, limit'}
  /\ UNCHANGED <<box, last>>

TimeUp ==
  /\ state = "waiting"
  /\ limit
  /\ due' = TRUE
  /\ UNCHANGED <<box, state, limit, last>>

End(result) ==
  /\ state = "waiting"
  /\ state' = "idle"
  /\ limit' = FALSE
  /\ due' = FALSE
  /\ last' = result

Take ==
  /\ box # <<>>
  /\ End(Head(box))
  /\ box' = Tail(box)

GiveUp == due /\ End("timeout") /\ UNCHANGED box

Fail == End("failed") /\ UNCHANGED box

Close ==
  /\ state = "idle"
  /\ state' = "gone"
  /\ UNCHANGED <<box, limit, due, last>>

Next == Arrive \/ Begin \/ TimeUp \/ Take \/ GiveUp \/ Fail \/ Close

Spec == Init /\ [][Next]_mailVars

=============================================================================
