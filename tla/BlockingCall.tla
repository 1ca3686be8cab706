---------------------------- MODULE BlockingCall ----------------------------
(***************************************************************************)
(* What a blocking client with a time limit promises its caller, whatever  *)
(* machinery it is made of: the link is cut under a call only once that    *)
(* call's own time is up, only a call that connects brings the link up,    *)
(* and a call that reports success had a link to succeed on.               *)
(***************************************************************************)

CONSTANT Abortable  \* other threads may abort a call

VARIABLES
  phase,   \* "idle", "connecting", "transferring" or "gone"
  limit,   \* the call in progress was given a time limit
  due,     \* its time is up, or it has been aborted
  link,    \* the client has a link
  had,     \* it had one when the transfer in progress began
  outcome  \* how the last call ended: "none", "ok" or "failed"

contractVars == <<phase, limit, due, link, had, outcome>>

Busy == phase \in {"connecting", "transferring"}

Init ==
  /\ phase = "idle"
  /\ limit = FALSE
  /\ due = FALSE
  /\ link = FALSE
  /\ had = FALSE
  /\ outcome = "none"

(* A call begins with its whole time ahead of it. *)
Begin(kind, withLimit) ==
  /\ phase' = kind
  /\ limit' = withLimit
  /\ due' = FALSE
  /\ had' = link
  /\ UNCHANGED <<link, outcome>>

BeginConnect(withLimit) == phase = "idle" /\ Begin("connecting", withLimit)

(* A transfer may go on to a second one, with a limit of its own. *)
BeginTransfer(withLimit) ==
  phase \in {"idle", "transferring"} /\ Begin("transferring", withLimit)

(* Time runs out only for a call that has a limit. *)
TimeUp ==
  /\ Busy
  /\ limit \/ Abortable
  /\ due' = TRUE
  /\ UNCHANGED <<phase, limit, link, had, outcome>>

Cut ==
  /\ Busy
  /\ due
  /\ due' = FALSE
  /\ link' = FALSE
  /\ UNCHANGED <<phase, limit, had, outcome>>

(* Connecting makes a link, and may drop one to try another address. *)
Relink ==
  /\ phase = "connecting"
  /\ link' \in BOOLEAN
  /\ UNCHANGED <<phase, limit, due, had, outcome>>

End(result) ==
  /\ phase' = "idle"
  /\ limit' = FALSE
  /\ due' = FALSE
  /\ had' = FALSE
  /\ outcome' = result
  /\ UNCHANGED link

Succeed ==
  /\ \/ phase = "connecting" /\ link
     \/ phase = "transferring" /\ had
  /\ End("ok")

Fail == Busy /\ End("failed")

Destroy ==
  /\ phase = "idle"
  /\ phase' = "gone"
  /\ link' = FALSE
  /\ UNCHANGED <<limit, due, had, outcome>>

Next ==
  \/ \E withLimit \in BOOLEAN : BeginConnect(withLimit) \/ BeginTransfer(withLimit)
  \/ TimeUp
  \/ Cut
  \/ Relink
  \/ Succeed
  \/ Fail
  \/ Destroy

Spec == Init /\ [][Next]_contractVars

=============================================================================
