----------------------------- MODULE HashObject -----------------------------
(***************************************************************************)
(* What the interface of class Hash promises, whatever the algorithm       *)
(* behind it: pieces of a message are added one after another, and         *)
(* getHash() gives the digest of the whole message, however it was cut     *)
(* and however often it is asked. Nothing can be added to a message whose  *)
(* digest was asked for until reset() starts the next one.                 *)
(***************************************************************************)
EXTENDS Naturals, Sequences

CONSTANTS Digest(_)  \* the digest of a message

VARIABLES
  message,  \* everything added since the last reset
  status,   \* "INIT", "HASHING" or "END"
  answer    \* what the last call gave its caller

vars == <<message, status, answer>>

Nothing == [what |-> "done", digest |-> <<>>]
LogicError == [what |-> "logic_error", digest |-> <<>>]
BadAlloc == [what |-> "bad_alloc", digest |-> <<>>]
DigestIs(d) == [what |-> "digest", digest |-> d]

Init ==
  /\ message = <<>>
  /\ status = "INIT"
  /\ answer = Nothing

Extends(longer, text) ==
  /\ Len(longer) >= Len(text)
  /\ \A i \in 1 .. Len(text) : longer[i] = text[i]

Add ==
  /\ status # "END"
  /\ Extends(message', message)
  /\ status' = "HASHING"
  /\ answer' = Nothing

AddRefused ==
  /\ status = "END"
  /\ answer' = LogicError
  /\ UNCHANGED <<message, status>>

GetHash ==
  /\ status # "INIT"
  /\ status' = "END"
  /\ answer' \in {DigestIs(Digest(message)), BadAlloc}
  /\ UNCHANGED message

GetHashRefused ==
  /\ status = "INIT"
  /\ answer' = LogicError
  /\ UNCHANGED <<message, status>>

Reset ==
  /\ message' = <<>>
  /\ status' = "INIT"
  /\ answer' = Nothing

Next == Add \/ AddRefused \/ GetHash \/ GetHashRefused \/ Reset

Spec == Init /\ [][Next]_vars
=============================================================================
