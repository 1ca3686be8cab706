------------------------------- MODULE Journal -------------------------------
(***************************************************************************)
(* What a log file shared by several writers promises: a call of the       *)
(* method adds one whole entry at its end, or, if the file could not be    *)
(* opened, nothing; and no entry is ever changed.                          *)
(***************************************************************************)
EXTENDS Naturals, Sequences

CONSTANT Writers

VARIABLES
  journal,  \* the entries
  calls     \* how many calls each writer has made

Entry(writer, n) == [by |-> writer, call |-> n, whole |-> TRUE]

Init == journal = <<>> /\ calls = [w \in Writers |-> 0]

Count(writer) == calls' = [calls EXCEPT ![writer] = @ + 1]

Write(writer) ==
  /\ journal' = Append(journal, Entry(writer, calls[writer] + 1))
  /\ Count(writer)

Lose(writer) == UNCHANGED journal /\ Count(writer)

Next == \E writer \in Writers : Write(writer) \/ Lose(writer)

Spec == Init /\ [][Next]_<<journal, calls>>
=============================================================================
