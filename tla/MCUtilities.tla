---------------------------- MODULE MCUtilities ----------------------------
(***************************************************************************)
(* Instances of CurlUtil, HexUtil and DirectoryWalk for TLC. A program     *)
(* calls one of them; nothing that happens in one can be seen in another,  *)
(* so that checking each alone is checking all three.                      *)
(***************************************************************************)
EXTENDS CurlUtil, HexUtil, DirectoryWalk

\* Bodies of up to four characters, with and without zeros in them.
AllBodies == {<<>>} \cup UNION {[1 .. n -> {0, 1, 2}] : n \in 1 .. 4}

\* The characters on both sides of each range: / 0 9 : A F G ` a f g
SomeTexts == BoundedSeq({47, 48, 57, 58, 65, 70, 71, 96, 97, 102, 103}, 4)

\* Twice four is more than an int of four bits counts.
SomeBlocks == BoundedSeq({0, 9, 10, 159, 171, 255}, 2) \cup {<<1, 2, 3>>, <<1, 2, 3, 4>>}

SomeLengths == -2 .. 4

\* Two files and a socket in two directories, and a link back to the first.
Entry(in, to, link) == [in |-> in, to |-> to, link |-> link]
Tree == {Entry("top", "a", FALSE), Entry("top", "sub", FALSE),
         Entry("sub", "b", FALSE), Entry("sub", "top", TRUE), Entry("sub", "socket", FALSE)}
Kinds == [top |-> "dir", sub |-> "dir", a |-> "file", b |-> "file", socket |-> "other"]

VARIABLE used  \* the utility that the program calls

\* A walk that was not asked for is over: WalkEnds asks nothing of it.
Init ==
  /\ used \in {"CurlSend", "hex", "enum_directory"}
  /\ CurlInit /\ (used # "CurlSend" => response = <<>>)
  /\ HexInit
  /\ IF used = "enum_directory" THEN WalkInit
     ELSE /\ at = "thrown" /\ present = {} /\ stable = {} /\ changes = 0
          /\ stack = <<>> /\ path = <<>> /\ files = <<>> /\ refused = {}

Next ==
  /\ UNCHANGED used
  /\ \/ used = "CurlSend" /\ CurlSend /\ UNCHANGED <<hexVars, walkVars>>
     \/ used = "hex" /\ HexNext /\ UNCHANGED <<curlVars, walkVars>>
     \/ used = "enum_directory" /\ WalkNext /\ UNCHANGED <<curlVars, hexVars>>

Spec == Init /\ [][Next]_<<used, curlVars, hexVars, walkVars>> /\ WF_walkVars(Walk)
=============================================================================
