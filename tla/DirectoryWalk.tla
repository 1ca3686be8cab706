---------------------------- MODULE DirectoryWalk ----------------------------
(***************************************************************************)
(* util::enum_directory (utf-encode-convert.hpp): the paths of all regular *)
(* files under a directory. Between any two of its system calls another    *)
(* process may add or remove entries; a directory may refuse to be opened; *)
(* and symbolic links are followed, also in a circle.                      *)
(***************************************************************************)
EXTENDS Naturals, Sequences, FiniteSets, SequencesExt

CONSTANTS
  Entries,    \* [in, to, link]: in directory in, under a name of its own, node to
  Kind,       \* of each node: "file", "dir" or "other"
  Root,       \* the directory that the caller names
  MaxLinks,   \* more symbolic links than this in a path are an error
  MaxDepth,   \* bound on the length of the paths that are looked at
  MaxChanges  \* bound on the entries that are added and removed

ASSUME DirectoryWalkAssumption ==
  /\ {MaxLinks, MaxDepth, MaxChanges} \subseteq Nat
  /\ Kind[Root] = "dir"
  /\ \A e \in Entries : Kind[e.in] = "dir"

VARIABLES
  present,  \* the entries that are there
  stable,   \* those that have been there since the call began
  changes,  \* how many were added or removed
  at,       \* what the call does next
  stack,    \* a frame for each nested call: its directory and iterator
  path,     \* temp_path
  files,    \* the caller's vector
  refused   \* the directories that did not open

fs == <<present, stable, changes>>
walkVars == <<fs, at, stack, path, files, refused>>

\* A path is the entries that it leads through; the empty one is Root's.
Node(p) == IF p = <<>> THEN Root ELSE Last(p).to
Links(p) == Cardinality({i \in DOMAIN p : p[i].link})
Paths ==
  {p \in UNION {[1 .. n -> Entries] : n \in 0 .. MaxDepth} :
     \A i \in DOMAIN p : p[i].in = Node(SubSeq(p, 1, i - 1))}

\* What the system says of a path, following links.
Is(kind, p) == ToSet(p) \subseteq present /\ Links(p) <= MaxLinks /\ Kind[Node(p)] = kind

WalkInit ==
  /\ present \in SUBSET Entries
  /\ stable = present
  /\ changes = 0
  /\ at = "open"
  /\ stack = <<>>
  /\ path = <<>>
  /\ files = <<>>
  /\ refused = {}

----------------------------------------------------------------------------
(* Other processes.                                                        *)

Ended == at \in {"returned", "thrown"}

\* An open iterator may or may not give what was added or removed meanwhile.
Change(e) ==
  /\ ~Ended
  /\ changes < MaxChanges
  /\ changes' = changes + 1
  /\ \/ /\ e \in present
        /\ present' = present \ {e}
        /\ stable' = stable \ {e}
        /\ stack' = [i \in DOMAIN stack |-> [stack[i] EXCEPT !.must = @ \ {e}]]
     \/ /\ e \notin present
        /\ present' = present \cup {e}
        /\ stack' = [i \in DOMAIN stack |->
                       IF Node(stack[i].dir) = e.in THEN [stack[i] EXCEPT !.may = @ \cup {e}]
                       ELSE stack[i]]
        /\ UNCHANGED stable
  /\ UNCHANGED <<at, path, files, refused>>

----------------------------------------------------------------------------
(* enum_directory                                                          *)

In(dir) == {e \in present : e.in = Node(dir)}

\* directory_iterator pos(full_path, err); an error ends this call, and only
\* this call, without a word to its caller.
Open ==
  /\ at = "open"
  /\ \/ /\ Is("dir", path)
        /\ stack' = Append(stack,
                     [dir |-> path, must |-> In(path), may |-> In(path), seen |-> {}])
        /\ at' = "loop"
        /\ UNCHANGED refused
     \/ /\ refused' = refused \cup {Node(path)}
        /\ at' = IF stack = <<>> THEN "returned" ELSE "loop"
        /\ UNCHANGED stack
  /\ UNCHANGED <<fs, path, files>>

\* The iterator gives every entry that is there all the time, once.
Advance ==
  /\ at = "loop"
  /\ \E e \in Last(stack).may \ Last(stack).seen :
       /\ stack' = [stack EXCEPT ![Len(stack)].seen = @ \cup {e}]
       /\ path' = Append(Last(stack).dir, e)
  /\ at' = "is_regular"
  /\ UNCHANGED <<fs, files, refused>>

\* ++pos throws when the directory cannot be read on: through all calls.
ReadFails ==
  /\ at = "loop"
  /\ at' = "thrown"
  /\ UNCHANGED <<fs, stack, path, files, refused>>

\* The end of the loop: back to the call before, or to the caller.
Return ==
  /\ at = "loop"
  /\ Last(stack).must \subseteq Last(stack).seen
  /\ stack' = Front(stack)
  /\ at' = IF Len(stack) = 1 THEN "returned" ELSE "loop"
  /\ UNCHANGED <<fs, path, files, refused>>

IsRegular ==
  /\ at = "is_regular"
  /\ IF Is("file", path) THEN files' = Append(files, path) /\ at' = "loop"
                         ELSE at' = "is_directory" /\ UNCHANGED files
  /\ UNCHANGED <<fs, stack, path, refused>>

(* Mutants: an entry that is neither ends the loop; it is asked for again. *)
IsDirectoryOrReturn ==
  /\ at = "is_directory"
  /\ \/ Is("dir", path) /\ at' = "open" /\ UNCHANGED stack
     \/ /\ ~Is("dir", path)
        /\ stack' = Front(stack)
        /\ at' = IF Len(stack) = 1 THEN "returned" ELSE "loop"
  /\ UNCHANGED <<fs, path, files, refused>>
IsDirectoryOrAgain ==
  /\ at = "is_directory"
  /\ at' = IF Is("dir", path) THEN "open" ELSE "is_regular"
  /\ UNCHANGED <<fs, stack, path, files, refused>>

\* An entry that is neither, or is no longer there, is passed over: on an
\* error both questions are answered with no, and the checks of err that
\* follow a yes are never true.
IsDirectory ==
  /\ at = "is_directory"
  /\ at' = IF Is("dir", path) THEN "open" ELSE "loop"
  /\ UNCHANGED <<fs, stack, path, files, refused>>

Walk == Open \/ Advance \/ ReadFails \/ Return \/ IsRegular \/ IsDirectory

WalkNext == Walk \/ \E e \in Entries : Change(e)

WalkSpec == WalkInit /\ [][WalkNext]_walkVars /\ WF_walkVars(Walk)

----------------------------------------------------------------------------
(* Properties.                                                             *)

(* Whatever others change meanwhile: a file that was there all the time,   *)
(* in directories that opened, is listed, and no path is listed twice.     *)
MustBeListed(p) ==
  /\ Kind[Node(p)] = "file"
  /\ Links(p) <= MaxLinks
  /\ ToSet(p) \subseteq stable
  /\ \A i \in 0 .. Len(p) - 1 : Node(SubSeq(p, 1, i)) \notin refused
ListedOnce ==
  /\ at = "returned" => \A p \in Paths : MustBeListed(p) => p \in ToSet(files)
  /\ IsInjective(files)

(* The walk ends, also when links lead around in a circle: the system      *)
(* follows only so many of them in a path.                                 *)
WalkEnds == <>Ended
=============================================================================
