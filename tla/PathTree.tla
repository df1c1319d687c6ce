------------------------------ MODULE PathTree ------------------------------
(***************************************************************************)
(* include/FileSystem.hpp: Path::Create and Path::Delete, with             *)
(* Path::Exists and FileSystem::Find under them, on a directory tree that  *)
(* other programs change.  A path is the sequence of its names; the drive  *)
(* is the empty sequence.  Create is one step per directory, Delete one    *)
(* step as a whole.                                                        *)
(***************************************************************************)
EXTENDS Integers, Sequences, SequencesExt

CONSTANTS
  Paths,     \* the paths that entries may have, each with those above it
  DotNames   \* the names that begin with a dot

\* "dir": attributes exactly DIRECTORY; "odd": a directory with others, hidden
\* for instance; "file": a file with ARCHIVE; "plain": a file without.
Kinds == {"dir", "odd", "file", "plain"}

VARIABLES
  tree,      \* [Paths -> Kinds \cup {"absent"}]
  creating,  \* the path that Create works on, <<>> if none
  absolute,  \* it has a drive letter
  level,     \* names of it that have been handled, -1 before the first mkdir
  disturbed, \* history: something was deleted, or a file made, meanwhile
  ret        \* the last call: [op, path, result, and the tree before it]

vars == <<tree, creating, absolute, level, disturbed, ret>>

NoCall == [op |-> "none", path |-> <<>>, ok |-> FALSE, tree |-> <<>>, abs |-> FALSE, calm |-> FALSE]

\* Path::Exists: the DIRECTORY bit.
Exists(t, p) == IF p = <<>> THEN TRUE ELSE t[p] \in {"dir", "odd"}

Children(t, p) ==
  {q \in Paths : Len(q) = Len(p) + 1 /\ Front(q) = p /\ t[q] # "absent"}

Below(t, p) == {q \in Paths : IsStrictPrefix(p, q) /\ t[q] # "absent"}

\* FileSystem::Find: names with a dot in front and entries that are neither
\* exactly a directory nor have ARCHIVE are passed over.
Find(t, p) ==
  {q \in Children(t, p) : Last(q) \notin DotNames /\ t[q] \in {"dir", "file"}}

\* The paths that Path::Delete(p) removes: the files found, what the same
\* removes from the directories found, and the directory if it is then empty.
Removes(t, p) ==
  LET removed[d \in Paths] ==
        LET inner == UNION {IF t[q] = "file" THEN {q} ELSE removed[q] : q \in Find(t, d)}
        IN  IF Exists(t, d) /\ Children(t, d) \subseteq inner THEN inner \cup {d} ELSE inner
  IN  removed[p]

\* Mutant: directories inside are not entered.
RemovesFlat(t, p) ==
  LET inner == {q \in Find(t, p) : t[q] = "file"}
  IN  IF Exists(t, p) /\ Children(t, p) \subseteq inner THEN inner \cup {p} ELSE inner

Deleted(t, p) == Removes(t, p)

Init ==
  /\ tree = [p \in Paths |-> "absent"]
  /\ creating = <<>> /\ absolute = FALSE /\ level = 0
  /\ disturbed = FALSE
  /\ ret = NoCall

Delete(p) ==
  /\ creating = <<>>
  /\ tree' = [q \in Paths |-> IF q \in Deleted(tree, p) THEN "absent" ELSE tree[q]]
  /\ ret' = [NoCall EXCEPT !.op = "Delete", !.path = p, !.ok = ~Exists(tree', p), !.tree = tree]
  /\ UNCHANGED <<creating, absolute, level, disturbed>>

\* _mkdir(p): the parent must be a directory, and nothing have the name.
Mkdir(t, p) ==
  IF Exists(t, Front(p)) /\ t[p] = "absent" THEN [t EXCEPT ![p] = "dir"] ELSE t

CreateCall(p, abs) ==
  /\ creating = <<>>
  /\ creating' = p /\ absolute' = abs /\ level' = -1
  /\ disturbed' = FALSE
  /\ ret' = NoCall
  /\ UNCHANGED tree

\* The first attempt: the path itself.
CreateDirect ==
  /\ creating # <<>> /\ level = -1
  /\ tree' = Mkdir(tree, creating)
  /\ level' = IF Exists(tree', creating) \/ ~absolute THEN Len(creating) ELSE 0
  /\ UNCHANGED <<creating, absolute, disturbed, ret>>

NextLevel == level + 1

\* One turn of the loop over the names of an absolute path.
CreateLevel ==
  /\ creating # <<>> /\ level \in 0..(Len(creating) - 1)
  /\ level' = NextLevel
  /\ LET root == SubSeq(creating, 1, level')
     IN  tree' = IF Exists(tree, root) THEN tree ELSE Mkdir(tree, root)
  /\ UNCHANGED <<creating, absolute, disturbed, ret>>

CreateReturn ==
  /\ creating # <<>> /\ level = Len(creating)
  /\ ret' = [op |-> "Create", path |-> creating, ok |-> Exists(tree, creating), tree |-> tree,
             abs |-> absolute, calm |-> ~disturbed]
  /\ creating' = <<>> /\ absolute' = FALSE /\ level' = 0 /\ disturbed' = FALSE
  /\ UNCHANGED tree

\* Other programs make and remove entries, also while Create runs.
Other(p) ==
  /\ \/ \E k \in Kinds :
          /\ tree[p] = "absent" /\ Exists(tree, Front(p))
          /\ tree' = [tree EXCEPT ![p] = k]
          /\ disturbed' = (disturbed \/ (creating # <<>> /\ k \in {"file", "plain"}))
     \/ /\ tree[p] # "absent" /\ Children(tree, p) = {}
        /\ tree' = [tree EXCEPT ![p] = "absent"]
        /\ disturbed' = (disturbed \/ creating # <<>>)
  /\ ret' = NoCall
  /\ UNCHANGED <<creating, absolute, level>>

Next ==
  \/ \E p \in Paths : Delete(p) \/ Other(p) \/ \E abs \in BOOLEAN : CreateCall(p, abs)
  \/ CreateDirect \/ CreateLevel \/ CreateReturn

Spec == Init /\ [][Next]_vars

(***************************************************************************)
(* Properties.                                                             *)
(***************************************************************************)

\* Create of an absolute path makes it and returns true
\* unless a file is in the way, however many levels are missing and although
\* other programs make directories at the same time.
CreateMakesPath ==
  ret.op = "Create" /\ ret.abs /\ ret.calm /\ ~ret.ok =>
    \E k \in 1..Len(ret.path) : ret.tree[SubSeq(ret.path, 1, k)] \in {"file", "plain"}

Ordinary(t, q) == Last(q) \notin DotNames /\ t[q] \in {"dir", "file"}

\* Delete of a directory in which everything is ordinary removes all of it.
\* Otherwise it keeps exactly what Find does not show, what is inside that,
\* and the directories above: nothing else is left behind or lost.
DeleteRemovesOrdinary ==
  ret.op = "Delete" /\ Exists(ret.tree, ret.path) =>
    \A q \in Below(ret.tree, ret.path) \cup {ret.path} :
      LET special == {r \in Below(ret.tree, ret.path) : ~Ordinary(ret.tree, r)}
      IN  tree[q] # "absent" <=> \E r \in special : IsPrefix(r, q) \/ IsPrefix(q, r)
=============================================================================
