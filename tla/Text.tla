-------------------------------- MODULE Text --------------------------------
(***************************************************************************)
(* include/Text.hpp: Trim, Replace, Split, FindCount and EraseString, one  *)
(* step per turn of their loops, so that a loop that does not end is seen. *)
(* The texts are those for which the code returns (Sane); outside of them  *)
(* Trim and Replace loop for ever.                                         *)
(***************************************************************************)
EXTENDS Strings

CONSTANTS
  Chars,      \* the characters; Space is one of them
  Space,
  MaxStr,     \* bound on the length of the text
  MaxArg,     \* bound on the length of oldText, newText and ch_
  MaxCount    \* count is not followed beyond this

Ops == {"Trim", "Replace", "Split", "FindCount", "EraseString"}

VARIABLES
  op, arg, oldText, newText,  \* the call
  pc,                         \* "start", "loop", "tail" or "done"
  str, pos, count, arr,       \* the locals and the result
  turn                        \* parity of the steps: a turn of a loop that
                              \* changes nothing else is still a step

vars == <<op, arg, oldText, newText, pc, str, pos, count, arr, turn>>

call == <<op, arg, oldText, newText>>

\* Inputs for which the code returns: a text that is not only spaces, and an
\* argument that is not empty; for Replace, a newText that is another text no
\* longer than oldText, or that has no character in common with it.
Sane(o, s, old, new) ==
  /\ o = "Trim" => s = <<>> \/ \E k \in 1..Len(s) : s[k] # Space
  /\ o # "Trim" => old # <<>>
  /\ o = "Replace" => \/ new # old /\ Len(new) <= Len(old)
                      \/ \A k \in 1..Len(old) : \A m \in 1..Len(new) : old[k] # new[m]

Init ==
  /\ op \in Ops
  /\ arg \in Strs(Chars, MaxStr)
  /\ oldText \in IF op = "Trim" THEN {<<>>} ELSE Strs(Chars, MaxArg)
  /\ newText \in IF op = "Replace" THEN Strs(Chars, MaxArg) ELSE {<<>>}
  /\ Sane(op, arg, oldText, newText)
  /\ pc = "start"
  /\ str = arg
  /\ pos = find(arg, IF op = "Trim" THEN <<Space>> ELSE oldText, 0)
  /\ count = 0
  /\ arr = <<>>
  /\ turn = 0

Counted == count' = IF count < MaxCount THEN count + 1 ELSE count

(***************************************************************************)
(* Trim                                                                    *)
(***************************************************************************)
TrimStart ==
  /\ op = "Trim" /\ pc = "start"
  /\ pc' = IF pos = npos THEN "done" ELSE "loop"
  /\ UNCHANGED <<call, str, pos, count, arr>>

TrimHead ==
  /\ op = "Trim" /\ pc = "loop"
  /\ IF pos = 0
     THEN /\ str' = substr(str, 1, npos)
          /\ pos' = find(str', <<Space>>, 0)
          /\ pc' = pc
     ELSE /\ pc' = "tail"
          /\ pos' = rfind(str, <<Space>>)
          /\ str' = str
  /\ UNCHANGED <<call, count, arr>>

\* size() - 1 of an empty string is npos, so with nothing left the test
\* pos == size() - 1 holds for ever.
TrimTail ==
  /\ op = "Trim" /\ pc = "tail"
  /\ IF pos = Len(str) - 1
     THEN /\ str' = substr(str, 0, pos)
          /\ pos' = rfind(str', <<Space>>)
          /\ pc' = pc
     ELSE /\ pc' = "done"
          /\ UNCHANGED <<str, pos>>
  /\ UNCHANGED <<call, count, arr>>

(***************************************************************************)
(* Replace: the search starts again at the beginning after every change.   *)
(***************************************************************************)

SearchAgain == find(str', oldText, 0)

Replace ==
  /\ op = "Replace" /\ pc # "done"
  /\ IF pos # npos
     THEN /\ str' = replace(str, pos, Len(oldText), newText)
          /\ pos' = SearchAgain
          /\ Counted
          /\ pc' = "loop"
     ELSE /\ pc' = "done"
          /\ UNCHANGED <<str, pos, count>>
  /\ UNCHANGED <<call, arr>>

(***************************************************************************)
(* Split                                                                   *)
(***************************************************************************)
SplitStart ==
  /\ op = "Split" /\ pc = "start"
  /\ arr' = IF arg = <<>> \/ pos # npos THEN <<>> ELSE <<arg>>
  /\ pc' = IF arg = <<>> \/ pos = npos THEN "done" ELSE "loop"
  /\ UNCHANGED <<call, str, pos, count>>

\* Mutant: the text behind the last separator is forgotten when it is empty.
LastPartNonEmpty(buf) == IF buf = <<>> THEN <<>> ELSE <<buf>>

LastPart(buf) == <<buf>>

SplitStep ==
  /\ op = "Split" /\ pc = "loop"
  /\ str' = substr(str, pos + Len(oldText), npos)
  /\ pos' = find(str', oldText, 0)
  /\ arr' = Append(arr, substr(str, 0, pos)) \o (IF pos' = npos THEN LastPart(str') ELSE <<>>)
  /\ pc' = IF pos' = npos THEN "done" ELSE "loop"
  /\ UNCHANGED <<call, count>>

(***************************************************************************)
(* FindCount and EraseString                                               *)
(***************************************************************************)

NextFrom == pos + Len(oldText)

FindCount ==
  /\ op = "FindCount" /\ pc # "done"
  /\ IF pos # npos
     THEN /\ Counted
          /\ pos' = find(str, oldText, NextFrom)
          /\ pc' = "loop"
     ELSE /\ pc' = "done"
          /\ UNCHANGED <<pos, count>>
  /\ UNCHANGED <<call, str, arr>>

\* The text is erased only at the beginning.
EraseString ==
  /\ op = "EraseString" /\ pc = "start"
  /\ str' = IF pos = 0 THEN substr(str, Len(oldText), npos) ELSE str
  /\ count' = IF pos = 0 THEN 1 ELSE 0
  /\ pc' = "done"
  /\ UNCHANGED <<call, pos, arr>>

Step ==
  /\ \/ TrimStart \/ TrimHead \/ TrimTail
     \/ Replace
     \/ SplitStart \/ SplitStep
     \/ FindCount \/ EraseString
  /\ turn' = 1 - turn

Next == Step \/ (pc = "done" /\ UNCHANGED vars)

\* A running function takes its next step.
Spec == Init /\ [][Next]_vars /\ WF_vars(Step)

(***************************************************************************)
(* Properties.                                                             *)
(***************************************************************************)

Join(parts, sep) == FoldLeft(LAMBDA s, p : IF s = <<>> THEN <<p>> ELSE <<s[1] \o sep \o p>>, <<>>, parts)

Disjoint(s, t) == Range(s) \cap Range(t) = {}

\* Every function returns, for Sane inputs.
Returns == op \in Ops => <>(pc = "done")

\* Trim returns the text without its leading and trailing spaces and leaves
\* everything in between.
Trimmed ==
  op = "Trim" /\ pc = "done" =>
    /\ str # <<>> => Head(str) # Space /\ Last(str) # Space
    /\ \E p \in 0..Len(arg) : /\ OccursAt(arg, str, p)
                              /\ \A k \in 1..Len(arg) :
                                   k <= p \/ k > p + Len(str) => arg[k] = Space

\* When Replace returns, oldText is nowhere left, also where a replacement
\* made a new occurrence; where none can, count is the number of occurrences
\* and nothing else has changed.
ReplacedAll ==
  op = "Replace" /\ pc = "done" =>
    /\ ~Holds(str, oldText)
    /\ newText # <<>> /\ Disjoint(oldText, newText) /\ Cardinality(Range(oldText)) = Len(oldText) =>
         /\ count = Cardinality(Positions(arg, oldText, 0))
         /\ Len(str) = Len(arg) + count * (Len(newText) - Len(oldText))

\* Split loses nothing: its parts, joined again, are the text, and none of
\* them holds a separator.
SplitJoins ==
  op = "Split" /\ pc = "done" =>
    /\ \A k \in 1..Len(arr) : ~Holds(arr[k], oldText)
    /\ arr # <<>> => Join(arr, oldText) = <<arg>>
    /\ arr = <<>> => arg = <<>>

\* FindCount counts occurrences that do not overlap: it is bounded by the
\* length of the text, is 0 exactly when there is none, and counts all
\* occurrences of an argument that cannot overlap itself.
CountsOccurrences ==
  op = "FindCount" /\ pc = "done" =>
    /\ count * Len(oldText) <= Len(arg)
    /\ count = 0 <=> ~Holds(arg, oldText)
    /\ Cardinality(Range(oldText)) = Len(oldText) => count = Cardinality(Positions(arg, oldText, 0))

\* What the functions return is what a definition by positions gives.
TextAgrees == Trimmed /\ ReplacedAll /\ SplitJoins /\ CountsOccurrences
=============================================================================
