------------------------------ MODULE Regedit ------------------------------
(***************************************************************************)
(* include/Regedit.h: DelKey, which deletes a registry key with everything *)
(* below it.  The recursion is a stack of lengths, lpEnd of each call,     *)
(* over one shared path buffer, lpSubKey, that every call extends and cuts *)
(* again.  Other programs may add and delete keys meanwhile; a key may     *)
(* refuse to be deleted or to be opened.                                   *)
(***************************************************************************)
EXTENDS Integers, Sequences, SequencesExt, FiniteSetsExt

CONSTANTS
  Root,       \* the key at the top, which always has the name Root
  Names,      \* the names of keys below it: numbers, in enumeration order
  MaxDepth,   \* bound on the length of a path
  MaxOther    \* bound on the keys that other programs add or delete

ASSUME RegeditAssumption == Root \in Nat /\ Names \subseteq Nat /\ MaxDepth \in Nat

Paths == UNION {{<<Root>> \o p : p \in [1..n -> Names]} : n \in 0..(MaxDepth - 1)}

VARIABLES
  keys,      \* the keys that exist
  denied,    \* keys that cannot be deleted
  closed,    \* keys that cannot be opened
  arg,       \* the argument of the outermost call
  lpSubKey,  \* the path buffer
  stack,     \* lpEnd of the calls in progress, outermost first
  pc,        \* where the innermost call is
  result,    \* what the call that returned last has returned
  handles,   \* registry handles open
  others     \* keys added or deleted by other programs so far

vars == <<keys, denied, closed, arg, lpSubKey, stack, pc, result, handles, others>>

still == <<denied, closed, arg>>

Children(p) == {q \in keys : Len(q) = Len(p) + 1 /\ Front(q) = p}

\* RegDeleteKey succeeds for a key without subkeys that may be deleted.
Deletable(p) == p \in keys /\ Children(p) = {} /\ p \notin denied

Init ==
  /\ keys \in {S \in SUBSET Paths : \A p \in S : Len(p) > 1 => Front(p) \in S}
  /\ \E S \in {{}} \cup {{p} : p \in Paths} : denied = S
  /\ \E S \in {{}} \cup {{p} : p \in Paths} : closed = S /\ (S = {} \/ denied = {})
  /\ arg \in {p \in Paths : Len(p) < MaxDepth}
  /\ lpSubKey = arg
  /\ stack = <<>>
  /\ pc = "delete"
  /\ result = FALSE
  /\ handles = 0
  /\ others = 0

Return(r) ==
  /\ result' = r
  /\ pc' = IF stack = <<>> THEN "done" ELSE "returned"

\* The first attempt to delete the key itself.
DeleteFirst ==
  /\ pc = "delete"
  /\ IF Deletable(lpSubKey)
     THEN keys' = keys \ {lpSubKey} /\ Return(TRUE)
     ELSE keys' = keys /\ pc' = "open" /\ result' = result
  /\ UNCHANGED <<still, lpSubKey, stack, handles, others>>

\* RegOpenKeyEx; a key that is not there counts as deleted.
OpenKey ==
  /\ pc = "open"
  /\ IF lpSubKey \in keys \ closed
     THEN /\ handles' = handles + 1
          /\ stack' = Append(stack, Len(lpSubKey))
          /\ pc' = "enumerate" /\ result' = result
     ELSE Return(lpSubKey \notin keys) /\ UNCHANGED <<handles, stack>>
  /\ UNCHANGED <<still, keys, lpSubKey, others>>

\* lpSubKey with name copied to lpEnd.
Extended(name) == Append(SubSeq(lpSubKey, 1, Last(stack)), name)

\* The key whose handle the innermost call enumerates.
Current == SubSeq(lpSubKey, 1, Last(stack))

\* RegEnumKeyEx with index 0: the first subkey is deleted by a call of its
\* own, until there is none.
Enumerate ==
  /\ pc = "enumerate"
  /\ IF Children(Current) # {}
     THEN /\ lpSubKey' = Extended(Min({Last(q) : q \in Children(Current)}))
          /\ pc' = "delete"
     ELSE pc' = "again" /\ UNCHANGED lpSubKey
  /\ UNCHANGED <<still, keys, stack, result, handles, others>>

\* Mutant: the loop goes on although a subkey was not deleted.
AfterSubkeyAlways == "enumerate"

\* The loop ends when a subkey could not be deleted.
AfterSubkey == IF result THEN "enumerate" ELSE "again"

SubkeyReturned ==
  /\ pc = "returned"
  /\ pc' = AfterSubkey
  /\ UNCHANGED <<still, keys, lpSubKey, stack, result, handles, others>>

\* Mutant: the buffer keeps the name of the last subkey.
RestoredNot == lpSubKey

\* Mutant: the cut takes the last name of the key itself along.
RestoredShort == IF Last(stack) > 1 THEN Front(Current) ELSE Current

Restored == Current

\* The buffer is cut, the handle closed and the key tried again.
DeleteAgain ==
  /\ pc = "again"
  /\ lpSubKey' = Restored
  /\ handles' = handles - 1
  /\ stack' = Front(stack)
  /\ keys' = IF Deletable(Restored) THEN keys \ {Restored} ELSE keys
  /\ result' = Deletable(Restored)
  /\ pc' = IF Len(stack) = 1 THEN "done" ELSE "returned"
  /\ UNCHANGED <<still, others>>

DelKey == DeleteFirst \/ OpenKey \/ Enumerate \/ SubkeyReturned \/ DeleteAgain

\* Another program adds a key, or deletes one that has no subkeys.
Other(p) ==
  /\ pc # "done" /\ others < MaxOther
  /\ \/ /\ p \notin keys /\ (Len(p) > 1 => Front(p) \in keys)
        /\ keys' = keys \cup {p}
     \/ /\ Deletable(p)
        /\ keys' = keys \ {p}
  /\ others' = others + 1
  /\ UNCHANGED <<still, lpSubKey, stack, pc, result, handles>>

Next ==
  \/ DelKey
  \/ \E p \in Paths : Other(p)
  \/ pc = "done" /\ UNCHANGED vars

\* The caller's thread runs on.
Spec == Init /\ [][Next]_vars /\ WF_vars(DelKey)

(***************************************************************************)
(* Properties.                                                             *)
(***************************************************************************)

Below(p) == {q \in keys : IsPrefix(p, q)}

\* When DelKey returns TRUE the key is gone with all that was below it,
\* whatever other programs added meanwhile; if they did not interfere, it
\* returns FALSE only because a key that is left refused.  Every handle has been closed, and the
\* caller's buffer, which every call wrote to, holds the path he passed.
ResultTruthful ==
  pc = "done" => /\ result => Below(arg) = {}
                 /\ others = 0 /\ ~ result => (denied \cup closed) \cap Below(arg) # {}
                 /\ lpSubKey = arg
                 /\ handles = 0

\* DelKey itself deletes no key that is not below its argument, although
\* every call works on the one buffer.
OnlyBelowDeleted ==
  [][DelKey => \A p \in keys \ keys' : IsPrefix(arg, p)]_vars

\* DelKey returns, also when a subkey refuses to be deleted.
DelKeyReturns == <>(pc = "done")
=============================================================================
