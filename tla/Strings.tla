------------------------------ MODULE Strings ------------------------------
(***************************************************************************)
(* The members of std::string that Text.hpp and FileSystem.hpp use, on     *)
(* sequences of characters with positions that count from 0.               *)
(***************************************************************************)
EXTENDS Integers, Sequences, SequencesExt, FiniteSetsExt

npos == -1

Strs(chars, n) == UNION {[1..k -> chars] : k \in 0..n}

\* t occurs in s at position p.
OccursAt(s, t, p) == p + Len(t) <= Len(s) /\ SubSeq(s, p + 1, p + Len(t)) = t

Positions(s, t, from) == {p \in from..Len(s) : OccursAt(s, t, p)}

find(s, t, from) ==
  IF Positions(s, t, from) = {} THEN npos ELSE Min(Positions(s, t, from))

rfind(s, t) == IF Positions(s, t, 0) = {} THEN npos ELSE Max(Positions(s, t, 0))

\* substr(p, n), where n = npos and any n past the end mean the rest.
substr(s, p, n) == SubSeq(s, p + 1, IF n < 0 \/ p + n > Len(s) THEN Len(s) ELSE p + n)

\* replace(p, n, t)
replace(s, p, n, t) == substr(s, 0, p) \o t \o substr(s, p + n, npos)

Holds(s, t) == find(s, t, 0) # npos
=============================================================================
