----------------------------- MODULE PathNames -----------------------------
(***************************************************************************)
(* include/FileSystem.hpp: the functions of namespace Path that take a     *)
(* file name apart, with the definitions that they are checked against.     *)
(***************************************************************************)
EXTENDS Strings

CONSTANTS
  Slash, Backslash, Dot,  \* the characters that matter
  Letters,                \* and some others
  MaxName                 \* bound on the length of a name

NameChars == Letters \cup {Slash, Backslash, Dot}

\* Text::Replace(s, "\\", "/")
Normalised(s) == [k \in DOMAIN s |-> IF s[k] = Backslash THEN Slash ELSE s[k]]

\* A negative count becomes a huge size_t: the rest of the string.
GetFileNameWithoutExtension(f) ==
  LET s == Normalised(f)
      bPos == rfind(s, <<Slash>>)
      ePos == rfind(s, <<Dot>>)
  IN  substr(s, bPos + 1, ePos - bPos - 1)

GetDirectoryName(f) == substr(f, 0, rfind(Normalised(f), <<Slash>>))

\* Mutant: the first dot is taken.
GetExtensionFirst(f) == IF Holds(f, <<Dot>>) THEN substr(f, find(f, <<Dot>>, 0), npos) ELSE <<>>

GetExtension(f) == IF Holds(f, <<Dot>>) THEN substr(f, rfind(f, <<Dot>>), npos) ELSE <<>>

GetFileName(f) == GetFileNameWithoutExtension(f) \o GetExtension(f)

\* What the functions return for f.
PathResults(f) ==
  [dir |-> GetDirectoryName(f), base |-> GetFileNameWithoutExtension(f),
   ext |-> GetExtension(f), file |-> GetFileName(f)]

(***************************************************************************)
(* Reference definitions.                                                  *)
(***************************************************************************)

IsSeparator(c) == c \in {Slash, Backslash}

\* The last component of a name: what follows the last separator.
LastComponent(f) ==
  LET after == Max({0} \cup {k \in DOMAIN f : IsSeparator(f[k])})
  IN  SubSeq(f, after + 1, Len(f))

\* The results r for the name f: the file name is the last component if that
\* has a dot or the whole name has none; directory, separator and last
\* component give back a name with a separator.
PathAgrees(f, r) ==
  /\ Holds(LastComponent(f), <<Dot>>) \/ ~Holds(f, <<Dot>>) => r.file = LastComponent(f)
  /\ (\E k \in DOMAIN f : IsSeparator(f[k])) =>
       \E sep \in {Slash, Backslash} : r.dir \o <<sep>> \o LastComponent(f) = f
=============================================================================
