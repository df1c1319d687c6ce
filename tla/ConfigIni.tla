----------------------------- MODULE ConfigIni -----------------------------
(***************************************************************************)
(* include/ConfigIni.hpp: programs that share an ini file.  Reading and    *)
(* writing a value is one call of the profile functions of Windows, which  *)
(* are taken as atomic; DeleteSection reads the whole text, cuts it and     *)
(* writes it back, through a stream that shares the file with everybody,   *)
(* and other programs, or a kill, may come in at every point of it.        *)
(*                                                                         *)
(* The file is the sequence of its lines: <<s>> is the header [s], and     *)
(* <<k, v>> the line k=v.  Blank lines have no meaning and are left out.   *)
(* No value contains the text of a header.  An empty section name stands   *)
(* for the default section of the object.                                  *)
(***************************************************************************)
EXTENDS Integers, Sequences, SequencesExt, FiniteSetsExt

CONSTANTS
  Programs,  \* the programs that use the file
  Sections, Keys, Values,
  Default,   \* what a reader is given for a value that is not there
  MaxCalls   \* bound on the calls that change the file

VARIABLES
  lines,     \* the file
  pc,        \* "idle", "read", "opened", of each program
  section,   \* the section that it deletes
  outData,   \* the text that it has read
  calls,     \* number of calls so far
  could,     \* history: the values an entry was given since the deletions that
             \* run, or ran last, began, and the one it had then
  mixed      \* history: the file was written by two that had it open at once

vars == <<lines, pc, section, outData, calls, could, mixed>>

Entries == Sections \X Keys

IsHeader(line) == Len(line) = 1

Indices(text, Test(_)) == {i \in 1..Len(text) : Test(text[i])}

\* The lines of section s are those from its header to before the next one.
HeaderOf(text, s) == Min({Len(text) + 1} \cup Indices(text, LAMBDA l : l = <<s>>))

EndOf(text, at) == Min({Len(text) + 1} \cup {i \in Indices(text, IsHeader) : i > at})

KeyIn(text, s, k) ==
  {i \in (HeaderOf(text, s) + 1)..(EndOf(text, HeaderOf(text, s)) - 1) : text[i][1] = k}

\* GetPrivateProfileString
Get(text, s, k) ==
  IF KeyIn(text, s, k) = {} THEN Default ELSE text[Min(KeyIn(text, s, k))][2]

\* WritePrivateProfileString: change the line, or add one, or a section.
Put(text, s, k, v) ==
  LET at == HeaderOf(text, s)
  IN  IF KeyIn(text, s, k) # {}
      THEN [text EXCEPT ![Min(KeyIn(text, s, k))] = <<k, v>>]
      ELSE IF at <= Len(text) THEN InsertAt(text, EndOf(text, at), <<k, v>>)
      ELSE text \o << <<s>>, <<k, v>> >>

\* WritePrivateProfileString with NULL for the value.
Drop(text, s, k) ==
  IF KeyIn(text, s, k) = {} THEN text ELSE RemoveAt(text, Min(KeyIn(text, s, k)))

\* Mutant: everything behind the section is cut off too.
RestNothing(text, at) == <<>>

\* What follows the section: from "\r\n[" on, or nothing.
Rest(text, at) == SubSeq(text, EndOf(text, at), Len(text))

\* DeleteSection on the text: from the header up to the next one.
Cut(text, s) ==
  SubSeq(text, 1, HeaderOf(text, s) - 1) \o Rest(text, HeaderOf(text, s))

\* A text written over a file from its beginning: what is left of the file
\* behind it begins at one of these lines.  A part of a line means nothing.
Left(old, text) ==
  IF IsPrefix(old, text) THEN {Len(old) + 1}
  ELSE IF IsPrefix(text, old) THEN {Len(text) + 1}
  ELSE 2..(Len(old) + 1)

Init ==
  /\ lines = <<>>
  /\ pc = [p \in Programs |-> "idle"]
  /\ section = [p \in Programs |-> CHOOSE s \in Sections : TRUE]
  /\ outData = [p \in Programs |-> <<>>]
  /\ calls = 0
  /\ could = [e \in Entries |-> {Default}]
  /\ mixed = FALSE

\* Some DeleteSection has the file open.
Opened == \E p \in Programs : pc[p] = "opened"

Deleting == {p \in Programs : pc[p] # "idle"}

Count == calls < MaxCalls /\ calls' = calls + 1

\* An open file is shared: whoever opens it too, or writes it, mixes in.
Share == mixed' = IF Opened THEN TRUE ELSE mixed

\* Each of the entries E has been given the value v.  Those who delete may
\* write back an older one, unless they are all in `by`.
Give(E, v, by) ==
  could' = [e \in Entries |->
              IF e \notin E THEN could[e]
              ELSE {v} \cup (IF Deleting \subseteq by THEN {} ELSE could[e])]

\* With the file open elsewhere a profile function may also fail and change
\* nothing.
WriteValue(p, s, k, v) ==
  /\ pc[p] = "idle"
  /\ Count
  /\ lines' = Put(lines, s, k, v)
  /\ Give({<<s, k>>}, v, {})
  /\ Share
  /\ UNCHANGED <<pc, section, outData>>

DeleteKey(p, s, k) ==
  /\ pc[p] = "idle"
  /\ Count
  /\ lines' = Drop(lines, s, k)
  /\ Give({<<s, k>>}, Default, {})
  /\ Share
  /\ UNCHANGED <<pc, section, outData>>

\* DeleteSection reads the file; without the section it is done.
DeleteRead(p, s) ==
  /\ pc[p] = "idle"
  /\ Count
  /\ outData' = [outData EXCEPT ![p] = lines]
  /\ section' = [section EXCEPT ![p] = s]
  /\ pc' = [pc EXCEPT ![p] = IF HeaderOf(lines, s) > Len(lines) THEN "idle" ELSE "read"]
  /\ could' = IF Deleting = {} THEN [e \in Entries |-> {Get(lines, e[1], e[2])}] ELSE could
  /\ UNCHANGED <<lines, mixed>>

\* std::ofstream ofs(filename, std::ios::binary) empties the file, whoever else
\* has it open.
DeleteOpen(p) ==
  /\ pc[p] = "read"
  /\ pc' = [pc EXCEPT ![p] = "opened"]
  /\ lines' = <<>>
  /\ Share
  /\ UNCHANGED <<section, outData, calls, could>>

\* The text is written from the beginning of the file, and the file closed.
DeleteWrite(p) ==
  /\ pc[p] = "opened"
  /\ pc' = [pc EXCEPT ![p] = "idle"]
  /\ \E at \in Left(lines, Cut(outData[p], section[p])) :
       lines' = Cut(outData[p], section[p]) \o SubSeq(lines, at, Len(lines))
  /\ Give({section[p]} \X Keys, Default, {p})
  /\ UNCHANGED <<section, outData, calls, mixed>>

\* The program is killed: with the file open, the text of it is gone.
Kill(p) ==
  /\ pc[p] # "idle"
  /\ pc' = [pc EXCEPT ![p] = "idle"]
  /\ Give(IF pc[p] = "opened" THEN Entries ELSE {}, Default, {p})
  /\ UNCHANGED <<lines, section, outData, calls, mixed>>

Next ==
  \E p \in Programs :
    \/ \E s \in Sections :
         \/ DeleteRead(p, s)
         \/ \E k \in Keys : DeleteKey(p, s, k) \/ \E v \in Values : WriteValue(p, s, k, v)
    \/ DeleteOpen(p) \/ DeleteWrite(p) \/ Kill(p)

Spec == Init /\ [][Next]_vars

(***************************************************************************)
(* Properties.                                                             *)
(***************************************************************************)

\* When no program is deleting a section, each entry has one of the values it
\* was given since the deletions that ran last began, or had then: its last
\* one, and no other, unless a change fell into a deletion.  A deletion leaves
\* all other sections alone, takes away at most the changes that overlap with
\* it, and killed with the file open leaves nothing, not something else.  Only
\* two that had the file open at once may leave anything.
OnlyOverlapsLost ==
  ~mixed /\ Deleting = {} => \A e \in Entries : Get(lines, e[1], e[2]) \in could[e]
=============================================================================
