---------------------------- MODULE FileWatcher ----------------------------
(***************************************************************************)
(* include/FileSystem.hpp: Path::FileWatcher, whose constructor runs       *)
(* TaskFunc, with Path::SearchFiles and File::Exists under it.             *)
(*                                                                         *)
(* Other programs change the directory between any two steps of the loop.  *)
(* Only the entries that match the pattern are modelled, in the order in   *)
(* which the system lists them.  The loop tests the C function exit, which *)
(* is never null, so it has no end.                                        *)
(***************************************************************************)
EXTENDS Integers, Sequences, SequencesExt

CONSTANTS
  Names,      \* 1..n: the names that match the pattern, in listing order
  Kinds,      \* the kinds of entry that occur: "file", attributes exactly
              \* ARCHIVE; "odd", ARCHIVE and others; "dir", a directory or
              \* anything else without ARCHIVE
  MatchesDot  \* the pattern also matches ".", which is then listed first

VARIABLES
  disk,      \* the directory: [Names -> Kinds \cup {"absent"}]
  files,     \* the names that the watcher knows
  pc, i,     \* control: "remove", "search", "detect"; loop index
  tmp,       \* what is left of the result of SearchFiles
  reported,  \* history: passed to the callback, and in existence ever since
  again,     \* history: a name was passed to the callback while in reported
  missing    \* history: names not in existence during all of this pass

vars == <<disk, files, pc, i, tmp, reported, again, missing>>

\* File::Exists: the ARCHIVE bit of an existing entry.
Exists(d, f) == d[f] \in {"file", "odd"}

\* Names in listing order.
Listing == SelectSeq(SetToSortSeq(Names, <), LAMBDA f : disk[f] # "absent")

\* Path::SearchFiles: the first entry is taken whatever it is, unless its
\* name begins with a dot; of the others, those that are exactly ARCHIVE.
SearchFiles ==
  LET rest == IF MatchesDot \/ Listing = <<>> THEN Listing ELSE Tail(Listing)
      first == IF MatchesDot \/ Listing = <<>> THEN <<>> ELSE <<Head(Listing)>>
  IN  first \o SelectSeq(rest, LAMBDA f : disk[f] = "file")

Init ==
  /\ disk \in [Names -> Kinds \cup {"absent"}]
  /\ files = <<>>
  /\ pc = "remove" /\ i = 1
  /\ tmp = <<>>
  /\ reported = {} /\ again = FALSE
  /\ missing = {f \in Names : ~Exists(disk, f)}

\* Another program creates, deletes or changes an entry.
Change(f) ==
  /\ \E k \in (Kinds \cup {"absent"}) \ {disk[f]} : disk' = [disk EXCEPT ![f] = k]
  /\ reported' = {g \in reported : Exists(disk', g)}
  /\ missing' = {g \in missing : ~Exists(disk', g)}
  /\ UNCHANGED <<files, pc, i, tmp, again>>

\* Mutant: the attributes are compared for equality, as SearchFiles does.
MustRemoveUnequal == disk[files[i]] # "file"

MustRemove == ~Exists(disk, files[i])

\* One turn of the loop that removes; i moves on after an erase as well.
RemoveStep ==
  /\ pc = "remove" /\ i <= Len(files)
  /\ files' = IF MustRemove THEN RemoveAt(files, i) ELSE files
  /\ i' = i + 1
  /\ UNCHANGED <<disk, pc, tmp, reported, again, missing>>

\* Mutant: the loop ends one entry early.
RemoveEndEarly ==
  /\ pc = "remove" /\ i >= Len(files)
  /\ pc' = "search"
  /\ UNCHANGED <<disk, files, i, tmp, reported, again, missing>>

RemoveEnd ==
  /\ pc = "remove" /\ i > Len(files)
  /\ pc' = "search"
  /\ UNCHANGED <<disk, files, i, tmp, reported, again, missing>>

Search ==
  /\ pc = "search"
  /\ tmp' = SearchFiles
  /\ pc' = "detect"
  /\ UNCHANGED <<disk, files, i, reported, again, missing>>

Known(f) == \E j \in 1..Len(files) : files[j] = f

\* One turn of the loop that detects: remember, then call back.
Detect ==
  /\ pc = "detect" /\ tmp # <<>>
  /\ tmp' = Tail(tmp)
  /\ LET f == Head(tmp)
     IN  IF Known(f)
         THEN UNCHANGED <<files, reported, again>>
         ELSE /\ files' = Append(files, f)
              /\ again' = (again \/ f \in reported)
              /\ reported' = IF Exists(disk, f) THEN reported \cup {f} ELSE reported
  /\ UNCHANGED <<disk, pc, i, missing>>

\* The end of a pass; the next begins after Sleep(sleep).
DetectEnd ==
  /\ pc = "detect" /\ tmp = <<>>
  /\ pc' = "remove" /\ i' = 1
  /\ missing' = {f \in Names : ~Exists(disk, f)}
  /\ UNCHANGED <<disk, files, tmp, reported, again>>

TaskFunc == RemoveStep \/ RemoveEnd \/ Search \/ Detect \/ DetectEnd

Next == TaskFunc \/ \E f \in Names : Change(f)

\* The watcher's thread always runs on; nothing is assumed of other programs.
Spec == Init /\ [][Next]_vars /\ WF_vars(TaskFunc)

(***************************************************************************)
(* Properties.                                                             *)
(***************************************************************************)

\* The callback is called once for each appearance of a file: not again
\* unless the file was away, or lost its ARCHIVE bit, in between.
ReportedOnce == ~again

\* A file that stays is reported, and one that is deleted for good is
\* forgotten, whatever else goes on in the directory and although a pass
\* may skip entries.
EventuallyTracked ==
  \A f \in Names :
    /\ <>[](disk[f] = "file") => <>[]Known(f)
    /\ <>[](disk[f] = "absent") => <>[]~Known(f)

\* The comment on the first loop, "remove the files that do not exist": when
\* the loop ends, no name that did not exist while it ran is in the list.
RemovedForgotten == pc = "search" => \A f \in missing : ~Known(f)
=============================================================================
