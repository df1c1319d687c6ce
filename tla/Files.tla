------------------------------- MODULE Files -------------------------------
(***************************************************************************)
(* include/FileSystem.hpp: namespace File, one step per call of the C      *)
(* library, so that other callers run in between and a process may be      *)
(* killed half way.  Windows does not remove or rename a file that         *)
(* somebody has open, nor rename to a name that exists.  A file may lack   *)
(* the ARCHIVE bit, which creating and writing set.                        *)
(***************************************************************************)
EXTENDS Integers, FiniteSets

CONSTANTS
  Writers,   \* callers that call every function
  Readers,   \* callers that only read
  Names,     \* names of files
  Values,    \* contents of files
  None,      \* there is no such file
  Empty,     \* an empty file
  MaxCalls   \* bound on the calls of the writers

Callers == Writers \cup Readers

ASSUME FilesAssumption == Names # {} /\ None \notin Values \cup {Empty, TRUE, FALSE}

VARIABLES
  content,   \* [Names -> content or None]
  archive,   \* the files with the ARCHIVE bit
  calls,     \* calls of the writers so far
  pc, op, src, dst, value,  \* of each caller: its step and its arguments
  before,    \* history: the content of src when the caller's call began
  hadBit,    \* history: src had the ARCHIVE bit then
  ret        \* what the caller's last call returned

vars == <<content, archive, calls, pc, op, src, dst, value, before, hadBit, ret>>

files == <<content, archive>>
args == <<op, src, dst, value, before, hadBit>>

\* A file is open while a caller is between opening and closing it.
IsOpen(f) == \E c \in Callers : pc[c] \in {"reading", "writing"} /\ src[c] = f

\* File::Exists
Exists(f) == content[f] # None /\ f \in archive

Init ==
  /\ content \in [Names -> Values \cup {None}]
  /\ archive \in SUBSET {f \in Names : content[f] # None}
  /\ calls = 0
  /\ pc = [c \in Callers |-> "idle"]
  /\ op = [c \in Callers |-> "none"]
  /\ src \in [Callers -> {CHOOSE f \in Names : TRUE}] /\ dst = src
  /\ value = [c \in Callers |-> Empty]
  /\ before = [c \in Callers |-> None]
  /\ hadBit = [c \in Callers |-> FALSE]
  /\ ret = [c \in Callers |-> None]

Goto(c, from, to) == pc[c] = from /\ pc' = [pc EXCEPT ![c] = to]

Return(c, r) == ret' = [ret EXCEPT ![c] = r]

\* A call; all functions but ReadFile and Exists begin with File::Delete of
\* the file that they are about to replace.
Call(c, o, f, g, v) ==
  /\ Goto(c, "idle", CASE o \in {"Exists", "ReadFile"} -> o [] OTHER -> "remove")
  /\ IF c \in Writers THEN calls < MaxCalls /\ calls' = calls + 1
                      ELSE o = "ReadFile" /\ calls' = calls
  /\ op' = [op EXCEPT ![c] = o]
  /\ src' = [src EXCEPT ![c] = f]
  /\ dst' = [dst EXCEPT ![c] = IF o = "Move" THEN g ELSE f]
  /\ value' = [value EXCEPT ![c] = v]
  /\ before' = [before EXCEPT ![c] = content[f]]
  /\ hadBit' = [hadBit EXCEPT ![c] = f \in archive]
  /\ Return(c, None)
  /\ UNCHANGED files

CallExists(c) ==
  /\ Goto(c, "Exists", "idle")
  /\ Return(c, Exists(src[c]))
  /\ UNCHANGED <<files, calls, args>>

\* The file after remove(f), which does nothing to an open file.
Removed(f) ==
  IF IsOpen(f) THEN UNCHANGED files
  ELSE content' = [content EXCEPT ![f] = None] /\ archive' = archive \ {f}

\* Mutant: Move removes the source in place of the target.
ReplacedSource(c) == src[c]

\* The file that File::Delete is called for.
Replaced(c) == dst[c]

\* ::remove in File::Delete
Remove(c) ==
  /\ Goto(c, "remove", "removed")
  /\ Removed(Replaced(c))
  /\ UNCHANGED <<calls, args, ret>>

\* File::Delete has its result; Move gives up on false, WriteFile and
\* Create do not look at it.
AfterDelete(c) ==
  /\ pc[c] = "removed"
  /\ LET deleted == ~Exists(dst[c])
     IN  CASE op[c] = "Delete" -> Goto(c, "removed", "idle") /\ Return(c, deleted)
           [] op[c] = "Move" /\ ~deleted -> Goto(c, "removed", "idle") /\ Return(c, FALSE)
           [] op[c] = "Move" /\ deleted -> Goto(c, "removed", "rename") /\ UNCHANGED ret
           [] op[c] \in {"Create", "WriteFile"} -> Goto(c, "removed", "open") /\ UNCHANGED ret
  /\ UNCHANGED <<files, calls, args>>

\* ::rename; its result is ignored.
Rename(c) ==
  /\ Goto(c, "rename", "renamed")
  /\ IF content[src[c]] # None /\ content[dst[c]] = None /\ ~IsOpen(src[c])
     THEN /\ content' = [content EXCEPT ![src[c]] = None, ![dst[c]] = content[src[c]]]
          /\ archive' = IF src[c] \in archive THEN (archive \ {src[c]}) \cup {dst[c]} ELSE archive
     ELSE UNCHANGED files
  /\ UNCHANGED <<calls, args, ret>>

\* Move succeeded if the old file is gone.
Moved(c) == ~Exists(src[c])

AfterRename(c) ==
  /\ Goto(c, "renamed", "idle")
  /\ Return(c, Moved(c))
  /\ UNCHANGED <<files, calls, args>>

\* Opening creates the file; WriteFile truncates one that is still there,
\* Create appends to it.
Truncates(c) == content[src[c]] = None \/ op[c] = "WriteFile"

Open(c) ==
  /\ Goto(c, "open", "writing")
  /\ content' = IF Truncates(c) THEN [content EXCEPT ![src[c]] = Empty] ELSE content
  /\ archive' = archive \cup {src[c]}
  /\ UNCHANGED <<calls, args, ret>>

Written(c) == op[c] = "WriteFile"

\* The data is written and the file closed.
WriteClose(c) ==
  /\ Goto(c, "writing", "idle")
  /\ content' = IF Written(c) THEN [content EXCEPT ![src[c]] = value[c]] ELSE content
  /\ archive' = archive
  /\ Return(c, TRUE)
  /\ UNCHANGED <<calls, args>>

\* ReadFile: a file that does not open reads as empty.
OpenRead(c) ==
  /\ pc[c] = "ReadFile"
  /\ IF content[src[c]] # None
     THEN Goto(c, "ReadFile", "reading") /\ UNCHANGED ret
     ELSE Goto(c, "ReadFile", "idle") /\ Return(c, Empty)
  /\ UNCHANGED <<files, calls, args>>

ReadClose(c) ==
  /\ Goto(c, "reading", "idle")
  /\ Return(c, content[src[c]])
  /\ UNCHANGED <<files, calls, args>>

\* The process of a caller is killed; its files are closed.
Kill(c) ==
  /\ pc[c] # "idle"
  /\ pc' = [pc EXCEPT ![c] = "idle"]
  /\ ret' = [ret EXCEPT ![c] = None]
  /\ UNCHANGED <<files, calls, args>>

Step(c) ==
  \/ CallExists(c)
  \/ Remove(c) \/ AfterDelete(c) \/ Rename(c) \/ AfterRename(c)
  \/ Open(c) \/ WriteClose(c) \/ OpenRead(c) \/ ReadClose(c)

Next ==
  \/ \E c \in Callers : Step(c) \/ Kill(c)
  \/ \E c \in Callers, f, g \in Names :
       \/ \E o \in {"Exists", "ReadFile", "Delete", "Move", "Create"} : Call(c, o, f, g, Empty)
       \/ \E v \in Values : Call(c, "WriteFile", f, g, v)

Spec == Init /\ [][Next]_vars

(***************************************************************************)
(* Properties; with one writer.                                            *)
(***************************************************************************)

MovesAway(c) == op[c] = "Move" /\ src[c] # dst[c] /\ before[c] # None

\* At every step of a Move to another name, also when it fails half way or
\* its process is killed, the content of the source is under one of the two
\* names: the target is removed before the rename, never the source.
MoveKeepsSource ==
  \A c \in Writers : MovesAway(c) => before[c] \in {content[src[c]], content[dst[c]]}

\* A Move that returned true has moved a source that had the ARCHIVE bit,
\* although readers make remove and rename fail whose results are ignored.
MoveTruthful ==
  \A c \in Writers :
    MovesAway(c) /\ hadBit[c] /\ pc[c] = "idle" /\ ret[c] = TRUE
      => content[dst[c]] = before[c] /\ content[src[c]] = None

\* A WriteFile that ran to its end has replaced the file, also when a reader
\* kept the old one from being removed.
WriteReplaces ==
  \A c \in Writers :
    op[c] = "WriteFile" /\ pc[c] = "idle" /\ ret[c] = TRUE => content[src[c]] = value[c]

\* No content is lost by a Move that fails or is killed, a Move that reports
\* success has moved, and a WriteFile has replaced.
FilesKept == MoveKeepsSource /\ MoveTruthful /\ WriteReplaces
=============================================================================
