------------------------------- MODULE MCDisk -------------------------------
(***************************************************************************)
(* Files, PathTree, FileWatcher, Log, ConfigIni and ConfigJson side by     *)
(* side.  Each has a part of the disk of its own: a behaviour runs one of  *)
(* them and leaves the others as they begin.                               *)
(***************************************************************************)
EXTENDS Files, Sequences

CONSTANTS
  EntryNames, DotNames, \* names of directory entries, those with a dot in front
  TreePaths, MaxDepth,  \* the paths of the tree, and the most names in one
  Root, Plain, Dotted,  \* the names in the tree of the configuration
  LogCallers, MaxDay, MaxLogCalls,
  Programs, Sections, Keys, Default, MaxIniCalls,
  Watched, WatchedKinds, MatchesDot,
  Fields, Given, Scalar, Torn, MaxJsonCalls

\* A JSON text that is no object is none of the documents with fields.
ASSUME ScalarAssumption ==
  \A D \in SUBSET Fields : Scalar \notin [D -> Given \cup {"null"}]

\* Each path has those above it, and none is longer than a path can be.
ASSUME PathsAssumption ==
  /\ TreePaths \subseteq Seq(EntryNames)
  /\ MaxDepth \in Nat
  /\ \A path \in TreePaths : /\ Len(path) \in 1..MaxDepth
                            /\ \A depth \in 1..Len(path) : SubSeq(path, 1, depth) \in TreePaths

VARIABLES
  tree, creating, absolute, level, disturbed, treeRet,
  day, exists, log, written, cleaned, logCalls, logPc, line, logFilename,
  today, logFiles,
  lines, iniPc, section, outData, iniCalls, could, mixed,
  disk, known, watchPc, i, tmp, reported, again, missing,
  jv, filename, jsonPc, file, jsonCalls, wrote, looked, settled,
  active   \* the component that runs

\* A directory with a directory or file of either name in it, and theirs.
SmallTree ==
  {<<Root>>, <<Root, Plain>>, <<Root, Dotted>>, <<Root, Plain, Plain>>,
   <<Root, Plain, Dotted>>, <<Root, Dotted, Plain>>}

T == INSTANCE PathTree WITH Paths <- TreePaths, ret <- treeRet
L == INSTANCE Log WITH Callers <- LogCallers, MaxCalls <- MaxLogCalls,
                       calls <- logCalls, pc <- logPc, files <- logFiles
I == INSTANCE ConfigIni WITH MaxCalls <- MaxIniCalls, pc <- iniPc, calls <- iniCalls
W == INSTANCE FileWatcher WITH Names <- Watched, Kinds <- WatchedKinds, files <- known, pc <- watchPc
J == INSTANCE ConfigJson WITH MaxCalls <- MaxJsonCalls, pc <- jsonPc, calls <- jsonCalls

treeVars == <<tree, creating, absolute, level, disturbed, treeRet>>
logVars == <<day, exists, log, written, cleaned, logCalls, logPc, line,
             logFilename, today, logFiles>>
iniVars == <<lines, iniPc, section, outData, iniCalls, could, mixed>>
watchVars == <<disk, known, watchPc, i, tmp, reported, again, missing>>
jsonVars == <<jv, filename, jsonPc, file, jsonCalls, wrote, looked, settled>>

allVars == <<vars, treeVars, logVars, iniVars, watchVars, jsonVars, active>>

AllInit ==
  /\ active \in {"files", "tree", "log", "ini", "watch", "json"}
  /\ Init /\ T!Init /\ L!Init /\ I!Init /\ W!Init /\ J!Init
  /\ active # "files" => \A f \in Names : content[f] = None
  /\ active # "watch" => \A f \in Watched : disk[f] = "absent"

FilesNext ==
  active = "files" /\ Next /\ UNCHANGED <<treeVars, logVars, iniVars, watchVars, jsonVars>>
TreeNext ==
  active = "tree" /\ T!Next /\ UNCHANGED <<vars, logVars, iniVars, watchVars, jsonVars>>
LogNext ==
  active = "log" /\ L!Next /\ UNCHANGED <<vars, treeVars, iniVars, watchVars, jsonVars>>
IniNext ==
  active = "ini" /\ I!Next /\ UNCHANGED <<vars, treeVars, logVars, watchVars, jsonVars>>
WatchNext ==
  active = "watch" /\ W!Next /\ UNCHANGED <<vars, treeVars, logVars, iniVars, jsonVars>>
JsonNext ==
  active = "json" /\ J!Next /\ UNCHANGED <<vars, treeVars, logVars, iniVars, watchVars>>

AllNext ==
  /\ active' = active
  /\ FilesNext \/ TreeNext \/ LogNext \/ IniNext \/ WatchNext \/ JsonNext

\* Fairness is that of the watcher's loop.
AllSpec ==
  /\ AllInit /\ [][AllNext]_allVars
  /\ WF_allVars(/\ active = "watch" /\ W!TaskFunc
                /\ UNCHANGED <<vars, treeVars, logVars, iniVars, jsonVars, active>>)

(***************************************************************************)
(* The properties of the components.                                       *)
(***************************************************************************)

\* PathTree: Path::Create makes the path unless a file is in the way, and
\* Path::Delete leaves exactly what Find does not show.
DirectoriesExact == T!CreateMakesPath /\ T!DeleteRemovesOrdinary

\* Log: a call leaves no logs but those of the day on which it cleaned up.
OnlyTodayLeft == L!OnlyTodayLeft

\* ConfigIni: a deletion loses changes that overlap with it, and no others.
OnlyOverlapsLost == I!OnlyOverlapsLost

\* FileWatcher: the callback is called once for each appearance of a file.
ReportedOnce == W!ReportedOnce

\* FileWatcher: files that stay are reported, files that go are forgotten.
EventuallyTracked == active = "watch" => W!EventuallyTracked

\* ConfigJson: an object holds what it was given, wrote and was asked for, and
\* a saved file what the object that saved it held.
OwnDocument == J!OwnDocument
=============================================================================
