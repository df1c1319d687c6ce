----------------------------- MODULE FilesProofs -----------------------------
(***************************************************************************)
(* Proofs about the functions of FileSystem.hpp.  Files: with one writer,  *)
(* any number of readers and kills at any step, for every set of names and *)
(* contents.  PathTree: Path::Create and Path::Delete, for directories of  *)
(* every depth and width.                                                  *)
(***************************************************************************)
EXTENDS MCDisk, WellFoundedInduction, TLAPS

(***************************************************************************)
(* Files.                                                                  *)
(***************************************************************************)

OneWriter == \A c, d \in Writers : c = d

Contents == Values \cup {None, Empty}

Types ==
  /\ content \in [Names -> Contents]
  /\ archive \in SUBSET Names
  /\ pc \in [Callers -> {"idle", "Exists", "ReadFile", "remove", "removed", "rename",
                         "renamed", "open", "writing", "reading"}]
  /\ op \in [Callers -> {"none", "Exists", "ReadFile", "Delete", "Move", "Create", "WriteFile"}]
  /\ src \in [Callers -> Names] /\ dst \in [Callers -> Names]
  /\ value \in [Callers -> Values \cup {Empty}]
  /\ before \in [Callers -> Contents]
  /\ DOMAIN hadBit = Callers
  /\ DOMAIN ret = Callers

\* Where a caller may be: readers only read, and the steps of each function.
Control ==
  /\ \A c \in Callers \ Writers : pc[c] \in {"idle", "ReadFile", "reading"}
  /\ \A c \in Callers :
       /\ op[c] = "Move" => pc[c] \in {"idle", "remove", "removed", "rename", "renamed"}
       /\ op[c] = "WriteFile" => pc[c] \in {"idle", "remove", "removed", "open", "writing"}
       /\ pc[c] \in {"remove", "removed"} => op[c] \in {"Delete", "Move", "Create", "WriteFile"}
       /\ pc[c] \in {"rename", "renamed"} => op[c] = "Move"
       /\ pc[c] \in {"open", "writing"} => op[c] \in {"Create", "WriteFile"}
       /\ pc[c] = "Exists" => op[c] = "Exists"
       /\ pc[c] \in {"ReadFile", "reading"} => op[c] = "ReadFile"

\* The source is where it was, and the Move has not reported success.
NotMoved(c) ==
  /\ content[src[c]] = before[c]
  /\ hadBit[c] => src[c] \in archive
  /\ hadBit[c] /\ pc[c] = "idle" => ret[c] # TRUE

\* The source is under its new name.
HasMoved(c) ==
  /\ pc[c] \in {"renamed", "idle"}
  /\ content[dst[c]] = before[c]
  /\ content[src[c]] = None

MoveInv == \A c \in Writers : MovesAway(c) => NotMoved(c) \/ HasMoved(c)

WriteInv ==
  \A c \in Writers : op[c] = "WriteFile" =>
    IF pc[c] = "idle" THEN ret[c] = TRUE => content[src[c]] = value[c] ELSE ret[c] = None

FilesInv == Types /\ Control /\ MoveInv /\ WriteInv

Operations == {"Exists", "ReadFile", "Delete", "Move", "Create", "WriteFile"}

\* The step of a caller, its kill or a call of it.
StepOf(c) ==
  \/ Step(c) \/ Kill(c)
  \/ \E f, g \in Names, o \in Operations, v \in Values \cup {Empty} : Call(c, o, f, g, v)

LEMMA StepOfOne == [Next]_vars => UNCHANGED vars \/ \E c \in Callers : StepOf(c)
  BY DEF Next, StepOf, Operations

LEMMA TypesInit == Init => Types
  <1>1. (CHOOSE f \in Names : TRUE) \in Names  BY FilesAssumption
  <1>. QED  BY <1>1 DEF Init, Types, Contents

\* What a step may do to the control state of the caller that takes it.
LEMMA TypesStep == Types /\ Control /\ [Next]_vars => Types'
  <1>. SUFFICES ASSUME Types, Control, [Next]_vars PROVE Types'  OBVIOUS
  <1>. USE DEF Types, args, files
  <1>1. CASE UNCHANGED vars  BY <1>1 DEF vars
  <1>2. ASSUME NEW c \in Callers, NEW f \in Names, NEW g \in Names, NEW o \in Operations,
               NEW v \in Values \cup {Empty}, Call(c, o, f, g, v)
        PROVE  Types'
    BY <1>2 DEF Call, Goto, Return, Operations
  <1>3. ASSUME NEW c \in Callers, Kill(c) PROVE Types'  BY <1>3 DEF Kill
  <1>4. ASSUME NEW c \in Callers, CallExists(c) PROVE Types'  BY <1>4 DEF CallExists, Goto, Return
  <1>5. ASSUME NEW c \in Callers, Remove(c) PROVE Types'
    BY <1>5 DEF Remove, Removed, Replaced, Goto, Contents
  <1>6. ASSUME NEW c \in Callers, AfterDelete(c) PROVE Types'
    BY <1>6, ZenonT(60) DEF AfterDelete, Goto, Return, Control
  <1>7. ASSUME NEW c \in Callers, Rename(c) PROVE Types'  BY <1>7 DEF Rename, Goto, Contents
  <1>8. ASSUME NEW c \in Callers, AfterRename(c) PROVE Types'  BY <1>8 DEF AfterRename, Goto, Return
  <1>9. ASSUME NEW c \in Callers, Open(c) PROVE Types'  BY <1>9 DEF Open, Goto, Contents
  <1>10. ASSUME NEW c \in Callers, WriteClose(c) PROVE Types'
    BY <1>10 DEF WriteClose, Goto, Return, Contents
  <1>11. ASSUME NEW c \in Callers, OpenRead(c) PROVE Types'  BY <1>11 DEF OpenRead, Goto, Return
  <1>12. ASSUME NEW c \in Callers, ReadClose(c) PROVE Types'  BY <1>12 DEF ReadClose, Goto, Return
  <1>. QED
    BY <1>1, <1>2, <1>3, <1>4, <1>5, <1>6, <1>7, <1>8, <1>9, <1>10, <1>11, <1>12, StepOfOne
       DEF StepOf, Step

LEMMA ControlStep == Types /\ Control /\ [Next]_vars => Control'
  <1>. SUFFICES ASSUME Types, Control, [Next]_vars PROVE Control'  OBVIOUS
  <1>. USE DEF Types, Control, args
  <1>1. CASE UNCHANGED vars  BY <1>1 DEF vars
  <1>2. ASSUME NEW c \in Callers, NEW f \in Names, NEW g \in Names, NEW o \in Operations,
               NEW v \in Values \cup {Empty}, Call(c, o, f, g, v)
        PROVE  Control'
    BY <1>2 DEF Call, Goto, Operations
  <1>3. ASSUME NEW c \in Callers, Kill(c) PROVE Control'  BY <1>3 DEF Kill
  <1>4. ASSUME NEW c \in Callers, CallExists(c) PROVE Control'  BY <1>4 DEF CallExists, Goto
  <1>5. ASSUME NEW c \in Callers, Remove(c) PROVE Control'  BY <1>5 DEF Remove, Goto
  <1>6. ASSUME NEW c \in Callers, AfterDelete(c) PROVE Control'
    <2>. op' = op /\ pc[c] = "removed"  BY <1>6 DEF AfterDelete
    <2>1. CASE op[c] = "Delete"  BY <1>6, <2>1 DEF AfterDelete, Goto
    <2>2. CASE op[c] = "Move"  BY <1>6, <2>2, ZenonT(60) DEF AfterDelete, Goto
    <2>3. CASE op[c] \in {"Create", "WriteFile"}  BY <1>6, <2>3, ZenonT(60) DEF AfterDelete, Goto
    <2>. QED  BY <2>1, <2>2, <2>3
  <1>7. ASSUME NEW c \in Callers, Rename(c) PROVE Control'  BY <1>7 DEF Rename, Goto
  <1>8. ASSUME NEW c \in Callers, AfterRename(c) PROVE Control'  BY <1>8 DEF AfterRename, Goto
  <1>9. ASSUME NEW c \in Callers, Open(c) PROVE Control'  BY <1>9 DEF Open, Goto
  <1>10. ASSUME NEW c \in Callers, WriteClose(c) PROVE Control'  BY <1>10 DEF WriteClose, Goto
  <1>11. ASSUME NEW c \in Callers, OpenRead(c) PROVE Control'  BY <1>11 DEF OpenRead, Goto
  <1>12. ASSUME NEW c \in Callers, ReadClose(c) PROVE Control'  BY <1>12 DEF ReadClose, Goto
  <1>. QED
    BY <1>1, <1>2, <1>3, <1>4, <1>5, <1>6, <1>7, <1>8, <1>9, <1>10, <1>11, <1>12, StepOfOne
       DEF StepOf, Step

\* A step that leaves the files and all that belongs to w.
Quiet(w) ==
  /\ content' = content /\ archive' = archive
  /\ pc'[w] = pc[w] /\ op'[w] = op[w] /\ src'[w] = src[w] /\ dst'[w] = dst[w]
  /\ value'[w] = value[w] /\ before'[w] = before[w] /\ hadBit'[w] = hadBit[w]
  /\ ret'[w] = ret[w]

\* The steps of readers leave the files and the writer.
LEMMA OthersQuiet ==
  ASSUME Types, Control, OneWriter, NEW w \in Writers, NEW c \in Callers, c # w, StepOf(c)
  PROVE  Quiet(w)
  <1>1. c \notin Writers /\ w \in Callers  BY DEF OneWriter, Callers
  <1>2. pc[c] \in {"idle", "ReadFile", "reading"}  BY <1>1 DEF Control
  <1>. USE DEF Types, Quiet, args, files
  <1>3. CASE \E f, g \in Names, o \in Operations, v \in Values \cup {Empty} : Call(c, o, f, g, v)
    BY <1>1, <1>3 DEF Call, Goto, Return
  <1>4. CASE Kill(c)  BY <1>1, <1>4 DEF Kill
  <1>5. CASE OpenRead(c)  BY <1>1, <1>5 DEF OpenRead, Goto, Return
  <1>6. CASE ReadClose(c)  BY <1>1, <1>6 DEF ReadClose, Goto, Return
  <1>7. StepOf(c) => (\E f, g \in Names, o \in Operations, v \in Values \cup {Empty} :
                        Call(c, o, f, g, v))
                     \/ Kill(c) \/ OpenRead(c) \/ ReadClose(c)
    BY <1>2 DEF StepOf, Step, CallExists, Remove, AfterDelete, Rename, AfterRename, Open,
                WriteClose, Goto
  <1>. QED  BY <1>3, <1>4, <1>5, <1>6, <1>7

Move(w) == MovesAway(w) => NotMoved(w) \/ HasMoved(w)

Write(w) ==
  op[w] = "WriteFile" =>
    IF pc[w] = "idle" THEN ret[w] = TRUE => content[src[w]] = value[w] ELSE ret[w] = None

\* The steps of the writer keep the source of its Move under one of its two
\* names, and what its WriteFile wrote.
LEMMA WriterStep ==
  ASSUME Types, Control, NEW w \in Writers, Move(w), Write(w), StepOf(w)
  PROVE  Move(w)' /\ Write(w)'
  <1>. w \in Callers  BY DEF Callers
  <1>. USE FilesAssumption DEF Types, Move, Write, MovesAway, NotMoved, HasMoved, args, files
  <1>1. ASSUME NEW f \in Names, NEW g \in Names, NEW o \in Operations,
               NEW v \in Values \cup {Empty}, Call(w, o, f, g, v)
        PROVE  Move(w)' /\ Write(w)'
    BY <1>1 DEF Call, Goto, Return, Operations
  <1>2. CASE Kill(w)  BY <1>2 DEF Kill
  <1>3. CASE CallExists(w)  BY <1>3 DEF CallExists, Goto, Return, Control
  <1>4. CASE Remove(w)  BY <1>4 DEF Remove, Removed, Replaced, Goto
  <1>5. CASE AfterDelete(w)  BY <1>5 DEF AfterDelete, Goto, Return, Control
  <1>6. CASE Rename(w)  BY <1>6 DEF Rename, Goto, Control
  <1>7. CASE AfterRename(w)  BY <1>7 DEF AfterRename, Goto, Return, Control, Moved, Exists
  <1>8. CASE Open(w)  BY <1>8 DEF Open, Goto, Control
  <1>9. CASE WriteClose(w)  BY <1>9 DEF WriteClose, Goto, Return, Control, Written
  <1>10. CASE OpenRead(w)  BY <1>10 DEF OpenRead, Goto, Return, Control
  <1>11. CASE ReadClose(w)  BY <1>11 DEF ReadClose, Goto, Return, Control
  <1>. QED
    BY <1>1, <1>2, <1>3, <1>4, <1>5, <1>6, <1>7, <1>8, <1>9, <1>10, <1>11 DEF StepOf, Step

LEMMA KeptStep ==
  OneWriter /\ Types /\ Control /\ MoveInv /\ WriteInv /\ [Next]_vars => MoveInv' /\ WriteInv'
  <1>. SUFFICES ASSUME OneWriter, Types, Control, MoveInv, WriteInv, [Next]_vars,
                       NEW w \in Writers
                PROVE  Move(w)' /\ Write(w)'
    BY DEF MoveInv, WriteInv, Move, Write
  <1>. Move(w) /\ Write(w)  BY DEF MoveInv, WriteInv, Move, Write
  <1>1. Quiet(w) => Move(w)' /\ Write(w)'
    BY DEF Quiet, Move, Write, MovesAway, NotMoved, HasMoved
  <1>2. CASE UNCHANGED vars  BY <1>1, <1>2 DEF vars, Quiet
  <1>3. ASSUME NEW c \in Callers, StepOf(c) PROVE Move(w)' /\ Write(w)'
    <2>1. CASE c = w  BY <1>3, <2>1, WriterStep
    <2>2. CASE c # w  BY <1>1, <1>3, <2>2, OthersQuiet
    <2>. QED  BY <2>1, <2>2
  <1>. QED  BY <1>2, <1>3, StepOfOne

\* File::Move, WriteFile and Delete: with one writer, whatever readers hold
\* open and wherever a process is killed, no content is lost by a Move that
\* fails or is killed, a Move that reports success has moved, and a WriteFile
\* that ran to its end has replaced.
THEOREM Kept == OneWriter => (Spec => []FilesKept)
  <1>. SUFFICES ASSUME OneWriter PROVE Spec => []FilesKept  OBVIOUS
  <1>1. Init => FilesInv
    <2>1. Init => Control  BY DEF Init, Control
    <2>2. Init => MoveInv /\ WriteInv  BY DEF Init, MoveInv, WriteInv, MovesAway, Callers
    <2>. QED  BY <2>1, <2>2, TypesInit DEF FilesInv
  <1>2. FilesInv /\ [Next]_vars => FilesInv'
    BY TypesStep, ControlStep, KeptStep DEF FilesInv
  <1>3. FilesInv => FilesKept
    BY DEF FilesInv, Types, MoveInv, WriteInv, FilesKept, MoveKeepsSource, MoveTruthful,
           WriteReplaces, MovesAway, NotMoved, HasMoved
  <1>. QED  BY <1>1, <1>2, <1>3, PTL DEF Spec

(***************************************************************************)
(* PathTree: Path::Create.                                                 *)
(***************************************************************************)

TreeTypes ==
  /\ tree \in [TreePaths -> T!Kinds \cup {"absent"}]
  /\ creating \in TreePaths \cup {<<>>}
  /\ level \in -1..Len(creating)

\* A file is in the way.
InTheWay(t, p) == \E k \in 1..Len(p) : t[SubSeq(p, 1, k)] \in {"file", "plain"}

\* The directories that Create of an absolute path has handled are there.
CreateInv ==
  creating # <<>> /\ absolute /\ ~disturbed /\ level >= 0 =>
    T!Exists(tree, SubSeq(creating, 1, level)) \/ InTheWay(tree, creating)

TreeInv == TreeTypes /\ CreateInv /\ T!CreateMakesPath

\* The steps of a tree in which nothing goes and only directories come.
Grows(t, u) ==
  \A p \in TreePaths : u[p] = t[p] \/ (t[p] = "absent" /\ u[p] \in {"dir", "odd"})

LEMMA Grown ==
  ASSUME NEW t, NEW u, Grows(t, u), NEW p \in TreePaths \cup {<<>>}
  PROVE  /\ T!Exists(t, p) => T!Exists(u, p)
         /\ InTheWay(t, p) => InTheWay(u, p)
<1>1. T!Exists(t, p) => T!Exists(u, p)
  BY DEF Grows, T!Exists
<1>2. ASSUME NEW k \in 1..Len(p), t[SubSeq(p, 1, k)] \in {"file", "plain"}
      PROVE  u[SubSeq(p, 1, k)] \in {"file", "plain"}
  <2>1. SubSeq(p, 1, k) \in TreePaths
    BY PathsAssumption
  <2> QED BY <1>2, <2>1 DEF Grows
<1> QED BY <1>1, <1>2 DEF InTheWay

LEMMA MkdirGrows ==
  ASSUME TreeTypes, NEW p \in TreePaths
  PROVE  /\ T!Mkdir(tree, p) \in [TreePaths -> T!Kinds \cup {"absent"}]
         /\ Grows(tree, T!Mkdir(tree, p))
         /\ T!Exists(tree, T!Front(p)) /\ tree[p] = "absent" => T!Mkdir(tree, p)[p] = "dir"
BY DEF TreeTypes, T!Mkdir, T!Kinds, Grows

\* The path down to a level is a path, and so is the one above it.
LEMMA Levels ==
  ASSUME NEW p \in TreePaths
  PROVE  /\ SubSeq(p, 1, 0) = <<>> /\ SubSeq(p, 1, Len(p)) = p /\ Len(p) \in Nat \ {0}
         /\ \A k \in 1..Len(p) : /\ SubSeq(p, 1, k) \in TreePaths /\ SubSeq(p, 1, k) # <<>>
                                 /\ T!Front(SubSeq(p, 1, k)) = SubSeq(p, 1, k - 1)
<1>1. p \in Seq(EntryNames) /\ p # <<>>
  BY PathsAssumption
<1>2. ASSUME NEW k \in 1..Len(p)
      PROVE  SubSeq(p, 1, k) # <<>> /\ T!Front(SubSeq(p, 1, k)) = SubSeq(p, 1, k - 1)
  BY <1>1 DEF T!Front
<1>3. SubSeq(p, 1, 0) = <<>> /\ SubSeq(p, 1, Len(p)) = p /\ Len(p) \in Nat \ {0}
  BY <1>1
<1>4. \A k \in 1..Len(p) : SubSeq(p, 1, k) \in TreePaths
  BY PathsAssumption
<1> QED BY <1>2, <1>3, <1>4

LEMMA CreateDirectStep ==
  ASSUME TreeInv, T!CreateDirect
  PROVE  TreeInv'
<1> USE DEF TreeInv
<1>1. creating \in TreePaths /\ creating' = creating /\ level = -1
  BY DEF T!CreateDirect, TreeTypes
<1>2. tree' \in [TreePaths -> T!Kinds \cup {"absent"}]
  BY <1>1, MkdirGrows DEF T!CreateDirect
<1>3. /\ SubSeq(creating, 1, 0) = <<>> /\ SubSeq(creating, 1, Len(creating)) = creating
      /\ Len(creating) \in Nat
  BY <1>1, Levels
<1>4. TreeTypes'
  BY <1>1, <1>2, <1>3 DEF T!CreateDirect, TreeTypes
<1>5. CreateInv'
  BY <1>1, <1>3 DEF T!CreateDirect, CreateInv, T!Exists
<1>6. T!CreateMakesPath'
  BY DEF T!CreateDirect, T!CreateMakesPath
<1> QED BY <1>4, <1>5, <1>6

LEMMA CreateLevelStep ==
  ASSUME TreeInv, T!CreateLevel
  PROVE  TreeInv'
<1> USE DEF TreeInv
<1> DEFINE n == level + 1
           root == SubSeq(creating, 1, n)
<1>1. /\ creating \in TreePaths /\ creating' = creating /\ absolute' = absolute
      /\ disturbed' = disturbed /\ level' = n /\ n \in 1..Len(creating) /\ n - 1 = level
  <2>1. creating \in TreePaths /\ level \in 0..(Len(creating) - 1)
    BY DEF T!CreateLevel, TreeTypes
  <2>2. Len(creating) \in Nat
    BY <2>1, Levels
  <2> QED BY <2>1, <2>2 DEF T!CreateLevel, T!NextLevel
<1>2. tree' = IF T!Exists(tree, root) THEN tree ELSE T!Mkdir(tree, root)
  BY DEF T!CreateLevel, T!NextLevel
<1>3. root \in TreePaths /\ root # <<>> /\ T!Front(root) = SubSeq(creating, 1, level)
  BY <1>1, Levels
<1> HIDE DEF n, root
<1>4. tree' \in [TreePaths -> T!Kinds \cup {"absent"}] /\ Grows(tree, tree')
  BY <1>2, <1>3, MkdirGrows DEF TreeTypes, Grows
<1>5. TreeTypes'
  BY <1>1, <1>4 DEF TreeTypes
<1>6. CreateInv'
  <2> SUFFICES ASSUME absolute, ~disturbed
               PROVE  T!Exists(tree', root) \/ InTheWay(tree', creating)
    BY <1>1 DEF CreateInv, root
  <2>1. T!Exists(tree, T!Front(root)) \/ InTheWay(tree, creating)
    <3>1. creating # <<>> /\ level >= 0
      BY DEF T!CreateLevel
    <3> QED BY <1>3, <3>1 DEF CreateInv
  <2>2. CASE InTheWay(tree, creating)
    BY <1>1, <1>4, <2>2, Grown
  <2>3. CASE T!Exists(tree, root)
    BY <1>2, <2>3
  <2>4. CASE ~T!Exists(tree, root) /\ T!Exists(tree, T!Front(root)) /\ tree[root] = "absent"
    <3>1. tree'[root] = "dir"
      BY <1>2, <1>3, <2>4, MkdirGrows
    <3> QED BY <3>1 DEF T!Exists
  <2>5. CASE ~T!Exists(tree, root) /\ tree[root] # "absent"
    <3>1. tree[root] \in {"file", "plain"}
      BY <1>3, <2>5 DEF TreeTypes, T!Kinds, T!Exists
    <3>2. InTheWay(tree, creating)
      BY <1>1, <3>1 DEF InTheWay, root
    <3> QED BY <1>1, <1>4, <3>2, Grown
  <2> QED BY <2>1, <2>2, <2>3, <2>4, <2>5
<1>7. T!CreateMakesPath'
  BY DEF T!CreateLevel, T!CreateMakesPath
<1> QED BY <1>5, <1>6, <1>7

LEMMA TreeStep == TreeInv /\ [T!Next]_(T!vars) => TreeInv'
<1> SUFFICES ASSUME TreeInv, [T!Next]_(T!vars) PROVE TreeInv'
  OBVIOUS
<1>1. ASSUME NEW p \in TreePaths, T!Delete(p) PROVE TreeInv'
  BY <1>1 DEF T!Delete, TreeInv, TreeTypes, CreateInv, T!CreateMakesPath, T!NoCall
<1>2. ASSUME NEW p \in TreePaths, T!Other(p) PROVE TreeInv'
  <2>1. /\ tree' \in [TreePaths -> T!Kinds \cup {"absent"}] /\ treeRet' = T!NoCall
        /\ creating' = creating /\ absolute' = absolute /\ level' = level
    BY <1>2 DEF T!Other, TreeInv, TreeTypes, T!Kinds
  <2>2. creating # <<>> /\ ~disturbed' => ~disturbed /\ Grows(tree, tree')
    BY <1>2 DEF T!Other, TreeInv, TreeTypes, T!Kinds, Grows
  <2>3. CreateInv'
    <3> SUFFICES ASSUME creating # <<>>, absolute, ~disturbed', level >= 0
                 PROVE  T!Exists(tree', SubSeq(creating, 1, level)) \/ InTheWay(tree', creating)
      BY <2>1 DEF CreateInv
    <3>1. creating \in TreePaths /\ level \in 0..Len(creating)
      BY DEF TreeInv, TreeTypes
    <3>2. SubSeq(creating, 1, level) \in TreePaths \cup {<<>>}
      BY <3>1, Levels
    <3>3. T!Exists(tree, SubSeq(creating, 1, level)) \/ InTheWay(tree, creating)
      BY <2>2 DEF TreeInv, CreateInv
    <3> QED BY <2>2, <3>1, <3>2, <3>3, Grown
  <2> QED BY <2>1, <2>3 DEF TreeInv, TreeTypes, T!CreateMakesPath, T!NoCall
<1>3. ASSUME NEW p \in TreePaths, NEW abs \in BOOLEAN, T!CreateCall(p, abs) PROVE TreeInv'
  <2>1. Len(p) \in Nat
    BY Levels
  <2> QED BY <1>3, <2>1 DEF T!CreateCall, TreeInv, TreeTypes, CreateInv, T!CreateMakesPath,
                            T!NoCall
<1>4. CASE T!CreateReturn
  <2>1. creating \in TreePaths /\ level = Len(creating) /\ level >= 0
    BY <1>4, Levels DEF T!CreateReturn, TreeInv, TreeTypes
  <2>2. SubSeq(creating, 1, level) = creating
    BY <2>1, Levels
  <2>3. treeRet' = [op |-> "Create", path |-> creating, ok |-> T!Exists(tree, creating),
                    tree |-> tree, abs |-> absolute, calm |-> ~disturbed]
    BY <1>4 DEF T!CreateReturn
  <2>4. absolute /\ ~disturbed => T!Exists(tree, creating) \/ InTheWay(tree, creating)
    BY <1>4, <2>1, <2>2 DEF TreeInv, CreateInv, T!CreateReturn
  <2>5. T!CreateMakesPath'
    BY <2>3, <2>4 DEF T!CreateMakesPath, InTheWay
  <2>6. TreeTypes' /\ CreateInv'
    BY <1>4 DEF T!CreateReturn, TreeInv, TreeTypes, CreateInv
  <2> QED BY <2>5, <2>6 DEF TreeInv
<1>5. CASE UNCHANGED T!vars
  BY <1>5 DEF T!vars, TreeInv, TreeTypes, CreateInv, T!CreateMakesPath
<1> QED BY <1>1, <1>2, <1>3, <1>4, <1>5, CreateDirectStep, CreateLevelStep DEF T!Next

(***************************************************************************)
(* Path::Delete.  What its recursion over the directories removes is shown *)
(* to be Clear: what exists there and has nothing that Find does not show  *)
(* in it or above it, and is no such thing itself.                         *)
(***************************************************************************)

\* p is q or a directory on the way to it.
Above(p, q) == Len(p) <= Len(q) /\ \A k \in 1..Len(p) : p[k] = q[k]

LEMMA AboveIsPrefix ==
  ASSUME NEW p \in TreePaths, NEW q \in TreePaths
  PROVE  T!IsPrefix(p, q) <=> Above(p, q)
<1>1. p \in Seq(EntryNames) /\ q \in Seq(EntryNames)
  BY PathsAssumption
<1>2. SubSeq(p, 1, Len(p)) = p
  BY <1>1
<1>3. CASE Len(p) <= Len(q)
  <2>1. /\ SubSeq(q, 1, Len(p)) \in Seq(EntryNames) /\ Len(SubSeq(q, 1, Len(p))) = Len(p)
        /\ \A k \in 1..Len(p) : SubSeq(q, 1, Len(p))[k] = q[k]
    BY <1>1, <1>3
  <2> DEFINE u == SubSeq(q, 1, Len(p))
  <2> HIDE DEF u
  <2>2. u \in Seq(EntryNames) /\ Len(u) = Len(p) /\ \A k \in 1..Len(p) : u[k] = q[k]
    BY <2>1 DEF u
  <2>3. p = u <=> \A k \in 1..Len(p) : p[k] = u[k]
    BY <1>1, <2>2
  <2>4. p = u <=> Above(p, q)
    BY <1>3, <2>2, <2>3 DEF Above
  <2> QED BY <1>2, <1>3, <2>4 DEF T!IsPrefix, u
<1>4. CASE ~(Len(p) <= Len(q))
  BY <1>4 DEF T!IsPrefix, Above
<1> QED BY <1>3, <1>4

LEMMA AboveOrder ==
  ASSUME NEW p \in TreePaths, NEW q \in TreePaths, NEW r \in TreePaths
  PROVE  /\ Len(p) \in 1..MaxDepth /\ Above(p, p)
         /\ Above(p, q) => Len(p) <= Len(q)
         /\ Above(p, q) /\ Len(p) = Len(q) => p = q
         /\ Above(p, q) /\ Above(q, r) => Above(p, r)
         /\ Above(p, r) /\ Above(q, r) /\ Len(p) <= Len(q) => Above(p, q)
<1>1. /\ p \in Seq(EntryNames) /\ q \in Seq(EntryNames) /\ r \in Seq(EntryNames)
      /\ Len(p) \in 1..MaxDepth /\ MaxDepth \in Nat
  BY PathsAssumption
<1>2. Above(p, q) /\ Len(p) = Len(q) => p = q
  BY <1>1 DEF Above
<1>3. Above(p, q) /\ Above(q, r) => Above(p, r)
  BY <1>1 DEF Above
<1>4. Above(p, r) /\ Above(q, r) /\ Len(p) <= Len(q) => Above(p, q)
  BY <1>1 DEF Above
<1>5. Above(p, p) /\ (Above(p, q) => Len(p) <= Len(q))
  BY <1>1 DEF Above
<1> QED BY <1>1, <1>2, <1>3, <1>4, <1>5

\* The entry next below d on the way to q.
Via(d, q) == SubSeq(q, 1, Len(d) + 1)

LEMMA ViaIs ==
  ASSUME NEW d \in TreePaths, NEW q \in TreePaths, Above(d, q), d # q
  PROVE  /\ Via(d, q) \in TreePaths /\ Len(Via(d, q)) = Len(d) + 1
         /\ Above(d, Via(d, q)) /\ Above(Via(d, q), q) /\ Via(d, q) # d
<1>1. /\ d \in Seq(EntryNames) /\ q \in Seq(EntryNames)
      /\ Len(d) \in Nat /\ Len(q) \in Nat
  BY PathsAssumption
<1>2. Len(d) + 1 \in 1..Len(q)
  BY <1>1, AboveOrder
<1>3. Via(d, q) \in TreePaths
  BY <1>2, PathsAssumption DEF Via
<1>4. /\ Len(Via(d, q)) = Len(d) + 1
      /\ \A k \in 1..(Len(d) + 1) : Via(d, q)[k] = q[k]
  BY <1>1, <1>2 DEF Via
<1>5. Above(d, Via(d, q)) /\ Above(Via(d, q), q)
  BY <1>1, <1>2, <1>4 DEF Above
<1> QED BY <1>1, <1>3, <1>4, <1>5

\* What is above an entry is a directory.
Standing(t) ==
  /\ t \in [TreePaths -> T!Kinds \cup {"absent"}]
  /\ \A p, q \in TreePaths :
       t[q] # "absent" /\ Above(p, q) /\ p # q => t[p] \in {"dir", "odd"}

LEMMA ChildrenAre ==
  ASSUME NEW t, NEW d \in TreePaths, NEW q
  PROVE  /\ q \in T!Children(t, d) <=> /\ q \in TreePaths /\ t[q] # "absent"
                                       /\ Above(d, q) /\ Len(q) = Len(d) + 1
         /\ q \in T!Find(t, d) <=> q \in T!Children(t, d) /\ T!Ordinary(t, q)
         /\ T!Exists(t, d) <=> t[d] \in {"dir", "odd"}
<1>1. ASSUME q \in TreePaths, Len(q) = Len(d) + 1
      PROVE  T!Front(q) = d <=> Above(d, q)
  <2>1. d \in Seq(EntryNames) /\ q \in Seq(EntryNames) /\ Len(d) \in Nat
    BY <1>1, PathsAssumption
  <2>2. T!Front(q) = SubSeq(q, 1, Len(d))
    BY <1>1, <2>1 DEF T!Front
  <2>3. Len(d) <= Len(q) /\ SubSeq(d, 1, Len(d)) = d
    BY <1>1, <2>1
  <2>4. T!Front(q) = d <=> T!IsPrefix(d, q)
    BY <2>2, <2>3 DEF T!IsPrefix
  <2> QED BY <1>1, <2>4, AboveIsPrefix
<1>2. d # <<>>
  BY PathsAssumption
<1> QED BY <1>1, <1>2 DEF T!Children, T!Find, T!Ordinary, T!Exists

\* What Find does not show below d.
Special(t, d) ==
  {r \in TreePaths : Above(d, r) /\ r # d /\ t[r] # "absent" /\ ~T!Ordinary(t, r)}

Apart(t, d, q) == \A r \in Special(t, d) : ~Above(r, q) /\ ~Above(q, r)

Clear(t, d) ==
  {q \in TreePaths : /\ t[q] # "absent" /\ Above(d, q)
                     /\ q = d => t[d] \in {"dir", "odd"}
                     /\ Apart(t, d, q)}

LEMMA OrdinaryKinds ==
  ASSUME NEW t, NEW q, T!Ordinary(t, q)
  PROVE  t[q] \in {"dir", "file"}
BY DEF T!Ordinary

\* Below a child that is an ordinary directory, the same things are clear.
LEMMA ClearInside ==
  ASSUME NEW t, Standing(t), NEW d \in TreePaths, NEW c \in T!Find(t, d), t[c] # "file",
         NEW q \in TreePaths, Above(c, q)
  PROVE  q \in Clear(t, c) <=> q \in Clear(t, d)
<1>1. /\ c \in TreePaths /\ t[c] # "absent" /\ Above(d, c) /\ Len(c) = Len(d) + 1
      /\ T!Ordinary(t, c) /\ t[c] = "dir" /\ c # d
  <2>1. /\ c \in TreePaths /\ t[c] # "absent" /\ Above(d, c) /\ Len(c) = Len(d) + 1
        /\ T!Ordinary(t, c)
    BY ChildrenAre
  <2>2. t[c] = "dir"
    BY <2>1, OrdinaryKinds
  <2>3. c # d
    BY <2>1, AboveOrder
  <2> QED BY <2>1, <2>2, <2>3
<1>2. Above(d, q) /\ q # d
  <2>1. Above(d, q)
    BY <1>1, AboveOrder
  <2>2. Len(c) <= Len(q)
    BY <1>1, AboveOrder
  <2>3. Len(d) \in Nat
    BY AboveOrder
  <2> QED BY <1>1, <2>1, <2>2, <2>3
<1>3. ASSUME NEW r \in Special(t, c) PROVE r \in Special(t, d)
  <2>1. r \in TreePaths /\ Above(c, r) /\ r # c /\ t[r] # "absent" /\ ~T!Ordinary(t, r)
    BY DEF Special
  <2>2. Above(d, r)
    BY <1>1, <2>1, AboveOrder
  <2>3. r # d
    <3>1. Len(c) <= Len(r) /\ Len(d) \in Nat
      BY <1>1, <2>1, AboveOrder
    <3> QED BY <1>1, <3>1
  <2> QED BY <2>1, <2>2, <2>3 DEF Special
<1>4. ASSUME NEW r \in Special(t, d), Above(r, q) \/ Above(q, r) PROVE r \in Special(t, c)
  <2>1. r \in TreePaths /\ Above(d, r) /\ r # d /\ t[r] # "absent" /\ ~T!Ordinary(t, r)
    BY DEF Special
  <2>2. Len(c) <= Len(r)
    <3>1. Len(d) \in Nat /\ Len(r) \in Nat /\ Len(d) <= Len(r) /\ Len(d) # Len(r)
      BY <2>1, AboveOrder
    <3> QED BY <1>1, <3>1
  <2>3. Above(c, r)
    <3>1. CASE Above(r, q)
      BY <1>1, <2>1, <2>2, <3>1, AboveOrder
    <3>2. CASE Above(q, r)
      BY <1>1, <2>1, <3>2, AboveOrder
    <3> QED BY <1>4, <3>1, <3>2
  <2>4. r # c
    BY <1>1, <2>1
  <2> QED BY <2>1, <2>3, <2>4 DEF Special
<1>5. Apart(t, c, q) <=> Apart(t, d, q)
  BY <1>3, <1>4 DEF Apart
<1> QED BY <1>1, <1>2, <1>5 DEF Clear

\* What comes from inside is what is clear, the directory itself apart.
Inside(t, f, d) == UNION {IF t[q] = "file" THEN {q} ELSE f[q] : q \in T!Find(t, d)}

Cleared(t) == [d \in TreePaths |-> Clear(t, d)]

LEMMA InsideIsClear ==
  ASSUME NEW t, Standing(t), NEW d \in TreePaths, NEW q
  PROVE  q \in Inside(t, Cleared(t), d) <=> q \in Clear(t, d) /\ q # d
<1>1. ASSUME NEW c \in T!Find(t, d),
             q \in (IF t[c] = "file" THEN {c} ELSE Cleared(t)[c])
      PROVE  q \in Clear(t, d) /\ q # d
  <2>1. /\ c \in TreePaths /\ t[c] # "absent" /\ Above(d, c) /\ Len(c) = Len(d) + 1
        /\ T!Ordinary(t, c)
    BY ChildrenAre
  <2>2. c # d /\ Len(d) \in Nat
    BY <2>1, AboveOrder
  <2>3. CASE t[c] = "file"
    <3>1. q = c
      BY <1>1, <2>3
    <3>2. ASSUME NEW r \in Special(t, d), Above(r, c) \/ Above(c, r) PROVE FALSE
      <4>1. r \in TreePaths /\ Above(d, r) /\ r # d /\ t[r] # "absent" /\ ~T!Ordinary(t, r)
        BY DEF Special
      <4>2. r # c
        BY <2>1, <4>1
      <4>3. CASE Above(c, r)
        BY <2>1, <2>3, <4>1, <4>2, <4>3 DEF Standing
      <4>4. CASE Above(r, c)
        <5>1. /\ Len(r) <= Len(c) /\ Len(r) # Len(c) /\ Len(d) <= Len(r) /\ Len(d) # Len(r)
              /\ Len(r) \in Nat
          BY <2>1, <4>1, <4>2, <4>4, AboveOrder
        <5> QED BY <2>1, <2>2, <5>1
      <4> QED BY <3>2, <4>3, <4>4
    <3> QED BY <2>1, <2>2, <3>1, <3>2 DEF Clear, Apart
  <2>4. CASE t[c] # "file"
    <3>1. q \in Clear(t, c)
      BY <1>1, <2>1, <2>4 DEF Cleared
    <3>2. q \in TreePaths /\ Above(c, q)
      BY <3>1 DEF Clear
    <3>3. q # d
      <4>1. Len(c) <= Len(q)
        BY <2>1, <3>2, AboveOrder
      <4> QED BY <2>1, <2>2, <4>1
    <3> QED BY <2>4, <3>1, <3>2, <3>3, ClearInside
  <2> QED BY <2>3, <2>4
<1>2. ASSUME q \in Clear(t, d), q # d PROVE q \in Inside(t, Cleared(t), d)
  <2> DEFINE c == Via(d, q)
  <2>1. q \in TreePaths /\ t[q] # "absent" /\ Above(d, q) /\ Apart(t, d, q)
    BY <1>2 DEF Clear
  <2>2. /\ c \in TreePaths /\ Len(c) = Len(d) + 1 /\ Above(d, c) /\ Above(c, q) /\ c # d
    BY <1>2, <2>1, ViaIs
  <2> HIDE DEF c
  <2>3. t[c] # "absent" /\ (c # q => t[c] # "file")
    BY <2>1, <2>2 DEF Standing
  <2>4. T!Ordinary(t, c)
    BY <2>1, <2>2, <2>3 DEF Special, Apart
  <2>5. c \in T!Find(t, d)
    BY <2>2, <2>3, <2>4, ChildrenAre
  <2>6. q \in (IF t[c] = "file" THEN {c} ELSE Cleared(t)[c])
    <3>1. CASE t[c] = "file"
      BY <2>3, <3>1
    <3>2. CASE t[c] # "file"
      <4>1. q \in Clear(t, c)
        BY <1>2, <2>1, <2>2, <2>5, <3>2, ClearInside
      <4> QED BY <2>2, <3>2, <4>1 DEF Cleared
    <3> QED BY <3>1, <3>2
  <2> QED BY <2>5, <2>6 DEF Inside
<1> QED BY <1>1, <1>2 DEF Inside
\* A set of numbers has a least one.
LEMMA Least ==
  ASSUME NEW S, S \subseteq Nat, S # {}
  PROVE  \E x \in S : \A y \in S : x <= y
<1>1. \E x \in S : \A y \in S : ~(<<y, x>> \in OpToRel(<, Nat))
  BY NatLessThanWellFounded, WFMin
<1>2. \A x, y \in Nat : x < y => <<x, y>> \in OpToRel(<, Nat)
  BY DEF OpToRel
<1>3. PICK x \in S : \A y \in S : ~(<<y, x>> \in OpToRel(<, Nat))
  BY <1>1
<1>4. ASSUME NEW y \in S PROVE x <= y
  <2>1. ~(y < x)
    BY <1>2, <1>3, Zenon
  <2> QED BY <2>1
<1> QED BY <1>4

\* One call of Delete for the directory d, with f for those inside.
OneCall(t, f, d) ==
  IF T!Exists(t, d) /\ T!Children(t, d) \subseteq Inside(t, f, d)
  THEN Inside(t, f, d) \cup {d}
  ELSE Inside(t, f, d)

\* The recursive equation of T!Removes.
Solves(f, t) == f = [d \in TreePaths |-> OneCall(t, f, d)]

LEMMA ClearedSolves ==
  ASSUME NEW t, Standing(t)
  PROVE  Solves(Cleared(t), t)
<1>1. ASSUME NEW d \in TreePaths PROVE Clear(t, d) = OneCall(t, Cleared(t), d)
  <2> DEFINE inner == Inside(t, Cleared(t), d)
  <2>1. inner = Clear(t, d) \ {d}
    BY InsideIsClear
  <2> HIDE DEF inner
  <2>2. d \in Clear(t, d) <=> T!Exists(t, d) /\ Special(t, d) = {}
    <3>1. Above(d, d) /\ \A r \in Special(t, d) : Above(d, r)
      BY AboveOrder DEF Special
    <3>2. T!Exists(t, d) <=> t[d] \in {"dir", "odd"}
      BY ChildrenAre
    <3> QED BY <3>1, <3>2 DEF Clear, Apart
  <2>3. ASSUME NEW r \in Special(t, d) PROVE ~(T!Children(t, d) \subseteq inner)
    <3> DEFINE c == Via(d, r)
    <3>1. r \in TreePaths /\ Above(d, r) /\ r # d /\ t[r] # "absent"
      BY DEF Special
    <3>2. /\ c \in TreePaths /\ Len(c) = Len(d) + 1 /\ Above(d, c) /\ Above(c, r) /\ c # d
      BY <3>1, ViaIs
    <3> HIDE DEF c
    <3>3. t[c] # "absent"
      BY <3>1, <3>2 DEF Standing
    <3>4. c \in T!Children(t, d)
      BY <3>2, <3>3, ChildrenAre
    <3>5. c \notin Clear(t, d)
      BY <3>2 DEF Clear, Apart
    <3> QED BY <2>1, <3>4, <3>5
  <2>4. ASSUME Special(t, d) = {} PROVE T!Children(t, d) \subseteq inner
    <3> SUFFICES ASSUME NEW c \in T!Children(t, d) PROVE c \in inner
      OBVIOUS
    <3>1. c \in TreePaths /\ t[c] # "absent" /\ Above(d, c) /\ Len(c) = Len(d) + 1
      BY ChildrenAre
    <3>2. c # d
      BY <3>1, AboveOrder
    <3> QED BY <2>1, <2>4, <3>1, <3>2 DEF Clear, Apart
  <2>5. CASE T!Exists(t, d) /\ Special(t, d) = {}
    <3>1. OneCall(t, Cleared(t), d) = inner \cup {d}
      BY <2>4, <2>5 DEF OneCall, inner
    <3> QED BY <2>1, <2>2, <2>5, <3>1
  <2>6. CASE ~(T!Exists(t, d) /\ Special(t, d) = {})
    <3>1. OneCall(t, Cleared(t), d) = inner
      BY <2>3, <2>6 DEF OneCall, inner
    <3> QED BY <2>1, <2>2, <2>6, <3>1
  <2> QED BY <2>5, <2>6
<1> QED BY <1>1, Zenon DEF Cleared, Solves

\* The equation has one solution: a path that is wrong in another has one
\* that is wrong below it, and paths do not go on for ever.
LEMMA OneSolution ==
  ASSUME NEW t, Standing(t), NEW f, Solves(f, t), NEW p \in TreePaths
  PROVE  f[p] = Clear(t, p)
<1> DEFINE Wrong == {d \in TreePaths : f[d] # Cleared(t)[d]}
           Room == {MaxDepth - Len(d) : d \in Wrong}
<1>1. \A d \in TreePaths : Cleared(t)[d] = Clear(t, d)
  BY DEF Cleared
<1> SUFFICES ASSUME Wrong # {} PROVE FALSE
  BY <1>1
<1>2. PICK d \in Wrong : \A q \in Wrong : Len(q) <= Len(d)
  <2>1. Room # {} /\ Room \subseteq Nat
    BY PathsAssumption, SMTT(30)
  <2> HIDE DEF Room
  <2>2. PICK k \in Room : \A j \in Room : k <= j
    BY <2>1, Least
  <2> USE DEF Room
  <2>3. PICK d \in Wrong : k = MaxDepth - Len(d)
    BY <2>2
  <2>4. \A q \in Wrong : MaxDepth - Len(d) <= MaxDepth - Len(q)
    BY <2>2, <2>3
  <2>5. MaxDepth \in Nat /\ \A q \in Wrong : Len(q) \in Nat
    BY PathsAssumption
  <2> HIDE DEF Room, Wrong
  <2> QED BY <2>3, <2>4, <2>5
<1>3. ASSUME NEW q \in T!Find(t, d) PROVE f[q] = Cleared(t)[q]
  <2>1. q \in TreePaths /\ Len(q) = Len(d) + 1
    BY ChildrenAre
  <2>2. Len(d) \in Nat
    BY AboveOrder
  <2> QED BY <1>2, <2>1, <2>2
<1>4. Inside(t, f, d) = Inside(t, Cleared(t), d)
  BY <1>3 DEF Inside
<1>5. f[d] = OneCall(t, f, d)
  BY DEF Solves
<1>6. Cleared(t)[d] = OneCall(t, Cleared(t), d)
  BY ClearedSolves DEF Solves
<1> QED BY <1>4, <1>5, <1>6 DEF OneCall

LEMMA RemovesIsClear ==
  ASSUME NEW t, Standing(t), NEW p \in TreePaths
  PROVE  T!Removes(t, p) = Clear(t, p)
<1> DEFINE removed == CHOOSE f : Solves(f, t)
<1>1. Solves(removed, t)
  BY ClearedSolves
<1>2. T!Removes(t, p) = removed[p]
  BY DEF T!Removes, Solves, OneCall, Inside
<1> HIDE DEF removed
<1> QED BY <1>1, <1>2, OneSolution

\* A new entry in a directory.
LEMMA AddedStands ==
  ASSUME NEW t, Standing(t), NEW p \in TreePaths, t[p] = "absent", T!Exists(t, T!Front(p)),
         NEW kind \in T!Kinds
  PROVE  Standing([t EXCEPT ![p] = kind])
<1> DEFINE u == [t EXCEPT ![p] = kind]
<1>1. /\ t \in [TreePaths -> T!Kinds \cup {"absent"}]
      /\ u \in [TreePaths -> T!Kinds \cup {"absent"}]
      /\ u[p] = kind /\ \A q \in TreePaths : q # p => u[q] = t[q]
  BY DEF Standing
<1> HIDE DEF u
<1>2. ASSUME NEW x \in TreePaths, NEW q \in TreePaths, u[q] # "absent", Above(x, q), x # q
      PROVE  u[x] \in {"dir", "odd"}
  <2>1. CASE q # p
    <3>1. t[x] \in {"dir", "odd"}
      BY <1>1, <1>2, <2>1 DEF Standing
    <3> QED BY <1>1, <3>1
  <2>2. CASE q = p
    <3>1. /\ Len(x) \in Nat \ {0} /\ Len(p) \in Nat \ {0} /\ Len(x) <= Len(p) /\ Len(x) # Len(p)
      BY <1>2, <2>2, AboveOrder
    <3> DEFINE n == Len(p) - 1
               y == SubSeq(p, 1, n)
    <3>2. n \in 1..Len(p) /\ Len(x) <= n /\ SubSeq(p, 1, Len(p)) = p
      BY <3>1, Levels
    <3>3. y \in TreePaths /\ T!Front(p) = y /\ y # <<>>
      <4>1. y \in TreePaths /\ y # <<>>
        BY <3>2, Levels
      <4> QED BY <4>1 DEF T!Front
    <3>4. p \in Seq(EntryNames) /\ x \in Seq(EntryNames)
      BY PathsAssumption
    <3>5. Len(y) = n /\ \A k \in 1..n : y[k] = p[k]
      BY <3>2, <3>4
    <3> HIDE DEF y, n
    <3>6. Above(x, y)
      BY <1>2, <2>2, <3>1, <3>2, <3>5 DEF Above
    <3>7. t[y] \in {"dir", "odd"}
      BY <3>3 DEF T!Exists
    <3>8. t[x] \in {"dir", "odd"}
      BY <3>3, <3>6, <3>7 DEF Standing
    <3> QED BY <1>1, <1>2, <2>2, <3>8
  <2> QED BY <2>1, <2>2
<1>3. Standing(u)
  BY <1>1, <1>2 DEF Standing
<1> QED BY <1>3 DEF u

\* Entries that go with all that is below them.
LEMMA FewerStands ==
  ASSUME NEW t, Standing(t), NEW gone,
         \A x \in gone : \A q \in TreePaths : t[q] # "absent" /\ Above(x, q) => q \in gone
  PROVE  Standing([q \in TreePaths |-> IF q \in gone THEN "absent" ELSE t[q]])
<1> DEFINE u == [q \in TreePaths |-> IF q \in gone THEN "absent" ELSE t[q]]
<1>1. /\ u \in [TreePaths -> T!Kinds \cup {"absent"}]
      /\ \A q \in TreePaths : u[q] = IF q \in gone THEN "absent" ELSE t[q]
  BY DEF Standing
<1> HIDE DEF u
<1>2. ASSUME NEW x \in TreePaths, NEW q \in TreePaths, u[q] # "absent", Above(x, q), x # q
      PROVE  u[x] \in {"dir", "odd"}
  <2>1. q \notin gone /\ t[q] # "absent"
    BY <1>1, <1>2
  <2>2. x \notin gone
    BY <1>2, <2>1
  <2>3. t[x] \in {"dir", "odd"}
    BY <1>2, <2>1 DEF Standing
  <2> QED BY <1>1, <2>2, <2>3
<1>3. Standing(u)
  BY <1>1, <1>2 DEF Standing
<1> QED BY <1>3 DEF u

LEMMA ClearIsClosed ==
  ASSUME NEW t, Standing(t), NEW d \in TreePaths, NEW x \in Clear(t, d),
         NEW q \in TreePaths, t[q] # "absent", Above(x, q)
  PROVE  q \in Clear(t, d)
<1>1. /\ x \in TreePaths /\ t[x] # "absent" /\ Above(d, x) /\ Apart(t, d, x)
      /\ x = d => t[d] \in {"dir", "odd"}
  BY DEF Clear
<1>2. Above(d, q)
  BY <1>1, AboveOrder
<1>3. q = d => x = d
  <2>1. Len(x) <= Len(q) /\ Len(d) <= Len(x) /\ Len(x) \in Nat /\ Len(d) \in Nat
    BY <1>1, AboveOrder
  <2> QED BY <1>1, <2>1, AboveOrder
<1>4. ASSUME NEW r \in Special(t, d), Above(r, q) \/ Above(q, r) PROVE FALSE
  <2>1. r \in TreePaths /\ ~Above(r, x) /\ ~Above(x, r)
    BY <1>1 DEF Special, Apart
  <2>2. ~Above(q, r)
    BY <1>1, <2>1, AboveOrder
  <2>3. Above(r, q)
    BY <1>4, <2>2
  <2>4. Len(r) \in Nat /\ Len(x) \in Nat
    BY <1>1, <2>1, AboveOrder
  <2>5. CASE Len(r) <= Len(x)
    BY <1>1, <2>1, <2>3, <2>5, AboveOrder
  <2>6. CASE Len(x) <= Len(r)
    BY <1>1, <2>1, <2>3, <2>6, AboveOrder
  <2> QED BY <2>4, <2>5, <2>6
<1> QED BY <1>1, <1>2, <1>3, <1>4 DEF Clear, Apart

\* A Delete that has returned is followed by no step of Create.
DeleteInv ==
  /\ TreeInv
  /\ Standing(tree)
  /\ creating # <<>> => treeRet.op # "Delete"
  /\ T!DeleteRemovesOrdinary

LEMMA DeleteCall ==
  ASSUME DeleteInv, NEW p \in TreePaths, T!Delete(p)
  PROVE  Standing(tree)' /\ T!DeleteRemovesOrdinary'
<1>1. T!Deleted(tree, p) = Clear(tree, p)
  BY RemovesIsClear DEF DeleteInv, T!Deleted
<1>2. tree' = [q \in TreePaths |-> IF q \in Clear(tree, p) THEN "absent" ELSE tree[q]]
  BY <1>1 DEF T!Delete
<1>3. Standing([q \in TreePaths |-> IF q \in Clear(tree, p) THEN "absent" ELSE tree[q]])
  <2>1. \A x \in Clear(tree, p) : \A q \in TreePaths :
          tree[q] # "absent" /\ Above(x, q) => q \in Clear(tree, p)
    BY ClearIsClosed DEF DeleteInv
  <2> DEFINE gone == Clear(tree, p)
  <2> HIDE DEF gone
  <2>2. \A x \in gone : \A q \in TreePaths : tree[q] # "absent" /\ Above(x, q) => q \in gone
    BY <2>1 DEF gone
  <2>3. Standing([q \in TreePaths |-> IF q \in gone THEN "absent" ELSE tree[q]])
    BY <2>2, FewerStands DEF DeleteInv
  <2> QED BY <2>3 DEF gone
<1>4. treeRet'.path = p /\ treeRet'.tree = tree
  BY DEF T!Delete, T!NoCall
<1>5. ASSUME T!Exists(tree, p), NEW q \in T!Below(tree, p) \cup {p}
      PROVE  LET special == {r \in T!Below(tree, p) : ~T!Ordinary(tree, r)}
             IN  tree'[q] # "absent" <=> \E r \in special : T!IsPrefix(r, q) \/ T!IsPrefix(q, r)
  <2>1. tree[p] \in {"dir", "odd"}
    BY <1>5, ChildrenAre
  <2>2. \A r : r \in T!Below(tree, p) <=> /\ r \in TreePaths /\ tree[r] # "absent"
                                          /\ Above(p, r) /\ r # p
    BY AboveIsPrefix DEF T!Below, T!IsStrictPrefix
  <2>3. {r \in T!Below(tree, p) : ~T!Ordinary(tree, r)} = Special(tree, p)
    BY <2>2 DEF Special
  <2>4. q \in TreePaths /\ tree[q] # "absent" /\ Above(p, q)
    BY <2>1, <2>2, AboveOrder
  <2>5. \A r \in Special(tree, p) : /\ T!IsPrefix(r, q) <=> Above(r, q)
                                    /\ T!IsPrefix(q, r) <=> Above(q, r)
    BY <2>4, AboveIsPrefix DEF Special
  <2>6. q \in Clear(tree, p) <=> Apart(tree, p, q)
    BY <2>1, <2>4 DEF Clear
  <2>7. tree'[q] # "absent" <=> ~Apart(tree, p, q)
    BY <1>2, <2>4, <2>6
  <2> QED BY <2>3, <2>5, <2>7 DEF Apart
<1> QED BY <1>2, <1>3, <1>4, <1>5 DEF T!DeleteRemovesOrdinary

LEMMA DeleteStep == DeleteInv /\ [T!Next]_(T!vars) => DeleteInv'
<1> SUFFICES ASSUME DeleteInv, [T!Next]_(T!vars) PROVE DeleteInv'
  OBVIOUS
<1>1. TreeInv' /\ creating \in TreePaths \cup {<<>>}
  BY TreeStep DEF DeleteInv, TreeInv, TreeTypes
\* One call of _mkdir, and steps that return nothing of Delete.
<1>2. ASSUME NEW p \in TreePaths PROVE Standing(T!Mkdir(tree, p))
  <2>1. CASE T!Exists(tree, T!Front(p)) /\ tree[p] = "absent"
    BY <2>1, AddedStands DEF DeleteInv, T!Mkdir, T!Kinds
  <2>2. CASE ~(T!Exists(tree, T!Front(p)) /\ tree[p] = "absent")
    BY <2>2 DEF DeleteInv, T!Mkdir
  <2> QED BY <2>1, <2>2
<1>3. ASSUME Standing(tree'), treeRet'.op # "Delete" PROVE DeleteInv'
  BY <1>1, <1>3 DEF DeleteInv, T!DeleteRemovesOrdinary
<1>4. ASSUME NEW p \in TreePaths, T!Delete(p) PROVE DeleteInv'
  <2>1. creating' = <<>>
    BY <1>4 DEF T!Delete
  <2> QED BY <1>1, <1>4, <2>1, DeleteCall DEF DeleteInv
<1>5. ASSUME NEW p \in TreePaths, T!Other(p) PROVE DeleteInv'
  <2>1. treeRet'.op # "Delete"
    BY <1>5 DEF T!Other, T!NoCall
  <2>2. Standing(tree')
    <3>1. CASE \E kind \in T!Kinds : /\ tree[p] = "absent" /\ T!Exists(tree, T!Front(p))
                                     /\ tree' = [tree EXCEPT ![p] = kind]
      BY <3>1, AddedStands DEF DeleteInv
    <3>2. CASE /\ tree[p] # "absent" /\ T!Children(tree, p) = {}
               /\ tree' = [tree EXCEPT ![p] = "absent"]
      <4>1. ASSUME NEW q \in TreePaths, tree[q] # "absent", Above(p, q) PROVE q = p
        <5> SUFFICES ASSUME q # p PROVE FALSE
          OBVIOUS
        <5>1. /\ Via(p, q) \in TreePaths /\ Len(Via(p, q)) = Len(p) + 1 /\ Above(p, Via(p, q))
              /\ Above(Via(p, q), q)
          BY <4>1, ViaIs
        <5>2. tree[Via(p, q)] # "absent"
          BY <4>1, <5>1 DEF DeleteInv, Standing
        <5> QED BY <3>2, <5>1, <5>2, ChildrenAre
      <4> DEFINE gone == {p}
      <4>2. \A x \in gone : \A q \in TreePaths : tree[q] # "absent" /\ Above(x, q) => q \in gone
        BY <4>1
      <4>3. tree' = [q \in TreePaths |-> IF q \in gone THEN "absent" ELSE tree[q]]
        BY <3>2 DEF DeleteInv, Standing
      <4> HIDE DEF gone
      <4>4. Standing([q \in TreePaths |-> IF q \in gone THEN "absent" ELSE tree[q]])
        BY <4>2, FewerStands DEF DeleteInv
      <4> QED BY <4>3, <4>4
    <3> QED BY <1>5, <3>1, <3>2 DEF T!Other
  <2> QED BY <1>3, <2>1, <2>2
<1>6. ASSUME NEW p \in TreePaths, NEW abs \in BOOLEAN, T!CreateCall(p, abs) PROVE DeleteInv'
  <2>1. treeRet'.op # "Delete" /\ tree' = tree
    BY <1>6 DEF T!CreateCall, T!NoCall
  <2> QED BY <1>3, <2>1 DEF DeleteInv
<1>7. CASE T!CreateDirect
  <2>1. /\ creating \in TreePaths /\ creating # <<>> /\ treeRet' = treeRet
        /\ tree' = T!Mkdir(tree, creating)
    BY <1>1, <1>7 DEF T!CreateDirect
  <2>2. Standing(tree')
    BY <1>2, <2>1
  <2> QED BY <1>3, <2>1, <2>2 DEF DeleteInv
<1>8. CASE T!CreateLevel
  <2> DEFINE root == SubSeq(creating, 1, level + 1)
  <2>1. /\ creating \in TreePaths /\ creating # <<>> /\ treeRet' = treeRet
        /\ level \in 0..(Len(creating) - 1)
        /\ tree' = IF T!Exists(tree, root) THEN tree ELSE T!Mkdir(tree, root)
    BY <1>1, <1>8 DEF T!CreateLevel, T!NextLevel
  <2>2. root \in TreePaths
    <3>1. Len(creating) \in Nat
      BY <2>1, Levels
    <3>2. level + 1 \in 1..Len(creating)
      BY <2>1, <3>1
    <3> QED BY <2>1, <3>2, Levels
  <2> HIDE DEF root
  <2>3. Standing(tree')
    BY <1>2, <2>1, <2>2 DEF DeleteInv
  <2> QED BY <1>3, <2>1, <2>3 DEF DeleteInv
<1>9. CASE T!CreateReturn
  <2>1. treeRet'.op = "Create" /\ tree' = tree
    BY <1>9 DEF T!CreateReturn
  <2> QED BY <1>3, <2>1 DEF DeleteInv
<1>10. CASE UNCHANGED T!vars
  BY <1>1, <1>10 DEF T!vars, DeleteInv, Standing, T!DeleteRemovesOrdinary
<1> QED BY <1>4, <1>5, <1>6, <1>7, <1>8, <1>9, <1>10 DEF T!Next

\* The components run side by side, each on variables of its own.
LEMMA StepOfTree == [AllNext]_allVars => [T!Next]_(T!vars)
BY DEF AllNext, allVars, FilesNext, TreeNext, LogNext, IniNext, WatchNext, JsonNext, treeVars,
       T!vars

\* However deep the tree is and whatever other programs make and remove in
\* it, Path::Create of an absolute path makes it and returns true unless a
\* file is in the way, and Path::Delete leaves what Find does not show, what
\* is in that and the directories above it, and nothing else.
THEOREM Exact == AllSpec => []DirectoriesExact
<1>1. AllInit => DeleteInv
  BY DEF AllInit, T!Init, DeleteInv, Standing, TreeInv, TreeTypes, CreateInv, T!NoCall,
         T!CreateMakesPath, T!DeleteRemovesOrdinary
<1>2. DeleteInv /\ [AllNext]_allVars => DeleteInv'
  BY StepOfTree, DeleteStep
<1>3. DeleteInv => DirectoriesExact
  BY DEF DeleteInv, TreeInv, DirectoriesExact
<1> QED BY <1>1, <1>2, <1>3, PTL DEF AllSpec
=============================================================================
