---------------------------- MODULE SystemProofs ----------------------------
(***************************************************************************)
(* Proofs about MCSystem: Socket, Func, AutoBoot and Devices, for every    *)
(* number of objects, handles, addresses, programs and calls, the          *)
(* functions of Path, for every name, and those of Text, for every text.   *)
(***************************************************************************)
EXTENDS MCSystem, SequenceTheorems, FiniteSetTheorems, WellFoundedInduction, TLAPS

\* A step of the composition is a step of each component, or leaves it.
LEMMA StepOfOne ==
  [AllNext]_allVars => /\ [S!Next]_(S!vars)
                       /\ [F!Next]_(F!vars)
                       /\ [B!Next]_(B!vars)
                       /\ [D!Next]_(D!vars)
  BY DEF AllNext, allVars, RegeditNext, SocketNext, FuncNext, BootNext, DeviceNext, FunctionsNext,
         vars, socketVars, funcVars, bootVars, deviceVars, S!vars, F!vars, B!vars, D!vars

(***************************************************************************)
(* AutoBoot.                                                               *)
(***************************************************************************)
BootTypes ==
  /\ DOMAIN values = Names /\ DOMAIN promised = Names
  /\ DOMAIN bootPc = Objects /\ DOMAIN filename = Objects /\ DOMAIN bStatus = Objects
  /\ \A c \in Objects : bootPc[c] # "idle" => filename[c] \in B!Programs

BootInv == BootTypes /\ B!EnabledRegistered

LEMMA BootStep == BootInv /\ [B!Next]_(B!vars) => BootInv'
<1> SUFFICES ASSUME BootInv, [B!Next]_(B!vars) PROVE BootInv'
  OBVIOUS
<1> USE DEF BootInv, BootTypes, B!EnabledRegistered
<1>0. ASSUME NEW c \in Objects, bootPc[c] # "idle" PROVE B!appName(c) \in Names
  BY <1>0 DEF B!Programs, B!appName
<1>1. ASSUME NEW c \in Objects, NEW p \in B!Programs, NEW b \in BOOLEAN, B!SetAutoBoot(c, p, b)
      PROVE  BootInv'
  BY <1>1 DEF B!SetAutoBoot
<1>2. ASSUME NEW c \in Objects, NEW opens \in BOOLEAN, B!GetAutoBootStatus(c, opens)
      PROVE  BootInv'
  BY <1>0, <1>2 DEF B!GetAutoBootStatus, B!IsBoot, B!Return
<1>3. ASSUME NEW c \in Objects, NEW opens \in BOOLEAN, B!SetValue(c, opens) PROVE BootInv'
  BY <1>0, <1>3 DEF B!SetValue, B!Return
<1>4. ASSUME NEW n \in Names, NEW v \in B!Programs \cup {NoText}, B!Other(n, v) PROVE BootInv'
  BY <1>4 DEF B!Other
<1>5. CASE UNCHANGED B!vars
  BY <1>5 DEF B!vars
<1> QED BY <1>1, <1>2, <1>3, <1>4, <1>5 DEF B!Next

\* What SetAutoBoot reported as registered stays the value under its name
\* until somebody changes it, whichever comparisons of GetAutoBootStatus fail
\* and however the calls of several processes overlap.
THEOREM Registered == AllSpec => []EnabledRegistered
<1>1. AllInit => BootInv
  BY DEF AllInit, B!Init, BootInv, BootTypes, B!EnabledRegistered
<1>2. BootInv /\ [AllNext]_allVars => BootInv'
  BY StepOfOne, BootStep
<1>3. BootInv => EnabledRegistered
  BY DEF BootInv, EnabledRegistered
<1> QED BY <1>1, <1>2, <1>3, PTL DEF AllSpec

(***************************************************************************)
(* Socket.  Who holds a handle got it from a started library, and the      *)
(* library is stopped only when nobody uses an object.                     *)
(***************************************************************************)
Phases == {"none", "startup", "fresh", "connected", "failed", "bound", "closed", "listening",
           "writing", "written"}

SocketTypes ==
  /\ wVersion \in {0, 1} /\ started \in Nat
  /\ phase \in [Objects -> Phases]
  /\ handle \in [Objects -> Handles \cup {None}]

\* The library is counted as started unless a Cleanup is half way, and an
\* object that has a handle of it keeps it started.
LibraryInv ==
  /\ wVersion = 1 => cleaning \/ started > 0
  /\ \A o \in Objects :
       phase[o] \in {"connected", "bound", "listening", "writing", "written"} => started > 0

SocketInv == SocketTypes /\ LibraryInv /\ S!LibraryStarted /\ S!HandlesOwned

LEMMA SocketTypesStep == SocketTypes /\ [S!Next]_(S!vars) => SocketTypes'
<1> SUFFICES ASSUME SocketTypes, [S!Next]_(S!vars) PROVE SocketTypes'
  OBVIOUS
<1> USE DEF SocketTypes, Phases, S!Become, S!library, S!written
<1>1. CASE UNCHANGED S!vars
  BY <1>1 DEF S!vars
<1>2. CASE S!CleanupLibrary
  BY <1>2 DEF S!CleanupLibrary
<1>3. CASE S!CleanupReset
  BY <1>3 DEF S!CleanupReset, S!AfterCleanup
<1>4. ASSUME NEW o \in Objects, S!Construct(o) PROVE SocketTypes'
  BY <1>4 DEF S!Construct
<1>5. ASSUME NEW o \in Objects, S!Startup(o) PROVE SocketTypes'
  BY <1>5 DEF S!Startup
<1>6. ASSUME NEW o \in Objects, S!Connect(o) PROVE SocketTypes'
  BY <1>6 DEF S!Connect, S!NewHandles
<1>7. ASSUME NEW o \in Objects, S!Bind(o) PROVE SocketTypes'
  BY <1>7 DEF S!Bind, S!NewHandles
<1>8. ASSUME NEW o \in Objects, S!Listen(o) PROVE SocketTypes'
  BY <1>8 DEF S!Listen
<1>9. ASSUME NEW o \in Objects, NEW n \in Objects, S!Accep(o, n) PROVE SocketTypes'
  BY <1>9 DEF S!Accep
<1>10. ASSUME NEW o \in Objects, S!WriteCall(o) \/ S!WriteSend(o) \/ S!WriteReturn(o)
       PROVE  SocketTypes'
  BY <1>10 DEF S!WriteCall, S!WriteSend, S!WriteReturn
<1>11. ASSUME NEW o \in Objects, S!Close(o) \/ S!Destroy(o) PROVE SocketTypes'
  BY <1>11 DEF S!Close, S!Destroy
<1> QED
  BY <1>1, <1>2, <1>3, <1>4, <1>5, <1>6, <1>7, <1>8, <1>9, <1>10, <1>11 DEF S!Next, S!Step

LEMMA LibraryStep ==
  SocketTypes /\ LibraryInv /\ S!LibraryStarted /\ [S!Next]_(S!vars)
    => LibraryInv' /\ S!LibraryStarted'
<1> SUFFICES ASSUME SocketTypes, LibraryInv, S!LibraryStarted, [S!Next]_(S!vars)
             PROVE  LibraryInv' /\ S!LibraryStarted'
  OBVIOUS
<1> DEFINE Goal == LibraryInv' /\ S!LibraryStarted'
<1> USE DEF SocketTypes, LibraryInv, S!LibraryStarted, S!Become, S!library
<1>1. CASE UNCHANGED S!vars
  BY <1>1 DEF S!vars
<1>2. CASE S!CleanupLibrary
  BY <1>2 DEF S!CleanupLibrary
<1>3. CASE S!CleanupReset
  BY <1>3 DEF S!CleanupReset, S!AfterCleanup
<1>4. ASSUME NEW o \in Objects, S!Construct(o) PROVE Goal
  BY <1>4 DEF S!Construct
<1>5. ASSUME NEW o \in Objects, S!Startup(o) PROVE Goal
  BY <1>5 DEF S!Startup
<1>6. ASSUME NEW o \in Objects, S!Connect(o) PROVE Goal
  BY <1>6 DEF S!Connect, S!NewHandles
<1>7. ASSUME NEW o \in Objects, S!Bind(o) PROVE Goal
  BY <1>7 DEF S!Bind, S!NewHandles
<1>8. ASSUME NEW o \in Objects, S!Listen(o) PROVE Goal
  BY <1>8 DEF S!Listen
<1>9. ASSUME NEW o \in Objects, NEW n \in Objects, S!Accep(o, n) PROVE Goal
  BY <1>9 DEF S!Accep
<1>10. ASSUME NEW o \in Objects, S!WriteCall(o) \/ S!WriteSend(o) \/ S!WriteReturn(o)
       PROVE  Goal
  BY <1>10 DEF S!WriteCall, S!WriteSend, S!WriteReturn
<1>11. ASSUME NEW o \in Objects, S!Close(o) \/ S!Destroy(o) PROVE Goal
  BY <1>11 DEF S!Close, S!Destroy
<1> QED
  BY <1>1, <1>2, <1>3, <1>4, <1>5, <1>6, <1>7, <1>8, <1>9, <1>10, <1>11 DEF S!Next, S!Step

\* Connect and Bind take a handle that nobody has open, Close gives back the
\* object's own, and nothing else touches an open handle.
LEMMA HandlesStep ==
  SocketTypes /\ S!HandlesOwned /\ [S!Next]_(S!vars) => S!HandlesOwned'
<1> SUFFICES ASSUME SocketTypes, S!HandlesOwned, [S!Next]_(S!vars) PROVE S!HandlesOwned'
  OBVIOUS
<1> USE SystemAssumption DEF SocketTypes, Phases, S!HandlesOwned, S!Holding, S!Become
<1>1. CASE UNCHANGED S!vars
  BY <1>1 DEF S!vars
<1>2. CASE ~aborted /\ S!CleanupLibrary
  BY <1>2 DEF S!CleanupLibrary
<1>3. CASE ~aborted /\ S!CleanupReset
  BY <1>3 DEF S!CleanupReset
<1>4. ASSUME NEW o \in Objects, ~aborted, S!Construct(o) \/ S!Startup(o) PROVE S!HandlesOwned'
  BY <1>4 DEF S!Construct, S!Startup
<1>6. ASSUME NEW o \in Objects, ~aborted, S!Connect(o) PROVE S!HandlesOwned'
  BY <1>6 DEF S!Connect, S!NewHandles
<1>7. ASSUME NEW o \in Objects, ~aborted, S!Bind(o) PROVE S!HandlesOwned'
  BY <1>7 DEF S!Bind, S!NewHandles, S!Unbound
<1>8. ASSUME NEW o \in Objects, ~aborted, S!Listen(o) PROVE S!HandlesOwned'
  BY <1>8 DEF S!Listen
<1>9. ASSUME NEW o \in Objects, ~aborted, NEW n \in Objects, S!Accep(o, n) PROVE S!HandlesOwned'
  BY <1>9 DEF S!Accep
<1>10. ASSUME NEW o \in Objects, ~aborted, S!WriteCall(o) \/ S!WriteSend(o) \/ S!WriteReturn(o)
       PROVE  S!HandlesOwned'
  BY <1>10 DEF S!WriteCall, S!WriteSend, S!WriteReturn
<1>11. ASSUME NEW o \in Objects, ~aborted, S!Close(o) PROVE S!HandlesOwned'
  BY <1>11 DEF S!Close, S!Closed
<1>12. ASSUME NEW o \in Objects, ~aborted, S!Destroy(o) PROVE S!HandlesOwned'
  BY <1>12 DEF S!Destroy
<1> QED
  BY <1>1, <1>2, <1>3, <1>4, <1>6, <1>7, <1>8, <1>9, <1>10, <1>11, <1>12 DEF S!Next, S!Step

\* Every open handle has one owner who will close it, and an object finds
\* the library started, for every number of objects and every order in which
\* their threads construct, close and clean up.
THEOREM Owned == AllSpec => []HandlesOwned
<1>1. AllInit => SocketInv
  BY DEF AllInit, S!Init, SocketInv, SocketTypes, Phases, LibraryInv, S!LibraryStarted,
         S!HandlesOwned, S!Holding
<1>2. SocketInv /\ [AllNext]_allVars => SocketInv'
  BY StepOfOne, SocketTypesStep, LibraryStep, HandlesStep DEF SocketInv
<1>3. SocketInv => HandlesOwned
  BY DEF SocketInv, HandlesOwned
<1> QED BY <1>1, <1>2, <1>3, PTL DEF AllSpec

\* A send that was not split took the whole buffer.
WriteInv ==
  /\ DOMAIN phase = Objects /\ DOMAIN totalCount = Objects
  /\ DOMAIN peer = Objects /\ DOMAIN split = Objects
  /\ \A o \in Objects :
       /\ totalCount[o] \in 0..Size
       /\ peer[o] \in Seq(Nat) /\ Len(peer[o]) = totalCount[o]
       /\ phase[o] = "written" => totalCount[o] = Size
       /\ ~split[o] => peer[o] \in {<<>>, S!Buffer}

LEMMA BufferPart ==
  /\ S!Buffer \in Seq(Nat) /\ Len(S!Buffer) = Size
  /\ \A n \in 0..Size : SubSeq(S!Buffer, 1, n) \in Seq(Nat) /\ Len(SubSeq(S!Buffer, 1, n)) = n
  /\ SubSeq(S!Buffer, 1, Size) = S!Buffer
  /\ S!IsPrefix(<<>>, S!Buffer) /\ S!IsPrefix(S!Buffer, S!Buffer)
<1>1. S!Buffer \in Seq(Nat) /\ Len(S!Buffer) = Size
  BY SystemAssumption DEF S!Buffer
<1>2. ASSUME NEW n \in 0..Size
      PROVE  SubSeq(S!Buffer, 1, n) \in Seq(Nat) /\ Len(SubSeq(S!Buffer, 1, n)) = n
  BY <1>1, SystemAssumption
<1>3. SubSeq(S!Buffer, 1, Size) = S!Buffer
  BY <1>1, SystemAssumption
<1>4. S!IsPrefix(<<>>, S!Buffer) /\ S!IsPrefix(S!Buffer, S!Buffer)
  BY <1>1, SystemAssumption DEF S!IsPrefix
<1> QED BY <1>1, <1>2, <1>3, <1>4

LEMMA WriteStep == WriteInv /\ [S!Next]_(S!vars) => WriteInv'
<1> SUFFICES ASSUME WriteInv, [S!Next]_(S!vars) PROVE WriteInv'
  OBVIOUS
<1> USE SystemAssumption DEF WriteInv, S!Become, S!written
<1>1. CASE UNCHANGED S!vars
  BY <1>1 DEF S!vars
<1>2. CASE S!CleanupLibrary \/ S!CleanupReset
  BY <1>2 DEF S!CleanupLibrary, S!CleanupReset
<1>3. ASSUME NEW o \in Objects, S!Construct(o) \/ S!Startup(o) PROVE WriteInv'
  BY <1>3 DEF S!Construct, S!Startup
<1>4. ASSUME NEW o \in Objects, S!Connect(o) PROVE WriteInv'
  BY <1>4 DEF S!Connect
<1>5. ASSUME NEW o \in Objects, S!Bind(o) PROVE WriteInv'
  BY <1>5 DEF S!Bind
<1>6. ASSUME NEW o \in Objects, S!Listen(o) PROVE WriteInv'
  BY <1>6 DEF S!Listen
<1>7. ASSUME NEW o \in Objects, NEW n \in Objects, S!Accep(o, n) PROVE WriteInv'
  BY <1>7 DEF S!Accep
<1>8. ASSUME NEW o \in Objects, S!WriteCall(o) PROVE WriteInv'
  BY <1>8 DEF S!WriteCall
<1>9. ASSUME NEW o \in Objects, S!WriteSend(o) PROVE WriteInv'
  <2>1. CASE S!Become(o, "failed") /\ UNCHANGED S!written
    BY <2>1
  <2>2. ASSUME NEW n \in 1..(Size - totalCount[o]),
               peer' = [peer EXCEPT ![o] = @ \o SubSeq(S!Buffer, 1, n)],
               totalCount' = [totalCount EXCEPT ![o] = @ + n],
               split' = [split EXCEPT ![o] = @ \/ n < Size - totalCount[o]],
               UNCHANGED phase
        PROVE  WriteInv'
    <3> DEFINE part == SubSeq(S!Buffer, 1, n)
    <3>0. phase[o] = "writing" /\ totalCount[o] # Size
      BY <1>9 DEF S!WriteSend
    <3>1. n \in 0..Size /\ totalCount[o] + n \in 0..Size
      OBVIOUS
    <3>2. part \in Seq(Nat) /\ Len(part) = n
      BY <3>1, BufferPart
    <3> HIDE DEF part
    <3>3. peer[o] \o part \in Seq(Nat) /\ Len(peer[o] \o part) = totalCount[o] + n
      <4>1. peer[o] \in Seq(Nat) /\ Len(peer[o]) = totalCount[o]
        OBVIOUS
      <4> HIDE DEF WriteInv
      <4>2. /\ peer[o] \o part \in Seq(Nat)
            /\ Len(peer[o] \o part) = Len(peer[o]) + Len(part)
        BY <3>2, <4>1, ConcatProperties, Zenon
      <4> QED BY <3>2, <4>1, <4>2
    <3>4. ~(split[o] \/ n < Size - totalCount[o]) => peer[o] \o part = S!Buffer
      <4> SUFFICES ASSUME ~split[o], ~(n < Size - totalCount[o]) PROVE peer[o] \o part = S!Buffer
        OBVIOUS
      <4>1. peer[o] = <<>>
        BY <3>0, BufferPart
      <4>2. n = Size
        BY <4>1
      <4>3. part = S!Buffer
        BY <4>2, BufferPart DEF part
      <4> QED BY <4>1, <4>3, BufferPart
    <3>5. peer'[o] = peer[o] \o part /\ totalCount'[o] = totalCount[o] + n
          /\ phase'[o] = phase[o]
      BY <2>2 DEF part
    <3>8. split'[o] = (split[o] \/ n < Size - totalCount[o])
      BY <2>2, Zenon
    <3>6. ASSUME NEW p \in Objects \ {o}
          PROVE  peer'[p] = peer[p] /\ totalCount'[p] = totalCount[p] /\ split'[p] = split[p]
                 /\ phase'[p] = phase[p]
      BY <2>2
    <3>7. DOMAIN phase' = Objects /\ DOMAIN totalCount' = Objects
          /\ DOMAIN peer' = Objects /\ DOMAIN split' = Objects
      BY <2>2
    <3> QED BY <3>0, <3>1, <3>3, <3>4, <3>5, <3>6, <3>7, <3>8
  <2> QED BY <1>9, <2>1, <2>2 DEF S!WriteSend, S!Remaining
<1>10. ASSUME NEW o \in Objects, S!WriteReturn(o) PROVE WriteInv'
  BY <1>10 DEF S!WriteReturn
<1>11. ASSUME NEW o \in Objects, S!Close(o) PROVE WriteInv'
  BY <1>11 DEF S!Close
<1>12. ASSUME NEW o \in Objects, S!Destroy(o) PROVE WriteInv'
  BY <1>12 DEF S!Destroy
<1> QED
  BY <1>1, <1>2, <1>3, <1>4, <1>5, <1>6, <1>7, <1>8, <1>9, <1>10, <1>11, <1>12
     DEF S!Next, S!Step

\* What Write returns is the number of bytes that the other side has got, at
\* most those passed, for every size and every way in which send splits them;
\* without a split they are the buffer's.
THEOREM Counted == AllSpec => []WriteCounted
<1>1. AllInit => WriteInv
  BY SystemAssumption DEF AllInit, S!Init, WriteInv
<1>2. WriteInv /\ [AllNext]_allVars => WriteInv'
  BY StepOfOne, WriteStep
<1>3. WriteInv => WriteCounted
  BY BufferPart, SystemAssumption DEF WriteInv, WriteCounted, S!WriteCounted
<1> QED BY <1>1, <1>2, <1>3, PTL DEF AllSpec

(***************************************************************************)
(* Func.  The loop of operator() stands on it: what stayed in the map has  *)
(* run if it is behind, and has not if it is ahead.                        *)
(***************************************************************************)
Bindings == [id : FunctionAddresses, callback : Callbacks, bound : BOOLEAN]

FuncTypes ==
  /\ DOMAIN callbacks \subseteq FunctionAddresses
  /\ ids \in Seq(Bindings)
  /\ it \in FunctionAddresses \cup {0}
  /\ ran \in [FunctionAddresses -> Nat]
  /\ stayed \subseteq DOMAIN callbacks

Visited ==
  \A k \in stayed : ran[k] = IF it = 0 \/ k <= it THEN 1 ELSE 0

FuncInv == FuncTypes /\ Visited /\ F!OnlyBoundRun

\* A set of numbers that is not empty has a least one.
LEMMA Least ==
  ASSUME NEW T, T \subseteq Nat, T # {}
  PROVE  F!Min(T) \in T /\ \A k \in T : F!Min(T) <= k
<1>1. \E x \in T : \A y \in T : ~(<<y, x>> \in OpToRel(<, Nat))
  BY NatLessThanWellFounded, WFMin
<1>2. \A x, y \in Nat : x < y => <<x, y>> \in OpToRel(<, Nat)
  BY DEF OpToRel
<1>3. PICK x \in T : \A y \in T : ~(<<y, x>> \in OpToRel(<, Nat))
  BY <1>1
<1>4. ASSUME NEW y \in T PROVE x <= y
  <2>1. ~(y < x)
    BY <1>2, <1>3, Zenon
  <2> QED BY <2>1
<1> QED BY <1>4 DEF F!Min

\* The loop goes to the next element of the map, or ends after the last.
LEMMA GotoNext ==
  ASSUME DOMAIN callbacks \subseteq FunctionAddresses, NEW id \in FunctionAddresses \cup {0},
         NEW counts \in [FunctionAddresses -> Nat], F!Goto(id, counts)
  PROVE  /\ it' \in FunctionAddresses \cup {0}
         /\ ran' \in [FunctionAddresses -> Nat]
         /\ \A k \in DOMAIN callbacks :
              ran'[k] = IF k = it' THEN counts[k] + 1 ELSE counts[k]
         /\ it' # 0 => it' > id
         /\ \A k \in DOMAIN callbacks : k > id => it' # 0 /\ k >= it'
<1>0. FunctionAddresses \subseteq Nat \ {0}
  BY SystemAssumption
<1> DEFINE T == F!NextOf(id)
<1>1. T \subseteq DOMAIN callbacks /\ T \subseteq FunctionAddresses /\ T \subseteq Nat
  BY <1>0 DEF F!NextOf
<1>2. CASE T = {}
  BY <1>0, <1>2 DEF F!Goto, F!NextOf
<1>3. CASE T # {}
  <2> DEFINE m == F!Min(T)
  <2>1. m \in T /\ \A k \in T : m <= k
    BY <1>1, <1>3, Least
  <2>2. it' = m /\ ran' = [counts EXCEPT ![m] = @ + 1]
    BY <1>3 DEF F!Goto
  <2> HIDE DEF m
  <2>3. m \in FunctionAddresses /\ m > id
    BY <2>1 DEF F!NextOf
  <2>4. \A k \in DOMAIN callbacks : k > id => m <= k
    BY <2>1 DEF F!NextOf
  <2> HIDE DEF T
  <2> QED BY <1>0, <2>2, <2>3, <2>4
<1> QED BY <1>2, <1>3

LEMMA Bound ==
  ASSUME NEW f \in Callbacks, NEW id \in FunctionAddresses
  PROVE  [id |-> id, callback |-> f, bound |-> TRUE] \in Bindings
BY Zenon DEF Bindings

\* What becomes of an id that is given back.
LEMMA Unbound ==
  ASSUME NEW b \in Bindings
  PROVE  /\ [b EXCEPT !.bound = FALSE] \in Bindings
         /\ [b EXCEPT !.bound = FALSE].id = b.id
         /\ [b EXCEPT !.bound = FALSE].callback = b.callback
BY Zenon DEF Bindings

LEMMA FuncTypesStep == FuncTypes /\ [F!Next]_(F!vars) => FuncTypes'
<1> SUFFICES ASSUME FuncTypes, [F!Next]_(F!vars) PROVE FuncTypes'
  OBVIOUS
<1> USE DEF FuncTypes
<1>1. ASSUME NEW f \in Callbacks, NEW id \in FunctionAddresses, F!Bind(f, id) PROVE FuncTypes'
  BY <1>1, Bound DEF F!Bind, F!Emplaced
<1>2. ASSUME NEW n \in 1..MaxBinds, F!Unbind(n) PROVE FuncTypes'
  <2>1. DOMAIN callbacks' \subseteq DOMAIN callbacks /\ stayed' \subseteq DOMAIN callbacks'
    BY <1>2 DEF F!Unbind, F!Erased, F!Restrict
  <2>2. ids' \in Seq(Bindings)
    BY <1>2, Unbound DEF F!Unbind
  <2> QED BY <1>2, <2>1, <2>2 DEF F!Unbind
<1>3. CASE F!Invoke
  <2>1. [a \in FunctionAddresses |-> 0] \in [FunctionAddresses -> Nat]
    OBVIOUS
  <2> QED BY <1>3, <2>1, GotoNext DEF F!Invoke
<1>4. CASE F!Continue
  BY <1>4, GotoNext DEF F!Continue
<1>5. CASE UNCHANGED F!vars
  BY <1>5 DEF F!vars
<1> QED BY <1>1, <1>2, <1>3, <1>4, <1>5 DEF F!Next

LEMMA VisitedStep == FuncTypes /\ Visited /\ [F!Next]_(F!vars) => Visited'
<1> SUFFICES ASSUME FuncTypes, Visited, [F!Next]_(F!vars) PROVE Visited'
  OBVIOUS
<1>0. \A a \in FunctionAddresses : a \in Nat /\ a > 0
  <2> SUFFICES ASSUME NEW a \in FunctionAddresses PROVE a \in Nat /\ a > 0
    OBVIOUS
  <2>1. a \in Nat /\ a # 0
    BY SystemAssumption
  <2> QED BY <2>1
<1> USE DEF FuncTypes, Visited
<1>1. ASSUME NEW f \in Callbacks, NEW id \in FunctionAddresses, F!Bind(f, id) PROVE Visited'
  BY <1>1 DEF F!Bind
<1>2. ASSUME NEW n \in 1..MaxBinds, F!Unbind(n) PROVE Visited'
  BY <1>2 DEF F!Unbind
<1>3. CASE F!Invoke
  <2> DEFINE zero == [a \in FunctionAddresses |-> 0]
  <2>1. zero \in [FunctionAddresses -> Nat] /\ \A a \in FunctionAddresses : zero[a] = 0
    OBVIOUS
  <2>2. F!Goto(0, zero) /\ stayed' = DOMAIN callbacks
    BY <1>3 DEF F!Invoke
  <2> HIDE DEF zero
  <2>3. /\ it' \in FunctionAddresses \cup {0}
        /\ \A k \in DOMAIN callbacks : ran'[k] = IF k = it' THEN zero[k] + 1 ELSE zero[k]
        /\ \A k \in DOMAIN callbacks : k > 0 => it' # 0 /\ k >= it'
    BY <2>1, <2>2, GotoNext
  <2> SUFFICES ASSUME NEW k \in stayed' PROVE ran'[k] = IF it' = 0 \/ k <= it' THEN 1 ELSE 0
    OBVIOUS
  <2>5. k \in DOMAIN callbacks /\ k \in FunctionAddresses
    BY <2>2
  <2>6. zero[k] = 0
    BY <2>1, <2>5
  <2>4. k \in Nat /\ k > 0 /\ it' \in Nat
    BY <1>0, <2>3, <2>5
  <2> HIDE DEF Visited, FuncTypes
  <2> QED BY <2>3, <2>4, <2>5, <2>6
<1>4. CASE F!Continue
  <2>1. F!Goto(it, ran) /\ stayed' = stayed /\ it # 0
    BY <1>4 DEF F!Continue
  <2>2. /\ it' \in FunctionAddresses \cup {0}
        /\ it' # 0 => it' > it
        /\ \A k \in DOMAIN callbacks : ran'[k] = IF k = it' THEN ran[k] + 1 ELSE ran[k]
        /\ \A k \in DOMAIN callbacks : k > it => it' # 0 /\ k >= it'
    BY <2>1, GotoNext
  <2> SUFFICES ASSUME NEW k \in stayed PROVE ran'[k] = IF it' = 0 \/ k <= it' THEN 1 ELSE 0
    BY <2>1
  <2>5. k \in DOMAIN callbacks /\ k \in FunctionAddresses
    OBVIOUS
  <2>3. k \in Nat /\ k > 0 /\ it \in Nat /\ it' \in Nat
    BY <1>0, <2>2, <2>5
  <2>4. ran[k] = IF k <= it THEN 1 ELSE 0
    BY <2>1
  <2> HIDE DEF Visited, FuncTypes
  <2> QED BY <2>1, <2>2, <2>3, <2>4, <2>5
<1>5. CASE UNCHANGED F!vars
  BY <1>5 DEF F!vars
<1> QED BY <1>1, <1>2, <1>3, <1>4, <1>5 DEF F!Next

LEMMA OnlyBoundStep == FuncTypes /\ F!OnlyBoundRun /\ [F!Next]_(F!vars) => F!OnlyBoundRun'
<1> SUFFICES ASSUME FuncTypes, F!OnlyBoundRun, [F!Next]_(F!vars) PROVE F!OnlyBoundRun'
  OBVIOUS
<1> USE DEF FuncTypes, F!OnlyBoundRun
<1>1. ASSUME NEW f \in Callbacks, NEW id \in FunctionAddresses, F!Bind(f, id)
      PROVE  F!OnlyBoundRun'
  <2> DEFINE b == [id |-> id, callback |-> f, bound |-> TRUE]
  <2>1. callbacks' = F!Emplaced(id, f) /\ ids' = Append(ids, b)
    BY <1>1 DEF F!Bind
  <2>2. /\ Len(ids') = Len(ids) + 1 /\ ids'[Len(ids) + 1] = b
        /\ \A n \in 1..Len(ids) : ids'[n] = ids[n]
    BY <2>1, Bound
  <2>3. b.id = id /\ b.callback = f /\ b.bound
    OBVIOUS
  <2> HIDE DEF b
  <2> SUFFICES ASSUME NEW k \in DOMAIN callbacks'
               PROVE  \E n \in 1..Len(ids') : ids'[n].bound /\ ids'[n].id = k
                                              /\ ids'[n].callback = callbacks'[k]
    OBVIOUS
  <2>4. CASE k \in DOMAIN callbacks
    <3>1. callbacks'[k] = callbacks[k]
      BY <2>1, <2>4 DEF F!Emplaced
    <3>2. PICK n \in 1..Len(ids) : ids[n].bound /\ ids[n].id = k
                                   /\ ids[n].callback = callbacks[k]
      BY <2>4
    <3>3. n \in 1..Len(ids') /\ ids'[n] = ids[n]
      BY <2>2
    <3> QED BY <3>1, <3>2, <3>3, Zenon
  <2>5. CASE k \notin DOMAIN callbacks
    <3>1. k = id /\ callbacks'[k] = f
      BY <2>1, <2>5 DEF F!Emplaced
    <3>2. Len(ids) + 1 \in 1..Len(ids')
      BY <2>2
    <3> QED BY <2>2, <2>3, <3>1, <3>2, Zenon
  <2> QED BY <2>4, <2>5
<1>2. ASSUME NEW m \in 1..MaxBinds, F!Unbind(m) PROVE F!OnlyBoundRun'
  <2>1. /\ m \in 1..Len(ids) /\ callbacks' = F!Erased(ids[m].id)
        /\ ids' = [ids EXCEPT ![m].bound = FALSE]
    BY <1>2 DEF F!Unbind
  <2>2. Len(ids') = Len(ids) /\ \A n \in 1..Len(ids) \ {m} : ids'[n] = ids[n]
    BY <2>1
  <2> SUFFICES ASSUME NEW k \in DOMAIN callbacks'
               PROVE  \E n \in 1..Len(ids') : ids'[n].bound /\ ids'[n].id = k
                                              /\ ids'[n].callback = callbacks'[k]
    OBVIOUS
  <2>3. k \in DOMAIN callbacks /\ k # ids[m].id /\ callbacks'[k] = callbacks[k]
    BY <2>1 DEF F!Erased, F!Restrict
  <2>4. PICK n \in 1..Len(ids) : ids[n].bound /\ ids[n].id = k
                                 /\ ids[n].callback = callbacks[k]
    BY <2>3
  <2>5. n # m
    BY <2>3, <2>4
  <2> QED BY <2>2, <2>3, <2>4, <2>5, Zenon
<1>3. CASE F!Invoke \/ F!Continue
  BY <1>3 DEF F!Invoke, F!Continue
<1>5. CASE UNCHANGED F!vars
  BY <1>5 DEF F!vars
<1> QED BY <1>1, <1>2, <1>3, <1>5 DEF F!Next

\* Although callbacks bind and unbind while operator() walks the map, and
\* addresses are used again, only bound functions run, and those that stay
\* bound run once per invocation.
THEOREM Invoked == AllSpec => []InvokedOnce
<1>1. AllInit => FuncInv
  BY DEF AllInit, F!Init, FuncInv, FuncTypes, Visited, F!OnlyBoundRun
<1>2. FuncInv /\ [AllNext]_allVars => FuncInv'
  BY StepOfOne, FuncTypesStep, VisitedStep, OnlyBoundStep DEF FuncInv
<1>3. FuncInv => InvokedOnce
  BY DEF FuncInv, Visited, InvokedOnce, F!InvokedOnce
<1> QED BY <1>1, <1>2, <1>3, PTL DEF AllSpec

(***************************************************************************)
(* Devices.  What a function has in hand before each step, beside what the *)
(* calls before it left, when no step failed.                              *)
(***************************************************************************)
InHand ==
  [print |-> << {}, {"printer"}, {"printer"}, {"printer", "devmode"}, {"printer", "devmode"},
                {"printer", "devmode"}, {"printer", "devmode", "dc"},
                {"printer", "devmode", "dc", "doc"}, {"printer", "devmode", "dc", "doc", "page"},
                {"printer", "devmode", "dc"}, {"printer", "devmode"} >>,
   printers |-> << {}, {"printers"} >>,
   qr |-> << {}, {"symbol"}, {"symbol", "pixels"}, {"symbol", "pixels", "bmp"},
             {"symbol", "pixels"} >>,
   clsid |-> << {}, {}, {"codecs"} >>,
   cut |-> << {}, {"window"}, {"window", "bitmap"}, {"window", "bitmap", "memdc"},
              {"window", "bitmap", "memdc", "mem"},
              {"window", "bitmap", "memdc", "mem", "screen"},
              {"window", "bitmap", "memdc", "mem", "screen", "bmp"},
              {"window", "bitmap", "memdc", "screen", "bmp"},
              {"window", "bitmap", "memdc", "screen"} >>,
   save |-> << {}, {"mem"}, {"mem", "screen"}, {"mem", "screen", "bmp"}, {"screen", "bmp"} >>,
   lnk |-> << {}, {"com"}, {"com", "link"}, {"com", "link", "persist"}, {"com"} >>,
   process |-> << {}, {"handle"} >>,
   open |-> << {} >>]

\* The sets of steps that may have failed before step k: most functions return
\* at the first failure.
WentOn(f, k) ==
  CASE f = "cut" /\ k = 9 -> {{}, {4}, {6}}
    [] f = "lnk" /\ k = 4 -> {{}, {3}}
    [] f = "lnk" /\ k = 5 -> {{}, {1}, {2}, {3}}
    [] OTHER -> {{}}

\* What is in hand, also after a failure.
Holds(f, k, bad) ==
  CASE f = "cut" /\ bad = {4} -> {"window", "bitmap", "memdc"}
    [] f = "cut" /\ bad = {6} -> {"window", "bitmap", "memdc", "mem", "screen"}
    [] f = "lnk" /\ bad = {1} -> {}
    [] f = "lnk" /\ bad = {3} /\ k = 4 -> {"com", "link"}
    [] OTHER -> InHand[f][k]

\* A step that succeeds changes what is in hand to that of the next step, or
\* to what the call leaves; "persist" is freed also where it is not there.
Passes(f, s, k, n, bad) ==
  /\ s.gets \subseteq D!Resources /\ s.gets \cap (Holds(f, k, bad) \cup s.frees) = {}
  /\ k < n => /\ bad \in WentOn(f, k + 1) /\ s.frees \subseteq Holds(f, k, bad) \cup {"persist"}
              /\ Holds(f, k + 1, bad) = (Holds(f, k, bad) \ s.frees) \cup s.gets
  /\ k = n => /\ s.frees \subseteq Holds(f, k, bad) \cup D!Takes(f, bad)
              /\ D!Takes(f, bad) \subseteq s.frees \ Holds(f, k, bad)
              /\ D!Leaves(f, bad) = (Holds(f, k, bad) \ s.frees) \cup s.gets

\* So does one that fails.
Breaks(f, s, k, n, bad) ==
  s.fails =>
    /\ s.undo \subseteq Holds(f, k, bad)
    /\ s.next # 0 => /\ s.next \in 1..n /\ bad \cup {k} \in WentOn(f, s.next)
                     /\ Holds(f, s.next, bad \cup {k}) = Holds(f, k, bad) \ s.undo
    /\ s.next = 0 => /\ D!Takes(f, bad \cup {k}) = {}
                     /\ D!Leaves(f, bad \cup {k}) = Holds(f, k, bad) \ s.undo

\* Step s, the k-th of n, whichever steps failed before it.
Right(f, s, k, n) == \A bad \in WentOn(f, k) : Passes(f, s, k, n, bad) /\ Breaks(f, s, k, n, bad)

\* All steps of a function do.
AllRight(f) ==
  \A k \in 1..Len(D!Functions[f]) : Right(f, D!Functions[f][k], k, Len(D!Functions[f]))

\* The steps of every function, one after the other.
LEMMA FunctionsRight == \A f \in DOMAIN D!Functions : AllRight(f)
<1> USE DEF Right, Passes, Breaks, Holds, WentOn, InHand, D!Try, D!Do, D!Takes, D!Leaves,
            D!Resources
<1>1. AllRight("print")
  <2>0. D!Functions["print"] = D!PrinterImage /\ Len(D!PrinterImage) = 11
    BY DEF D!Functions, D!PrinterImage
  <2>1. Right("print", D!PrinterImage[1], 1, 11)
    BY DEF D!PrinterImage
  <2>2. Right("print", D!PrinterImage[2], 2, 11)
    BY DEF D!PrinterImage
  <2>3. Right("print", D!PrinterImage[3], 3, 11)
    BY DEF D!PrinterImage
  <2>4. Right("print", D!PrinterImage[4], 4, 11)
    BY DEF D!PrinterImage
  <2>5. Right("print", D!PrinterImage[5], 5, 11)
    BY DEF D!PrinterImage
  <2>6. Right("print", D!PrinterImage[6], 6, 11)
    BY DEF D!PrinterImage
  <2>7. Right("print", D!PrinterImage[7], 7, 11)
    BY DEF D!PrinterImage
  <2>8. Right("print", D!PrinterImage[8], 8, 11)
    BY DEF D!PrinterImage
  <2>9. Right("print", D!PrinterImage[9], 9, 11)
    BY DEF D!PrinterImage
  <2>10. Right("print", D!PrinterImage[10], 10, 11)
    BY DEF D!PrinterImage
  <2>11. Right("print", D!PrinterImage[11], 11, 11)
    BY DEF D!PrinterImage
  <2> HIDE DEF Right, D!Try, D!Do
  <2> QED BY <2>0, <2>1, <2>2, <2>3, <2>4, <2>5, <2>6, <2>7, <2>8, <2>9, <2>10, <2>11 DEF AllRight
<1>2. AllRight("printers")
  <2>0. D!Functions["printers"] = D!FindPrinters /\ Len(D!FindPrinters) = 2
    BY DEF D!Functions, D!FindPrinters
  <2>1. Right("printers", D!FindPrinters[1], 1, 2)
    BY DEF D!FindPrinters
  <2>2. Right("printers", D!FindPrinters[2], 2, 2)
    BY DEF D!FindPrinters
  <2> HIDE DEF Right, D!Try, D!Do
  <2> QED BY <2>0, <2>1, <2>2 DEF AllRight
<1>3. AllRight("qr")
  <2>0. D!Functions["qr"] = D!BuildQRcode /\ Len(D!BuildQRcode) = 5
    BY DEF D!Functions, D!BuildQRcode
  <2>1. Right("qr", D!BuildQRcode[1], 1, 5)
    BY DEF D!BuildQRcode
  <2>2. Right("qr", D!BuildQRcode[2], 2, 5)
    BY DEF D!BuildQRcode
  <2>3. Right("qr", D!BuildQRcode[3], 3, 5)
    BY DEF D!BuildQRcode
  <2>4. Right("qr", D!BuildQRcode[4], 4, 5)
    BY DEF D!BuildQRcode
  <2>5. Right("qr", D!BuildQRcode[5], 5, 5)
    BY DEF D!BuildQRcode
  <2> HIDE DEF Right, D!Try, D!Do
  <2> QED BY <2>0, <2>1, <2>2, <2>3, <2>4, <2>5 DEF AllRight
<1>4. AllRight("clsid")
  <2>0. D!Functions["clsid"] = D!GetEncoderClsid /\ Len(D!GetEncoderClsid) = 3
    BY DEF D!Functions, D!GetEncoderClsid
  <2>1. Right("clsid", D!GetEncoderClsid[1], 1, 3)
    BY DEF D!GetEncoderClsid
  <2>2. Right("clsid", D!GetEncoderClsid[2], 2, 3)
    BY DEF D!GetEncoderClsid
  <2>3. Right("clsid", D!GetEncoderClsid[3], 3, 3)
    BY DEF D!GetEncoderClsid
  <2> HIDE DEF Right, D!Try, D!Do
  <2> QED BY <2>0, <2>1, <2>2, <2>3 DEF AllRight
<1>5. AllRight("cut")
  <2>0. D!Functions["cut"] = D!CutWindowBitmap /\ Len(D!CutWindowBitmap) = 9
    BY DEF D!Functions, D!CutWindowBitmap, D!SaveBitmapToFile
  <2>1. D!CutWindowBitmap[1] = D!Do({"window"}, {}) /\ Right("cut", D!Do({"window"}, {}), 1, 9)
    <3>1. D!CutWindowBitmap[1] = D!Do({"window"}, {})
      <4> HIDE DEF D!Try, D!Do
      <4> QED BY DEF D!CutWindowBitmap, D!SaveBitmapToFile
    <3>2. Right("cut", D!Do({"window"}, {}), 1, 9)
      OBVIOUS
    <3> HIDE DEF Right, D!Try, D!Do
    <3> QED BY <3>1, <3>2
  <2>2. D!CutWindowBitmap[2] = D!Do({"bitmap"}, {}) /\ Right("cut", D!Do({"bitmap"}, {}), 2, 9)
    <3>1. D!CutWindowBitmap[2] = D!Do({"bitmap"}, {})
      <4> HIDE DEF D!Try, D!Do
      <4> QED BY DEF D!CutWindowBitmap, D!SaveBitmapToFile
    <3>2. Right("cut", D!Do({"bitmap"}, {}), 2, 9)
      OBVIOUS
    <3> HIDE DEF Right, D!Try, D!Do
    <3> QED BY <3>1, <3>2
  <2>3. D!CutWindowBitmap[3] = D!Do({"memdc"}, {}) /\ Right("cut", D!Do({"memdc"}, {}), 3, 9)
    <3>1. D!CutWindowBitmap[3] = D!Do({"memdc"}, {})
      <4> HIDE DEF D!Try, D!Do
      <4> QED BY DEF D!CutWindowBitmap, D!SaveBitmapToFile
    <3>2. Right("cut", D!Do({"memdc"}, {}), 3, 9)
      OBVIOUS
    <3> HIDE DEF Right, D!Try, D!Do
    <3> QED BY <3>1, <3>2
  <2>4. D!CutWindowBitmap[4] = D!Try({"mem"}, {}, 9) /\ Right("cut", D!Try({"mem"}, {}, 9), 4, 9)
    <3>1. D!CutWindowBitmap[4] = D!Try({"mem"}, {}, 9)
      <4> HIDE DEF D!Try, D!Do
      <4> QED BY DEF D!CutWindowBitmap, D!SaveBitmapToFile
    <3>2. Right("cut", D!Try({"mem"}, {}, 9), 4, 9)
      OBVIOUS
    <3> HIDE DEF Right, D!Try, D!Do
    <3> QED BY <3>1, <3>2
  <2>5. D!CutWindowBitmap[5] = D!Do({"screen"}, {}) /\ Right("cut", D!Do({"screen"}, {}), 5, 9)
    <3>1. D!CutWindowBitmap[5] = D!Do({"screen"}, {})
      <4> HIDE DEF D!Try, D!Do
      <4> QED BY DEF D!CutWindowBitmap, D!SaveBitmapToFile
    <3>2. Right("cut", D!Do({"screen"}, {}), 5, 9)
      OBVIOUS
    <3> HIDE DEF Right, D!Try, D!Do
    <3> QED BY <3>1, <3>2
  <2>6. D!CutWindowBitmap[6] = D!Try({"bmp"}, {}, 9) /\ Right("cut", D!Try({"bmp"}, {}, 9), 6, 9)
    <3>1. D!CutWindowBitmap[6] = D!Try({"bmp"}, {}, 9)
      <4> HIDE DEF D!Try, D!Do
      <4> QED BY DEF D!CutWindowBitmap, D!SaveBitmapToFile
    <3>2. Right("cut", D!Try({"bmp"}, {}, 9), 6, 9)
      OBVIOUS
    <3> HIDE DEF Right, D!Try, D!Do
    <3> QED BY <3>1, <3>2
  <2>7. D!CutWindowBitmap[7] = D!Do({}, {"mem"}) /\ Right("cut", D!Do({}, {"mem"}), 7, 9)
    <3>1. D!CutWindowBitmap[7] = D!Do({}, {"mem"})
      <4> HIDE DEF D!Try, D!Do
      <4> QED BY DEF D!CutWindowBitmap, D!SaveBitmapToFile
    <3>2. Right("cut", D!Do({}, {"mem"}), 7, 9)
      OBVIOUS
    <3> HIDE DEF Right, D!Try, D!Do
    <3> QED BY <3>1, <3>2
  <2>8. D!CutWindowBitmap[8] = D!Do({}, {"bmp"}) /\ Right("cut", D!Do({}, {"bmp"}), 8, 9)
    <3>1. D!CutWindowBitmap[8] = D!Do({}, {"bmp"})
      <4> HIDE DEF D!Try, D!Do
      <4> QED BY DEF D!CutWindowBitmap, D!SaveBitmapToFile
    <3>2. Right("cut", D!Do({}, {"bmp"}), 8, 9)
      OBVIOUS
    <3> HIDE DEF Right, D!Try, D!Do
    <3> QED BY <3>1, <3>2
  <2>9. D!CutWindowBitmap[9] = D!Do({}, {"window"}) /\ Right("cut", D!Do({}, {"window"}), 9, 9)
    <3>1. D!CutWindowBitmap[9] = D!Do({}, {"window"})
      <4> HIDE DEF D!Try, D!Do
      <4> QED BY DEF D!CutWindowBitmap, D!SaveBitmapToFile
    <3>2. Right("cut", D!Do({}, {"window"}), 9, 9)
      OBVIOUS
    <3> HIDE DEF Right, D!Try, D!Do
    <3> QED BY <3>1, <3>2
  <2> HIDE DEF Right, D!Try, D!Do
  <2> QED BY <2>0, <2>1, <2>2, <2>3, <2>4, <2>5, <2>6, <2>7, <2>8, <2>9 DEF AllRight
<1>6. AllRight("save")
  <2> DEFINE Save == D!SaveBitmapToFile(0)
  <2>0. D!Functions["save"] = Save /\ Len(Save) = 5
    BY DEF D!Functions, D!SaveBitmapToFile
  <2>1. Right("save", Save[1], 1, 5)
    BY DEF D!SaveBitmapToFile
  <2>2. Right("save", Save[2], 2, 5)
    BY DEF D!SaveBitmapToFile
  <2>3. Right("save", Save[3], 3, 5)
    BY DEF D!SaveBitmapToFile
  <2>4. Right("save", Save[4], 4, 5)
    BY DEF D!SaveBitmapToFile
  <2>5. Right("save", Save[5], 5, 5)
    BY DEF D!SaveBitmapToFile
  <2> HIDE DEF Save, Right, D!Try, D!Do
  <2> QED BY <2>0, <2>1, <2>2, <2>3, <2>4, <2>5 DEF AllRight
<1>7. AllRight("lnk")
  <2>0. D!Functions["lnk"] = D!CreateDesktopLnk /\ Len(D!CreateDesktopLnk) = 5
    BY DEF D!Functions, D!CreateDesktopLnk
  <2>1. Right("lnk", D!CreateDesktopLnk[1], 1, 5)
    BY DEF D!CreateDesktopLnk
  <2>2. Right("lnk", D!CreateDesktopLnk[2], 2, 5)
    BY DEF D!CreateDesktopLnk
  <2>3. Right("lnk", D!CreateDesktopLnk[3], 3, 5)
    BY DEF D!CreateDesktopLnk
  <2>4. Right("lnk", D!CreateDesktopLnk[4], 4, 5)
    BY DEF D!CreateDesktopLnk
  <2>5. Right("lnk", D!CreateDesktopLnk[5], 5, 5)
    BY DEF D!CreateDesktopLnk
  <2> HIDE DEF Right, D!Try, D!Do
  <2> QED BY <2>0, <2>1, <2>2, <2>3, <2>4, <2>5 DEF AllRight
<1>8. AllRight("process")
  <2>0. D!Functions["process"] = D!WithHandle /\ Len(D!WithHandle) = 2
    BY DEF D!Functions, D!WithHandle
  <2>1. Right("process", D!WithHandle[1], 1, 2)
    BY DEF D!WithHandle
  <2>2. Right("process", D!WithHandle[2], 2, 2)
    BY DEF D!WithHandle
  <2> HIDE DEF Right, D!Try, D!Do
  <2> QED BY <2>0, <2>1, <2>2 DEF AllRight
<1>9. AllRight("open")
  <2>0. D!Functions["open"] = D!OpenProcess /\ Len(D!OpenProcess) = 1
    BY DEF D!Functions, D!OpenProcess
  <2>1. Right("open", D!OpenProcess[1], 1, 1)
    BY DEF D!OpenProcess
  <2> HIDE DEF Right, D!Try, D!Do
  <2> QED BY <2>0, <2>1 DEF AllRight
<1> QED BY <1>1, <1>2, <1>3, <1>4, <1>5, <1>6, <1>7, <1>8, <1>9 DEF D!Functions

\* To free what was got again, and to get what is not there.
LEMMA Moved ==
  ASSUME NEW h \in [D!Resources -> Nat], NEW hand, NEW gets, NEW frees, NEW Gone \in SUBSET frees,
         gets \cap (hand \cup frees) = {}, Gone \cap hand = {},
         \A r \in frees : r \in hand \/ r \in Gone \/ (r \in D!Resources => h[r] = 0)
  PROVE  D!Plus(D!Minus(D!Plus(h, hand), frees), gets)
           = D!Plus(D!Minus(h, Gone), (hand \ frees) \cup gets)
<1> DEFINE a == D!Plus(D!Minus(D!Plus(h, hand), frees), gets)
           b == D!Plus(D!Minus(h, Gone), (hand \ frees) \cup gets)
<1>1. ASSUME NEW r \in D!Resources PROVE a[r] = b[r]
  BY DEF D!Plus, D!Minus
<1>2. a = [r \in D!Resources |-> a[r]] /\ b = [r \in D!Resources |-> b[r]]
  BY DEF D!Plus, D!Minus
<1> HIDE DEF a, b
<1>3. a = b
  BY <1>1, <1>2
<1> QED BY <1>3 DEF a, b

\* Nothing got and nothing freed; otherwise only what is named changes.
LEMMA Nothing ==
  ASSUME NEW h \in [D!Resources -> Nat], NEW hand
  PROVE  /\ D!Minus(h, {}) = h /\ D!Plus(h, {}) = h
         /\ D!Minus(h, hand) \in [D!Resources -> Nat] /\ D!Plus(h, hand) \in [D!Resources -> Nat]
         /\ \A r \in D!Resources : r \notin hand => D!Plus(h, hand)[r] = h[r]
         /\ \A r \in D!Resources : D!Minus(h, hand)[r] <= h[r]
BY DEF D!Plus, D!Minus

\* Between calls the program holds what the calls have left, and during one
\* also what the function has in hand.
DeviceInv ==
  /\ left \in [D!Resources -> Nat] /\ left["persist"] = 0
  /\ fn = "none" => held = left /\ step = 1 /\ failed = {}
  /\ fn # "none" => /\ fn \in DOMAIN D!Functions /\ step \in 1..Len(D!Functions[fn])
                    /\ failed \in WentOn(fn, step)
                    /\ held = D!Plus(left, Holds(fn, step, failed))

\* The token tells that GDI+ was started, also after it was shut down.
GdiInv == gdiplusToken = inits /\ (shut => inits) /\ gdiplus = (inits /\ ~shut)

\* No call leaves a file interface of a link.
LEMMA NoPersist == \A f, bad : "persist" \notin D!Leaves(f, bad)
BY DEF D!Leaves

\* At first nothing is in hand.
LEMMA FirstStep ==
  ASSUME NEW f \in DOMAIN D!Functions
  PROVE  1 \in 1..Len(D!Functions[f]) /\ {} \in WentOn(f, 1) /\ Holds(f, 1, {}) = {}
BY DEF D!Functions, WentOn, Holds, InHand, D!PrinterImage, D!FindPrinters, D!BuildQRcode,
       D!GetEncoderClsid, D!CutWindowBitmap, D!SaveBitmapToFile, D!CreateDesktopLnk, D!WithHandle,
       D!OpenProcess

\* A step of a function, whether it succeeds or fails, a call and a return.
LEMMA DeviceStep == DeviceInv /\ [D!Next]_(D!vars) => DeviceInv'
<1> SUFFICES ASSUME DeviceInv, [D!Next]_(D!vars) PROVE DeviceInv'
  OBVIOUS
<1>0. left \in [D!Resources -> Nat] /\ left["persist"] = 0 /\ "persist" \in D!Resources
  BY DEF DeviceInv, D!Resources
<1>1. ASSUME fn # "none", D!Succeed \/ D!Fail PROVE DeviceInv'
  <2> DEFINE n == Len(D!Functions[fn])
             s == D!Functions[fn][step]
             hand == Holds(fn, step, failed)
  <2>1. /\ fn \in DOMAIN D!Functions /\ step \in 1..n /\ failed \in WentOn(fn, step)
        /\ held = D!Plus(left, hand) /\ n \in Nat
    <3>1. n \in Nat
      BY <1>1 DEF DeviceInv, D!Succeed, D!Fail, D!Functions, D!PrinterImage, D!FindPrinters,
        D!BuildQRcode, D!GetEncoderClsid, D!CutWindowBitmap, D!SaveBitmapToFile,
        D!CreateDesktopLnk, D!WithHandle, D!OpenProcess
    <3> QED BY <1>1, <3>1 DEF DeviceInv
  <2>2. Passes(fn, s, step, n, failed) /\ Breaks(fn, s, step, n, failed)
    BY <2>1, FunctionsRight DEF AllRight, Right
  <2> HIDE DEF n, s, hand
  <2>3. ASSUME D!Succeed PROVE DeviceInv'
    <3>1. held' = D!Plus(D!Minus(held, s.frees), s.gets) /\ D!Go(step + 1, failed)
      BY <2>3 DEF D!Succeed, s
    <3>2. s.gets \cap (hand \cup s.frees) = {}
      BY <2>2 DEF Passes, hand
    <3>3. CASE step < n
      <4>1. /\ failed \in WentOn(fn, step + 1) /\ s.frees \subseteq hand \cup {"persist"}
            /\ Holds(fn, step + 1, failed) = (hand \ s.frees) \cup s.gets
        BY <2>2, <3>3 DEF Passes, hand
      <4>2. step + 1 # 0 /\ step + 1 \in 1..n /\ ~(step + 1 > n)
        BY <2>1, <3>3
      <4>3. step' = step + 1 /\ failed' = failed /\ fn' = fn /\ left' = left
        BY <3>1, <4>2 DEF D!Go, n
      <4>4. D!Plus(D!Minus(D!Plus(left, hand), s.frees), s.gets)
              = D!Plus(D!Minus(left, {}), (hand \ s.frees) \cup s.gets)
        BY <1>0, <3>2, <4>1, Moved
      <4>5. held' = D!Plus(left, Holds(fn, step + 1, failed))
        BY <1>0, <2>1, <3>1, <4>1, <4>4, Nothing
      <4> QED BY <1>0, <1>1, <2>1, <4>1, <4>2, <4>3, <4>5 DEF DeviceInv, n
    <3>4. CASE step = n
      <4> DEFINE Gone == D!Takes(fn, failed)
                 L == D!Leaves(fn, failed)
      <4>1. /\ s.frees \subseteq hand \cup Gone /\ Gone \subseteq s.frees \ hand
            /\ L = (hand \ s.frees) \cup s.gets
        BY <2>2, <3>4 DEF Passes, hand
      <4>2. step + 1 > n
        BY <2>1, <3>4
      <4>3. /\ step' = 1 /\ failed' = {} /\ fn' = "none"
            /\ left' = D!Plus(D!Minus(left, Gone), L)
        BY <3>1, <4>2 DEF D!Go, n
      <4>4. "persist" \notin L
        BY NoPersist
      <4> HIDE DEF Gone, L
      <4>5. D!Plus(D!Minus(D!Plus(left, hand), s.frees), s.gets)
              = D!Plus(D!Minus(left, Gone), (hand \ s.frees) \cup s.gets)
        BY <1>0, <3>2, <4>1, Moved
      <4>6. held' = left'
        BY <2>1, <3>1, <4>1, <4>3, <4>5
      <4>7. left' \in [D!Resources -> Nat] /\ left'["persist"] = 0
        <5> DEFINE h == D!Minus(left, Gone)
        <5>1. h \in [D!Resources -> Nat] /\ h["persist"] <= 0
          BY <1>0, Nothing
        <5> HIDE DEF h
        <5>2. D!Plus(h, L) \in [D!Resources -> Nat] /\ D!Plus(h, L)["persist"] = h["persist"]
          BY <1>0, <4>4, <5>1, Nothing
        <5>3. h["persist"] \in Nat
          BY <1>0, <5>1
        <5> QED BY <4>3, <5>1, <5>2, <5>3 DEF h
      <4> QED BY <4>3, <4>6, <4>7 DEF DeviceInv
    <3> QED BY <2>1, <3>3, <3>4
  <2>4. ASSUME D!Fail PROVE DeviceInv'
    <3> DEFINE bad == failed \cup {step}
    <3>1. s.fails /\ held' = D!Minus(held, s.undo) /\ D!Go(s.next, bad)
      BY <2>4 DEF D!Fail, s
    <3> HIDE DEF bad
    <3>2. s.undo \subseteq hand
      BY <2>2, <3>1 DEF Breaks, hand
    <3>3. D!Minus(D!Plus(left, hand), s.undo) = D!Plus(left, hand \ s.undo)
      <4>1. D!Plus(left, hand) \in [D!Resources -> Nat]
        BY <1>0, Nothing
      <4>2. D!Minus(D!Plus(left, hand), s.undo) \in [D!Resources -> Nat]
        BY <4>1, Nothing
      <4>3. D!Plus(D!Minus(D!Plus(left, hand), s.undo), {}) = D!Minus(D!Plus(left, hand), s.undo)
        BY <4>2, Nothing
      <4>4. D!Minus(left, {}) = left
        BY <1>0, Nothing
      <4>5. D!Plus(D!Minus(D!Plus(left, hand), s.undo), {})
              = D!Plus(D!Minus(left, {}), (hand \ s.undo) \cup {})
        BY <1>0, <3>2, Moved
      <4>6. (hand \ s.undo) \cup {} = hand \ s.undo
        OBVIOUS
      <4> QED BY <4>3, <4>4, <4>5, <4>6
    <3>4. CASE s.next # 0
      <4>1. s.next \in 1..n /\ bad \in WentOn(fn, s.next) /\ Holds(fn, s.next, bad) = hand \ s.undo
        BY <2>2, <3>1, <3>4 DEF Breaks, hand, bad
      <4>2. ~(s.next > n)
        BY <2>1, <4>1
      <4>3. step' = s.next /\ failed' = bad /\ fn' = fn /\ left' = left
        BY <3>1, <3>4, <4>2 DEF D!Go, n
      <4> QED BY <1>0, <1>1, <2>1, <3>1, <3>3, <4>1, <4>3 DEF DeviceInv, n
    <3>5. CASE s.next = 0
      <4>1. D!Takes(fn, bad) = {} /\ D!Leaves(fn, bad) = hand \ s.undo
        BY <2>2, <3>1, <3>5 DEF Breaks, hand, bad
      <4>2. /\ step' = 1 /\ failed' = {} /\ fn' = "none"
            /\ left' = D!Plus(D!Minus(left, D!Takes(fn, bad)), D!Leaves(fn, bad))
        BY <3>1, <3>5 DEF D!Go
      <4>3. left' = D!Plus(left, hand \ s.undo) /\ "persist" \notin hand \ s.undo
        BY <1>0, <4>1, <4>2, Nothing, NoPersist
      <4>4. left' \in [D!Resources -> Nat] /\ left'["persist"] = 0
        BY <1>0, <4>3, Nothing
      <4>5. held' = left'
        BY <2>1, <3>1, <3>3, <4>3
      <4> QED BY <4>2, <4>4, <4>5 DEF DeviceInv
    <3> QED BY <3>4, <3>5
  <2> QED BY <1>1, <2>3, <2>4
<1>2. ASSUME NEW f \in DOMAIN D!Functions, D!Call(f) PROVE DeviceInv'
  <2>1. fn = "none" /\ fn' = f /\ held' = held /\ step' = step /\ failed' = failed /\ left' = left
    BY <1>2 DEF D!Call
  <2>2. held = left /\ step = 1 /\ failed = {}
    BY <2>1 DEF DeviceInv
  <2>3. held' = D!Plus(left', Holds(f, 1, {}))
    BY <1>0, <2>1, <2>2, FirstStep, Nothing
  <2>4. f # "none"
    BY DEF D!Functions
  <2> QED BY <1>0, <2>1, <2>2, <2>3, <2>4, FirstStep DEF DeviceInv
<1>3. ASSUME UNCHANGED <<held, fn, step, failed, left>> PROVE DeviceInv'
  BY <1>3 DEF DeviceInv
<1>4. CASE D!GdiCleanUp \/ \E ok \in BOOLEAN : D!GdiInit(ok)
  BY <1>3, <1>4 DEF D!GdiCleanUp, D!GdiInit
<1>5. CASE UNCHANGED D!vars
  BY <1>3, <1>5 DEF D!vars
<1>6. D!Succeed \/ D!Fail => fn # "none"
  BY DEF D!Succeed, D!Fail
<1> QED BY <1>1, <1>2, <1>4, <1>5, <1>6 DEF D!Next

\* Init and CleanUp.
LEMMA GdiStep == GdiInv /\ [D!Next]_(D!vars) => GdiInv'
<1> SUFFICES ASSUME GdiInv, [D!Next]_(D!vars) PROVE GdiInv'
  OBVIOUS
<1>1. ASSUME NEW ok \in BOOLEAN, D!GdiInit(ok) PROVE GdiInv'
  BY <1>1, Zenon DEF GdiInv, D!GdiInit
<1>2. CASE D!GdiCleanUp
  BY <1>2, Zenon DEF GdiInv, D!GdiCleanUp
<1>3. ASSUME UNCHANGED D!gdi PROVE GdiInv'
  BY <1>3 DEF GdiInv, D!gdi
<1>4. ASSUME NEW f \in DOMAIN D!Functions, D!Call(f) PROVE UNCHANGED D!gdi
  BY <1>4 DEF D!Call
<1>5. D!Succeed \/ D!Fail => UNCHANGED D!gdi
  BY DEF D!Succeed, D!Fail, D!Go
<1>6. CASE UNCHANGED D!vars
  BY <1>3, <1>6 DEF D!vars, D!gdi
<1> QED BY <1>1, <1>2, <1>3, <1>4, <1>5, <1>6 DEF D!Next

\* In whatever order the functions are called and whichever of their calls of
\* the system fail, the program holds what the paths that were taken neglect,
\* and nothing else; GDI+ runs from the first Init to the first CleanUp.
THEOREM Released == AllSpec => []DevicesReleased
<1>1. AllInit => DeviceInv /\ GdiInv
  <2> SUFFICES ASSUME D!Init PROVE DeviceInv /\ GdiInv
    BY DEF AllInit
  <2>1. GdiInv
    BY Zenon DEF D!Init, GdiInv
  <2>2. DeviceInv
    BY DEF D!Init, DeviceInv, D!Resources
  <2> QED BY <2>1, <2>2
<1>2. DeviceInv /\ GdiInv /\ [AllNext]_allVars => (DeviceInv /\ GdiInv)'
  BY StepOfOne, DeviceStep, GdiStep
<1>3. DeviceInv /\ GdiInv => DevicesReleased
  BY DEF DeviceInv, GdiInv, DevicesReleased, D!DevicesReleased
<1> QED BY <1>1, <1>2, <1>3, PTL DEF AllSpec

(***************************************************************************)
(* Searching in strings.  Positions count from 0, the places in a sequence *)
(* from 1; Fn is the module with the functions.                            *)
(***************************************************************************)

LEMMA Greatest ==
  ASSUME NEW n \in Int, NEW X, X \subseteq 0..n, X # {}
  PROVE  Fn!Max(X) \in X /\ \A y \in X : Fn!Max(X) >= y
<1> DEFINE Y == {n - x : x \in X}
<1>1. Y \subseteq Nat /\ Y # {}
  <2>1. \A x \in X : x \in Int /\ x <= n
    OBVIOUS
  <2>2. \A x \in X : n - x \in Nat
    BY <2>1
  <2> QED BY <2>2
<1> HIDE DEF Y
<1>2. PICK m \in Y : \A y \in Y : m <= y
  BY <1>1, Least
<1>3. PICK x \in X : m = n - x
  BY DEF Y
<1>4. ASSUME NEW y \in X PROVE x >= y
  <2>1. n - x <= n - y
    BY <1>2, <1>3 DEF Y
  <2> QED BY <2>1
<1>5. \E z \in X : \A y \in X : z >= y
  BY <1>4
<1> QED BY <1>5 DEF Fn!Max

\* The place of the last c in s, 0 if there is none.
IsLast(s, c, k) ==
  /\ k \in 0..Len(s) /\ (k > 0 => s[k] = c)
  /\ \A j \in 1..Len(s) : j > k => s[j] # c

LEMMA OccursIsAt ==
  ASSUME NEW X, NEW s \in Seq(X), NEW c, NEW p \in 0..Len(s)
  PROVE  Fn!OccursAt(s, <<c>>, p) <=> p < Len(s) /\ s[p + 1] = c
<1>1. Len(<<c>>) = 1 /\ Len(s) \in Nat
  OBVIOUS
<1>2. CASE p < Len(s)
  <2> DEFINE u == SubSeq(s, p + 1, p + 1)
             v == <<c>>
  <2>0. p + 1 \in Nat /\ p + 1 \in 1..Len(s) /\ (p + 1) - (p + 1) + 1 = 1
    BY <1>1, <1>2
  <2>1. u \in Seq(X) /\ Len(u) = 1 /\ u[1] = s[p + 1]
    <3> DEFINE q == p + 1
    <3>1. q \in 1..Len(s) /\ u = SubSeq(s, q, q)
      BY <2>0
    <3> HIDE DEF q, u
    <3>2. q \in Int /\ \A i \in q..q : s[i] \in X
      BY <1>1, <3>1
    <3>3. /\ u \in Seq(X) /\ Len(u) = IF q <= q THEN q - q + 1 ELSE 0
          /\ \A j \in 1..(q - q + 1) : u[j] = s[q + j - 1]
      BY <3>1, <3>2, SubSeqProperties
    <3>4. u \in Seq(X) /\ Len(u) = 1 /\ u[1] = s[q]
      <4>1. (q <= q) /\ q - q + 1 = 1 /\ 1 \in 1..(q - q + 1) /\ q + 1 - 1 = q
        BY <3>2
      <4> QED BY <3>3, <4>1
    <3> QED BY <3>4 DEF q
  <2>2. v \in Seq({c}) /\ Len(v) = 1 /\ v[1] = c
    OBVIOUS
  <2> HIDE DEF u, v
  <2>3. u = v <=> s[p + 1] = c
    BY <2>1, <2>2
  <2>4. p + 1 <= Len(s)
    BY <1>1, <1>2
  <2> USE DEF u, v
  <2> QED BY <1>1, <1>2, <2>3, <2>4 DEF Fn!OccursAt
<1>3. CASE ~(p < Len(s))
  BY <1>1, <1>3 DEF Fn!OccursAt
<1> QED BY <1>2, <1>3

LEMMA LastIsFound ==
  ASSUME NEW X, NEW s \in Seq(X), NEW c
  PROVE  Fn!rfind(s, <<c>>) \in Int /\ IsLast(s, c, Fn!rfind(s, <<c>>) + 1)
<1> DEFINE P == Fn!Positions(s, <<c>>, 0)
<1>1. /\ P \subseteq 0..Len(s) /\ Len(s) \in Nat
      /\ \A k \in 1..Len(s) : s[k] = c <=> k - 1 \in P
      /\ \A p \in P : p < Len(s) /\ s[p + 1] = c
  <2>1. ASSUME NEW p \in 0..Len(s) PROVE p \in P <=> p < Len(s) /\ s[p + 1] = c
    <3>1. Fn!OccursAt(s, <<c>>, p) <=> p < Len(s) /\ s[p + 1] = c
      BY OccursIsAt
    <3> QED BY <3>1 DEF Fn!Positions
  <2>2. P \subseteq 0..Len(s) /\ Len(s) \in Nat
    BY DEF Fn!Positions
  <2> HIDE DEF P
  <2>3. ASSUME NEW k \in 1..Len(s) PROVE s[k] = c <=> k - 1 \in P
    <3>1. k - 1 \in 0..Len(s) /\ k - 1 < Len(s) /\ k - 1 + 1 = k
      BY <2>2
    <3> QED BY <2>1, <3>1
  <2> QED BY <2>1, <2>2, <2>3
<1> HIDE DEF P
<1>2. CASE P = {}
  <2>1. Fn!rfind(s, <<c>>) = -1
    BY <1>2 DEF P, Fn!rfind, Fn!npos
  <2> QED BY <1>1, <1>2, <2>1 DEF IsLast
<1>3. CASE P # {}
  <2> DEFINE r == Fn!Max(P)
  <2>1. r \in P /\ \A p \in P : r >= p
    <3> DEFINE n == Len(s)
    <3>1. n \in Int /\ P \subseteq 0..n
      BY <1>1
    <3> HIDE DEF n
    <3> QED BY <1>3, <3>1, Greatest
  <2>2. Fn!rfind(s, <<c>>) = r
    BY <1>3 DEF P, Fn!rfind
  <2> HIDE DEF r
  <2>3. ASSUME NEW j \in 1..Len(s), j > r + 1 PROVE s[j] # c
    <3>1. ~(r >= j - 1)
      BY <1>1, <2>1, <2>3
    <3> QED BY <1>1, <2>1, <3>1
  <2>4. r + 1 \in 0..Len(s) /\ s[r + 1] = c /\ r \in Int
    BY <1>1, <2>1
  <2> QED BY <2>2, <2>3, <2>4 DEF IsLast
<1> QED BY <1>2, <1>3

LEMMA HoldsIs ==
  ASSUME NEW X, NEW s \in Seq(X), NEW c
  PROVE  Fn!Holds(s, <<c>>) <=> \E k \in 1..Len(s) : s[k] = c
<1> DEFINE P == Fn!Positions(s, <<c>>, 0)
<1>1. P # {} <=> \E k \in 1..Len(s) : s[k] = c
  <2>1. ASSUME NEW p \in 0..Len(s) PROVE p \in P <=> p < Len(s) /\ s[p + 1] = c
    <3>1. Fn!OccursAt(s, <<c>>, p) <=> p < Len(s) /\ s[p + 1] = c
      BY OccursIsAt
    <3> QED BY <3>1 DEF Fn!Positions
  <2>2. P \subseteq 0..Len(s) /\ Len(s) \in Nat
    BY DEF Fn!Positions
  <2> HIDE DEF P
  <2>3. ASSUME NEW k \in 1..Len(s), s[k] = c PROVE P # {}
    <3>1. k - 1 \in 0..Len(s) /\ k - 1 < Len(s) /\ k - 1 + 1 = k
      BY <2>2
    <3> QED BY <2>1, <2>3, <3>1
  <2>4. ASSUME NEW p \in P PROVE \E k \in 1..Len(s) : s[k] = c
    <3>1. p \in 0..Len(s) /\ p < Len(s) /\ s[p + 1] = c
      BY <2>1, <2>2
    <3>2. p + 1 \in 1..Len(s)
      BY <2>2, <3>1
    <3> QED BY <3>1, <3>2
  <2> QED BY <2>3, <2>4
<1>2. P # {} => Fn!Min(P) \in P
  <2>1. P \subseteq Nat
    BY DEF Fn!Positions
  <2> HIDE DEF P
  <2>2. SUFFICES ASSUME P # {} PROVE Fn!Min(P) \in P
    OBVIOUS
  <2>3. \E x \in P : \A y \in P : x <= y
    BY <2>1, <2>2, Least
  <2> QED BY <2>3 DEF Fn!Min
<1>3. P \subseteq Nat
  BY DEF Fn!Positions
<1> HIDE DEF P
<1>4. Fn!find(s, <<c>>, 0) = IF P = {} THEN -1 ELSE Fn!Min(P)
  BY DEF P, Fn!find, Fn!npos
<1>5. CASE P = {}
  BY <1>1, <1>4, <1>5 DEF Fn!Holds, Fn!npos
<1>6. CASE P # {}
  <2>1. Fn!find(s, <<c>>, 0) \in Nat
    BY <1>2, <1>3, <1>4, <1>6
  <2> QED BY <1>1, <1>6, <2>1 DEF Fn!Holds, Fn!npos
<1> QED BY <1>5, <1>6

(***************************************************************************)
(* Path: the functions that take names apart.                              *)
(***************************************************************************)

\* A part of a sequence, as substr takes it.
LEMMA PartOf ==
  ASSUME NEW X, NEW s \in Seq(X), NEW i \in 1..(Len(s) + 1), NEW j \in 0..Len(s), i <= j + 1
  PROVE  /\ SubSeq(s, i, j) \in Seq(X) /\ Len(SubSeq(s, i, j)) = j - i + 1
         /\ \A k \in 1..(j - i + 1) : SubSeq(s, i, j)[k] = s[i + k - 1]
BY SMT

\* Parts that follow each other.
LEMMA PartsJoined ==
  ASSUME NEW X, NEW s \in Seq(X), NEW t \in Seq(X), Len(t) = Len(s),
         NEW i \in 1..Len(s), NEW j \in 0..Len(s), i <= j + 1,
         \A k \in i..j : t[k] = s[k]
  PROVE  SubSeq(t, i, j) \o SubSeq(s, j + 1, Len(s)) = SubSeq(s, i, Len(s))
<1> DEFINE u == SubSeq(t, i, j)
           v == SubSeq(s, j + 1, Len(s))
           w == SubSeq(s, i, Len(s))
           m == j - i + 1
           n == Len(s) - j
<1>1. Len(s) \in Nat /\ m \in Nat /\ n \in Nat
  OBVIOUS
<1>2. u \in Seq(X) /\ Len(u) = m /\ \A k \in 1..m : u[k] = s[i + k - 1]
  BY PartOf
<1>3. v \in Seq(X) /\ Len(v) = n /\ \A k \in 1..n : v[k] = s[j + k]
  BY PartOf
<1>4. w \in Seq(X) /\ Len(w) = m + n /\ \A k \in 1..(m + n) : w[k] = s[i + k - 1]
  <2> DEFINE l == Len(s)
  <2>1. l \in 0..Len(s) /\ i <= l + 1 /\ l - i + 1 = m + n /\ i \in 1..(Len(s) + 1)
    BY <1>1
  <2> HIDE DEF l, m, n
  <2>2. /\ SubSeq(s, i, l) \in Seq(X) /\ Len(SubSeq(s, i, l)) = l - i + 1
        /\ \A k \in 1..(l - i + 1) : SubSeq(s, i, l)[k] = s[i + k - 1]
    BY <2>1, PartOf
  <2> QED BY <2>1, <2>2 DEF l
<1> HIDE DEF u, v, w
<1>5. /\ u \o v \in Seq(X) /\ Len(u \o v) = m + n
      /\ \A k \in 1..(m + n) : (u \o v)[k] = IF k <= m THEN u[k] ELSE v[k - m]
  <2> HIDE DEF m, n
  <2>1. /\ u \o v \in Seq(X) /\ Len(u \o v) = Len(u) + Len(v)
        /\ \A k \in 1..(Len(u) + Len(v)) :
             (u \o v)[k] = IF k <= Len(u) THEN u[k] ELSE v[k - Len(u)]
    <3>1. u \in Seq(X) /\ v \in Seq(X)
      BY <1>2, <1>3
    <3> QED BY <3>1, ConcatProperties, Zenon
  <2> QED BY <1>2, <1>3, <2>1
<1> DEFINE x == u \o v
<1> HIDE DEF x
<1>6. x \in Seq(X) /\ Len(x) = m + n
  BY <1>5 DEF x
<1>7. ASSUME NEW k \in 1..(m + n) PROVE x[k] = w[k]
  <2>0. m \in Nat /\ n \in Nat /\ i \in Int /\ j = m + i - 1
    BY <1>1
  <2> HIDE DEF m, n
  <2>1. CASE k <= m
    <3>1. x[k] = u[k] /\ k \in 1..m
      BY <1>5, <2>0, <2>1 DEF x
    <3> QED BY <1>2, <1>4, <3>1
  <2>2. CASE ~(k <= m)
    <3>1. x[k] = v[k - m] /\ k - m \in 1..n /\ j + (k - m) = i + k - 1
      BY <1>5, <2>0, <2>2 DEF x
    <3> QED BY <1>3, <1>4, <3>1
  <2> QED BY <2>1, <2>2
<1>8. x = w
  <2> HIDE DEF m, n
  <2> QED BY <1>4, <1>6, <1>7, SeqEqual
<1> QED BY <1>8 DEF u, v, w, x

\* The place of the last separator in a name, 0 if there is none.
Cut(f) == Fn!rfind(Fn!Normalised(f), <<Slash>>) + 1

LEMMA NormalisedIs ==
  ASSUME NEW f \in Seq(Fn!NameChars)
  PROVE  /\ Fn!Normalised(f) \in Seq(Fn!NameChars) /\ Len(Fn!Normalised(f)) = Len(f)
         /\ \A k \in 1..Len(f) : /\ Fn!Normalised(f)[k] = Slash <=> Fn!IsSeparator(f[k])
                                 /\ Fn!Normalised(f)[k] = Dot <=> f[k] = Dot
                                 /\ ~Fn!IsSeparator(f[k]) => Fn!Normalised(f)[k] = f[k]
<1>1. \A k \in 1..Len(f) : f[k] \in Fn!NameChars /\ Slash \in Fn!NameChars
  BY DEF Fn!NameChars
<1>2. Fn!Normalised(f) = [k \in 1..Len(f) |-> IF f[k] = Backslash THEN Slash ELSE f[k]]
  BY DEF Fn!Normalised
<1>3. Fn!Normalised(f) \in Seq(Fn!NameChars) /\ Len(Fn!Normalised(f)) = Len(f)
  BY <1>1, <1>2
<1> QED BY <1>2, <1>3, NamesAssumption DEF Fn!IsSeparator

LEMMA CutIs ==
  ASSUME NEW f \in Seq(Fn!NameChars)
  PROVE  /\ Cut(f) \in 0..Len(f)
         /\ Cut(f) > 0 => Fn!IsSeparator(f[Cut(f)])
         /\ \A k \in 1..Len(f) : k > Cut(f) => ~Fn!IsSeparator(f[k])
         /\ Fn!LastComponent(f) = SubSeq(f, Cut(f) + 1, Len(f))
<1> DEFINE s == Fn!Normalised(f)
           S1 == {0} \cup {k \in DOMAIN f : Fn!IsSeparator(f[k])}
<1>1. IsLast(s, Slash, Cut(f))
  BY NormalisedIs, LastIsFound DEF Cut
<1>2. /\ Cut(f) \in 0..Len(f)
      /\ Cut(f) > 0 => Fn!IsSeparator(f[Cut(f)])
      /\ \A k \in 1..Len(f) : k > Cut(f) => ~Fn!IsSeparator(f[k])
  BY <1>1, NormalisedIs DEF IsLast
<1>3. Fn!Max(S1) = Cut(f)
  <2>1. DOMAIN f = 1..Len(f) /\ Len(f) \in Nat
    OBVIOUS
  <2>2. Cut(f) \in S1 /\ \A k \in S1 : Cut(f) >= k
    BY <1>2, <2>1
  <2>3. S1 \subseteq Nat
    BY <2>1
  <2> HIDE DEF S1
  <2>4. ASSUME NEW x \in S1, \A y \in S1 : x >= y PROVE x = Cut(f)
    <3>1. x \in Nat /\ Cut(f) \in Nat /\ x >= Cut(f) /\ Cut(f) >= x
      BY <2>2, <2>3, <2>4
    <3> QED BY <3>1
  <2> QED BY <2>2, <2>4 DEF Fn!Max
<1>4. Fn!LastComponent(f) = SubSeq(f, Cut(f) + 1, Len(f))
  BY <1>3 DEF Fn!LastComponent
<1> QED BY <1>2, <1>4

LEMMA FileAgrees ==
  ASSUME NEW f \in Seq(Fn!NameChars),
         Fn!Holds(Fn!LastComponent(f), <<Dot>>) \/ ~Fn!Holds(f, <<Dot>>)
  PROVE  Fn!GetFileName(f) = Fn!LastComponent(f)
<1> DEFINE s == Fn!Normalised(f)
           b == Cut(f)
           e == Fn!rfind(s, <<Dot>>) + 1
           n == Len(f)
<1>1. s \in Seq(Fn!NameChars) /\ Len(s) = n /\ n \in Nat
  BY NormalisedIs
<1>2. /\ b \in 0..n /\ \A k \in 1..n : k > b => s[k] = f[k]
      /\ Fn!LastComponent(f) = SubSeq(f, b + 1, n)
  BY CutIs, NormalisedIs
<1>3. IsLast(s, Dot, e) /\ IsLast(f, Dot, Fn!rfind(f, <<Dot>>) + 1)
  BY <1>1, LastIsFound
<1>4. e \in 0..n /\ (e > 0 => f[e] = Dot) /\ \A k \in 1..n : k > e => f[k] # Dot
  BY <1>1, <1>3, NormalisedIs DEF IsLast
<1>5. Fn!rfind(f, <<Dot>>) = e - 1
  <2> DEFINE q == Fn!rfind(f, <<Dot>>)
  <2>1. /\ q \in Int /\ q + 1 \in 0..n /\ (q + 1 > 0 => f[q + 1] = Dot)
        /\ \A k \in 1..n : k > q + 1 => f[k] # Dot
    BY <1>3, LastIsFound DEF IsLast
  <2> HIDE DEF e, n, q
  <2>2. q + 1 = e
    BY <1>1, <1>4, <2>1
  <2>3. q = e - 1
    BY <2>1, <2>2
  <2> QED BY <2>3 DEF q
<1>6. Fn!GetExtension(f) = IF e > 0 THEN SubSeq(f, e, n) ELSE <<>>
  <2>1. Fn!Holds(f, <<Dot>>) <=> e > 0
    <3>1. Fn!Holds(f, <<Dot>>) <=> \E k \in 1..n : f[k] = Dot
      BY HoldsIs
    <3> HIDE DEF e, n
    <3> QED BY <1>1, <1>4, <3>1
  <2>2. CASE e > 0
    <3>1. Fn!substr(f, e - 1, -1) = SubSeq(f, e, n)
      <4> DEFINE d == e - 1
      <4>1. d + 1 = e /\ -1 < 0
        BY <1>4
      <4> HIDE DEF e, d
      <4>2. Fn!substr(f, d, -1) = SubSeq(f, e, n)
        BY <4>1, Zenon DEF Fn!substr
      <4> QED BY <4>2 DEF d
    <3> HIDE DEF e, n
    <3> QED BY <1>5, <2>1, <2>2, <3>1 DEF Fn!GetExtension, Fn!npos
  <2>3. CASE ~(e > 0)
    <3> HIDE DEF e
    <3> QED BY <2>1, <2>3 DEF Fn!GetExtension
  <2> QED BY <2>2, <2>3
<1>7. Fn!GetFileNameWithoutExtension(f) =
        IF e - b - 1 < 0 \/ b + (e - b - 1) > n THEN SubSeq(s, b + 1, n)
        ELSE SubSeq(s, b + 1, b + (e - b - 1))
  <2> DEFINE p == Fn!rfind(s, <<Slash>>)
             q == Fn!rfind(s, <<Dot>>)
  <2>1. p \in Int /\ q \in Int
    BY <1>1, LastIsFound
  <2>2. b = p + 1 /\ e = q + 1
    BY DEF Cut
  <2>3. Fn!GetFileNameWithoutExtension(f) = Fn!substr(s, p + 1, q - p - 1)
    BY DEF Fn!GetFileNameWithoutExtension
  <2> HIDE DEF p, q, b, e, s, n
  <2>4. q - p - 1 = e - b - 1 /\ p + 1 = b
    BY <2>1, <2>2
  <2>5. Fn!GetFileNameWithoutExtension(f) = Fn!substr(s, b, e - b - 1)
    BY <2>3, <2>4
  <2> QED BY <1>1, <2>5 DEF Fn!substr
<1>8. Fn!GetFileName(f) = Fn!GetFileNameWithoutExtension(f) \o Fn!GetExtension(f)
  BY DEF Fn!GetFileName
<1>9. \A k \in (b + 1)..n : s[k] = f[k]
  BY <1>2
\* A dot in the last component, or none at all.
<1>10. e > b \/ e = 0
  <2>1. CASE ~Fn!Holds(f, <<Dot>>)
    <3>1. ~\E k \in 1..n : f[k] = Dot
      BY <2>1, HoldsIs
    <3> HIDE DEF e, n
    <3> QED BY <1>1, <1>4, <3>1
  <2>2. CASE Fn!Holds(Fn!LastComponent(f), <<Dot>>)
    <3> DEFINE l == SubSeq(f, b + 1, n)
    <3>1. l \in Seq(Fn!NameChars) /\ Len(l) = n - b /\ \A k \in 1..(n - b) : l[k] = f[b + k]
      <4>1. b + 1 \in 1..(Len(f) + 1) /\ n \in 0..Len(f) /\ b + 1 <= n + 1
        BY <1>1, <1>2
      <4>2. n - (b + 1) + 1 = n - b /\ \A k \in 1..(n - b) : (b + 1) + k - 1 = b + k
        BY <1>1, <1>2
      <4> DEFINE c == b + 1
      <4> HIDE DEF c
      <4>3. /\ SubSeq(f, c, n) \in Seq(Fn!NameChars) /\ Len(SubSeq(f, c, n)) = n - c + 1
            /\ \A k \in 1..(n - c + 1) : SubSeq(f, c, n)[k] = f[c + k - 1]
        BY <4>1, PartOf DEF c
      <4> QED BY <4>2, <4>3 DEF c
    <3> HIDE DEF l, b, n, e
    <3>2. PICK k \in 1..Len(l) : l[k] = Dot
      BY <1>2, <2>2, <3>1, HoldsIs DEF l
    <3>3. b + k \in 1..n /\ b + k > b /\ f[b + k] = Dot
      BY <1>1, <1>2, <3>1, <3>2
    <3> QED BY <1>1, <1>2, <1>4, <3>3
  <2> QED BY <2>1, <2>2
<1>11. CASE e = 0
  <2>1. Fn!GetFileNameWithoutExtension(f) = SubSeq(s, b + 1, n)
    <3> HIDE DEF b, e, s, n
    <3>1. e - b - 1 < 0
      BY <1>1, <1>2, <1>11
    <3> QED BY <1>7, <3>1
  <2>2. SubSeq(s, b + 1, n) = SubSeq(f, b + 1, n) /\ SubSeq(f, b + 1, n) \in Seq(Fn!NameChars)
    <3> DEFINE c == b + 1
    <3>1. c \in 1..(n + 1) /\ n \in 0..n /\ c <= n + 1 /\ n = Len(f)
      BY <1>1, <1>2
    <3> HIDE DEF b, s, c, n
    <3>2. /\ SubSeq(f, c, n) \in Seq(Fn!NameChars) /\ Len(SubSeq(f, c, n)) = n - c + 1
          /\ \A k \in 1..(n - c + 1) : SubSeq(f, c, n)[k] = f[c + k - 1]
      BY <3>1, PartOf
    <3>3. /\ SubSeq(s, c, n) \in Seq(Fn!NameChars) /\ Len(SubSeq(s, c, n)) = n - c + 1
          /\ \A k \in 1..(n - c + 1) : SubSeq(s, c, n)[k] = s[c + k - 1]
      BY <1>1, <3>1, PartOf
    <3>4. \A k \in 1..(n - c + 1) : c + k - 1 \in c..n
      BY <3>1
    <3>5. \A k \in 1..(n - c + 1) : SubSeq(s, c, n)[k] = SubSeq(f, c, n)[k]
      BY <1>9, <3>2, <3>3, <3>4 DEF c
    <3>6. SubSeq(s, c, n) = SubSeq(f, c, n)
      BY <3>2, <3>3, <3>5, SeqEqual
    <3> QED BY <3>2, <3>6 DEF c
  <2>3. Fn!GetExtension(f) = <<>>
    <3> HIDE DEF e
    <3> QED BY <1>6, <1>11
  <2> QED BY <1>2, <1>8, <2>1, <2>2, <2>3, ConcatEmptySeq
<1>12. CASE e > b
  <2>1. Fn!GetFileNameWithoutExtension(f) = SubSeq(s, b + 1, e - 1)
    <3> HIDE DEF b, e, s, n
    <3>1. ~(e - b - 1 < 0) /\ ~(b + (e - b - 1) > n) /\ b + (e - b - 1) = e - 1
      BY <1>1, <1>2, <1>4, <1>12
    <3> QED BY <1>7, <3>1
  <2>2. Fn!GetExtension(f) = SubSeq(f, e, n)
    <3> HIDE DEF b, e, n
    <3>1. e > 0
      BY <1>2, <1>4, <1>12
    <3> QED BY <1>6, <3>1
  <2>3. SubSeq(s, b + 1, e - 1) \o SubSeq(f, e, n) = SubSeq(f, b + 1, n)
    <3> DEFINE i == b + 1
               j == e - 1
    <3>1. /\ i \in 1..n /\ j \in 0..n /\ i <= j + 1 /\ j + 1 = e
          /\ \A k \in i..j : s[k] = f[k]
      <4>1. b \in 0..n /\ e \in 0..n /\ n \in Nat
        BY <1>1, <1>2, <1>4
      <4> HIDE DEF b, e, n, s
      <4>2. i \in 1..n /\ j \in 0..n /\ i <= j + 1 /\ j + 1 = e /\ i..j \subseteq (b + 1)..n
        BY <4>1, <1>12
      <4> QED BY <1>9, <4>2
    <3> HIDE DEF b, e, s, i, j
    <3>2. SubSeq(s, i, j) \o SubSeq(f, j + 1, Len(f)) = SubSeq(f, i, Len(f))
      BY <1>1, <3>1, PartsJoined
    <3> QED BY <3>1, <3>2 DEF i, j
  <2> QED BY <1>2, <1>8, <2>1, <2>2, <2>3
<1> QED BY <1>10, <1>11, <1>12

LEMMA DirectoryAgrees ==
  ASSUME NEW f \in Seq(Fn!NameChars), \E k \in DOMAIN f : Fn!IsSeparator(f[k])
  PROVE  \E sep \in {Slash, Backslash} :
           Fn!GetDirectoryName(f) \o <<sep>> \o Fn!LastComponent(f) = f
<1> DEFINE b == Cut(f)
           n == Len(f)
           dir == SubSeq(f, 1, b - 1)
           last == SubSeq(f, b + 1, n)
           mid == <<f[b]>>
           x == dir \o mid
           y == x \o last
<1>1. b \in 1..n /\ n \in Nat /\ Fn!IsSeparator(f[b]) /\ Fn!LastComponent(f) = last
  <2>1. /\ b \in 0..n /\ (b > 0 => Fn!IsSeparator(f[b])) /\ Fn!LastComponent(f) = last
        /\ \A k \in 1..n : k > b => ~Fn!IsSeparator(f[k])
    BY CutIs
  <2>2. DOMAIN f = 1..n /\ n \in Nat
    OBVIOUS
  <2> HIDE DEF b, n
  <2>3. b # 0
    BY <2>1, <2>2
  <2> QED BY <2>1, <2>2, <2>3
<1>2. Fn!GetDirectoryName(f) = dir
  <2> DEFINE r == Fn!rfind(Fn!Normalised(f), <<Slash>>)
  <2>1. r \in Int /\ r = b - 1
    BY NormalisedIs, LastIsFound DEF Cut
  <2>2. Fn!GetDirectoryName(f) = Fn!substr(f, 0, r)
    BY DEF Fn!GetDirectoryName
  <2> HIDE DEF r, b
  <2>3. ~(r < 0 \/ 0 + r > Len(f)) /\ 0 + r = b - 1 /\ 0 + 1 = 1
    BY <1>1, <2>1
  <2>4. Fn!substr(f, 0, r) = SubSeq(f, 1, b - 1)
    BY <2>3, Zenon DEF Fn!substr
  <2> QED BY <2>2, <2>4
<1>3. dir \in Seq(Fn!NameChars) /\ Len(dir) = b - 1 /\ \A k \in 1..(b - 1) : dir[k] = f[k]
  <2> HIDE DEF b, n
  <2> QED BY <1>1 DEF n
<1>4. last \in Seq(Fn!NameChars) /\ Len(last) = n - b /\ \A k \in 1..(n - b) : last[k] = f[b + k]
  <2> HIDE DEF b
  <2> QED BY <1>1
<1>5. mid \in Seq(Fn!NameChars) /\ Len(mid) = 1 /\ mid[1] = f[b]
  <2> HIDE DEF b
  <2> QED BY <1>1
<1> HIDE DEF b, n, dir, last, mid
<1>6. /\ x \in Seq(Fn!NameChars) /\ Len(x) = Len(dir) + Len(mid)
      /\ \A k \in 1..(Len(dir) + Len(mid)) : x[k] = IF k <= Len(dir) THEN dir[k] ELSE mid[k - Len(dir)]
  <2>1. dir \in Seq(Fn!NameChars) /\ mid \in Seq(Fn!NameChars)
    BY <1>3, <1>5
  <2> QED BY <2>1, ConcatProperties, Zenon
<1> HIDE DEF x
<1>7. x \in Seq(Fn!NameChars) /\ Len(x) = b /\ \A k \in 1..b : x[k] = f[k]
  <2>1. Len(x) = b
    BY <1>1, <1>3, <1>5, <1>6
  <2>2. ASSUME NEW k \in 1..b PROVE x[k] = f[k]
    <3>1. CASE k <= b - 1
      <4>1. k <= Len(dir) /\ k \in 1..(Len(dir) + Len(mid)) /\ k \in 1..(b - 1)
        BY <1>1, <1>3, <1>5, <3>1
      <4>2. x[k] = dir[k]
        BY <1>6, <4>1
      <4> QED BY <1>3, <4>1, <4>2
    <3>2. CASE k = b
      <4>1. k - Len(dir) = 1 /\ ~(k <= Len(dir)) /\ k \in 1..(Len(dir) + Len(mid))
        BY <1>1, <1>3, <1>5, <3>2
      <4>2. x[k] = mid[1]
        BY <1>6, <4>1
      <4> QED BY <1>5, <3>2, <4>2
    <3> QED BY <1>1, <3>1, <3>2
  <2> QED BY <1>6, <2>1, <2>2
<1>8. /\ y \in Seq(Fn!NameChars) /\ Len(y) = Len(x) + Len(last)
      /\ \A k \in 1..(Len(x) + Len(last)) : y[k] = IF k <= Len(x) THEN x[k] ELSE last[k - Len(x)]
  <2>1. x \in Seq(Fn!NameChars) /\ last \in Seq(Fn!NameChars)
    BY <1>4, <1>7
  <2> QED BY <2>1, ConcatProperties, Zenon
<1> HIDE DEF y
<1>9. Len(y) = n
  BY <1>1, <1>4, <1>7, <1>8
<1>10. ASSUME NEW k \in 1..n PROVE y[k] = f[k]
  <2> HIDE DEF b, n, last
  <2>1. CASE k <= b
    <3>1. Len(x) + Len(last) = n /\ k \in 1..b /\ k <= Len(x)
      BY <1>1, <1>4, <1>7, <2>1
    <3>2. y[k] = x[k]
      BY <1>8, <3>1
    <3> QED BY <1>7, <3>1, <3>2
  <2>2. CASE ~(k <= b)
    <3>1. k - b \in 1..(n - b) /\ b + (k - b) = k
      BY <1>1, <2>2
    <3>2. y[k] = last[k - b]
      BY <1>1, <1>4, <1>7, <1>8, <2>2
    <3> QED BY <1>4, <3>1, <3>2
  <2> QED BY <2>1, <2>2
<1>11. y = f
  BY <1>8, <1>9, <1>10, SeqEqual DEF n
<1>12. f[b] \in {Slash, Backslash}
  BY <1>1 DEF Fn!IsSeparator
<1> QED BY <1>1, <1>2, <1>11, <1>12 DEF x, y, mid

LEMMA FunctionsStep == [AllNext]_allVars => [Fn!AllNext]_textVars
BY DEF AllNext, allVars, RegeditNext, SocketNext, FuncNext, BootNext, DeviceNext, FunctionsNext

\* A call of the functions of Path has its results.
PathInv ==
  op = "Path" =>
    /\ text \in Seq(Fn!NameChars)
    /\ textPc = "done" => out = Fn!PathResults(text)

LEMMA StrsAreSeqs == ASSUME NEW X, NEW n, NEW s \in Fn!Strs(X, n) PROVE s \in Seq(X)
<1>1. PICK k \in 0..n : s \in [1..k -> X]
  BY DEF Fn!Strs
<1> QED BY <1>1

\* For names of any length with both separators and dots anywhere, the
\* functions of Path agree with the definition by the last separator.
THEOREM NamesRight == AllSpec => []NamesAgree
<1>1. AllInit => PathInv
  <2> SUFFICES ASSUME AllInit PROVE PathInv
    OBVIOUS
  <2>1. CASE Fn!Init
    BY <2>1 DEF Fn!Init, Fn!Ops, PathInv
  <2>2. CASE Fn!PureInit
    BY <2>2, StrsAreSeqs DEF Fn!PureInit, Fn!Inputs, PathInv
  <2> QED BY <2>1, <2>2 DEF AllInit, Fn!AllInit
<1>2. PathInv /\ [AllNext]_allVars => PathInv'
  <2> SUFFICES ASSUME PathInv, [Fn!AllNext]_textVars PROVE PathInv'
    BY FunctionsStep
  <2>1. CASE Fn!Step
    BY <2>1 DEF Fn!Step, Fn!call, Fn!TrimStart, Fn!TrimHead, Fn!TrimTail, Fn!Replace, Fn!SplitStart,
                Fn!SplitStep, Fn!FindCount, Fn!EraseString, PathInv
  <2>2. CASE Fn!Call
    <3>1. op' = op /\ text' = text /\ (op = "Path" => out' = Fn!PathResults(text))
      BY <2>2 DEF Fn!Call, Fn!call, Fn!CallPath, Fn!CallCodec, Fn!CallTime
    <3> QED BY <3>1 DEF PathInv
  <2>3. CASE UNCHANGED textVars
    BY <2>3 DEF textVars, PathInv
  <2> QED BY <2>1, <2>2, <2>3 DEF Fn!AllNext
<1>3. ASSUME PathInv PROVE NamesAgree
  <2> SUFFICES ASSUME op = "Path", textPc = "done" PROVE Fn!PathAgrees(text, out)
    BY DEF NamesAgree, Fn!NamesAgree, Fn!Returned
  <2>1. text \in Seq(Fn!NameChars) /\ out = Fn!PathResults(text)
    BY <1>3 DEF PathInv
  <2>2. out.dir = Fn!GetDirectoryName(text) /\ out.file = Fn!GetFileName(text)
    BY <2>1 DEF Fn!PathResults
  <2> QED BY <2>1, <2>2, FileAgrees, DirectoryAgrees DEF Fn!PathAgrees
<1> QED BY <1>1, <1>2, <1>3, PTL DEF AllSpec

(***************************************************************************)
(* Text: the members of std::string on sequences of characters.            *)
(***************************************************************************)

\* FiniteSetsExt brings a Cardinality of its own into PureFunctions.
LEMMA SameCardinality == \A X : Fn!Cardinality(X) = Cardinality(X)
  BY Zenon DEF Fn!Cardinality, Cardinality

LEMMA Smallest ==
  ASSUME NEW X, X \subseteq Nat, X # {}
  PROVE  Fn!Min(X) \in X /\ \A y \in X : Fn!Min(X) <= y
<1>1. \E m \in X : \A y \in X : m <= y
  BY Least
<1> QED BY <1>1 DEF Fn!Min

\* t is in s behind the first p places.
At(s, t, p) == p + Len(t) <= Len(s) /\ \A k \in 1..Len(t) : s[p + k] = t[k]

LEMMA OccursIs ==
  ASSUME NEW X, NEW s \in Seq(X), NEW t \in Seq(X), NEW p \in Nat
  PROVE  Fn!OccursAt(s, t, p) <=> At(s, t, p)
<1> DEFINE u == SubSeq(s, p + 1, p + Len(t))
<1>1. Len(s) \in Nat /\ Len(t) \in Nat
  OBVIOUS
<1>2. CASE p + Len(t) <= Len(s)
  <2>1. \A k \in 1..Len(t) : p + k \in 1..Len(s)
    BY <1>1, <1>2
  <2>2. \A i \in (p + 1)..(p + Len(t)) : s[i] \in X
    BY <1>1, <1>2
  <2>3. /\ u \in Seq(X)
        /\ Len(u) = IF p + 1 <= p + Len(t) THEN p + Len(t) - (p + 1) + 1 ELSE 0
        /\ \A i \in 1..(p + Len(t) - (p + 1) + 1) : u[i] = s[p + 1 + i - 1]
    <3>1. p + 1 \in Int /\ p + Len(t) \in Int
      BY <1>1
    <3> QED BY <2>2, <3>1, SubSeqProperties
  <2> HIDE DEF u
  <2>4. Len(u) = Len(t)
    BY <1>1, <2>3
  <2>5. \A i \in 1..Len(t) : u[i] = s[p + i]
    BY <1>1, <2>3
  <2>6. u = t <=> \A i \in 1..Len(t) : u[i] = t[i]
    <3>1. ASSUME \A i \in 1..Len(t) : u[i] = t[i] PROVE u = t
      BY <2>3, <2>4, <3>1, SeqEqual
    <3> QED BY <3>1
  <2>7. Fn!OccursAt(s, t, p) <=> u = t
    BY <1>2 DEF Fn!OccursAt, u
  <2> QED BY <1>2, <2>5, <2>6, <2>7 DEF At
<1>3. CASE ~(p + Len(t) <= Len(s))
  BY <1>3 DEF Fn!OccursAt, At
<1> QED BY <1>2, <1>3

Found(s, t, from) == {p \in from..Len(s) : At(s, t, p)}

LEMMA PlacesAre ==
  ASSUME NEW X, NEW s \in Seq(X), NEW t \in Seq(X), NEW from \in Nat
  PROVE  Fn!Positions(s, t, from) = Found(s, t, from)
<1>1. \A p \in from..Len(s) : p \in Nat
  OBVIOUS
<1>2. \A p \in from..Len(s) : Fn!OccursAt(s, t, p) <=> At(s, t, p)
  BY <1>1, OccursIs
<1> QED BY <1>2 DEF Fn!Positions, Found

\* find gives the first place, or npos if there is none.
LEMMA FindIs ==
  ASSUME NEW X, NEW s \in Seq(X), NEW t \in Seq(X), NEW from \in Nat
  PROVE  LET r == Fn!find(s, t, from)
         IN  \/ r = -1 /\ Found(s, t, from) = {}
             \/ /\ r \in Found(s, t, from) /\ r \in Nat /\ r >= from /\ At(s, t, r)
                /\ \A p \in Found(s, t, from) : r <= p
<1> DEFINE P == Found(s, t, from)
           r == Fn!find(s, t, from)
<1>1. r = IF P = {} THEN -1 ELSE Fn!Min(P)
  BY PlacesAre DEF Fn!find, Fn!npos
<1>2. P \subseteq Nat /\ \A p \in P : p >= from /\ At(s, t, p)
  BY DEF Found
<1> HIDE DEF P, r
<1>3. CASE P = {}
  BY <1>1, <1>3 DEF P, r
<1>4. CASE P # {}
  <2>1. r \in P /\ \A y \in P : r <= y
    BY <1>1, <1>2, <1>4, Smallest
  <2> QED BY <1>2, <2>1 DEF P, r
<1> QED BY <1>3, <1>4

\* The parts of a string before and behind a place.
LEMMA SubstrIs ==
  ASSUME NEW X, NEW s \in Seq(X), NEW p \in 0..Len(s)
  PROVE  LET u == Fn!substr(s, p, Fn!npos)  v == Fn!substr(s, 0, p)
         IN  /\ u \in Seq(X) /\ Len(u) = Len(s) - p /\ \A k \in 1..(Len(s) - p) : u[k] = s[p + k]
             /\ v \in Seq(X) /\ Len(v) = p /\ \A k \in 1..p : v[k] = s[k]
<1> DEFINE u == Fn!substr(s, p, Fn!npos)
           v == Fn!substr(s, 0, p)
<1>1. Len(s) \in Nat /\ p \in Nat /\ p <= Len(s)
  OBVIOUS
<1>2. u = SubSeq(s, p + 1, Len(s))
  BY <1>1 DEF Fn!substr, Fn!npos
<1>3. v = SubSeq(s, 1, p)
  BY <1>1 DEF Fn!substr
<1>4. u \in Seq(X) /\ Len(u) = Len(s) - p /\ \A k \in 1..(Len(s) - p) : u[k] = s[p + k]
  <2>1. \A i \in (p + 1)..Len(s) : s[i] \in X
    BY <1>1
  <2>2. /\ u \in Seq(X) /\ Len(u) = IF p + 1 <= Len(s) THEN Len(s) - (p + 1) + 1 ELSE 0
        /\ \A i \in 1..(Len(s) - (p + 1) + 1) : u[i] = s[p + 1 + i - 1]
    <3>1. p + 1 \in Int /\ Len(s) \in Int
      BY <1>1
    <3> HIDE DEF u
    <3> QED BY <1>2, <2>1, <3>1, SubSeqProperties
  <2> HIDE DEF u
  <2> QED BY <1>1, <2>2
<1>5. v \in Seq(X) /\ Len(v) = p /\ \A k \in 1..p : v[k] = s[k]
  <2>1. \A i \in 1..p : s[i] \in X
    BY <1>1
  <2>2. /\ v \in Seq(X) /\ Len(v) = IF 1 <= p THEN p - 1 + 1 ELSE 0
        /\ \A i \in 1..(p - 1 + 1) : v[i] = s[1 + i - 1]
    <3>1. 1 \in Int /\ p \in Int
      BY <1>1
    <3> HIDE DEF v
    <3> QED BY <1>3, <2>1, <3>1, SubSeqProperties
  <2> HIDE DEF v
  <2> QED BY <1>1, <2>2
<1> QED BY <1>4, <1>5

(***************************************************************************)
(* Trim.                                                                   *)
(***************************************************************************)

\* The characters, and Space, that need not be one of Chars for these proofs.
Characters == Chars \cup {Space}

LEMMA FirstSpaceIs ==
  ASSUME NEW s \in Seq(Characters)
  PROVE  LET r == Fn!find(s, <<Space>>, 0)
         IN  \/ r = -1 /\ \A k \in 1..Len(s) : s[k] # Space
             \/ /\ r \in 0..(Len(s) - 1) /\ s[r + 1] = Space
                /\ \A k \in 1..r : s[k] # Space
<1> DEFINE c == <<Space>>
           r == Fn!find(s, c, 0)
<1>1. c \in Seq(Characters) /\ Len(c) = 1 /\ c[1] = Space /\ Len(s) \in Nat
  BY DEF Characters
<1> HIDE DEF c
<1>2. \A p \in Nat : At(s, c, p) <=> p < Len(s) /\ s[p + 1] = Space
  BY <1>1 DEF At
<1>3. \A p : p \in Found(s, c, 0) <=> p \in 0..Len(s) /\ p < Len(s) /\ s[p + 1] = Space
  BY <1>1, <1>2 DEF Found
<1>4. ASSUME NEW k \in 1..Len(s), s[k] = Space PROVE k - 1 \in Found(s, c, 0)
  <2>1. k - 1 \in 0..Len(s) /\ k - 1 < Len(s) /\ (k - 1) + 1 = k
    BY <1>1
  <2> QED BY <1>3, <1>4, <2>1
<1>5. \/ r = -1 /\ Found(s, c, 0) = {}
      \/ r \in Found(s, c, 0) /\ \A p \in Found(s, c, 0) : r <= p
  BY <1>1, FindIs
<1> HIDE DEF r
<1>6. CASE r = -1 /\ Found(s, c, 0) = {}
  BY <1>4, <1>6 DEF r, c
<1>7. CASE r \in Found(s, c, 0) /\ \A p \in Found(s, c, 0) : r <= p
  <2>1. r \in 0..(Len(s) - 1) /\ s[r + 1] = Space
    BY <1>1, <1>3, <1>7
  <2>2. ASSUME NEW k \in 1..r PROVE s[k] # Space
    <3>1. k \in 1..Len(s) /\ ~(r <= k - 1)
      BY <1>1, <2>1
    <3> QED BY <1>4, <1>7, <3>1
  <2> QED BY <2>1, <2>2 DEF r, c
<1> QED BY <1>5, <1>6, <1>7

\* u lies in s behind a places, and the rest of s are spaces.
Core(s, u, a) ==
  /\ a \in Nat /\ At(s, u, a)
  /\ \A k \in 1..Len(s) : k <= a \/ k > a + Len(u) => s[k] = Space

LEMMA CoreCut ==
  ASSUME NEW s \in Seq(Characters), NEW u \in Seq(Characters), NEW a, Core(s, u, a), u # <<>>
  PROVE  /\ u[1] = Space => Core(s, Fn!substr(u, 1, Fn!npos), a + 1)
         /\ u[Len(u)] = Space => Core(s, Fn!substr(u, 0, Len(u) - 1), a)
<1> DEFINE v == Fn!substr(u, 1, Fn!npos)
           w == Fn!substr(u, 0, Len(u) - 1)
           l == Len(u)
           n == Len(s)
<1>1. l \in Nat /\ l >= 1 /\ n \in Nat /\ a \in Nat /\ a + l <= n
      /\ \A k \in 1..l : s[a + k] = u[k]
  BY EmptySeq DEF Core, At
<1>2. /\ 1 \in 0..l /\ l - 1 \in 0..l
      /\ \A k \in 1..n : k <= a \/ k > a + l => s[k] = Space
  BY <1>1 DEF Core
<1>3. Len(v) = l - 1 /\ \A k \in 1..(l - 1) : v[k] = u[1 + k]
  BY <1>2, SubstrIs
<1>4. Len(w) = l - 1 /\ \A k \in 1..(l - 1) : w[k] = u[k]
  BY <1>2, SubstrIs
<1> HIDE DEF v, w, l, n
<1>5. ASSUME u[1] = Space PROVE Core(s, v, a + 1)
  <2>1. At(s, v, a + 1)
    <3>1. (a + 1) + Len(v) <= n
      BY <1>1, <1>3
    <3>2. ASSUME NEW k \in 1..(l - 1) PROVE s[(a + 1) + k] = v[k]
      <4>1. 1 + k \in 1..l /\ a + (1 + k) = (a + 1) + k
        BY <1>1
      <4> QED BY <1>1, <1>3, <4>1
    <3> QED BY <1>3, <3>1, <3>2 DEF At, n
  <2>2. ASSUME NEW k \in 1..n, k <= a + 1 \/ k > (a + 1) + Len(v) PROVE s[k] = Space
    <3>1. CASE k = a + 1
      <4>1. 1 \in 1..l
        BY <1>1
      <4> QED BY <1>1, <1>5, <3>1, <4>1
    <3>2. CASE k # a + 1
      <4>1. k <= a \/ k > a + l
        BY <1>1, <1>3, <2>2, <3>2
      <4> QED BY <1>2, <4>1
    <3> QED BY <3>1, <3>2
  <2> QED BY <1>1, <2>1, <2>2 DEF Core, n
<1>6. ASSUME u[l] = Space PROVE Core(s, w, a)
  <2>1. At(s, w, a)
    <3>1. a + Len(w) <= n
      BY <1>1, <1>4
    <3>2. \A k \in 1..(l - 1) : s[a + k] = w[k]
      BY <1>1, <1>4
    <3> QED BY <1>4, <3>1, <3>2 DEF At, n
  <2>2. ASSUME NEW k \in 1..n, k <= a \/ k > a + Len(w) PROVE s[k] = Space
    <3>1. CASE k = a + l
      <4>1. l \in 1..l
        BY <1>1
      <4> QED BY <1>1, <1>6, <3>1, <4>1
    <3>2. CASE k # a + l
      <4>1. k <= a \/ k > a + l
        BY <1>1, <1>4, <2>2, <3>2
      <4> QED BY <1>2, <4>1
    <3> QED BY <3>1, <3>2
  <2> QED BY <1>1, <2>1, <2>2 DEF Core, n
<1> QED BY <1>5, <1>6 DEF v, w, l

\* What is cut off are spaces; behind the first loop the text does not begin
\* with one, and behind the second it does not end with one.
TrimInv ==
  op = "Trim" =>
    /\ text \in Seq(Characters) /\ str \in Seq(Characters)
    /\ \E a \in Nat : Core(text, str, a)
    /\ textPc \in {"start", "loop"} => pos = Fn!find(str, <<Space>>, 0)
    /\ textPc = "tail" => pos = Fn!rfind(str, <<Space>>)
    /\ textPc \in {"tail", "done"} => (str # <<>> => str[1] # Space)
    /\ textPc = "done" => (str # <<>> => str[Len(str)] # Space)

\* A step of a function that is not Trim.
LEMMA TrimOnly ==
  ASSUME TrimInv, [Fn!AllNext]_textVars
  PROVE  TrimInv' \/ (op = "Trim" /\ Fn!Step)
<1> SUFFICES ASSUME ~(op = "Trim" /\ Fn!Step) PROVE TrimInv'
  OBVIOUS
<1>1. CASE UNCHANGED textVars
  BY <1>1 DEF textVars, TrimInv
<1>2. CASE Fn!Call
  BY <1>2 DEF Fn!Call, Fn!call, Fn!CallPath, Fn!CallCodec, Fn!CallTime, TrimInv
<1>3. CASE Fn!Step
  BY <1>3 DEF Fn!Step, Fn!call, Fn!TrimStart, Fn!TrimHead, Fn!TrimTail, Fn!Replace, Fn!SplitStart,
              Fn!SplitStep, Fn!FindCount, Fn!EraseString, TrimInv
<1> QED BY <1>1, <1>2, <1>3 DEF Fn!AllNext

LEMMA TrimStep == TrimInv /\ [Fn!AllNext]_textVars => TrimInv'
<1> SUFFICES ASSUME TrimInv, [Fn!AllNext]_textVars PROVE TrimInv'
  OBVIOUS
<1> SUFFICES ASSUME op = "Trim", Fn!Step PROVE TrimInv'
  BY TrimOnly
<1>1. /\ text \in Seq(Characters) /\ str \in Seq(Characters) /\ Len(str) \in Nat
      /\ str # <<>> => Len(str) >= 1
  BY EmptySeq DEF TrimInv
<1>2. PICK a \in Nat : Core(text, str, a)
  BY DEF TrimInv
<1>3. Fn!TrimStart \/ Fn!TrimHead \/ Fn!TrimTail
  BY DEF Fn!Step, Fn!Replace, Fn!SplitStart, Fn!SplitStep, Fn!FindCount, Fn!EraseString
<1>4. op' = "Trim" /\ text' = text
  BY <1>3 DEF Fn!TrimStart, Fn!TrimHead, Fn!TrimTail, Fn!call
<1>5. CASE Fn!TrimStart
  <2>1. str' = str /\ pos' = pos /\ textPc = "start" /\ textPc' = IF pos = -1 THEN "done" ELSE "loop"
    BY <1>5 DEF Fn!TrimStart, Fn!npos
  <2>2. pos = Fn!find(str, <<Space>>, 0)
    BY <2>1 DEF TrimInv
  <2>3. pos = -1 => \A k \in 1..Len(str) : str[k] # Space
    BY <1>1, <2>2, FirstSpaceIs
  <2>4. pos = -1 /\ str # <<>> => str[1] # Space /\ str[Len(str)] # Space
    BY <1>1, <2>3
  <2> QED BY <1>1, <1>2, <1>4, <2>1, <2>2, <2>4 DEF TrimInv
<1>6. CASE Fn!TrimHead
  <2>1. textPc = "loop" /\ pos = Fn!find(str, <<Space>>, 0)
    BY <1>6 DEF Fn!TrimHead, TrimInv
  <2>2. CASE pos = 0
    <3>1. /\ str' = Fn!substr(str, 1, Fn!npos) /\ pos' = Fn!find(str', <<Space>>, 0)
          /\ textPc' = "loop"
      BY <1>6, <2>1, <2>2 DEF Fn!TrimHead
    <3>2. str # <<>> /\ str[1] = Space
      BY <1>1, <2>1, <2>2, FirstSpaceIs
    <3>3. 1 \in 0..Len(str)
      BY <1>1, <3>2
    <3>4. str' \in Seq(Characters)
      BY <1>1, <3>1, <3>3, SubstrIs
    <3>5. Core(text, str', a + 1) /\ a + 1 \in Nat
      BY <1>1, <1>2, <3>1, <3>2, CoreCut
    <3> QED BY <1>1, <1>4, <3>1, <3>4, <3>5 DEF TrimInv
  <2>3. CASE pos # 0
    <3>1. str' = str /\ pos' = Fn!rfind(str, <<Space>>) /\ textPc' = "tail"
      BY <1>6, <2>3 DEF Fn!TrimHead
    <3>2. ASSUME str # <<>> PROVE str[1] # Space
      <4>1. 1 \in 1..Len(str)
        BY <1>1, <3>2
      <4> QED BY <1>1, <2>1, <2>3, <4>1, FirstSpaceIs
    <3> QED BY <1>1, <1>2, <1>4, <3>1, <3>2 DEF TrimInv
  <2> QED BY <2>2, <2>3
<1>7. CASE Fn!TrimTail
  <2>1. /\ textPc = "tail" /\ pos = Fn!rfind(str, <<Space>>) /\ (str # <<>> => str[1] # Space)
    BY <1>7 DEF Fn!TrimTail, TrimInv
  <2>2. pos \in Int /\ IsLast(str, Space, pos + 1)
    BY <1>1, <2>1, LastIsFound
  <2>3. CASE pos = Len(str) - 1 /\ str # <<>>
    <3>1. /\ str' = Fn!substr(str, 0, Len(str) - 1) /\ pos' = Fn!rfind(str', <<Space>>)
          /\ textPc' = "tail"
      BY <1>7, <2>1, <2>3 DEF Fn!TrimTail
    <3>2. str[Len(str)] = Space
      BY <1>1, <2>2, <2>3 DEF IsLast
    <3>3. Len(str) - 1 \in 0..Len(str)
      BY <1>1, <2>3
    <3>4. /\ str' \in Seq(Characters) /\ Len(str') = Len(str) - 1
          /\ \A k \in 1..(Len(str) - 1) : str'[k] = str[k]
      BY <1>1, <3>1, <3>3, SubstrIs
    <3>5. Core(text, str', a)
      BY <1>1, <1>2, <2>3, <3>1, <3>2, CoreCut
    <3>6. ASSUME str' # <<>> PROVE str'[1] # Space
      <4>1. Len(str') >= 1
        BY <3>4, <3>6, EmptySeq
      <4>2. 1 \in 1..(Len(str) - 1)
        BY <1>1, <3>4, <4>1
      <4> QED BY <2>1, <2>3, <3>4, <4>2
    <3> QED BY <1>1, <1>2, <1>4, <3>1, <3>4, <3>5, <3>6 DEF TrimInv
  <2>4. CASE pos = Len(str) - 1 /\ str = <<>>
    <3>1. str' = Fn!substr(str, 0, pos) /\ pos' = Fn!rfind(str', <<Space>>) /\ textPc' = "tail"
      BY <1>7, <2>1, <2>4 DEF Fn!TrimTail
    <3>2. pos < 0
      BY <2>4
    <3>3. str' = <<>>
      BY <2>4, <3>1, <3>2 DEF Fn!substr
    <3> QED BY <1>1, <1>2, <1>4, <2>4, <3>1, <3>3 DEF TrimInv
  <2>5. CASE pos # Len(str) - 1
    <3>1. str' = str /\ textPc' = "done"
      BY <1>7, <2>5 DEF Fn!TrimTail
    <3>2. ASSUME str # <<>> PROVE str[Len(str)] # Space
      <4>1. Len(str) \in 1..Len(str) /\ pos + 1 # Len(str)
        BY <1>1, <2>2, <2>5, <3>2
      <4>2. Len(str) > pos + 1
        BY <1>1, <2>2, <4>1 DEF IsLast
      <4> QED BY <2>2, <4>1, <4>2 DEF IsLast
    <3> QED BY <1>1, <1>2, <1>4, <2>1, <3>1, <3>2 DEF TrimInv
  <2> QED BY <2>3, <2>4, <2>5
<1> QED BY <1>3, <1>5, <1>6, <1>7

LEMMA TrimRight == TrimInv => Fn!Trimmed
<1> SUFFICES ASSUME TrimInv, op = "Trim", textPc = "done" PROVE Fn!Trimmed
  BY DEF Fn!Trimmed
<1>1. text \in Seq(Characters) /\ str \in Seq(Characters) /\ Len(str) \in Nat /\ Len(text) \in Nat
  BY DEF TrimInv
<1>2. PICK a \in Nat : Core(text, str, a)
  BY DEF TrimInv
<1>3. str # <<>> => Head(str) # Space /\ Fn!Last(str) # Space
  BY <1>1 DEF TrimInv, Fn!Last
<1>4. a \in 0..Len(text) /\ Fn!OccursAt(text, str, a)
  BY <1>1, <1>2, OccursIs DEF Core, At
<1> QED BY <1>2, <1>3, <1>4 DEF Fn!Trimmed, Core

(***************************************************************************)
(* Split.  Join is a fold, which is a recursive function of the sets of    *)
(* places: there is a table of its values, and those for the sets 1..k are *)
(* determined.                                                             *)
(***************************************************************************)

JoinedWith(sep, s, p) == IF s = <<>> THEN <<p>> ELSE <<s[1] \o sep \o p>>

Table(parts, sep, n, f) ==
  f = [T \in SUBSET (1..n) |-> IF T = {} THEN <<>>
                               ELSE JoinedWith(sep, f[T \ {Fn!Max(T)}], parts[Fn!Max(T)])]

LEMMA JoinIs ==
  ASSUME NEW parts, NEW sep, NEW n \in Nat, DOMAIN parts = 1..n
  PROVE  Fn!Join(parts, sep) = (CHOOSE f : Table(parts, sep, n, f))[1..n]
  BY DEF Fn!Join, Fn!FoldLeft, Fn!MapThenFoldSet, Table, JoinedWith

LEMMA GreatestOf ==
  ASSUME NEW n \in Nat, NEW T \in SUBSET (1..n), T # {}
  PROVE  Fn!Max(T) \in T /\ \A y \in T : Fn!Max(T) >= y
<1>1. T \subseteq 0..n /\ n \in Int
  OBVIOUS
<1> QED BY <1>1, Greatest

LEMMA GreatestIs ==
  ASSUME NEW n \in Nat, NEW T \in SUBSET (1..n), n \in T
  PROVE  Fn!Max(T) = n
<1>1. Fn!Max(T) \in 1..n /\ Fn!Max(T) >= n
  BY GreatestOf
<1> QED BY <1>1

LEMMA TableMore ==
  ASSUME NEW parts, NEW sep, NEW n \in Nat \ {0}, NEW g, Table(parts, sep, n - 1, g)
  PROVE  \E f : Table(parts, sep, n, f)
<1> DEFINE f == [T \in SUBSET (1..n) |-> IF n \in T THEN JoinedWith(sep, g[T \ {n}], parts[n]) ELSE g[T]]
           h == [T \in SUBSET (1..n) |-> IF T = {} THEN <<>>
                   ELSE JoinedWith(sep, f[T \ {Fn!Max(T)}], parts[Fn!Max(T)])]
<1>1. /\ n \in Nat /\ n - 1 \in Nat
      /\ \A T \in SUBSET (1..n) : n \notin T => T \in SUBSET (1..(n - 1))
      /\ \A T \in SUBSET (1..n) : T \ {n} \in SUBSET (1..(n - 1))
      /\ \A T \in SUBSET (1..(n - 1)) : T \in SUBSET (1..n) /\ n \notin T
  OBVIOUS
<1>2. /\ \A T \in SUBSET (1..n) : n \in T => f[T] = JoinedWith(sep, g[T \ {n}], parts[n])
      /\ \A T \in SUBSET (1..n) : n \notin T => f[T] = g[T]
  OBVIOUS
<1>3. \A T \in SUBSET (1..(n - 1)) :
        g[T] = IF T = {} THEN <<>> ELSE JoinedWith(sep, g[T \ {Fn!Max(T)}], parts[Fn!Max(T)])
  BY DEF Table
<1>4. \A T \in SUBSET (1..n) :
        h[T] = IF T = {} THEN <<>> ELSE JoinedWith(sep, f[T \ {Fn!Max(T)}], parts[Fn!Max(T)])
  OBVIOUS
<1>5. f = [T \in SUBSET (1..n) |-> f[T]] /\ h = [T \in SUBSET (1..n) |-> h[T]]
  OBVIOUS
<1> HIDE DEF f, h
<1>6. ASSUME NEW T \in SUBSET (1..n) PROVE f[T] = h[T]
  <2>1. CASE T = {}
    BY <1>1, <1>2, <1>3, <1>4, <2>1
  <2>2. CASE n \in T
    <3>1. Fn!Max(T) = n
      BY <1>1, <2>2, GreatestIs
    <3>2. T \ {n} \in SUBSET (1..n) /\ n \notin T \ {n}
      OBVIOUS
    <3>3. f[T \ {n}] = g[T \ {n}]
      BY <1>2, <3>2
    <3> QED BY <1>2, <1>4, <2>2, <3>1, <3>3
  <2>3. CASE T # {} /\ n \notin T
    <3> DEFINE m == Fn!Max(T)
    <3>1. f[T] = JoinedWith(sep, g[T \ {m}], parts[m])
      BY <1>1, <1>2, <1>3, <2>3
    <3>2. h[T] = JoinedWith(sep, f[T \ {m}], parts[m])
      BY <1>4, <2>3
    <3> HIDE DEF m
    <3>3. T \ {m} \in SUBSET (1..n) /\ n \notin T \ {m}
      BY <2>3
    <3> QED BY <1>2, <3>1, <3>2, <3>3
  <2> QED BY <2>1, <2>2, <2>3
<1>7. f = h
  BY <1>5, <1>6
<1>8. Table(parts, sep, n, f)
  BY <1>7 DEF Table, h
<1> QED BY <1>8

LEMMA TableIs ==
  ASSUME NEW parts, NEW sep, NEW n \in Nat
  PROVE  \E f : Table(parts, sep, n, f)
<1> DEFINE X == {k \in Nat : ~ \E f : Table(parts, sep, k, f)}
<1> SUFFICES ASSUME X # {} PROVE FALSE
  OBVIOUS
<1>1. PICK k \in X : \A j \in X : k <= j
  <2>1. X \subseteq Nat
    OBVIOUS
  <2> HIDE DEF X
  <2> QED BY <2>1, Least
<1>2. CASE k = 0
  <2> DEFINE f == [T \in SUBSET (1..0) |-> <<>>]
  <2>1. \A T \in SUBSET (1..0) : T = {}
    OBVIOUS
  <2>2. Table(parts, sep, 0, f)
    BY <2>1 DEF Table
  <2> QED BY <1>2, <2>2
<1>3. CASE k # 0
  <2>1. k \in Nat \ {0} /\ k - 1 \in Nat /\ ~(k <= k - 1)
    BY <1>3
  <2>2. PICK g : Table(parts, sep, k - 1, g)
    BY <1>1, <2>1
  <2>3. \E f : Table(parts, sep, k, f)
    BY <2>1, <2>2, TableMore
  <2> QED BY <2>3
<1> QED BY <1>2, <1>3

\* The values of a table for the first places.
LEMMA TableHas ==
  ASSUME NEW parts, NEW sep, NEW n \in Nat, NEW f, Table(parts, sep, n, f)
  PROVE  /\ f[1..0] = <<>>
         /\ \A k \in 1..n : f[1..k] = JoinedWith(sep, f[1..(k - 1)], parts[k])
<1>1. \A T \in SUBSET (1..n) :
        f[T] = IF T = {} THEN <<>> ELSE JoinedWith(sep, f[T \ {Fn!Max(T)}], parts[Fn!Max(T)])
  BY DEF Table
<1>2. 1..0 = {} /\ {} \in SUBSET (1..n)
  OBVIOUS
<1>3. ASSUME NEW k \in 1..n PROVE f[1..k] = JoinedWith(sep, f[1..(k - 1)], parts[k])
  <2>1. 1..k \in SUBSET (1..n) /\ 1..k \in SUBSET (1..k) /\ k \in 1..k /\ k \in Nat
    OBVIOUS
  <2>2. Fn!Max(1..k) = k
    BY <2>1, GreatestIs
  <2>3. (1..k) \ {k} = 1..(k - 1) /\ 1..k # {}
    BY <2>1
  <2> QED BY <1>1, <2>1, <2>2, <2>3
<1> QED BY <1>1, <1>2, <1>3

LEMMA JoinEmpty == ASSUME NEW sep PROVE Fn!Join(<<>>, sep) = <<>>
<1> DEFINE f == CHOOSE g : Table(<<>>, sep, 0, g)
<1>1. Table(<<>>, sep, 0, f)
  BY TableIs
<1>2. Fn!Join(<<>>, sep) = f[1..0]
  <2>1. <<>> \in Seq({}) /\ DOMAIN <<>> = 1..0 /\ 0 \in Nat
    OBVIOUS
  <2> DEFINE none == <<>>
  <2> HIDE DEF none
  <2>2. DOMAIN none = 1..0
    BY <2>1 DEF none
  <2>3. Fn!Join(none, sep) = (CHOOSE g : Table(none, sep, 0, g))[1..0]
    BY <2>1, <2>2, JoinIs
  <2> QED BY <2>3 DEF none
<1> HIDE DEF f
<1> QED BY <1>1, <1>2, TableHas

LEMMA JoinAppend ==
  ASSUME NEW X, NEW parts \in Seq(X), NEW sep, NEW x \in X
  PROVE  Fn!Join(Append(parts, x), sep) = JoinedWith(sep, Fn!Join(parts, sep), x)
<1> DEFINE n == Len(parts)
           more == Append(parts, x)
           f == CHOOSE f : Table(parts, sep, n, f)
           g == CHOOSE g : Table(more, sep, n + 1, g)
<1>1. n \in Nat /\ n + 1 \in Nat /\ DOMAIN parts = 1..n /\ DOMAIN more = 1..(n + 1)
  OBVIOUS
<1>2. (\A k \in 1..n : more[k] = parts[k]) /\ more[n + 1] = x
  OBVIOUS
<1>3. Table(parts, sep, n, f) /\ Table(more, sep, n + 1, g)
  BY <1>1, TableIs
<1>4. Fn!Join(parts, sep) = f[1..n] /\ Fn!Join(more, sep) = g[1..(n + 1)]
  BY <1>1, JoinIs
<1> HIDE DEF n, more, f, g
<1>5. /\ f[1..0] = <<>> /\ \A k \in 1..n : f[1..k] = JoinedWith(sep, f[1..(k - 1)], parts[k])
      /\ g[1..0] = <<>> /\ \A k \in 1..(n + 1) : g[1..k] = JoinedWith(sep, g[1..(k - 1)], more[k])
  <2>1. /\ f[1..0] = <<>>
        /\ \A k \in 1..n : f[1..k] = JoinedWith(sep, f[1..(k - 1)], parts[k])
    BY <1>1, <1>3, TableHas
  <2>2. /\ g[1..0] = <<>>
        /\ \A k \in 1..(n + 1) : g[1..k] = JoinedWith(sep, g[1..(k - 1)], more[k])
    <3> DEFINE m == n + 1
    <3>1. Table(more, sep, m, g)
      BY <1>3
    <3>0. m \in Nat
      BY <1>1
    <3> HIDE DEF m
    <3>2. g[1..0] = <<>> /\ \A k \in 1..m : g[1..k] = JoinedWith(sep, g[1..(k - 1)], more[k])
      <4>1. g[1..0] = <<>>
        BY <3>0, <3>1, TableHas
      <4>2. ASSUME NEW k \in 1..m PROVE g[1..k] = JoinedWith(sep, g[1..(k - 1)], more[k])
        BY <3>0, <3>1, TableHas
      <4> QED BY <4>1, <4>2
    <3> QED BY <3>2 DEF m
  <2> QED BY <2>1, <2>2
<1>6. g[1..n] = f[1..n]
  <2> DEFINE E == {k \in 0..n : g[1..k] # f[1..k]}
  <2>0. n \in 0..n /\ (n \notin E => g[1..n] = f[1..n])
    BY <1>1
  <2> SUFFICES ASSUME E # {} PROVE FALSE
    <3> HIDE DEF E
    <3> QED BY <2>0
  <2>1. PICK k \in E : \A j \in E : k <= j
    <3>1. E \subseteq Nat
      BY <1>1
    <3> HIDE DEF E
    <3> QED BY <3>1, Least
  <2>2. k # 0
    BY <1>5
  <2>3. k \in 1..n /\ k \in 1..(n + 1) /\ k - 1 \in 0..n /\ ~(k <= k - 1)
    BY <1>1, <2>2
  <2>4. g[1..(k - 1)] = f[1..(k - 1)]
    BY <2>1, <2>3
  <2> QED BY <1>2, <1>5, <2>3, <2>4
<1>7. g[1..(n + 1)] = JoinedWith(sep, f[1..n], x)
  <2>1. n + 1 \in 1..(n + 1) /\ (n + 1) - 1 = n
    BY <1>1
  <2> QED BY <1>2, <1>5, <1>6, <2>1
<1> QED BY <1>4, <1>7 DEF more

\* A string falls into what is before a place of t, t, and what is behind it.
LEMMA CutHere ==
  ASSUME NEW s \in Seq(Chars), NEW t \in Seq(Chars), NEW p \in Nat, At(s, t, p)
  PROVE  LET a == Fn!substr(s, 0, p)  b == Fn!substr(s, p + Len(t), Fn!npos)
         IN  /\ a \in Seq(Chars) /\ Len(a) = p /\ \A k \in 1..p : a[k] = s[k]
             /\ b \in Seq(Chars) /\ Len(b) = Len(s) - (p + Len(t))
             /\ \A k \in 1..Len(b) : b[k] = s[p + Len(t) + k]
             /\ (a \o t) \o b = s
<1> DEFINE a == Fn!substr(s, 0, p)
           b == Fn!substr(s, p + Len(t), Fn!npos)
           q == p + Len(t)
           c == a \o t
           d == c \o b
<1>1. /\ Len(s) \in Nat /\ Len(t) \in Nat /\ q <= Len(s) /\ q \in 0..Len(s) /\ p \in 0..Len(s)
      /\ q = p + Len(t)
      /\ \A k \in 1..Len(t) : s[p + k] = t[k]
  BY DEF At
<1>2. a \in Seq(Chars) /\ Len(a) = p /\ \A k \in 1..p : a[k] = s[k]
  BY <1>1, SubstrIs
<1>3. b \in Seq(Chars) /\ Len(b) = Len(s) - q /\ \A k \in 1..(Len(s) - q) : b[k] = s[q + k]
  BY <1>1, SubstrIs
<1> HIDE DEF a, b, q
<1>4. /\ c \in Seq(Chars) /\ Len(c) = q
      /\ \A k \in 1..(p + Len(t)) : c[k] = IF k <= p THEN a[k] ELSE t[k - p]
  BY <1>1, <1>2, ConcatProperties
<1> HIDE DEF c
<1>5. /\ d \in Seq(Chars) /\ Len(d) = Len(s)
      /\ \A k \in 1..Len(s) : d[k] = IF k <= q THEN c[k] ELSE b[k - q]
  <2>1. /\ d \in Seq(Chars) /\ Len(d) = Len(c) + Len(b)
        /\ \A k \in 1..(Len(c) + Len(b)) : d[k] = IF k <= Len(c) THEN c[k] ELSE b[k - Len(c)]
    BY <1>3, <1>4, ConcatProperties, Zenon
  <2>2. Len(c) + Len(b) = Len(s)
    BY <1>1, <1>3, <1>4
  <2> HIDE DEF d
  <2> QED BY <1>4, <2>1, <2>2
<1> HIDE DEF d
<1>6. ASSUME NEW k \in 1..Len(s) PROVE d[k] = s[k]
  <2>1. CASE k <= p
    <3>1. k <= q /\ k \in 1..(p + Len(t)) /\ k \in 1..p
      BY <1>1, <2>1
    <3> QED BY <1>2, <1>4, <1>5, <2>1, <3>1
  <2>2. CASE ~(k <= p) /\ k <= q
    <3>1. k \in 1..(p + Len(t)) /\ k - p \in 1..Len(t) /\ p + (k - p) = k
      BY <1>1, <2>2
    <3>2. d[k] = t[k - p]
      BY <1>4, <1>5, <2>2, <3>1
    <3> QED BY <1>1, <3>1, <3>2
  <2>3. CASE ~(k <= q)
    <3>1. k - q \in 1..(Len(s) - q) /\ q + (k - q) = k
      BY <1>1, <2>3
    <3>2. d[k] = b[k - q]
      BY <1>5, <2>3
    <3> QED BY <1>3, <3>1, <3>2
  <2> QED BY <2>1, <2>2, <2>3
<1>7. d = s
  BY <1>5, <1>6, SeqEqual
<1>8. \A k \in 1..Len(b) : b[k] = s[p + Len(t) + k]
  BY <1>1, <1>3
<1>9. Len(b) = Len(s) - (p + Len(t))
  BY <1>1, <1>3
<1>10. (a \o t) \o b = s
  BY <1>7 DEF c, d
<1> QED BY <1>2, <1>3, <1>8, <1>9, <1>10, Zenon DEF a, b

LEMMA CutJoined ==
  ASSUME NEW s \in Seq(Chars), NEW t \in Seq(Chars), NEW p \in Nat, At(s, t, p)
  PROVE  (Fn!substr(s, 0, p) \o t) \o Fn!substr(s, p + Len(t), Fn!npos) = s
BY CutHere

\* Nothing is found before the first place.
LEMMA NoneBefore ==
  ASSUME NEW s \in Seq(Chars), NEW t \in Seq(Chars), t # <<>>, NEW p \in Nat,
         p = Fn!find(s, t, 0), At(s, t, p)
  PROVE  ~Fn!Holds(Fn!substr(s, 0, p), t)
<1> DEFINE a == Fn!substr(s, 0, p)
           r == Fn!find(a, t, 0)
<1>1. a \in Seq(Chars) /\ Len(a) = p /\ \A k \in 1..p : a[k] = s[k]
  BY CutHere
<1>2. Len(t) \in Nat /\ Len(t) >= 1 /\ Len(s) \in Nat /\ p <= Len(s)
  BY EmptySeq DEF At
<1> HIDE DEF a
<1>3. r = -1 \/ (r \in Nat /\ At(a, t, r))
  BY <1>1, FindIs
<1> HIDE DEF r
<1>4. ASSUME r \in Nat, At(a, t, r) PROVE FALSE
  <2>1. r + Len(t) <= p /\ \A k \in 1..Len(t) : a[r + k] = t[k]
    BY <1>1, <1>4 DEF At
  <2>2. \A k \in 1..Len(t) : r + k \in 1..p
    BY <1>2, <1>4, <2>1
  <2>3. At(s, t, r)
    BY <1>1, <1>2, <1>4, <2>1, <2>2 DEF At
  <2>4. r \in Found(s, t, 0) /\ ~(p <= r)
    BY <1>2, <1>4, <2>1, <2>3 DEF Found
  <2>5. \A k \in Found(s, t, 0) : p <= k
    BY FindIs
  <2> QED BY <2>4, <2>5
<1> QED BY <1>3, <1>4 DEF Fn!Holds, Fn!npos, r, a

\* No text, or one.
OneText(j) == j = <<>> \/ \E y \in Seq(Chars) : j = <<y>>

\* What was split off and what is left make the text, joined again.
SplitInv ==
  op = "Split" =>
    /\ text \in Seq(Chars) /\ str \in Seq(Chars) /\ oldText \in Seq(Chars) /\ oldText # <<>>
    /\ arr \in Seq(Seq(Chars))
    /\ \A k \in 1..Len(arr) : ~Fn!Holds(arr[k], oldText)
    /\ OneText(Fn!Join(arr, oldText))
    /\ textPc = "start" => str = text
    /\ textPc # "done" => pos = Fn!find(str, oldText, 0)
    /\ textPc = "loop" => pos # -1 /\ Fn!Join(Append(arr, str), oldText) = <<text>>
    /\ textPc = "done" => /\ arr # <<>> => Fn!Join(arr, oldText) = <<text>>
                          /\ arr = <<>> => text = <<>>

LEMMA SplitOnly ==
  ASSUME SplitInv, [Fn!AllNext]_textVars
  PROVE  SplitInv' \/ (op = "Split" /\ Fn!Step)
<1> SUFFICES ASSUME ~(op = "Split" /\ Fn!Step) PROVE SplitInv'
  OBVIOUS
<1>1. CASE UNCHANGED textVars
  BY <1>1 DEF textVars, SplitInv
<1>2. CASE Fn!Call
  BY <1>2 DEF Fn!Call, Fn!call, Fn!CallPath, Fn!CallCodec, Fn!CallTime, SplitInv
<1>3. CASE Fn!Step
  BY <1>3 DEF Fn!Step, Fn!call, Fn!TrimStart, Fn!TrimHead, Fn!TrimTail, Fn!Replace, Fn!SplitStart,
              Fn!SplitStep, Fn!FindCount, Fn!EraseString, SplitInv
<1> QED BY <1>1, <1>2, <1>3 DEF Fn!AllNext

LEMMA Regrouped ==
  ASSUME NEW x \in Seq(Chars), NEW y \in Seq(Chars), NEW z \in Seq(Chars)
  PROVE  (x \o y) \o z = x \o (y \o z)
BY ConcatAssociative

\* To join a, then b, is to join their text.
LEMMA JoinTwo ==
  ASSUME NEW parts \in Seq(Seq(Chars)), NEW sep \in Seq(Chars), NEW a \in Seq(Chars), NEW b \in Seq(Chars),
         OneText(Fn!Join(parts, sep))
  PROVE  LET c == (a \o sep) \o b
         IN  Fn!Join(Append(Append(parts, a), b), sep) = Fn!Join(Append(parts, c), sep)
<1> DEFINE j == Fn!Join(parts, sep)
           more == Append(parts, a)
           c == (a \o sep) \o b
<1>1. more \in Seq(Seq(Chars)) /\ c \in Seq(Chars)
  OBVIOUS
<1>2. Fn!Join(more, sep) = JoinedWith(sep, j, a)
  BY JoinAppend
<1>3. Fn!Join(Append(parts, c), sep) = JoinedWith(sep, j, c)
  <2> HIDE DEF c
  <2> QED BY <1>1, JoinAppend
<1>4. Fn!Join(Append(more, b), sep) = JoinedWith(sep, Fn!Join(more, sep), b)
  <2> HIDE DEF more
  <2> QED BY <1>1, JoinAppend
<1> SUFFICES JoinedWith(sep, JoinedWith(sep, j, a), b) = JoinedWith(sep, j, c)
  BY <1>2, <1>3, <1>4
<1>5. CASE j = <<>>
  <2>1. JoinedWith(sep, j, a) = <<a>> /\ JoinedWith(sep, j, c) = <<c>>
    BY <1>5 DEF JoinedWith
  <2>2. JoinedWith(sep, <<a>>, b) = <<a \o sep \o b>>
    BY DEF JoinedWith
  <2> QED BY <2>1, <2>2
<1>6. ASSUME NEW y \in Seq(Chars), j = <<y>>
      PROVE  JoinedWith(sep, JoinedWith(sep, j, a), b) = JoinedWith(sep, j, c)
  <2> DEFINE z == (y \o sep) \o a
             w == y \o sep
  <2>1. JoinedWith(sep, j, a) = <<z>> /\ JoinedWith(sep, j, c) = <<w \o c>>
    BY <1>6, SMTT(30) DEF JoinedWith
  <2>2. JoinedWith(sep, <<z>>, b) = <<(z \o sep) \o b>>
    BY DEF JoinedWith
  <2>3. w \in Seq(Chars) /\ a \o sep \in Seq(Chars) /\ z = w \o a
    OBVIOUS
  <2> HIDE DEF z, w, c
  <2>4. z \o sep = w \o (a \o sep)
    <3>0. w \in Seq(Chars)
      BY <2>3
    <3>1. (w \o a) \o sep = w \o (a \o sep)
      BY <3>0, Regrouped
    <3> QED BY <2>3, <3>1
  <2>5. (w \o (a \o sep)) \o b = w \o c
    <3> DEFINE v == a \o sep
    <3>0. w \in Seq(Chars) /\ v \in Seq(Chars)
      BY <2>3
    <3> HIDE DEF v
    <3>2. (w \o v) \o b = w \o (v \o b)
      BY <3>0, Regrouped, ZenonT(60)
    <3>1. (w \o (a \o sep)) \o b = w \o ((a \o sep) \o b)
      BY <3>2 DEF v
    <3> QED BY <3>1 DEF c
  <2> QED BY <2>1, <2>2, <2>4, <2>5
<1> QED BY <1>5, <1>6 DEF OneText

LEMMA SplitStep == SplitInv /\ [Fn!AllNext]_textVars => SplitInv'
<1> SUFFICES ASSUME SplitInv, [Fn!AllNext]_textVars PROVE SplitInv'
  OBVIOUS
<1> SUFFICES ASSUME op = "Split", Fn!Step PROVE SplitInv'
  BY SplitOnly
<1>1. /\ text \in Seq(Chars) /\ str \in Seq(Chars) /\ oldText \in Seq(Chars) /\ oldText # <<>>
      /\ arr \in Seq(Seq(Chars)) /\ \A k \in 1..Len(arr) : ~Fn!Holds(arr[k], oldText)
      /\ OneText(Fn!Join(arr, oldText))
  BY DEF SplitInv
<1>2. Fn!SplitStart \/ Fn!SplitStep
  BY DEF Fn!Step, Fn!TrimStart, Fn!TrimHead, Fn!TrimTail, Fn!Replace, Fn!FindCount, Fn!EraseString
<1>3. op' = "Split" /\ text' = text /\ oldText' = oldText
  BY <1>2 DEF Fn!SplitStart, Fn!SplitStep, Fn!call
<1>4. CASE Fn!SplitStart
  <2>1. /\ textPc = "start" /\ str' = str /\ pos' = pos
        /\ arr' = IF text = <<>> \/ pos # -1 THEN <<>> ELSE <<text>>
        /\ textPc' = IF text = <<>> \/ pos = -1 THEN "done" ELSE "loop"
    BY <1>4 DEF Fn!SplitStart, Fn!npos
  <2>2. str = text /\ pos = Fn!find(str, oldText, 0)
    BY <2>1 DEF SplitInv
  <2>3. Fn!Join(<<>>, oldText) = <<>>
    BY JoinEmpty
  <2>4. Fn!Join(Append(<<>>, text), oldText) = <<text>>
    <3>1. <<>> \in Seq(Seq(Chars))
      OBVIOUS
    <3> QED BY <1>1, <2>3, <3>1, JoinAppend, ZenonT(60) DEF JoinedWith
  <2>5. Append(<<>>, text) = <<text>> /\ <<text>> # <<>> /\ <<>> \in Seq(Seq(Chars))
        /\ <<text>> \in Seq(Seq(Chars)) /\ Len(<<text>>) = 1 /\ <<text>>[1] = text
    BY <1>1
  <2>6. pos = -1 => ~Fn!Holds(text, oldText)
    BY <2>2 DEF Fn!Holds, Fn!npos
  <2>7. CASE text = <<>> \/ pos # -1
    <3>1. arr' = <<>> /\ Len(arr') = 0
      BY <2>1, <2>7
    <3>2. textPc' = "done" => text = <<>>
      BY <2>1, <2>7
    <3>3. \A k \in 1..Len(arr') : ~Fn!Holds(arr'[k], oldText')
      BY <3>1
    <3>4. OneText(Fn!Join(arr', oldText')) /\ arr' \in Seq(Seq(Chars))
      BY <1>3, <2>3, <2>5, <3>1 DEF OneText
    <3>5. textPc' = "loop" => pos' # -1 /\ Fn!Join(Append(arr', str'), oldText') = <<text'>>
      BY <1>3, <2>1, <2>2, <2>4, <3>1
    <3>6. textPc' # "start" /\ pos' = Fn!find(str', oldText', 0)
      BY <1>3, <2>1, <2>2
    <3> QED BY <1>1, <1>3, <2>1, <3>1, <3>2, <3>3, <3>4, <3>5, <3>6 DEF SplitInv
  <2>8. CASE ~(text = <<>> \/ pos # -1)
    <3>1. arr' = <<text>> /\ textPc' = "done"
      BY <2>1, <2>8
    <3>2. \A k \in 1..1 : k = 1
      OBVIOUS
    <3>3. \A k \in 1..Len(arr') : ~Fn!Holds(arr'[k], oldText')
      BY <1>3, <2>5, <2>6, <2>8, <3>1, <3>2
    <3>4. Fn!Join(arr', oldText') = <<text'>> /\ OneText(Fn!Join(arr', oldText'))
      BY <1>1, <1>3, <2>4, <2>5, <3>1 DEF OneText
    <3> QED BY <1>1, <1>3, <2>1, <2>5, <3>1, <3>3, <3>4 DEF SplitInv
  <2> QED BY <2>7, <2>8
<1>5. CASE Fn!SplitStep
  <2> DEFINE a == Fn!substr(str, 0, pos)
             b == Fn!substr(str, pos + Len(oldText), Fn!npos)
             more == Append(arr, a)
  <2>1. /\ textPc = "loop" /\ str' = b /\ pos' = Fn!find(b, oldText, 0)
        /\ arr' = more \o (IF pos' = -1 THEN <<b>> ELSE <<>>)
        /\ textPc' = IF pos' = -1 THEN "done" ELSE "loop"
    BY <1>5 DEF Fn!SplitStep, Fn!npos, Fn!LastPart
  <2>2. pos = Fn!find(str, oldText, 0) /\ pos # -1 /\ Fn!Join(Append(arr, str), oldText) = <<text>>
    BY <2>1 DEF SplitInv
  <2>3. pos \in Nat /\ At(str, oldText, pos)
    BY <1>1, <2>2, FindIs
  <2>4. a \in Seq(Chars) /\ b \in Seq(Chars) /\ (a \o oldText) \o b = str
    <3>1. str \in Seq(Chars) /\ oldText \in Seq(Chars)
      BY <1>1
    <3>2. a \in Seq(Chars) /\ b \in Seq(Chars)
      BY <2>3, <3>1, CutHere
    <3>3. (a \o oldText) \o b = str
      BY <2>3, <3>1, CutJoined
    <3> QED BY <3>2, <3>3
  <2>5. ~Fn!Holds(a, oldText)
    BY <1>1, <2>2, <2>3, NoneBefore
  <2> HIDE DEF a, b
  <2>6. /\ more \in Seq(Seq(Chars)) /\ Len(more) = Len(arr) + 1 /\ Len(arr) \in Nat
        /\ more[Len(arr) + 1] = a /\ \A k \in 1..Len(arr) : more[k] = arr[k]
    BY <1>1, <2>4, AppendProperties
  <2>7. OneText(Fn!Join(more, oldText))
    <3>1. Fn!Join(more, oldText) = JoinedWith(oldText, Fn!Join(arr, oldText), a)
      BY <1>1, <2>4, JoinAppend
    <3>2. CASE Fn!Join(arr, oldText) = <<>>
      BY <2>4, <3>1, <3>2 DEF JoinedWith, OneText
    <3>3. ASSUME NEW y \in Seq(Chars), Fn!Join(arr, oldText) = <<y>>
          PROVE  \E z \in Seq(Chars) : Fn!Join(more, oldText) = <<z>>
      <4>1. Fn!Join(more, oldText) = <<(y \o oldText) \o a>>
        BY <3>1, <3>3 DEF JoinedWith
      <4>2. (y \o oldText) \o a \in Seq(Chars)
        BY <1>1, <2>4
      <4> QED BY <4>1, <4>2
    <3> QED BY <1>1, <3>2, <3>3 DEF OneText
  <2>8. Fn!Join(Append(more, b), oldText) = <<text>>
    <3>1. Fn!Join(Append(Append(arr, a), b), oldText)
            = Fn!Join(Append(arr, (a \o oldText) \o b), oldText)
      <4>1. arr \in Seq(Seq(Chars)) /\ oldText \in Seq(Chars)
        BY <1>1
      <4>2. a \in Seq(Chars) /\ b \in Seq(Chars)
        BY <2>4
      <4>3. OneText(Fn!Join(arr, oldText))
        BY <1>1
      <4> QED BY <4>1, <4>2, <4>3, JoinTwo
    <3> QED BY <2>2, <2>4, <3>1
  <2> HIDE DEF more
  <2>9. \A k \in 1..Len(more) : ~Fn!Holds(more[k], oldText)
    <3> SUFFICES ASSUME NEW k \in 1..Len(more) PROVE ~Fn!Holds(more[k], oldText)
      OBVIOUS
    <3>1. CASE k = Len(arr) + 1
      BY <2>5, <2>6, <3>1
    <3>2. CASE k # Len(arr) + 1
      <4>1. k \in 1..Len(arr)
        BY <2>6, <3>2
      <4> QED BY <1>1, <2>6, <4>1
    <3> QED BY <3>1, <3>2
  <2>10. CASE pos' = -1
    <3>1. arr' = Append(more, b) /\ arr' # <<>> /\ textPc' = "done"
      <4>1. arr' = more \o <<b>>
        BY <2>1, <2>10
      <4> QED BY <2>1, <2>4, <2>6, <2>10, <4>1
    <3>2. /\ arr' \in Seq(Seq(Chars)) /\ Len(arr') = Len(more) + 1 /\ Len(more) \in Nat
          /\ arr'[Len(more) + 1] = b /\ \A k \in 1..Len(more) : arr'[k] = more[k]
      <4> DEFINE w == Append(more, b)
      <4>1. /\ w \in Seq(Seq(Chars)) /\ Len(w) = Len(more) + 1 /\ Len(more) \in Nat
            /\ w[Len(more) + 1] = b /\ \A k \in 1..Len(more) : w[k] = more[k]
        BY <2>4, <2>6
      <4>2. arr' = w
        BY <3>1
      <4> HIDE DEF w
      <4> QED BY <4>1, <4>2
    <3>3. ~Fn!Holds(b, oldText)
      BY <2>1, <2>10 DEF Fn!Holds, Fn!npos
    <3>4. ASSUME NEW k \in 1..Len(arr') PROVE ~Fn!Holds(arr'[k], oldText)
      <4>1. CASE k = Len(more) + 1
        BY <3>2, <3>3, <4>1
      <4>2. CASE k # Len(more) + 1
        <5>1. k \in 1..Len(more)
          BY <3>2, <4>2
        <5> QED BY <2>9, <3>2, <5>1
      <4> QED BY <4>1, <4>2
    <3>5. Fn!Join(arr', oldText') = <<text'>> /\ OneText(Fn!Join(arr', oldText'))
      BY <1>1, <1>3, <2>8, <3>1 DEF OneText
    <3> QED BY <1>1, <1>3, <2>1, <2>4, <3>1, <3>2, <3>4, <3>5 DEF SplitInv
  <2>11. CASE pos' # -1
    <3>1. arr' = more /\ textPc' = "loop"
      <4>1. arr' = more \o <<>>
        BY <2>1, <2>11
      <4> QED BY <2>1, <2>6, <2>11, <4>1
    <3> QED BY <1>1, <1>3, <2>1, <2>4, <2>6, <2>7, <2>8, <2>9, <2>11, <3>1 DEF SplitInv
  <2> QED BY <2>10, <2>11
<1> QED BY <1>2, <1>4, <1>5

LEMMA SplitRight == SplitInv => Fn!SplitJoins
  BY DEF SplitInv, Fn!SplitJoins

(***************************************************************************)
(* FindCount.                                                              *)
(***************************************************************************)

\* A string without two equal characters cannot overlap itself.
Distinct(t) == \A i, j \in 1..Len(t) : t[i] = t[j] => i = j

LEMMA DistinctIs ==
  ASSUME NEW t \in Seq(Chars), Fn!Cardinality(Fn!Range(t)) = Len(t)
  PROVE  Distinct(t)
<1> DEFINE I == 1..Len(t)
           R == Fn!Range(t)
<1>1. Len(t) \in Nat /\ DOMAIN t = I /\ t = [i \in I |-> t[i]]
  BY SMTT(30)
<1>2. R = {t[i] : i \in I}
  BY <1>1 DEF Fn!Range
<1>3. IsFiniteSet(I) /\ Cardinality(I) = Len(t)
  <2>1. 1 \in Int /\ Len(t) \in Int /\ (IF 1 > Len(t) THEN 0 ELSE Len(t) - 1 + 1) = Len(t)
    BY <1>1
  <2> QED BY <2>1, FS_Interval
<1>4. Cardinality(R) = Len(t)
  BY SameCardinality
<1> HIDE DEF I, R
<1>5. t \in Surjection(I, R)
  <2>1. t \in [I -> R]
    BY <1>1, <1>2
  <2>2. \A r \in R : \E i \in I : t[i] = r
    BY <1>2
  <2> QED BY <2>1, <2>2 DEF Surjection
<1>6. t \in Injection(I, R)
  BY <1>3, <1>4, <1>5, FS_SurjSameCardinalityImpliesInj
<1>7. \A i, j \in I : t[i] = t[j] => i = j
  BY <1>1, <1>6 DEF Injection, IsInjective
<1> QED BY <1>7 DEF Distinct, I

LEMMA FoundFinite ==
  ASSUME NEW s \in Seq(Chars), NEW t \in Seq(Chars), t # <<>>, NEW from \in Nat
  PROVE  /\ IsFiniteSet(Found(s, t, from)) /\ Cardinality(Found(s, t, from)) \in Nat
         /\ Cardinality(Found(s, t, from)) <= Len(s)
         /\ Found(s, t, from) # {} => Cardinality(Found(s, t, from)) >= 1
<1> DEFINE P == Found(s, t, from)
           I == 0..(Len(s) - 1)
<1>1. Len(s) \in Nat /\ Len(t) \in Nat /\ Len(t) >= 1
  BY EmptySeq
<1>2. P \in SUBSET I
  <2>1. ASSUME NEW p \in P PROVE p \in I
    <3>1. p \in from..Len(s) /\ p + Len(t) <= Len(s)
      BY DEF Found, At
    <3> QED BY <1>1, <3>1
  <2> QED BY <2>1
<1>3. IsFiniteSet(I) /\ Cardinality(I) = Len(s)
  <2>1. 0 \in Int /\ Len(s) - 1 \in Int
        /\ (IF 0 > Len(s) - 1 THEN 0 ELSE (Len(s) - 1) - 0 + 1) = Len(s)
    BY <1>1
  <2> QED BY <2>1, FS_Interval
<1> HIDE DEF P, I
<1>4. IsFiniteSet(P) /\ Cardinality(P) <= Len(s)
  BY <1>2, <1>3, FS_Subset
<1>5. Cardinality(P) \in Nat
  BY <1>4, FS_CardinalityType
<1>6. ASSUME P # {} PROVE Cardinality(P) >= 1
  <2>1. Cardinality(P) # 0
    BY <1>4, <1>6, FS_EmptySet
  <2> QED BY <1>5, <2>1
<1> QED BY <1>4, <1>5, <1>6 DEF P

\* Searching from the first place on finds the same.
LEMMA FoundFrom ==
  ASSUME NEW s \in Seq(Chars), NEW t \in Seq(Chars), NEW from \in Nat
  PROVE  LET r == Fn!find(s, t, from)
         IN  \/ r = -1 /\ Found(s, t, from) = {}
             \/ /\ r \in Nat /\ r >= from /\ At(s, t, r) /\ Found(s, t, from) # {}
                /\ Found(s, t, from) = Found(s, t, r)
<1> DEFINE r == Fn!find(s, t, from)
<1>1. \/ r = -1 /\ Found(s, t, from) = {}
      \/ /\ r \in Found(s, t, from) /\ r \in Nat /\ r >= from /\ At(s, t, r)
         /\ \A p \in Found(s, t, from) : r <= p
  BY FindIs
<1> HIDE DEF r
<1>2. ASSUME r \in Nat, r >= from, \A p \in Found(s, t, from) : r <= p
      PROVE  Found(s, t, from) = Found(s, t, r)
  <2>0. Len(s) \in Nat
    OBVIOUS
  <2>1. ASSUME NEW p \in Found(s, t, from) PROVE p \in Found(s, t, r)
    <3>1. p \in from..Len(s) /\ At(s, t, p) /\ r <= p
      BY <1>2 DEF Found
    <3>2. p \in r..Len(s)
      BY <1>2, <2>0, <3>1
    <3> QED BY <3>1, <3>2 DEF Found
  <2>2. ASSUME NEW p \in Found(s, t, r) PROVE p \in Found(s, t, from)
    <3>1. p \in r..Len(s) /\ At(s, t, p)
      BY DEF Found
    <3>2. p \in from..Len(s)
      BY <1>2, <2>0, <3>1
    <3> QED BY <3>1, <3>2 DEF Found
  <2> QED BY <2>1, <2>2
<1> QED BY <1>1, <1>2 DEF r

\* Behind a place of t, t is not found before its end.
LEMMA FoundNext ==
  ASSUME NEW s \in Seq(Chars), NEW t \in Seq(Chars), t # <<>>, Distinct(t),
         NEW p \in Nat, At(s, t, p)
  PROVE  /\ Found(s, t, p) = Found(s, t, p + Len(t)) \cup {p}
         /\ p \notin Found(s, t, p + Len(t))
<1> DEFINE l == Len(t)
           n == Len(s)
<1>1. l \in Nat /\ l >= 1 /\ n \in Nat /\ p + l <= n /\ \A k \in 1..l : s[p + k] = t[k]
  BY EmptySeq DEF At
<1> HIDE DEF l, n
<1>2. ASSUME NEW q \in Found(s, t, p), q # p PROVE q \in Found(s, t, p + l)
  <2>1. q \in p..n /\ At(s, t, q)
    BY DEF Found, n
  <2>2. \A k \in 1..l : s[q + k] = t[k]
    BY <2>1 DEF At, l
  <2>3. CASE q >= p + l
    <3>1. q \in (p + l)..n
      BY <1>1, <2>1, <2>3
    <3> QED BY <2>1, <3>1 DEF Found, n
  <2>4. CASE ~(q >= p + l)
    <3> DEFINE k == (q - p) + 1
    <3>1. k \in 1..l /\ 1 \in 1..l /\ k # 1 /\ p + k = q + 1
      BY <1>1, <1>2, <2>1, <2>4
    <3> HIDE DEF k
    <3>2. t[k] = t[1]
      BY <1>1, <2>2, <3>1
    <3> QED BY <3>1, <3>2 DEF Distinct, l
  <2> QED BY <2>3, <2>4
<1>3. ASSUME NEW q \in Found(s, t, p + l) PROVE q \in Found(s, t, p) /\ q # p
  <2>1. q \in (p + l)..n /\ At(s, t, q)
    BY DEF Found, n
  <2>2. q \in p..n /\ q # p
    BY <1>1, <2>1
  <2> QED BY <2>1, <2>2 DEF Found, n
<1>4. p \in Found(s, t, p)
  <2>1. p \in p..n
    BY <1>1
  <2> QED BY <2>1 DEF Found, n
<1> QED BY <1>2, <1>3, <1>4 DEF l

LEMMA FoundLess ==
  ASSUME NEW s \in Seq(Chars), NEW t \in Seq(Chars), t # <<>>, Distinct(t),
         NEW p \in Nat, At(s, t, p)
  PROVE  Cardinality(Found(s, t, p)) = Cardinality(Found(s, t, p + Len(t))) + 1
<1> DEFINE q == p + Len(t)
<1>1. q \in Nat
  OBVIOUS
<1>2. Found(s, t, p) = Found(s, t, q) \cup {p} /\ p \notin Found(s, t, q)
  BY FoundNext
<1> HIDE DEF q
<1>3. IsFiniteSet(Found(s, t, q))
  BY <1>1, FoundFinite
<1>4. Cardinality(Found(s, t, q) \cup {p})
        = IF p \in Found(s, t, q) THEN Cardinality(Found(s, t, q)) ELSE Cardinality(Found(s, t, q)) + 1
  BY <1>3, FS_AddElement
<1> QED BY <1>2, <1>4 DEF q

\* From where the search goes on.
Ahead(s, t, p) == IF p = -1 THEN {} ELSE Found(s, t, p)

\* What was counted and what is still ahead are all places; the text up to
\* the next place has room for what was counted.
CountInv ==
  op = "FindCount" =>
    /\ text \in Seq(Chars) /\ oldText \in Seq(Chars) /\ oldText # <<>>
    /\ str = text /\ Len(text) <= MaxStr /\ count \in Nat
    /\ pos = -1 \/ (pos \in Nat /\ At(text, oldText, pos))
    /\ textPc = "done" => pos = -1
    /\ count * Len(oldText) <= IF pos = -1 THEN Len(text) ELSE pos
    /\ IF count = 0 THEN pos = Fn!find(text, oldText, 0) ELSE Found(text, oldText, 0) # {}
    /\ Distinct(oldText) =>
         count + Cardinality(Ahead(text, oldText, pos)) = Cardinality(Found(text, oldText, 0))

LEMMA CountOnly ==
  ASSUME CountInv, [Fn!AllNext]_textVars
  PROVE  CountInv' \/ (op = "FindCount" /\ Fn!Step)
<1> SUFFICES ASSUME ~(op = "FindCount" /\ Fn!Step) PROVE CountInv'
  OBVIOUS
<1>1. CASE UNCHANGED textVars
  BY <1>1 DEF textVars, CountInv
<1>2. CASE Fn!Call
  BY <1>2 DEF Fn!Call, Fn!call, Fn!CallPath, Fn!CallCodec, Fn!CallTime, CountInv
<1>3. CASE Fn!Step
  BY <1>3 DEF Fn!Step, Fn!call, Fn!TrimStart, Fn!TrimHead, Fn!TrimTail, Fn!Replace, Fn!SplitStart,
              Fn!SplitStep, Fn!FindCount, Fn!EraseString, CountInv
<1> QED BY <1>1, <1>2, <1>3 DEF Fn!AllNext

LEMMA Times ==
  ASSUME NEW n \in Nat, NEW l \in Int
  PROVE  n * l \in Int /\ (n + 1) * l = n * l + l /\ (l >= 1 => n * l >= n)
<1>1. n * l \in Int /\ (n + 1) * l = n * l + l
  OBVIOUS
<1>2. ASSUME l >= 1 PROVE n * l >= n
  <2>1. n * l = n * (l - 1) + n /\ l - 1 \in Nat
    BY <1>2
  <2>2. n * (l - 1) \in Nat
    BY <2>1
  <2> QED BY <1>1, <2>1, <2>2
<1> QED BY <1>1, <1>2

LEMMA CountStep == CountInv /\ [Fn!AllNext]_textVars => CountInv'
<1> SUFFICES ASSUME CountInv, [Fn!AllNext]_textVars PROVE CountInv'
  OBVIOUS
<1> SUFFICES ASSUME op = "FindCount", Fn!Step PROVE CountInv'
  BY CountOnly
<1> DEFINE l == Len(oldText)
           n == Len(text)
           q == pos + l
<1>1. /\ text \in Seq(Chars) /\ oldText \in Seq(Chars) /\ oldText # <<>>
      /\ str = text /\ n <= MaxStr /\ count \in Nat
  BY DEF CountInv
<1>2. Fn!FindCount
  BY DEF Fn!Step, Fn!TrimStart, Fn!TrimHead, Fn!TrimTail, Fn!Replace, Fn!SplitStart, Fn!SplitStep,
         Fn!EraseString
<1>3. op' = "FindCount" /\ text' = text /\ oldText' = oldText /\ str' = str
  BY <1>2 DEF Fn!FindCount, Fn!call
<1>4. CASE pos = -1
  <2>1. pos' = pos /\ count' = count
    BY <1>2, <1>4 DEF Fn!FindCount, Fn!npos
  <2> QED BY <1>3, <1>4, <2>1 DEF CountInv
<1>5. CASE pos # -1
  <2>1. pos \in Nat /\ At(text, oldText, pos) /\ count * l <= pos
    BY <1>5 DEF CountInv
  <2>2. l \in Nat /\ l >= 1 /\ n \in Nat /\ q \in Nat /\ q <= n /\ q = pos + l
    BY <1>1, <2>1, EmptySeq DEF At
  <2>3. /\ count' = IF count < MaxCount THEN count + 1 ELSE count
        /\ pos' = Fn!find(text, oldText, q) /\ textPc' = "loop"
    BY <1>1, <1>2, <1>5 DEF Fn!FindCount, Fn!Counted, Fn!NextFrom, Fn!npos
  <2> HIDE DEF l, n, q
  <2>4. count * l \in Int /\ (count + 1) * l = count * l + l /\ count * l >= count
    BY <1>1, <2>2, Times
  <2>5. count < MaxCount
    BY <1>1, <2>1, <2>2, <2>4, TextAssumption
  <2>6. count' = count + 1 /\ count' # 0 /\ count' * l <= q
    BY <1>1, <2>1, <2>2, <2>3, <2>4, <2>5
  <2>7. \/ pos' = -1 /\ Found(text, oldText, q) = {}
        \/ /\ pos' \in Nat /\ pos' >= q /\ At(text, oldText, pos')
           /\ Found(text, oldText, q) = Found(text, oldText, pos')
    BY <1>1, <2>2, <2>3, FoundFrom
  <2>8. Ahead(text, oldText, pos') = Found(text, oldText, q)
    BY <2>7 DEF Ahead
  <2>9. count' * l <= IF pos' = -1 THEN n ELSE pos'
    <3>1. count' * l \in Int
      BY <2>2, <2>4, <2>6
    <3> QED BY <2>2, <2>6, <2>7, <3>1
  <2>10. Found(text, oldText, 0) # {}
    <3>1. pos \in 0..n
      BY <2>1, <2>2
    <3> QED BY <2>1, <3>1 DEF Found, n
  <2>11. ASSUME Distinct(oldText)
         PROVE  count' + Cardinality(Ahead(text, oldText, pos')) = Cardinality(Found(text, oldText, 0))
    <3>1. count + Cardinality(Ahead(text, oldText, pos)) = Cardinality(Found(text, oldText, 0))
      BY <2>11 DEF CountInv
    <3>2. Cardinality(Ahead(text, oldText, pos)) = Cardinality(Found(text, oldText, q)) + 1
      BY <1>1, <1>5, <2>1, <2>11, FoundLess DEF Ahead, q, l
    <3>3. Cardinality(Found(text, oldText, q)) \in Nat
      BY <1>1, <2>2, FoundFinite
    <3> QED BY <1>1, <2>6, <2>8, <3>1, <3>2, <3>3
  <2>12. count' \in Nat /\ textPc' # "done" /\ (pos' = -1 \/ (pos' \in Nat /\ At(text, oldText, pos')))
    BY <1>1, <2>3, <2>6, <2>7
  <2>13. str' = text' /\ Len(text') <= MaxStr
    BY <1>1, <1>3 DEF n
  <2> QED BY <1>1, <1>3, <2>6, <2>9, <2>10, <2>11, <2>12, <2>13 DEF CountInv, l, n
<1> QED BY <1>4, <1>5

LEMMA CountRight == CountInv => Fn!CountsOccurrences
<1> SUFFICES ASSUME CountInv, op = "FindCount", textPc = "done" PROVE Fn!CountsOccurrences
  BY DEF Fn!CountsOccurrences
<1>1. /\ text \in Seq(Chars) /\ oldText \in Seq(Chars) /\ pos = -1 /\ count \in Nat
      /\ count * Len(oldText) <= Len(text)
      /\ IF count = 0 THEN pos = Fn!find(text, oldText, 0) ELSE Found(text, oldText, 0) # {}
      /\ Distinct(oldText) => count + Cardinality({}) = Cardinality(Found(text, oldText, 0))
  BY DEF CountInv, Ahead
<1>2. count = 0 <=> ~Fn!Holds(text, oldText)
  <2>1. 0 \in Nat
    OBVIOUS
  <2>2. Found(text, oldText, 0) # {} => Fn!find(text, oldText, 0) # -1
    BY <1>1, <2>1, FoundFrom
  <2> QED BY <1>1, <2>2 DEF Fn!Holds, Fn!npos
<1>3. ASSUME Fn!Cardinality(Fn!Range(oldText)) = Len(oldText)
      PROVE  count = Fn!Cardinality(Fn!Positions(text, oldText, 0))
  <2>1. Distinct(oldText)
    BY <1>1, <1>3, DistinctIs
  <2>2. count = Cardinality(Found(text, oldText, 0))
    BY <1>1, <2>1, FS_EmptySet
  <2>3. Fn!Positions(text, oldText, 0) = Found(text, oldText, 0)
    BY <1>1, PlacesAre
  <2> QED BY <2>2, <2>3, SameCardinality
<1> QED BY <1>1, <1>2, <1>3 DEF Fn!CountsOccurrences

(***************************************************************************)
(* Replace.                                                                *)
(***************************************************************************)

\* u in the place of t.
Changed(s, t, u, p, v) ==
  LET d == Len(u) - Len(t)
  IN  /\ v \in Seq(Chars) /\ Len(v) = Len(s) + d
      /\ \A k \in 1..p : v[k] = s[k]
      /\ \A k \in 1..Len(u) : v[p + k] = u[k]
      /\ \A k \in (p + Len(u) + 1)..(Len(s) + d) : v[k] = s[k - d]

LEMMA ReplaceIs ==
  ASSUME NEW s \in Seq(Chars), NEW t \in Seq(Chars), NEW u \in Seq(Chars), NEW p \in Nat, At(s, t, p)
  PROVE  Changed(s, t, u, p, Fn!replace(s, p, Len(t), u))
<1> DEFINE a == Fn!substr(s, 0, p)
           b == Fn!substr(s, p + Len(t), Fn!npos)
           c == a \o u
           v == Fn!replace(s, p, Len(t), u)
           l == Len(t)
           m == Len(u)
           n == Len(s)
           d == m - l
<1>1. l \in Nat /\ m \in Nat /\ n \in Nat /\ p + l <= n /\ d \in Int /\ d = m - l
  BY DEF At
<1>2. a \in Seq(Chars) /\ Len(a) = p /\ \A k \in 1..p : a[k] = s[k]
  BY CutHere
<1>3. /\ b \in Seq(Chars) /\ Len(b) = n - (p + l)
      /\ \A k \in 1..Len(b) : b[k] = s[p + l + k]
  BY CutHere
<1>4. v = c \o b
  BY DEF Fn!replace
<1> HIDE DEF a, b, v, l, n, d
<1>5. /\ c \in Seq(Chars) /\ Len(c) = p + m
      /\ \A k \in 1..(p + m) : c[k] = IF k <= p THEN a[k] ELSE u[k - p]
  BY <1>2, ConcatProperties
<1> HIDE DEF c, m
<1>6. /\ v \in Seq(Chars) /\ Len(v) = n + d
      /\ \A k \in 1..(n + d) : v[k] = IF k <= p + m THEN c[k] ELSE b[k - (p + m)]
  <2>1. /\ c \o b \in Seq(Chars) /\ Len(c \o b) = Len(c) + Len(b)
        /\ \A k \in 1..(Len(c) + Len(b)) : (c \o b)[k] = IF k <= Len(c) THEN c[k] ELSE b[k - Len(c)]
    BY <1>3, <1>5, ConcatProperties
  <2>2. Len(c) + Len(b) = n + d
    BY <1>1, <1>3, <1>5, SMTT(30)
  <2> QED BY <1>4, <1>5, <2>1, <2>2
<1>7. ASSUME NEW k \in 1..p PROVE v[k] = s[k]
  <2>1. k \in 1..(n + d) /\ k \in 1..(p + m) /\ k <= p /\ k <= p + m
    BY <1>1
  <2> QED BY <1>2, <1>5, <1>6, <2>1
<1>8. ASSUME NEW k \in 1..m PROVE v[p + k] = u[k]
  <2> DEFINE i == p + k
  <2>1. i \in 1..(n + d) /\ i \in 1..(p + m) /\ ~(i <= p) /\ i <= p + m /\ i - p = k
    BY <1>1
  <2> HIDE DEF i
  <2>2. v[i] = u[k]
    BY <1>5, <1>6, <2>1
  <2> QED BY <2>2 DEF i
<1>9. ASSUME NEW k \in (p + m + 1)..(n + d) PROVE v[k] = s[k - d]
  <2> DEFINE i == k - (p + m)
  <2>1. k \in 1..(n + d) /\ ~(k <= p + m) /\ i \in 1..Len(b) /\ p + l + i = k - d
    BY <1>1, <1>3
  <2>2. v[k] = b[i]
    BY <1>6, <2>1
  <2> HIDE DEF i
  <2> QED BY <1>3, <2>1, <2>2
<1> QED BY <1>6, <1>7, <1>8, <1>9 DEF v, l, m, n, d, Changed

\* A new text that cannot be part of an old one.
Clean(t, u) == u # <<>> /\ (\A i \in 1..Len(t), j \in 1..Len(u) : t[i] # u[j]) /\ Distinct(t)

\* Replacing the first takes away one place, and makes none.
LEMMA ReplacedOne ==
  ASSUME NEW s \in Seq(Chars), NEW t \in Seq(Chars), NEW u \in Seq(Chars), t # <<>>, Clean(t, u),
         NEW p \in Nat, p = Fn!find(s, t, 0)
  PROVE  Cardinality(Found(s, t, 0))
           = Cardinality(Found(Fn!replace(s, p, Len(t), u), t, 0)) + 1
<1> DEFINE v == Fn!replace(s, p, Len(t), u)
           l == Len(t)
           m == Len(u)
           n == Len(s)
           d == m - l
           Y == Found(s, t, p + l)
           Z == Found(v, t, 0)
           f == [q \in Y |-> q + d]
<1>0. p # -1 /\ 0 \in Nat
  OBVIOUS
<1>1. At(s, t, p) /\ Found(s, t, 0) = Found(s, t, p) /\ \A q \in Found(s, t, 0) : p <= q
  BY <1>0, FoundFrom, FindIs
<1>2. Cardinality(Found(s, t, p)) = Cardinality(Y) + 1
  BY <1>1, FoundLess DEF Clean
<1>3. /\ l \in Nat /\ l >= 1 /\ m \in Nat /\ m >= 1 /\ n \in Nat /\ p + l <= n /\ d \in Int
      /\ d = m - l /\ 1 \in 1..l /\ 1 \in 1..m
  BY <1>1, EmptySeq DEF At, Clean
<1>4. /\ v \in Seq(Chars) /\ Len(v) = n + d
      /\ \A k \in 1..p : v[k] = s[k]
      /\ \A k \in 1..m : v[p + k] = u[k]
      /\ \A k \in (p + m + 1)..(n + d) : v[k] = s[k - d]
  <2>1. At(s, t, p)
    BY <1>1
  <2>2. Changed(s, t, u, p, v)
    BY <2>1, ReplaceIs
  <2> QED BY <2>2 DEF Changed
<1>5. \A i \in 1..l, j \in 1..m : t[i] # u[j]
  BY DEF Clean
<1>6. \A q : q \in Y <=> /\ q \in (p + l)..n /\ q + l <= n
                         /\ \A k \in 1..l : s[q + k] = t[k]
  BY DEF Found, At
<1>7. \A z : z \in Z <=> /\ z \in 0..(n + d) /\ z + l <= n + d
                         /\ \A k \in 1..l : v[z + k] = t[k]
  BY <1>4 DEF Found, At
<1> HIDE DEF v, l, m, n, d, Y, Z
<1>8. ASSUME NEW q \in Y PROVE q + d \in Z
  <2>1. q \in (p + l)..n /\ q + l <= n /\ \A k \in 1..l : s[q + k] = t[k]
    BY <1>6
  <2>2. q + d \in 0..(n + d) /\ (q + d) + l <= n + d
    BY <1>3, <2>1
  <2>3. ASSUME NEW k \in 1..l PROVE v[(q + d) + k] = t[k]
    <3> DEFINE i == (q + d) + k
    <3>1. i \in (p + m + 1)..(n + d) /\ i - d = q + k
      BY <1>3, <2>1
    <3> HIDE DEF i
    <3>2. v[i] = s[q + k]
      BY <1>4, <3>1
    <3> QED BY <2>1, <3>2 DEF i
  <2> QED BY <1>7, <2>2, <2>3
<1>9. ASSUME NEW z \in Z PROVE z - d \in Y
  <2>1. z \in 0..(n + d) /\ z + l <= n + d /\ \A k \in 1..l : v[z + k] = t[k]
    BY <1>7
  <2>2. z >= p + m
    <3>1. CASE z + l <= p
      <4>1. ASSUME NEW k \in 1..l PROVE s[z + k] = t[k]
        <5>1. z + k \in 1..p
          BY <1>3, <2>1, <3>1
        <5> QED BY <1>4, <2>1, <5>1
      <4>2. At(s, t, z) /\ z \in 0..n
        BY <1>3, <2>1, <3>1, <4>1 DEF At, l, n
      <4>3. z \in Found(s, t, 0) /\ ~(p <= z)
        BY <1>3, <2>1, <3>1, <4>2 DEF Found, n
      <4> QED BY <1>1, <4>3
    <3>2. CASE ~(z + l <= p) /\ z < p
      <4> DEFINE k == (p + 1) - z
      <4>1. k \in 1..l /\ z + k = p + 1
        BY <1>3, <2>1, <3>2
      <4> HIDE DEF k
      <4>2. v[p + 1] = t[k] /\ v[p + 1] = u[1]
        BY <1>3, <1>4, <2>1, <4>1
      <4> QED BY <1>3, <1>5, <4>1, <4>2
    <3>3. CASE z >= p /\ z < p + m
      <4> DEFINE k == (z + 1) - p
      <4>1. k \in 1..m /\ p + k = z + 1
        BY <1>3, <2>1, <3>3
      <4> HIDE DEF k
      <4>2. v[z + 1] = t[1] /\ v[z + 1] = u[k]
        BY <1>3, <1>4, <2>1, <4>1
      <4> QED BY <1>3, <1>5, <4>1, <4>2
    <3> QED BY <1>3, <2>1, <3>1, <3>2, <3>3
  <2>3. z - d \in (p + l)..n /\ (z - d) + l <= n
    BY <1>3, <2>1, <2>2
  <2>4. ASSUME NEW k \in 1..l PROVE s[(z - d) + k] = t[k]
    <3> DEFINE i == z + k
    <3>1. i \in (p + m + 1)..(n + d) /\ i - d = (z - d) + k
      BY <1>3, <2>1, <2>2, SMTT(30)
    <3> HIDE DEF i
    <3>2. v[i] = s[(z - d) + k]
      BY <1>4, <3>1
    <3> QED BY <2>1, <3>2 DEF i
  <2> QED BY <1>6, <2>3, <2>4
<1>10. f \in Bijection(Y, Z)
  <2>1. \A q \in Y : q \in Int
    BY <1>3, <1>6
  <2>2. \A z \in Z : z \in Int
    BY <1>3, <1>7
  <2>3. f \in [Y -> Z]
    BY <1>8
  <2>4. \A q, r \in Y : f[q] = f[r] => q = r
    <3> SUFFICES ASSUME NEW q \in Y, NEW r \in Y, f[q] = f[r] PROVE q = r
      OBVIOUS
    <3>1. q + d = r + d
      OBVIOUS
    <3> QED BY <1>3, <2>1, <3>1
  <2>5. \A z \in Z : \E q \in Y : f[q] = z
    <3> SUFFICES ASSUME NEW z \in Z PROVE \E q \in Y : f[q] = z
      OBVIOUS
    <3>1. z - d \in Y /\ (z - d) + d = z
      BY <1>3, <1>9, <2>2
    <3>2. f[z - d] = (z - d) + d
      BY <3>1
    <3> QED BY <3>1, <3>2
  <2> HIDE DEF f
  <2>6. DOMAIN f = Y
    BY <2>3
  <2> QED BY <2>3, <2>4, <2>5, <2>6 DEF Bijection, Injection, Surjection, IsInjective
<1>11. IsFiniteSet(Y)
  <2>1. p + Len(t) \in Nat
    BY <1>3 DEF l
  <2> QED BY <2>1, FoundFinite DEF Y, l
<1>12. Cardinality(Z) = Cardinality(Y)
  <2> HIDE DEF f
  <2>1. ExistsBijection(Y, Z)
    BY <1>10 DEF ExistsBijection
  <2> QED BY <1>11, <2>1, FS_Bijection
<1> QED BY <1>1, <1>2, <1>12 DEF Z, v

\* The position is where the search begins again; with a clean new text, what
\* was replaced and what is still to be replaced are the places of the text.
ReplaceInv ==
  op = "Replace" =>
    /\ text \in Seq(Chars) /\ str \in Seq(Chars) /\ oldText \in Seq(Chars) /\ newText \in Seq(Chars)
    /\ oldText # <<>> /\ Len(text) <= MaxStr /\ count \in Nat
    /\ pos = Fn!find(str, oldText, 0)
    /\ textPc = "done" => pos = -1
    /\ Clean(oldText, newText) =>
         /\ count + Cardinality(Found(str, oldText, 0)) = Cardinality(Found(text, oldText, 0))
         /\ Len(str) = Len(text) + count * (Len(newText) - Len(oldText))

LEMMA ReplaceOnly ==
  ASSUME ReplaceInv, [Fn!AllNext]_textVars
  PROVE  ReplaceInv' \/ (op = "Replace" /\ Fn!Step)
<1> SUFFICES ASSUME ~(op = "Replace" /\ Fn!Step) PROVE ReplaceInv'
  OBVIOUS
<1>1. CASE UNCHANGED textVars
  BY <1>1 DEF textVars, ReplaceInv
<1>2. CASE Fn!Call
  BY <1>2 DEF Fn!Call, Fn!call, Fn!CallPath, Fn!CallCodec, Fn!CallTime, ReplaceInv
<1>3. CASE Fn!Step
  BY <1>3 DEF Fn!Step, Fn!call, Fn!TrimStart, Fn!TrimHead, Fn!TrimTail, Fn!Replace, Fn!SplitStart,
              Fn!SplitStep, Fn!FindCount, Fn!EraseString, ReplaceInv
<1> QED BY <1>1, <1>2, <1>3 DEF Fn!AllNext

LEMMA ReplaceStep == ReplaceInv /\ [Fn!AllNext]_textVars => ReplaceInv'
<1> SUFFICES ASSUME ReplaceInv, [Fn!AllNext]_textVars PROVE ReplaceInv'
  OBVIOUS
<1> SUFFICES ASSUME op = "Replace", Fn!Step PROVE ReplaceInv'
  BY ReplaceOnly
<1>1. /\ text \in Seq(Chars) /\ str \in Seq(Chars) /\ oldText \in Seq(Chars) /\ newText \in Seq(Chars)
      /\ oldText # <<>> /\ Len(text) <= MaxStr /\ count \in Nat /\ pos = Fn!find(str, oldText, 0)
  BY DEF ReplaceInv
<1>2. Fn!Replace
  BY DEF Fn!Step, Fn!TrimStart, Fn!TrimHead, Fn!TrimTail, Fn!SplitStart, Fn!SplitStep, Fn!FindCount,
         Fn!EraseString
<1>3. op' = "Replace" /\ text' = text /\ oldText' = oldText /\ newText' = newText
  BY <1>2 DEF Fn!Replace, Fn!call
<1>4. CASE pos = -1
  <2>1. str' = str /\ pos' = pos /\ count' = count
    BY <1>2, <1>4 DEF Fn!Replace, Fn!npos
  <2> QED BY <1>3, <1>4, <2>1 DEF ReplaceInv
<1>5. CASE pos # -1
  <2>1. /\ str' = Fn!replace(str, pos, Len(oldText), newText) /\ pos' = Fn!find(str', oldText, 0)
        /\ count' = IF count < MaxCount THEN count + 1 ELSE count
        /\ textPc' = "loop"
    BY <1>2, <1>5 DEF Fn!Replace, Fn!Counted, Fn!SearchAgain, Fn!npos
  <2>2. pos \in Nat /\ At(str, oldText, pos)
    <3>1. 0 \in Nat
      OBVIOUS
    <3> QED BY <1>1, <1>5, <3>1, FoundFrom
  <2>3. Changed(str, oldText, newText, pos, str')
    BY <1>1, <2>1, <2>2, ReplaceIs
  <2>4. str' \in Seq(Chars) /\ Len(str') = Len(str) + (Len(newText) - Len(oldText))
    BY <2>3 DEF Changed
  <2>5. count' \in Nat
    BY <1>1, <2>1
  <2>6. ASSUME Clean(oldText, newText)
        PROVE  /\ count' + Cardinality(Found(str', oldText, 0)) = Cardinality(Found(text, oldText, 0))
               /\ Len(str') = Len(text) + count' * (Len(newText) - Len(oldText))
    <3> DEFINE a == Cardinality(Found(str, oldText, 0))
               b == Cardinality(Found(str', oldText, 0))
               c == Cardinality(Found(text, oldText, 0))
               d == Len(newText) - Len(oldText)
               m == Len(text)
               n == Len(str)
    <3>1. count + a = c /\ n = m + count * d
      BY <2>6 DEF ReplaceInv
    <3>2. a = b + 1
      BY <1>1, <2>1, <2>2, <2>6, ReplacedOne
    <3>3. a \in Nat /\ b \in Nat /\ c \in Nat /\ c <= m
      <4>1. 0 \in Nat
        OBVIOUS
      <4> QED BY <1>1, <2>4, <4>1, FoundFinite
    <3>4. m \in Nat /\ n \in Nat /\ d \in Int /\ m <= MaxStr /\ Len(str') = n + d
      BY <1>1, <2>4
    <3> HIDE DEF a, b, c, d, m, n
    <3>5. count < MaxCount
      BY <1>1, <3>1, <3>2, <3>3, <3>4, TextAssumption
    <3>6. count * d \in Int /\ (count + 1) * d = count * d + d
      BY <1>1, <3>4, Times
    <3>7. count' = count + 1
      BY <2>1, <3>5
    <3>8. count' + b = c
      BY <1>1, <3>1, <3>2, <3>3, <3>7
    <3>9. Len(str') = m + count' * d
      BY <3>1, <3>4, <3>6, <3>7
    <3> QED BY <3>8, <3>9 DEF b, c, d, m
  <2>7. textPc' # "done"
    BY <2>1
  <2> QED BY <1>1, <1>3, <2>1, <2>4, <2>5, <2>6, <2>7 DEF ReplaceInv
<1> QED BY <1>4, <1>5

LEMMA ReplaceRight == ReplaceInv => Fn!ReplacedAll
<1> SUFFICES ASSUME ReplaceInv, op = "Replace", textPc = "done" PROVE Fn!ReplacedAll
  BY DEF Fn!ReplacedAll
<1>1. /\ text \in Seq(Chars) /\ str \in Seq(Chars) /\ oldText \in Seq(Chars) /\ newText \in Seq(Chars)
      /\ count \in Nat /\ pos = Fn!find(str, oldText, 0) /\ pos = -1
  BY DEF ReplaceInv
<1>2. ~Fn!Holds(str, oldText)
  BY <1>1 DEF Fn!Holds, Fn!npos
<1>3. ASSUME newText # <<>>, Fn!Disjoint(oldText, newText),
             Fn!Cardinality(Fn!Range(oldText)) = Len(oldText)
      PROVE  /\ count = Fn!Cardinality(Fn!Positions(text, oldText, 0))
             /\ Len(str) = Len(text) + count * (Len(newText) - Len(oldText))
  <2>1. Distinct(oldText)
    BY <1>1, <1>3, DistinctIs
  <2>2. ASSUME NEW i \in 1..Len(oldText), NEW j \in 1..Len(newText) PROVE oldText[i] # newText[j]
    <3>1. i \in DOMAIN oldText /\ j \in DOMAIN newText
      BY <1>1
    <3>2. oldText[i] \in Fn!Range(oldText) /\ newText[j] \in Fn!Range(newText)
      BY <3>1 DEF Fn!Range
    <3> QED BY <1>3, <3>2 DEF Fn!Disjoint
  <2>3. Clean(oldText, newText)
    BY <1>3, <2>1, <2>2 DEF Clean
  <2>4. /\ count + Cardinality(Found(str, oldText, 0)) = Cardinality(Found(text, oldText, 0))
        /\ Len(str) = Len(text) + count * (Len(newText) - Len(oldText))
    BY <2>3 DEF ReplaceInv
  <2>5. Found(str, oldText, 0) = {}
    <3>1. 0 \in Nat /\ -1 \notin Nat
      OBVIOUS
    <3> QED BY <1>1, <3>1, FoundFrom
  <2>6. count = Cardinality(Found(text, oldText, 0))
    <3>1. Cardinality(Found(str, oldText, 0)) = 0
      BY <2>5, FS_EmptySet
    <3>2. count + 0 = Cardinality(Found(text, oldText, 0))
      BY <2>4, <3>1
    <3> QED BY <1>1, <3>2
  <2>7. Fn!Positions(text, oldText, 0) = Found(text, oldText, 0)
    BY <1>1, PlacesAre
  <2> QED BY <2>4, <2>6, <2>7, SameCardinality
<1> QED BY <1>1, <1>2, <1>3 DEF Fn!ReplacedAll

(***************************************************************************)
(* All of Text.                                                            *)
(***************************************************************************)

TextInv == TrimInv /\ SplitInv /\ CountInv /\ ReplaceInv

LEMMA TextStarts == AllInit => TextInv
<1> SUFFICES ASSUME AllInit PROVE TextInv
  OBVIOUS
<1>1. CASE Fn!PureInit
  <2>1. op # "Trim" /\ op # "Split" /\ op # "FindCount" /\ op # "Replace"
    BY <1>1 DEF Fn!PureInit
  <2> QED BY <2>1, Zenon DEF TextInv, TrimInv, SplitInv, CountInv, ReplaceInv
<1>2. CASE Fn!Init
  <2>1. /\ text \in Seq(Chars) /\ oldText \in Seq(Chars) /\ newText \in Seq(Chars)
    <3>1. text \in Fn!Strs(Chars, MaxStr)
      BY <1>2 DEF Fn!Init
    <3>2. op # "Trim" => oldText \in Fn!Strs(Chars, MaxArg)
      BY <1>2 DEF Fn!Init
    <3>3. op = "Trim" => oldText = <<>>
      BY <1>2 DEF Fn!Init
    <3>4. newText = <<>> \/ newText \in Fn!Strs(Chars, MaxArg)
      BY <1>2 DEF Fn!Init
    <3>5. text \in Seq(Chars)
      BY <3>1, StrsAreSeqs
    <3>6. oldText \in Fn!Strs(Chars, MaxArg) => oldText \in Seq(Chars)
      BY StrsAreSeqs
    <3>7. newText \in Fn!Strs(Chars, MaxArg) => newText \in Seq(Chars)
      BY StrsAreSeqs
    <3>8. <<>> \in Seq(Chars)
      OBVIOUS
    <3> QED BY <3>2, <3>3, <3>4, <3>5, <3>6, <3>7, <3>8, Zenon
  <2>2. Len(text) <= MaxStr
    <3>1. PICK k \in 0..MaxStr : text \in [1..k -> Chars]
      BY <1>2 DEF Fn!Init, Fn!Strs
    <3> QED BY <3>1, TextAssumption
  <2>3. op # "Trim" => oldText # <<>> /\ pos = Fn!find(text, oldText, 0)
    BY <1>2 DEF Fn!Init, Fn!Sane
  <2>4. op = "Trim" => pos = Fn!find(text, <<Space>>, 0)
    BY <1>2 DEF Fn!Init
  <2>5. textPc = "start" /\ str = text /\ count = 0 /\ arr = <<>>
    BY <1>2 DEF Fn!Init
  <2>6. TrimInv
    <3>1. text \in Seq(Characters)
      BY <2>1 DEF Characters
    <3>2. Core(text, text, 0)
      <4>1. Len(text) \in Nat
        BY <2>1
      <4> QED BY <4>1 DEF Core, At
    <3> QED BY <2>4, <2>5, <3>1, <3>2 DEF TrimInv
  <2>7. SplitInv
    <3>1. OneText(Fn!Join(arr, oldText))
      BY <2>5, JoinEmpty DEF OneText
    <3>2. arr \in Seq(Seq(Chars)) /\ Len(arr) = 0
      BY <2>5
    <3> QED BY <2>1, <2>3, <2>5, <3>1, <3>2 DEF SplitInv
  <2>8. CountInv
    <3> SUFFICES ASSUME op = "FindCount" PROVE CountInv
      BY DEF CountInv
    <3>1. oldText # <<>> /\ pos = Fn!find(text, oldText, 0) /\ 0 \in Nat
      BY <2>3
    <3>2. /\ pos = -1 \/ (pos \in Nat /\ At(text, oldText, pos))
          /\ Ahead(text, oldText, pos) = Found(text, oldText, 0)
      BY <2>1, <3>1, FoundFrom DEF Ahead
    <3>3. Cardinality(Found(text, oldText, 0)) \in Nat
      BY <2>1, <3>1, FoundFinite
    <3>4. count * Len(oldText) <= IF pos = -1 THEN Len(text) ELSE pos
      <4>1. Len(oldText) \in Nat /\ Len(text) \in Nat
        BY <2>1
      <4> QED BY <2>5, <3>2, <4>1
    <3>5. count + Cardinality(Ahead(text, oldText, pos)) = Cardinality(Found(text, oldText, 0))
      BY <2>5, <3>2, <3>3
    <3> QED BY <2>1, <2>2, <2>5, <3>1, <3>2, <3>4, <3>5 DEF CountInv
  <2>9. ReplaceInv
    <3> SUFFICES ASSUME op = "Replace" PROVE ReplaceInv
      BY DEF ReplaceInv
    <3>1. oldText # <<>> /\ pos = Fn!find(text, oldText, 0) /\ 0 \in Nat
      BY <2>3
    <3>2. Cardinality(Found(text, oldText, 0)) \in Nat
      BY <2>1, <3>1, FoundFinite
    <3>3. count + Cardinality(Found(str, oldText, 0)) = Cardinality(Found(text, oldText, 0))
      BY <2>5, <3>2
    <3>4. Len(str) = Len(text) + count * (Len(newText) - Len(oldText))
      <4>1. Len(oldText) \in Nat /\ Len(newText) \in Nat /\ Len(text) \in Nat
        BY <2>1
      <4> QED BY <2>5, <4>1
    <3> QED BY <2>1, <2>2, <2>5, <3>1, <3>3, <3>4 DEF ReplaceInv
  <2> QED BY <2>6, <2>7, <2>8, <2>9 DEF TextInv
<1> QED BY <1>1, <1>2 DEF AllInit, Fn!AllInit

\* For texts and arguments of any length over any characters, Trim, Replace,
\* Split and FindCount return what the definitions by positions say.
THEOREM TextRight == AllSpec => []TextAgrees
<1>1. AllInit => TextInv
  BY TextStarts
<1>2. TextInv /\ [AllNext]_allVars => TextInv'
  BY FunctionsStep, TrimStep, SplitStep, CountStep, ReplaceStep, Zenon DEF TextInv
<1>3. TextInv => TextAgrees
  BY TrimRight, SplitRight, CountRight, ReplaceRight, Zenon DEF TextInv, TextAgrees, Fn!TextAgrees
<1> QED BY <1>1, <1>2, <1>3, PTL DEF AllSpec
=============================================================================
