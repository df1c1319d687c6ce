---------------------------- MODULE RegeditProofs ----------------------------
(***************************************************************************)
(* Proofs about Regedit: DelKey on every tree of keys of every depth, with *)
(* other programs that add and delete keys between any two of its steps.   *)
(***************************************************************************)
EXTENDS Regedit, SequenceTheorems, WellFoundedInduction, TLAPS

Cut(p, n) == SubSeq(p, 1, n)

Types ==
  /\ keys \subseteq Seq(Nat) \ {<<>>}
  /\ arg \in Seq(Nat) \ {<<>>}
  /\ lpSubKey \in Seq(Nat)
  /\ stack \in Seq(Nat)
  /\ handles = Len(stack)
  /\ others \in Nat
  /\ pc \in {"delete", "open", "enumerate", "returned", "again", "done"}

\* Every key has its parents.
Rooted == \A p \in keys : \A n \in 1..Len(p) : Cut(p, n) \in keys

\* The buffer always begins with the argument, the calls in progress are for
\* keys each one longer than the last, and the buffer holds the path of the
\* call that begins.
BufferInv ==
  /\ Len(lpSubKey) >= Len(arg) /\ Cut(lpSubKey, Len(arg)) = arg
  /\ \A i \in 1..Len(stack) : stack[i] = Len(arg) + i - 1
  /\ Len(lpSubKey) >= Len(arg) + Len(stack) - 1
  /\ pc \in {"delete", "open", "done"} => Len(lpSubKey) = Len(arg) + Len(stack)
  /\ pc \in {"enumerate", "again", "returned"} => stack # <<>>
  /\ pc = "done" => stack = <<>>

\* A key that refuses is left below p.
Blocked(p) == \E q \in keys \cap (denied \cup closed) : IsPrefix(p, q)

\* Without interference the keys of the calls in progress exist, and a call
\* fails only because a key refuses.
FailInv ==
  others = 0 =>
    /\ stack # <<>> => Current \in keys
    /\ pc \in {"returned", "done"} /\ ~result => Blocked(lpSubKey)
    /\ pc = "again" => Children(Current) = {} \/ Blocked(Current)

\* A call that succeeds leaves nothing of its key.
DoneInv == pc = "done" /\ result => arg \notin keys

RegeditInv == Types /\ Rooted /\ BufferInv /\ FailInv /\ DoneInv

(***************************************************************************)
(* Paths and their beginnings.                                             *)
(***************************************************************************)

LEMMA CutType ==
  ASSUME NEW p \in Seq(Nat), NEW n \in 0..Len(p)
  PROVE  /\ Cut(p, n) \in Seq(Nat) /\ Len(Cut(p, n)) = n
         /\ \A i \in 1..n : Cut(p, n)[i] = p[i]
BY DEF Cut

LEMMA CutWhole ==
  ASSUME NEW p \in Seq(Nat)
  PROVE  Cut(p, Len(p)) = p
BY DEF Cut

LEMMA CutCut ==
  ASSUME NEW p \in Seq(Nat), NEW n \in 0..Len(p), NEW m \in 0..n
  PROVE  Cut(Cut(p, n), m) = Cut(p, m)
BY DEF Cut

LEMMA CutAppend ==
  ASSUME NEW p \in Seq(Nat), NEW x \in Nat, NEW n \in 0..Len(p)
  PROVE  Cut(Append(p, x), n) = Cut(p, n)
BY DEF Cut

LEMMA FrontCut ==
  ASSUME NEW p \in Seq(Nat), p # <<>>
  PROVE  Front(p) = Cut(p, Len(p) - 1) /\ Last(p) = p[Len(p)] /\ Len(p) >= 1 /\ Last(p) \in Nat
BY DEF Cut, Front, Last

LEMMA PrefixCut ==
  ASSUME NEW p \in Seq(Nat), NEW q \in Seq(Nat)
  PROVE  IsPrefix(p, q) <=> Len(p) <= Len(q) /\ Cut(q, Len(p)) = p
BY DEF IsPrefix, Cut

\* The key of the innermost call begins with the argument.
LEMMA CurrentPath ==
  ASSUME Types, BufferInv, stack # <<>>
  PROVE  /\ Last(stack) = Len(arg) + Len(stack) - 1 /\ Last(stack) \in 1..Len(lpSubKey)
         /\ Current = Cut(lpSubKey, Last(stack))
         /\ Current \in Seq(Nat) \ {<<>>} /\ Len(Current) = Last(stack)
         /\ Len(Current) >= Len(arg) /\ Cut(Current, Len(arg)) = arg
<1>1. Last(stack) = Len(arg) + Len(stack) - 1
  BY SMTT(30) DEF Types, BufferInv, Last
<1>2. Last(stack) \in 1..Len(lpSubKey) /\ Len(arg) \in 1..Last(stack)
  BY <1>1 DEF Types, BufferInv
<1>3. Current = Cut(lpSubKey, Last(stack))
  BY DEF Current, Cut
<1>4. lpSubKey \in Seq(Nat) /\ Last(stack) \in 0..Len(lpSubKey) /\ Len(arg) \in 0..Last(stack)
  BY <1>2 DEF Types
<1>5. Current \in Seq(Nat) /\ Len(Current) = Last(stack)
  BY <1>3, <1>4, CutType
<1>6. Cut(Current, Len(arg)) = arg
  BY <1>3, <1>4, CutCut DEF BufferInv
<1> QED BY <1>1, <1>2, <1>3, <1>5, <1>6

\* Where there is a key below p, p has a child.
LEMMA ChildBelow ==
  ASSUME Types, Rooted, NEW p \in Seq(Nat) \ {<<>>}, NEW q \in keys, IsPrefix(p, q), q # p
  PROVE  Children(p) # {}
<1>1. q \in Seq(Nat) /\ Len(p) <= Len(q) /\ Cut(q, Len(p)) = p /\ Len(p) \in Nat
  BY PrefixCut DEF Types
<1>2. Len(p) # Len(q)
  BY <1>1, CutWhole
<1>3. Len(p) + 1 \in 0..Len(q) /\ Len(p) + 1 \in 1..Len(q)
  BY <1>1, <1>2
<1> DEFINE c == Cut(q, Len(p) + 1)
<1>4. c \in keys /\ c \in Seq(Nat) /\ Len(c) = Len(p) + 1
  BY <1>1, <1>3, CutType DEF Rooted
<1>5. Cut(c, Len(p)) = p
  <2>1. Len(p) \in 0..(Len(p) + 1)
    BY <1>1
  <2> QED BY <1>1, <1>3, <2>1, CutCut
<1> HIDE DEF c
<1>6. Front(c) = p
  <2>1. c # <<>> /\ Len(c) - 1 = Len(p)
    BY <1>1, <1>4
  <2> QED BY <1>4, <1>5, <2>1, FrontCut
<1> QED BY <1>4, <1>6 DEF Children

\* Deleting a key without subkeys, and adding one below a key, keep the tree.
LEMMA Deleted ==
  ASSUME Types, Rooted, NEW p, Deletable(p), keys' = keys \ {p}
  PROVE  Rooted'
<1> SUFFICES ASSUME NEW q \in keys \ {p}, NEW n \in 1..Len(q) PROVE Cut(q, n) \in keys \ {p}
  BY DEF Rooted
<1>1. Cut(q, n) \in keys /\ q \in Seq(Nat) /\ p \in Seq(Nat) \ {<<>>} /\ Children(p) = {}
  BY DEF Rooted, Types, Deletable
<1>2. ASSUME Cut(q, n) = p PROVE FALSE
  <2>1. Len(p) = n
    BY <1>1, <1>2, CutType
  <2>2. IsPrefix(p, q)
    BY <1>1, <1>2, <2>1, PrefixCut
  <2> QED BY <1>1, <2>2, ChildBelow
<1> QED BY <1>1, <1>2

LEMMA Added ==
  ASSUME Types, Rooted, NEW p \in Seq(Nat) \ {<<>>}, Len(p) > 1 => Front(p) \in keys,
         keys' = keys \cup {p}
  PROVE  Rooted'
<1> SUFFICES ASSUME NEW q \in keys \cup {p}, NEW n \in 1..Len(q) PROVE Cut(q, n) \in keys \cup {p}
  BY DEF Rooted
<1>1. CASE q \in keys
  BY <1>1 DEF Rooted
<1>2. CASE q = p /\ n = Len(p)
  BY <1>2, CutWhole
<1>3. CASE q = p /\ n # Len(p)
  <2>1. Len(p) > 1 /\ n \in 1..(Len(p) - 1) /\ n \in 0..(Len(p) - 1) /\ Len(p) - 1 \in 0..Len(p)
    BY <1>3
  <2>2. Front(p) = Cut(p, Len(p) - 1) /\ Front(p) \in keys
    BY <2>1, FrontCut
  <2>3. Len(Front(p)) = Len(p) - 1 /\ Cut(Front(p), n) = Cut(p, n)
    BY <2>1, <2>2, CutType, CutCut
  <2> QED BY <1>3, <2>1, <2>2, <2>3 DEF Rooted
<1> QED BY <1>1, <1>2, <1>3

\* The least of the names of subkeys is one of them.
LEMMA LeastName ==
  ASSUME NEW T, T \subseteq Nat, T # {}
  PROVE  Min(T) \in T
<1>1. \E x \in T : \A y \in T : ~(<<y, x>> \in OpToRel(<, Nat))
  BY NatLessThanWellFounded, WFMin
<1>2. \A x, y \in Nat : x < y => <<x, y>> \in OpToRel(<, Nat)
  BY DEF OpToRel
<1>3. PICK x \in T : \A y \in T : ~(<<y, x>> \in OpToRel(<, Nat))
  BY <1>1
<1>4. ASSUME NEW y \in T PROVE x <= y
  <2>1. ~(y < x)
    BY <1>2, <1>3, Zenon
  <2> QED BY <2>1
<1> QED BY <1>4 DEF Min

LEMMA PathType == Paths \subseteq Seq(Nat) \ {<<>>}
<1> SUFFICES ASSUME NEW q \in Paths PROVE q \in Seq(Nat) \ {<<>>}
  OBVIOUS
<1>4. PICK n \in 0..(MaxDepth - 1) : q \in {<<Root>> \o p : p \in [1..n -> Names]}
  BY DEF Paths
<1>0. PICK p \in [1..n -> Names] : q = <<Root>> \o p
  BY <1>4
<1>1. n \in Nat /\ p \in Seq(Nat)
  <2>1. n \in Nat
    BY RegeditAssumption
  <2>2. p \in [1..n -> Nat]
    BY RegeditAssumption
  <2>3. [1..n -> Nat] \in {[1..k -> Nat] : k \in Nat}
    BY <2>1
  <2>4. p \in UNION {[1..k -> Nat] : k \in Nat}
    BY <2>2, <2>3, Zenon
  <2> QED BY <2>1, <2>4, SeqDef, Zenon
<1>2. <<Root>> \in Seq(Nat) /\ Len(<<Root>>) = 1
  BY RegeditAssumption
<1>3. <<Root>> \o p \in Seq(Nat) /\ Len(<<Root>> \o p) = 1 + Len(p)
  BY <1>1, <1>2
<1> QED BY <1>0, <1>1, <1>3

\* A set of paths with the parent of each has all beginnings of each: if one
\* were missing, so would the longest of those that are.
LEMMA InitRooted == Types /\ Init => Rooted
<1> SUFFICES ASSUME Types, Init, NEW p \in keys, NEW n \in 1..Len(p), Cut(p, n) \notin keys
             PROVE  FALSE
  BY DEF Rooted
<1>0. p \in Seq(Nat) /\ \A q \in keys : Len(q) > 1 => Front(q) \in keys
  BY DEF Types, Init
<1> DEFINE T == {k \in Nat : k < Len(p) /\ Cut(p, Len(p) - k) \notin keys}
<1>1. Len(p) - n \in T
  <2>1. Len(p) - n \in Nat /\ Len(p) - n < Len(p) /\ Len(p) - (Len(p) - n) = n
    BY <1>0
  <2> QED BY <2>1
<1>2. \E x \in T : \A y \in T : ~(<<y, x>> \in OpToRel(<, Nat))
  BY <1>1, NatLessThanWellFounded, WFMin
<1>3. PICK x \in T : \A y \in T : ~(<<y, x>> \in OpToRel(<, Nat))
  BY <1>2
<1>4. x # 0
  BY <1>0, CutWhole
<1>5. x - 1 \in Nat /\ x - 1 < x /\ x \in Nat /\ x < Len(p)
  BY <1>4
<1>6. x - 1 \notin T
  <2>1. \A a, b \in Nat : a < b => <<a, b>> \in OpToRel(<, Nat)
    BY DEF OpToRel
  <2> QED BY <1>3, <1>5, <2>1, Zenon
<1> DEFINE m == Len(p) - x
<1>7. m \in 1..Len(p) /\ m + 1 \in 0..Len(p) /\ m \in 0..(m + 1) /\ Len(p) - (x - 1) = m + 1
  BY <1>0, <1>5
<1>8. Cut(p, m + 1) \in keys /\ Cut(p, m) \notin keys
  BY <1>5, <1>6, <1>7
<1> HIDE DEF m
<1>9. Len(Cut(p, m + 1)) = m + 1 /\ Cut(p, m + 1) \in Seq(Nat)
  BY <1>0, <1>7, CutType
<1>10. Front(Cut(p, m + 1)) = Cut(Cut(p, m + 1), m)
  <2>1. Len(Cut(p, m + 1)) - 1 = m /\ Cut(p, m + 1) # <<>>
    BY <1>7, <1>9
  <2> QED BY <1>9, <2>1, FrontCut
<1>11. Front(Cut(p, m + 1)) = Cut(p, m)
  BY <1>0, <1>7, <1>10, CutCut
<1> QED BY <1>0, <1>7, <1>8, <1>9, <1>11

(***************************************************************************)
(* The steps.                                                              *)
(***************************************************************************)

\* What RegEnumKeyEx appends is the name of a subkey.
LEMMA NameType ==
  ASSUME Types, NEW p, Children(p) # {}
  PROVE  Min({Last(q) : q \in Children(p)}) \in Nat
<1> DEFINE T == {Last(q) : q \in Children(p)}
<1>1. \A q \in Children(p) : Last(q) \in Nat
  BY FrontCut DEF Children, Types
<1>2. T # {} /\ T \subseteq Nat
  BY <1>1
<1> HIDE DEF T
<1>3. Min(T) \in Nat
  BY <1>2, LeastName
<1> QED BY <1>3 DEF T

LEMMA TypesStep == Types /\ BufferInv /\ [Next]_vars => Types'
<1> SUFFICES ASSUME Types, BufferInv, [Next]_vars PROVE Types'
  OBVIOUS
<1> USE DEF Types, still
<1>1. CASE DeleteFirst
  BY <1>1 DEF DeleteFirst, Return
<1>2. CASE OpenKey
  <2>1. CASE lpSubKey \in keys \ closed
    <3>1. stack' = Append(stack, Len(lpSubKey)) /\ Len(lpSubKey) \in Nat
      BY <1>2, <2>1 DEF OpenKey
    <3>2. stack' \in Seq(Nat) /\ Len(stack') = Len(stack) + 1
      BY <3>1
    <3> QED BY <1>2, <2>1, <3>2 DEF OpenKey
  <2>2. CASE lpSubKey \notin keys \ closed
    BY <1>2, <2>2 DEF OpenKey, Return
  <2> QED BY <2>1, <2>2
<1>3. CASE Enumerate
  <2>1. CASE Children(Current) # {}
    <3>1. lpSubKey' = Append(Current, Min({Last(q) : q \in Children(Current)}))
      BY <1>3, <2>1 DEF Enumerate, Extended, Current
    <3>2. Current \in Seq(Nat)
      <4>1. stack # <<>>
        BY <1>3 DEF Enumerate, BufferInv
      <4> QED BY <4>1, CurrentPath
    <3>4. Min({Last(q) : q \in Children(Current)}) \in Nat
      BY <2>1, NameType
    <3>3. lpSubKey' \in Seq(Nat)
      BY <3>1, <3>2, <3>4
    <3> QED BY <1>3, <2>1, <3>3 DEF Enumerate
  <2>2. CASE Children(Current) = {}
    BY <1>3, <2>2 DEF Enumerate
  <2> QED BY <2>1, <2>2
<1>4. CASE SubkeyReturned
  BY <1>4 DEF SubkeyReturned, AfterSubkey
<1>5. CASE DeleteAgain
  <2>1. stack # <<>>
    BY <1>5 DEF DeleteAgain, BufferInv
  <2>2. lpSubKey' \in Seq(Nat)
    BY <1>5, <2>1, CurrentPath DEF DeleteAgain, Restored
  <2>3. stack' \in Seq(Nat) /\ Len(stack') = Len(stack) - 1
    BY <1>5, <2>1, SMTT(30) DEF DeleteAgain, Front
  <2> QED BY <1>5, <2>2, <2>3 DEF DeleteAgain
<1>6. ASSUME NEW p \in Paths, Other(p) PROVE Types'
  BY <1>6, PathType DEF Other
<1>7. CASE UNCHANGED vars
  BY <1>7 DEF vars
<1> QED BY <1>1, <1>2, <1>3, <1>4, <1>5, <1>6, <1>7 DEF Next, DelKey

LEMMA RootedStep == Types /\ Rooted /\ [Next]_vars => Rooted'
<1> SUFFICES ASSUME Types, Rooted, [Next]_vars PROVE Rooted'
  OBVIOUS
<1>0. keys' = keys => Rooted'
  BY DEF Rooted
<1>1. CASE DeleteFirst
  BY <1>0, <1>1, Deleted DEF DeleteFirst
<1>2. CASE OpenKey \/ Enumerate \/ SubkeyReturned
  BY <1>0, <1>2 DEF OpenKey, Enumerate, SubkeyReturned
<1>3. CASE DeleteAgain
  BY <1>0, <1>3, Deleted DEF DeleteAgain
<1>4. ASSUME NEW p \in Paths, Other(p) PROVE Rooted'
  <2>1. p \in Seq(Nat) \ {<<>>}
    BY PathType
  <2> QED BY <1>4, <2>1, Added, Deleted DEF Other
<1>5. CASE UNCHANGED vars
  BY <1>0, <1>5 DEF vars
<1> QED BY <1>1, <1>2, <1>3, <1>4, <1>5 DEF Next, DelKey

LEMMA BufferStep == Types /\ BufferInv /\ [Next]_vars => BufferInv'
<1> SUFFICES ASSUME Types, BufferInv, [Next]_vars PROVE BufferInv'
  OBVIOUS
<1>1. CASE DeleteFirst
  BY <1>1 DEF DeleteFirst, Return, BufferInv, Types, still
<1>2. CASE OpenKey
  <2>1. CASE lpSubKey \in keys \ closed
    <3>1. stack' = Append(stack, Len(lpSubKey)) /\ Len(lpSubKey) = Len(arg) + Len(stack)
      BY <1>2, <2>1 DEF OpenKey, BufferInv
    <3>2. /\ stack' \in Seq(Nat) /\ Len(stack') = Len(stack) + 1 /\ stack' # <<>>
          /\ stack'[Len(stack) + 1] = Len(lpSubKey)
          /\ \A i \in 1..Len(stack) : stack'[i] = stack[i]
      BY <3>1, SMTT(30) DEF Types
    <3>3. \A i \in 1..Len(stack') : stack'[i] = Len(arg) + i - 1
      <4> SUFFICES ASSUME NEW i \in 1..(Len(stack) + 1) PROVE stack'[i] = Len(arg) + i - 1
        BY <3>2
      <4>1. CASE i = Len(stack) + 1
        BY <3>1, <3>2, <4>1 DEF Types
      <4>2. CASE i \in 1..Len(stack)
        BY <3>2, <4>2 DEF BufferInv
      <4> QED BY <4>1, <4>2 DEF Types
    <3>4. arg' = arg /\ lpSubKey' = lpSubKey /\ pc' = "enumerate"
      BY <1>2, <2>1 DEF OpenKey, still
    <3>5. Len(lpSubKey) >= Len(arg) + Len(stack') - 1
      BY <3>1, <3>2 DEF Types
    <3> QED BY <3>2, <3>3, <3>4, <3>5 DEF BufferInv
  <2>2. CASE lpSubKey \notin keys \ closed
    BY <1>2, <2>2 DEF OpenKey, Return, BufferInv, still
  <2> QED BY <2>1, <2>2
<1>3. CASE Enumerate
  <2> stack # <<>>
    BY <1>3 DEF Enumerate, BufferInv
  <2>1. CASE Children(Current) # {}
    <3> DEFINE x == Min({Last(q) : q \in Children(Current)})
    <3>1. lpSubKey' = Append(Current, x) /\ x \in Nat /\ pc' = "delete"
      BY <1>3, <2>1, NameType DEF Enumerate, Extended, Current
    <3> HIDE DEF x
    <3>2. /\ Current \in Seq(Nat) /\ Len(Current) = Len(arg) + Len(stack) - 1
          /\ Len(arg) \in 0..Len(Current) /\ Cut(Current, Len(arg)) = arg
      BY CurrentPath, SMTT(30) DEF Types
    <3>3. Len(lpSubKey') = Len(arg) + Len(stack)
      BY <3>1, <3>2 DEF Types
    <3>4. Cut(lpSubKey', Len(arg)) = arg
      BY <3>1, <3>2, CutAppend
    <3> QED BY <1>3, <3>1, <3>3, <3>4, SMTT(30) DEF Enumerate, BufferInv, Types, still
  <2>2. CASE Children(Current) = {}
    BY <1>3, <2>2 DEF Enumerate, BufferInv, still
  <2> QED BY <2>1, <2>2
<1>4. CASE SubkeyReturned
  BY <1>4 DEF SubkeyReturned, AfterSubkey, BufferInv, still
<1>5. CASE DeleteAgain
  <2> stack # <<>>
    BY <1>5 DEF DeleteAgain, BufferInv
  <2>1. /\ Len(Current) = Len(arg) + Len(stack) - 1
        /\ Len(arg) <= Len(Current) /\ Cut(Current, Len(arg)) = arg
    BY CurrentPath
  <2>2. /\ stack' \in Seq(Nat) /\ Len(stack') = Len(stack) - 1
        /\ \A i \in 1..Len(stack') : stack'[i] = stack[i]
    BY <1>5, SMTT(30) DEF DeleteAgain, Front, Types
  <2>3. \A i \in 1..Len(stack') : stack'[i] = Len(arg) + i - 1
    BY <2>2 DEF BufferInv, Types
  <2>4. Len(stack) \in Nat \ {0} /\ Len(arg) \in Nat /\ Len(stack') \in Nat
    BY <2>2 DEF Types
  <2>5. /\ lpSubKey' = Current /\ arg' = arg
        /\ pc' = IF Len(stack) = 1 THEN "done" ELSE "returned"
    BY <1>5 DEF DeleteAgain, Restored, still
  <2>6. pc' = "returned" => stack' # <<>>
    BY <2>2, <2>4, <2>5
  <2>7. pc' = "done" => stack' = <<>>
    BY <2>2, <2>4, <2>5
  <2> QED BY <2>1, <2>2, <2>3, <2>4, <2>5, <2>6, <2>7 DEF BufferInv
<1>6. ASSUME NEW p \in Paths, Other(p) PROVE BufferInv'
  BY <1>6 DEF Other, BufferInv, still
<1>7. CASE UNCHANGED vars
  BY <1>7 DEF vars, BufferInv
<1> QED BY <1>1, <1>2, <1>3, <1>4, <1>5, <1>6, <1>7 DEF Next, DelKey

\* A key that refuses below a longer path is below the shorter one.
LEMMA BlockedAbove ==
  ASSUME Types, BufferInv, stack # <<>>, Blocked(lpSubKey)
  PROVE  Blocked(Current)
<1>1. PICK q \in keys \cap (denied \cup closed) : IsPrefix(lpSubKey, q)
  BY DEF Blocked
<1> DEFINE n == Last(stack)
<1>2. /\ n \in 0..Len(lpSubKey) /\ Current = Cut(lpSubKey, n)
      /\ Current \in Seq(Nat) /\ Len(Current) = n
  BY CurrentPath
<1> HIDE DEF n
<1>3. q \in Seq(Nat) /\ lpSubKey \in Seq(Nat)
  BY DEF Types
<1>4. Len(lpSubKey) \in 0..Len(q) /\ Cut(q, Len(lpSubKey)) = lpSubKey
  BY <1>1, <1>3, PrefixCut
<1>5. Cut(q, n) = Current /\ n <= Len(q)
  BY <1>2, <1>3, <1>4, CutCut
<1>6. IsPrefix(Current, q)
  BY <1>2, <1>3, <1>5, PrefixCut
<1> QED BY <1>6 DEF Blocked

LEMMA BlockedItself ==
  ASSUME Types, NEW p \in keys \cap (denied \cup closed)
  PROVE  Blocked(p)
<1>1. p \in Seq(Nat)
  BY DEF Types
<1>2. IsPrefix(p, p)
  BY <1>1, CutWhole, PrefixCut
<1> QED BY <1>2 DEF Blocked

LEMMA FailStep ==
  Types /\ Rooted /\ BufferInv /\ FailInv /\ [Next]_vars => FailInv'
<1> SUFFICES ASSUME Types, Rooted, BufferInv, FailInv, [Next]_vars, others' = 0 PROVE FailInv'
  BY DEF FailInv
<1>0. ASSUME NEW p \in Paths, Other(p) PROVE FALSE
  BY <1>0 DEF Other, Types
<1>1. CASE DeleteFirst
  <2> others = 0 /\ stack' = stack /\ lpSubKey' = lpSubKey
    BY <1>1 DEF DeleteFirst
  <2>1. CASE Deletable(lpSubKey)
    <3>1. keys' = keys \ {lpSubKey} /\ result' = TRUE /\ pc' # "again"
      BY <1>1, <2>1 DEF DeleteFirst, Return
    <3>2. stack # <<>> => Current \in keys'
      <4> SUFFICES ASSUME stack # <<>> PROVE Current \in keys'
        OBVIOUS
      <4>1. Current \in keys
        BY DEF FailInv
      <4>2. Len(Current) = Len(lpSubKey) - 1
        <5>1. Len(Current) = Len(arg) + Len(stack) - 1
          BY CurrentPath
        <5>2. Len(lpSubKey) = Len(arg) + Len(stack)
          BY <1>1 DEF DeleteFirst, BufferInv
        <5> QED BY <5>1, <5>2 DEF Types
      <4> QED BY <3>1, <4>1, <4>2 DEF Types
    <3> QED BY <3>1, <3>2 DEF FailInv, Current
  <2>2. CASE ~Deletable(lpSubKey)
    BY <1>1, <2>2 DEF DeleteFirst, FailInv, Current
  <2> QED BY <2>1, <2>2
<1>2. CASE OpenKey
  <2> others = 0 /\ keys' = keys /\ lpSubKey' = lpSubKey /\ denied' = denied /\ closed' = closed
    BY <1>2 DEF OpenKey, still
  <2>1. CASE lpSubKey \in keys \ closed
    <3>1. stack' = Append(stack, Len(lpSubKey)) /\ pc' = "enumerate"
      BY <1>2, <2>1 DEF OpenKey
    <3>2. Last(stack') = Len(lpSubKey)
      BY <3>1 DEF Last, Types
    <3>3. Current' = lpSubKey
      BY <3>2, CutWhole DEF Current, Cut, Types
    <3> QED BY <2>1, <3>1, <3>3 DEF FailInv
  <2>2. CASE lpSubKey \notin keys \ closed
    <3>1. stack' = stack /\ result' = (lpSubKey \notin keys) /\ pc' # "again"
      BY <1>2, <2>2 DEF OpenKey, Return
    <3>2. ~result' => Blocked(lpSubKey)
      BY <2>2, <3>1, BlockedItself
    <3>3. Current' = Current /\ (Blocked(lpSubKey) => Blocked(lpSubKey)')
      BY <3>1 DEF Current, Blocked
    <3> QED BY <3>1, <3>2, <3>3 DEF FailInv
  <2> QED BY <2>1, <2>2
<1>3. CASE Enumerate
  <2> others = 0 /\ keys' = keys /\ stack' = stack /\ stack # <<>>
    BY <1>3 DEF Enumerate, BufferInv
  <2>1. CASE Children(Current) # {}
    <3> DEFINE x == Min({Last(q) : q \in Children(Current)})
    <3>1. lpSubKey' = Append(Current, x) /\ x \in Nat /\ pc' = "delete"
      BY <1>3, <2>1, NameType DEF Enumerate, Extended, Current
    <3> HIDE DEF x
    <3>2. Current \in Seq(Nat) /\ Len(Current) = Last(stack) /\ Last(stack) \in 0..Len(Current)
      BY CurrentPath
    <3>3. Cut(lpSubKey', Last(stack)) = Current
      BY <3>1, <3>2, CutAppend, CutWhole
    <3>4. Current' = Current
      BY <3>3 DEF Current, Cut
    <3> QED BY <3>1, <3>4 DEF FailInv
  <2>2. CASE Children(Current) = {}
    <3>1. lpSubKey' = lpSubKey /\ pc' = "again"
      BY <1>3, <2>2 DEF Enumerate
    <3>2. Current' = Current /\ Children(Current)' = {}
      BY <2>2, <3>1 DEF Current, Children
    <3> QED BY <3>1, <3>2 DEF FailInv
  <2> QED BY <2>1, <2>2
<1>4. CASE SubkeyReturned
  <2>1. /\ others = 0 /\ keys' = keys /\ stack' = stack /\ stack # <<>>
        /\ lpSubKey' = lpSubKey /\ denied' = denied /\ closed' = closed
        /\ pc = "returned" /\ pc' = AfterSubkey
    BY <1>4 DEF SubkeyReturned, still, BufferInv
  <2>2. Current' = Current /\ (Blocked(Current) => Blocked(Current)')
    BY <2>1 DEF Current, Blocked
  <2>3. pc' = "again" => Blocked(Current)
    BY <2>1, BlockedAbove DEF FailInv, AfterSubkey
  <2>4. pc' \notin {"returned", "done"}
    BY <2>1 DEF AfterSubkey
  <2> QED BY <2>1, <2>2, <2>3, <2>4 DEF FailInv
<1>5. CASE DeleteAgain
  <2>1. /\ others = 0 /\ stack # <<>> /\ pc = "again" /\ pc' \in {"done", "returned"}
        /\ lpSubKey' = Current /\ denied' = denied /\ closed' = closed
        /\ keys' = IF Deletable(Current) THEN keys \ {Current} ELSE keys
        /\ result' = Deletable(Current)
        /\ stack' = Front(stack)
    BY <1>5 DEF DeleteAgain, Restored, still, BufferInv
  <2>2. Current \in keys /\ (Children(Current) = {} \/ Blocked(Current))
    BY <2>1 DEF FailInv
  <2>3. /\ Current \in Seq(Nat) /\ Len(Current) = Len(arg) + Len(stack) - 1
        /\ Len(arg) \in Nat \ {0} /\ Len(stack) \in Nat \ {0}
    <3>1. Current \in Seq(Nat) /\ Len(Current) = Len(arg) + Len(stack) - 1
      BY <2>1, CurrentPath
    <3>2. Len(arg) \in Nat \ {0} /\ Len(stack) \in Nat \ {0}
      BY <2>1 DEF Types
    <3> QED BY <3>1, <3>2
  <2>4. stack' # <<>> => Current' \in keys'
    <3> SUFFICES ASSUME stack' # <<>> PROVE Current' \in keys'
      OBVIOUS
    <3> DEFINE n == Len(Current) - 1
    <3>1. Last(stack') = n /\ n \in 1..Len(Current) /\ n \in 0..Len(Current)
      <4>1. Len(stack') = Len(stack) - 1 /\ Len(stack') >= 1
        BY <2>1, <2>3 DEF Front, Types
      <4>2. stack'[Len(stack')] = Len(arg) + Len(stack') - 1
        BY <2>1, <4>1 DEF Front, Types, BufferInv
      <4> QED BY <2>3, <4>1, <4>2, SMTT(30) DEF Last
    <3>2. Current' = Cut(Current, n)
      BY <2>1, <3>1 DEF Current, Cut
    <3>3. Cut(Current, n) \in keys
      BY <2>2, <3>1 DEF Rooted
    <3>4. Len(Cut(Current, n)) = n
      BY <2>3, <3>1, CutType
    <3>5. Cut(Current, n) # Current
      BY <2>3, <3>4
    <3> HIDE DEF n
    <3> QED BY <2>1, <3>2, <3>3, <3>5
  <2>5. ASSUME ~result' PROVE Blocked(lpSubKey)'
    <3>1. ~Deletable(Current) /\ keys' = keys
      BY <2>1, <2>5
    <3>2. Blocked(Current)
      BY <2>2, <3>1, BlockedItself DEF Deletable
    <3> QED BY <2>1, <3>1, <3>2 DEF Blocked
  <2> QED BY <2>1, <2>4, <2>5 DEF FailInv
<1>6. CASE UNCHANGED vars
  BY <1>6 DEF vars, FailInv, Current, Children, Blocked
<1> QED BY <1>0, <1>1, <1>2, <1>3, <1>4, <1>5, <1>6 DEF Next, DelKey

LEMMA DoneStep == Types /\ BufferInv /\ DoneInv /\ [Next]_vars => DoneInv'
<1> SUFFICES ASSUME Types, BufferInv, DoneInv, [Next]_vars, pc' = "done", result'
             PROVE  arg' \notin keys'
  BY DEF DoneInv
<1>0. ASSUME stack = <<>>, pc \in {"delete", "open"} PROVE lpSubKey = arg
  BY <1>0, CutWhole DEF BufferInv, Types
<1>1. CASE DeleteFirst
  BY <1>0, <1>1 DEF DeleteFirst, Return, still
<1>2. CASE OpenKey
  BY <1>0, <1>2 DEF OpenKey, Return, still
<1>3. CASE Enumerate \/ SubkeyReturned
  BY <1>3 DEF Enumerate, SubkeyReturned, AfterSubkey
<1>4. CASE DeleteAgain
  <2>1. /\ stack # <<>> /\ Len(stack) = 1 /\ arg' = arg
        /\ keys' = IF Deletable(Current) THEN keys \ {Current} ELSE keys
        /\ result' = Deletable(Current)
    BY <1>4 DEF DeleteAgain, Restored, still, BufferInv
  <2>2. Current = arg
    <3>1. Len(Current) = Len(arg) /\ Current \in Seq(Nat) /\ Cut(Current, Len(arg)) = arg
      BY <2>1, CurrentPath DEF Types
    <3> QED BY <3>1, CutWhole
  <2> QED BY <2>1, <2>2
<1>5. ASSUME NEW p \in Paths, Other(p) PROVE FALSE
  BY <1>5 DEF Other
<1>6. CASE UNCHANGED vars
  BY <1>6 DEF vars, DoneInv
<1> QED BY <1>1, <1>2, <1>3, <1>4, <1>5, <1>6 DEF Next, DelKey

LEMMA InitInv == Init => RegeditInv
<1> SUFFICES ASSUME Init PROVE RegeditInv
  OBVIOUS
<1>1. Types
  BY PathType DEF Init, Types
<1>2. BufferInv
  BY <1>1, CutWhole DEF Init, BufferInv, Types
<1>3. FailInv /\ DoneInv
  BY DEF Init, FailInv, DoneInv
<1> QED BY <1>1, <1>2, <1>3, InitRooted DEF RegeditInv

LEMMA Invariant == Spec => []RegeditInv
<1>1. RegeditInv /\ [Next]_vars => RegeditInv'
  BY TypesStep, RootedStep, BufferStep, FailStep, DoneStep DEF RegeditInv
<1> QED BY <1>1, InitInv, PTL DEF Spec

\* When DelKey returns TRUE nothing is left of the key, whatever other
\* programs did; without them it returns FALSE only if a key that refuses is
\* left; its handles are closed and the caller's buffer is as it was passed.
THEOREM Truthful == Spec => []ResultTruthful
<1>1. RegeditInv => ResultTruthful
  <2> SUFFICES ASSUME RegeditInv, pc = "done"
               PROVE  /\ result => Below(arg) = {}
                      /\ others = 0 /\ ~ result => (denied \cup closed) \cap Below(arg) # {}
                      /\ lpSubKey = arg
                      /\ handles = 0
    BY DEF ResultTruthful
  <2> USE DEF RegeditInv
  <2>1. stack = <<>> /\ handles = 0
    BY DEF BufferInv, Types
  <2>2. lpSubKey = arg
    BY <2>1, CutWhole DEF BufferInv, Types
  <2>3. ASSUME result, NEW q \in keys, IsPrefix(arg, q) PROVE FALSE
    <3>1. arg \in Seq(Nat) /\ q \in Seq(Nat) /\ Len(arg) >= 1
      BY DEF Types
    <3>2. Len(arg) \in 1..Len(q) /\ Cut(q, Len(arg)) = arg
      BY <2>3, <3>1, PrefixCut
    <3>3. arg \in keys
      BY <2>3, <3>2 DEF Rooted
    <3> QED BY <2>3, <3>3 DEF DoneInv
  <2>4. others = 0 /\ ~result => Blocked(arg)
    BY <2>2 DEF FailInv
  <2> QED BY <2>1, <2>2, <2>3, <2>4 DEF Below, Blocked
<1> QED BY <1>1, Invariant, PTL

\* DelKey itself deletes only its argument and keys below it, although every
\* call of the recursion works on the one buffer.
THEOREM OnlyBelow == Spec => OnlyBelowDeleted
<1>1. RegeditInv /\ [Next]_vars
        => [DelKey => \A p \in keys \ keys' : IsPrefix(arg, p)]_vars
  <2> SUFFICES ASSUME RegeditInv, DelKey, NEW p \in keys \ keys' PROVE IsPrefix(arg, p)
    OBVIOUS
  <2> Types /\ BufferInv
    BY DEF RegeditInv
  <2>1. CASE DeleteFirst
    <3>1. p = lpSubKey
      BY <2>1 DEF DeleteFirst
    <3> QED BY <3>1, PrefixCut DEF BufferInv, Types
  <2>2. CASE DeleteAgain
    <3>1. p = Current /\ stack # <<>>
      BY <2>2 DEF DeleteAgain, Restored, BufferInv
    <3>2. Current \in Seq(Nat) /\ Len(Current) >= Len(arg) /\ Cut(Current, Len(arg)) = arg
      BY <3>1, CurrentPath
    <3> QED BY <3>1, <3>2, PrefixCut DEF Types
  <2>3. CASE OpenKey \/ Enumerate \/ SubkeyReturned
    BY <2>3 DEF OpenKey, Enumerate, SubkeyReturned
  <2> QED BY <2>1, <2>2, <2>3 DEF DelKey
<1>2. Spec => [][Next]_vars
  BY PTL DEF Spec
<1> QED BY <1>1, <1>2, Invariant, PTL DEF OnlyBelowDeleted
=============================================================================
