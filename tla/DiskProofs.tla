----------------------------- MODULE DiskProofs -----------------------------
(***************************************************************************)
(* Proofs about FileWatcher, Log, ConfigJson and ConfigIni, for every      *)
(* directory, every set of programs, fields, sections, keys and values,    *)
(* and without a bound on days and calls.                                  *)
(***************************************************************************)
EXTENDS MCDisk, SequenceTheorems, WellFoundedInduction, TLAPS

(***************************************************************************)
(* A step of the composition is a step of each component or leaves it as   *)
(* it is.                                                                  *)
(***************************************************************************)

\* The components run side by side, each on variables of its own.
LEMMA StepOfOne ==
  ASSUME [AllNext]_allVars
  PROVE  [L!Next]_(L!vars) /\ [W!Next]_(W!vars) /\ [J!Next]_(J!vars) /\ [I!Next]_(I!vars)
<1> USE DEF logVars, watchVars, jsonVars, iniVars, L!vars, W!vars, J!vars, I!vars
<1>1. CASE FilesNext \/ TreeNext
  BY <1>1 DEF FilesNext, TreeNext
<1>2. CASE LogNext
  BY <1>2 DEF LogNext
<1>3. CASE WatchNext
  BY <1>3 DEF WatchNext
<1>4. CASE JsonNext
  BY <1>4 DEF JsonNext
<1>5. CASE IniNext
  BY <1>5 DEF IniNext
<1>6. CASE UNCHANGED allVars
  BY <1>6 DEF allVars
<1> QED BY <1>1, <1>2, <1>3, <1>4, <1>5, <1>6 DEF AllNext

(***************************************************************************)
(* ConfigJson.                                                             *)
(***************************************************************************)
NullsOf(S) == [f \in S |-> "null"]

Documents == UNION {[D -> Given \cup {"null"}] : D \in SUBSET Fields}

\* The histories: what each object wrote is a document or Scalar.
JsonTypes ==
  /\ jv \in [Programs -> Documents \cup {Scalar}]
  /\ wrote \in [Programs -> Documents \cup {Scalar}]
  /\ looked \in [Programs -> SUBSET Fields]

JsonInv == JsonTypes /\ J!OwnDocument

\* The empty document and those that an object is constructed with.
LEMMA GivenDocuments == J!NoFields \in Documents /\ [Fields -> Given] \subseteq Documents
<1>1. {} \in SUBSET Fields /\ J!NoFields \in [{} -> Given \cup {"null"}]
  BY DEF J!NoFields
<1>2. ASSUME NEW d \in [Fields -> Given] PROVE d \in [Fields -> Given \cup {"null"}]
  OBVIOUS
<1> QED BY <1>1, <1>2 DEF Documents

\* Scalar is none of the documents.
LEMMA ScalarNoDocument == Scalar \notin Documents
BY ScalarAssumption DEF Documents

\* A document with one more field is a document.
LEMMA PutDocument ==
  ASSUME NEW d \in Documents, NEW f \in Fields, NEW v \in Given \cup {"null"}
  PROVE  /\ J!Put(d, f, v) \in Documents
         /\ DOMAIN J!Put(d, f, v) = DOMAIN d \cup {f}
         /\ J!Put(d, f, v)[f] = v
         /\ \A g \in DOMAIN d : g # f => J!Put(d, f, v)[g] = d[g]
<1>1. PICK D \in SUBSET Fields : d \in [D -> Given \cup {"null"}]
  BY DEF Documents
<1>2. D \cup {f} \in SUBSET Fields /\ J!Put(d, f, v) \in [D \cup {f} -> Given \cup {"null"}]
  BY <1>1 DEF J!Put
<1>3. J!Put(d, f, v) \in Documents
  BY <1>2 DEF Documents
<1> QED BY <1>1, <1>2, <1>3 DEF J!Put

\* A document filled up with nulls is a document.
LEMMA FilledDocument ==
  ASSUME NEW d \in Documents, NEW S \in SUBSET Fields
  PROVE  /\ J!Filled(d, NullsOf(S)) \in Documents
         /\ DOMAIN J!Filled(d, NullsOf(S)) = DOMAIN d \cup S
         /\ \A f \in DOMAIN d \cup S :
              J!Filled(d, NullsOf(S))[f] = IF f \in DOMAIN d THEN d[f] ELSE "null"
<1>1. PICK D \in SUBSET Fields : d \in [D -> Given \cup {"null"}]
  BY DEF Documents
<1>2. D \cup S \in SUBSET Fields /\ J!Filled(d, NullsOf(S)) \in [D \cup S -> Given \cup {"null"}]
  BY <1>1 DEF J!Filled, NullsOf
<1>3. J!Filled(d, NullsOf(S)) \in Documents
  BY <1>2 DEF Documents
<1> QED BY <1>1, <1>2, <1>3 DEF J!Filled, NullsOf

\* Asking for a field is the same as filling it with a null.
LEMMA AccessFills ==
  ASSUME NEW d \in Documents, NEW S \in SUBSET Fields, NEW f \in Fields
  PROVE  J!Accessed(J!Filled(d, NullsOf(S)), f) = J!Filled(d, NullsOf(S \cup {f}))
<1> DEFINE e == J!Filled(d, NullsOf(S))
<1>1. e # Scalar
  <2>1. e \in Documents
    BY FilledDocument
  <2> QED BY <2>1, ScalarNoDocument
<1>2. CASE f \in DOMAIN e
  <2>1. DOMAIN d \cup S = DOMAIN d \cup (S \cup {f})
    BY <1>2, FilledDocument, ZenonT(60)
  <2>2. e = J!Filled(d, NullsOf(S \cup {f}))
    BY <2>1 DEF J!Filled, NullsOf
  <2> QED BY <1>2, <2>2 DEF J!Accessed
<1>3. CASE f \notin DOMAIN e
  <2>1. f \notin DOMAIN d \cup S
    BY <1>3, FilledDocument
  <2>2. J!Put(e, f, "null") = J!Filled(d, NullsOf(S \cup {f}))
    BY <2>1 DEF J!Filled, NullsOf, J!Put
  <2> QED BY <1>1, <1>3, <2>2 DEF J!Accessed, J!Inserted
<1> QED BY <1>2, <1>3

\* Writing a field and filling with nulls commute.
LEMMA StoreFills ==
  ASSUME NEW d \in Documents, NEW S \in SUBSET Fields, NEW f \in Fields, NEW v
  PROVE  J!Put(J!Filled(d, NullsOf(S)), f, v) = J!Filled(J!Put(d, f, v), NullsOf(S))
BY DEF J!Filled, NullsOf, J!Put

\* A step of ConfigJson keeps the documents documents.
LEMMA JsonTypesStep == JsonTypes /\ [J!Next]_(J!vars) => JsonTypes'
<1> SUFFICES ASSUME JsonTypes, [J!Next]_(J!vars) PROVE JsonTypes'
  OBVIOUS
<1> USE DEF JsonTypes
<1>2. ASSUME NEW p \in Programs, NEW f \in Fields, J!Read(p, f) PROVE JsonTypes'
  <2>1. J!Accessed(jv[p], f) \in Documents \cup {Scalar}
    <3>1. CASE jv[p] = Scalar
      BY <3>1 DEF J!Accessed
    <3>2. CASE jv[p] \in Documents
      <4>1. J!Put(jv[p], f, "null") \in Documents
        BY <3>2, PutDocument
      <4> QED BY <3>2, <4>1 DEF J!Accessed, J!Inserted
    <3> QED BY <3>1, <3>2
  <2> QED BY <1>2, <2>1 DEF J!Read
<1>3. ASSUME NEW p \in Programs, NEW f \in Fields, NEW v \in Given, J!WriteValue(p, f, v)
      PROVE  JsonTypes'
  <2>1. /\ J!Stored(jv[p], f, v) \in Documents \cup {Scalar}
        /\ J!Stored(wrote[p], f, v) \in Documents \cup {Scalar}
    BY PutDocument, ZenonT(60) DEF J!Stored
  <2> QED BY <1>3, <2>1 DEF J!WriteValue
<1>4. ASSUME NEW p \in Programs, NEW d \in {Scalar, J!NoFields} \cup [Fields -> Given],
             J!Construct(p, d)
      PROVE  JsonTypes'
  BY <1>4, GivenDocuments DEF J!Construct
<1>5. ASSUME NEW p \in Programs, NEW path, J!LoadFromFile(p, path) PROVE JsonTypes'
  BY <1>5 DEF J!LoadFromFile, J!Parsed
<1>6. ASSUME NEW p \in Programs, NEW path, J!SaveOpen(p, path) PROVE JsonTypes'
  BY <1>6 DEF J!SaveOpen
<1>7. ASSUME NEW p \in Programs, J!SaveNowhere(p) \/ J!SaveWrite(p) PROVE JsonTypes'
  BY <1>7 DEF J!SaveNowhere, J!SaveWrite
<1>8. ASSUME NEW p \in Programs, J!Kill(p) PROVE JsonTypes'
  BY <1>8, GivenDocuments DEF J!Kill
<1>9. CASE UNCHANGED J!vars
  BY <1>9 DEF J!vars
<1> QED BY <1>2, <1>3, <1>4, <1>5, <1>6, <1>7, <1>8, <1>9 DEF J!Next

\* What the document of an object is, as a function of what it wrote and of
\* what it was asked for.
DocumentOf(w, S) == IF w = Scalar THEN Scalar ELSE J!Filled(w, NullsOf(S))

\* OwnDocument in these terms.
LEMMA OwnDocumentOf ==
  J!OwnDocument <=> /\ \A p \in Programs : jv[p] = DocumentOf(wrote[p], looked[p])
                    /\ settled # None => file = settled
BY DEF J!OwnDocument, DocumentOf, NullsOf

\* A step of ConfigJson keeps each object's document what it wrote and was
\* asked for, and a settled file what was saved.
LEMMA JsonStep == JsonInv /\ [J!Next]_(J!vars) => J!OwnDocument'
<1> SUFFICES ASSUME JsonInv, [J!Next]_(J!vars) PROVE J!OwnDocument'
  OBVIOUS
<1>0. /\ JsonTypes
      /\ \A p \in Programs : jv[p] = DocumentOf(wrote[p], looked[p])
      /\ settled # None => file = settled
  BY OwnDocumentOf DEF JsonInv
<1> SUFFICES /\ \A q \in Programs : jv'[q] = DocumentOf(wrote'[q], looked'[q])
             /\ settled' # None => file' = settled'
  BY DEF J!OwnDocument, DocumentOf, NullsOf
<1> DEFINE Doc == \A q \in Programs : jv'[q] = DocumentOf(wrote'[q], looked'[q])
           Settled == settled' # None => file' = settled'
<1>1. ASSUME NEW p \in Programs, NEW f \in Fields, J!Read(p, f) PROVE Doc /\ Settled
  <2>1. J!Accessed(jv[p], f) = DocumentOf(wrote[p], looked[p] \cup {f})
    <3>1. CASE wrote[p] = Scalar
      BY <1>0, <3>1 DEF DocumentOf, J!Accessed
    <3>2. CASE wrote[p] \in Documents
      <4>1. wrote[p] # Scalar
        BY <3>2, ScalarNoDocument
      <4>2. looked[p] \in SUBSET Fields
        BY <1>0 DEF JsonTypes
      <4> QED BY <1>0, <3>2, <4>1, <4>2, AccessFills DEF DocumentOf
    <3> QED BY <1>0, <3>1, <3>2 DEF JsonTypes
  <2>2. Doc
    BY <1>0, <1>1, <2>1 DEF J!Read, JsonTypes
  <2> QED BY <1>0, <1>1, <2>2 DEF J!Read
<1>2. ASSUME NEW p \in Programs, NEW f \in Fields, NEW v \in Given, J!WriteValue(p, f, v)
      PROVE  Doc /\ Settled
  <2>1. J!Stored(jv[p], f, v) = DocumentOf(J!Stored(wrote[p], f, v), looked[p])
    <3>1. CASE wrote[p] = Scalar
      BY <1>0, <3>1 DEF DocumentOf, J!Stored
    <3>2. CASE wrote[p] \in Documents
      <4>1. wrote[p] # Scalar /\ looked[p] \in SUBSET Fields
        BY <1>0, <3>2, ScalarNoDocument DEF JsonTypes
      <4>2. jv[p] = J!Filled(wrote[p], NullsOf(looked[p])) /\ jv[p] # Scalar
        <5>1. J!Filled(wrote[p], NullsOf(looked[p])) \in Documents
          BY <3>2, <4>1, FilledDocument
        <5> QED BY <1>0, <4>1, <5>1, ScalarNoDocument DEF DocumentOf
      <4>3. J!Put(wrote[p], f, v) # Scalar
        <5>1. J!Put(wrote[p], f, v) \in Documents
          BY <3>2, PutDocument
        <5> QED BY <5>1, ScalarNoDocument
      <4>4. J!Put(jv[p], f, v) = J!Filled(J!Put(wrote[p], f, v), NullsOf(looked[p]))
        BY <3>2, <4>1, <4>2, StoreFills
      <4> QED BY <4>1, <4>2, <4>3, <4>4 DEF DocumentOf, J!Stored
    <3> QED BY <1>0, <3>1, <3>2 DEF JsonTypes
  <2>2. Doc
    BY <1>0, <1>2, <2>1 DEF J!WriteValue, JsonTypes
  <2> QED BY <1>0, <1>2, <2>2 DEF J!WriteValue
<1>3. \A d : DocumentOf(d, {}) = IF d = Scalar THEN d ELSE J!Filled(d, NullsOf({}))
  BY DEF DocumentOf
<1>4. \A d \in Documents \cup {Scalar} : DocumentOf(d, {}) = d
  <2>1. ASSUME NEW D \in SUBSET Fields, NEW d \in [D -> Given \cup {"null"}]
        PROVE  J!Filled(d, NullsOf({})) = d
    BY DEF J!Filled, NullsOf
  <2> QED BY <1>3, <2>1 DEF Documents
<1>6. ASSUME NEW p \in Programs, NEW d \in {Scalar, J!NoFields} \cup [Fields -> Given],
             J!Construct(p, d)
      PROVE  Doc /\ Settled
  <2>1. d = DocumentOf(d, {})
    BY <1>4, GivenDocuments
  <2>2. Doc
    BY <1>0, <1>6, <2>1 DEF J!Construct, JsonTypes
  <2> QED BY <1>0, <1>6, <2>2 DEF J!Construct
<1>7. ASSUME NEW p \in Programs, NEW path, J!LoadFromFile(p, path) PROVE Doc /\ Settled
  BY <1>0, <1>7 DEF J!LoadFromFile, J!Parsed, JsonTypes
<1>8. ASSUME NEW p \in Programs, NEW path, J!SaveOpen(p, path) PROVE Doc /\ Settled
  BY <1>0, <1>8 DEF J!SaveOpen
<1>9. ASSUME NEW p \in Programs, J!SaveNowhere(p) PROVE Doc /\ Settled
  BY <1>0, <1>9 DEF J!SaveNowhere
<1>10. ASSUME NEW p \in Programs, J!SaveWrite(p) PROVE Doc /\ Settled
  BY <1>0, <1>10 DEF J!SaveWrite
<1>11. ASSUME NEW p \in Programs, J!Kill(p) PROVE Doc /\ Settled
  <2>1. J!NoFields = DocumentOf(J!NoFields, {})
    BY <1>4, GivenDocuments
  <2>2. Doc
    BY <1>0, <1>11, <2>1 DEF J!Kill, JsonTypes
  <2> QED BY <1>0, <1>11, <2>2 DEF J!Kill
<1>12. CASE UNCHANGED J!vars
  BY <1>0, <1>12 DEF J!vars
<1> QED
  BY <1>1, <1>2, <1>6, <1>7, <1>8, <1>9, <1>10, <1>11, <1>12 DEF J!Next

\* JsonInv is an invariant of the composition.
LEMMA JsonInvariant == AllSpec => []JsonInv
<1>1. AllInit => JsonInv
  <2> SUFFICES ASSUME J!Init PROVE JsonInv
    BY DEF AllInit
  <2>1. JsonTypes
    BY GivenDocuments DEF J!Init, JsonTypes
  <2>2. J!Filled(J!NoFields, NullsOf({})) = J!NoFields
    BY DEF J!Filled, NullsOf, J!NoFields
  <2>3. J!NoFields # Scalar
    BY GivenDocuments, ScalarNoDocument
  <2>4. \A p \in Programs : jv[p] = DocumentOf(wrote[p], looked[p])
    BY <2>2, <2>3 DEF J!Init, DocumentOf
  <2>5. settled = None
    BY DEF J!Init
  <2> QED BY <2>1, <2>4, <2>5, OwnDocumentOf DEF JsonInv
<1>2. JsonInv /\ [AllNext]_allVars => JsonInv'
  BY StepOfOne, JsonTypesStep, JsonStep DEF JsonInv
<1> QED BY <1>1, <1>2, PTL DEF AllSpec

\* However the programs interleave, load, save and are killed, an object holds
\* exactly the fields that it was constructed with or wrote and nulls for those
\* it was asked for, and an undisturbed save stays what it was.
THEOREM DocumentsKept == AllSpec => []OwnDocument
<1>1. JsonInv => OwnDocument
  BY DEF JsonInv, OwnDocument
<1> QED BY <1>1, JsonInvariant, PTL

(***************************************************************************)
(* FileWatcher.  A file that was reported and still exists is known, so it *)
(* is not reported again; only a file that does not exist is forgotten.    *)
(***************************************************************************)
Elements(s) == {s[j] : j \in DOMAIN s}

WatchInv ==
  /\ known \in Seq(Elements(known))
  /\ i \in Nat \ {0}
  /\ \A f \in reported : W!Exists(disk, f) /\ W!Known(f)
  /\ again = FALSE

\* A sequence is a sequence of its elements.
LEMMA SeqOfElements ==
  ASSUME NEW S, NEW s \in Seq(S)
  PROVE  s \in Seq(Elements(s))
<1>1. Len(s) \in Nat /\ s \in [1..Len(s) -> S]
  OBVIOUS
<1>2. s \in [1..Len(s) -> Elements(s)]
  BY <1>1 DEF Elements
<1> QED BY <1>1, <1>2

\* RemoveAt keeps the elements at all other places.
LEMMA RemoveAtKeeps ==
  ASSUME NEW S, NEW s \in Seq(S), NEW k \in 1..Len(s)
  PROVE  /\ W!RemoveAt(s, k) \in Seq(S)
         /\ \A j \in 1..Len(s) :
              j # k => \E m \in 1..Len(W!RemoveAt(s, k)) : W!RemoveAt(s, k)[m] = s[j]
<1> DEFINE a == SubSeq(s, 1, k - 1)
           b == SubSeq(s, k + 1, Len(s))
<1>1. Len(s) \in Nat /\ k \in Nat /\ 1 <= k /\ k <= Len(s)
  OBVIOUS
<1>2. W!RemoveAt(s, k) = a \o b
  BY DEF W!RemoveAt
<1>3. a \in Seq(S) /\ Len(a) = k - 1 /\ \A j \in 1..(k - 1) : a[j] = s[j]
  BY <1>1
<1>4. b \in Seq(S) /\ Len(b) = Len(s) - k /\ \A j \in 1..(Len(s) - k) : b[j] = s[k + j]
  BY <1>1
<1> HIDE DEF a, b
<1>5. a \o b \in Seq(S) /\ Len(a \o b) = Len(s) - 1
  <2>1. a \o b \in Seq(S) /\ Len(a \o b) = Len(a) + Len(b)
    BY <1>3, <1>4, ConcatProperties
  <2> QED BY <1>1, <1>3, <1>4, <2>1
<1>6. ASSUME NEW j \in 1..Len(s), j # k
      PROVE  \E m \in 1..Len(a \o b) : (a \o b)[m] = s[j]
  <2>1. CASE j < k
    <3>1. j \in 1..Len(a \o b) /\ (a \o b)[j] = s[j]
      BY <1>1, <1>3, <1>4, <1>5, <2>1
    <3> QED BY <3>1
  <2>2. CASE j > k
    <3>1. j - 1 \in 1..Len(a \o b) /\ (a \o b)[j - 1] = b[j - k] /\ b[j - k] = s[j]
      BY <1>1, <1>3, <1>4, <1>5, <2>2
    <3> QED BY <3>1
  <2> QED BY <1>1, <1>6, <2>1, <2>2
<1> QED BY <1>2, <1>5, <1>6

\* No step of the watcher or of another program reports a file again.
LEMMA WatchStep == WatchInv /\ [W!Next]_(W!vars) => WatchInv'
<1> SUFFICES ASSUME WatchInv, [W!Next]_(W!vars) PROVE WatchInv'
  OBVIOUS
<1> USE DEF WatchInv
<1>1. CASE W!RemoveStep
  <2>1. i \in 1..Len(known)
    BY <1>1 DEF W!RemoveStep
  <2>2. CASE W!MustRemove
    <3>1. known' = W!RemoveAt(known, i) /\ UNCHANGED <<disk, reported, again>> /\ i' = i + 1
      BY <1>1, <2>2 DEF W!RemoveStep
    <3>2. known' \in Seq(Elements(known'))
      BY <2>1, <3>1, RemoveAtKeeps, SeqOfElements
    <3>3. ASSUME NEW f \in reported PROVE W!Known(f)'
      <4>1. PICK j \in 1..Len(known) : known[j] = f
        BY DEF W!Known
      <4>2. j # i
        BY <2>2, <4>1 DEF W!MustRemove
      <4>3. \E m \in 1..Len(known') : known'[m] = known[j]
        BY <2>1, <3>1, <4>2, RemoveAtKeeps
      <4> QED BY <4>1, <4>3 DEF W!Known
    <3> QED BY <3>1, <3>2, <3>3 DEF W!Exists
  <2>3. CASE ~W!MustRemove
    BY <1>1, <2>3 DEF W!RemoveStep, W!Known, W!Exists
  <2> QED BY <2>2, <2>3
<1>2. CASE W!RemoveEnd
  BY <1>2 DEF W!RemoveEnd, W!Known, W!Exists
<1>3. CASE W!Search
  BY <1>3 DEF W!Search, W!Known, W!Exists
<1>4. CASE W!Detect
  <2> DEFINE f == Head(tmp)
  <2>1. CASE W!Known(f)
    BY <1>4, <2>1 DEF W!Detect, W!Known, W!Exists
  <2>2. CASE ~W!Known(f)
    <3>1. known' = Append(known, f) /\ UNCHANGED <<disk, i>>
      BY <1>4, <2>2 DEF W!Detect
    <3>2. f \notin reported
      BY <2>2
    <3>3. again' = FALSE
      BY <1>4, <2>2, <3>2 DEF W!Detect
    <3>4. reported' = IF W!Exists(disk, f) THEN reported \cup {f} ELSE reported
      BY <1>4, <2>2 DEF W!Detect
    <3> HIDE DEF f
    <3> DEFINE S == Elements(known) \cup {f}
    <3>5. known \in Seq(S) /\ f \in S
      BY SeqMonotonic
    <3> HIDE DEF S
    <3>6. /\ known' \in Seq(S) /\ Len(known') = Len(known) + 1
          /\ known'[Len(known) + 1] = f
          /\ \A j \in 1..Len(known) : known'[j] = known[j]
      BY <3>1, <3>5
    <3>7. known' \in Seq(Elements(known'))
      BY <3>6, SeqOfElements
    <3>8. Len(known) \in Nat
      BY <3>5
    <3>9. \E j \in 1..Len(known') : known'[j] = f
      BY <3>6, <3>8
    <3>10. ASSUME NEW g \in reported PROVE \E j \in 1..Len(known') : known'[j] = g
      <4>1. PICK j \in 1..Len(known) : known[j] = g
        BY DEF W!Known
      <4> QED BY <3>6, <3>8, <4>1
    <3>11. \A g \in reported' : W!Exists(disk, g) /\ \E j \in 1..Len(known') : known'[j] = g
      BY <3>4, <3>9, <3>10
    <3> QED BY <3>1, <3>3, <3>7, <3>11 DEF W!Exists, W!Known
  <2> QED BY <2>1, <2>2
<1>5. CASE W!DetectEnd
  BY <1>5 DEF W!DetectEnd, W!Known, W!Exists
<1>6. ASSUME NEW f \in Watched, W!Change(f) PROVE WatchInv'
  BY <1>6 DEF W!Change, W!Known, W!Exists
<1>7. CASE UNCHANGED W!vars
  BY <1>7 DEF W!vars, W!Known, W!Exists
<1> QED BY <1>1, <1>2, <1>3, <1>4, <1>5, <1>6, <1>7 DEF W!Next, W!TaskFunc

\* Whatever other programs do to the directory between any two steps of the
\* loop, and although the removing loop skips entries, no file is passed to
\* the callback twice without having been away in between.
THEOREM Once == AllSpec => []ReportedOnce
<1>1. AllInit => WatchInv
  BY DEF AllInit, W!Init, WatchInv, Elements
<1>2. WatchInv /\ [AllNext]_allVars => WatchInv'
  BY StepOfOne, WatchStep
<1>3. WatchInv => ReportedOnce
  BY DEF WatchInv, ReportedOnce, W!ReportedOnce
<1> QED BY <1>1, <1>2, <1>3, PTL DEF AllSpec

(***************************************************************************)
(* Log, as long as one thread of one process logs.                         *)
(***************************************************************************)
OneCaller == \A c, d \in LogCallers : c = d

LogTypes ==
  /\ day \in Nat /\ logCalls \in Nat
  /\ logPc \in [LogCallers -> {"idle", "named", "open", "written", "search", "cleanup"}]
  /\ line \in [LogCallers -> Nat]
  /\ today \in [LogCallers -> Nat] /\ cleaned \in [LogCallers -> Nat]
  /\ DOMAIN logFiles = LogCallers

\* The files that a cleanup has still to look at include all that are to go.
CleanupInv ==
  \A c \in LogCallers :
    /\ logPc[c] \in {"search", "cleanup"} => cleaned[c] = today[c]
    /\ logPc[c] = "cleanup" => exists \subseteq logFiles[c] \cup {today[c]}

LogInv == LogTypes /\ CleanupInv /\ L!OnlyTodayLeft

\* A step of the only caller, or midnight, keeps LogInv.
LEMMA LogStep == OneCaller /\ LogInv /\ [L!Next]_(L!vars) => LogInv'
<1> SUFFICES ASSUME OneCaller, LogInv, [L!Next]_(L!vars) PROVE LogInv'
  OBVIOUS
<1> USE DEF OneCaller, LogInv, LogTypes, CleanupInv, L!OnlyTodayLeft, L!Goto
<1>1. ASSUME NEW c \in LogCallers, L!Begin(c) PROVE LogInv'
  BY <1>1 DEF L!Begin
<1>2. ASSUME NEW c \in LogCallers, L!Open(c) PROVE LogInv'
  BY <1>2 DEF L!Open
<1>3. ASSUME NEW c \in LogCallers, L!Write(c) PROVE LogInv'
  BY <1>3 DEF L!Write
<1>4. ASSUME NEW c \in LogCallers, L!Today(c) PROVE LogInv'
  BY <1>4 DEF L!Today, L!ReadClock
<1>5. ASSUME NEW c \in LogCallers, L!SearchFiles(c) PROVE LogInv'
  BY <1>5 DEF L!SearchFiles
<1>6. ASSUME NEW c \in LogCallers, L!Cleanup(c) PROVE LogInv'
  <2>1. \A d : ~L!IsOpen(d)
    BY <1>6 DEF L!Cleanup, L!IsOpen
  <2> QED BY <1>6, <2>1 DEF L!Cleanup
<1>7. ASSUME NEW c \in LogCallers, L!End(c) PROVE LogInv'
  BY <1>7 DEF L!End
<1>8. CASE L!Midnight
  BY <1>8 DEF L!Midnight
<1>9. CASE UNCHANGED L!vars
  BY <1>9 DEF L!vars
<1> QED
  BY <1>1, <1>2, <1>3, <1>4, <1>5, <1>6, <1>7, <1>8, <1>9 DEF L!Next, L!LogStep

\* With one caller, and midnight between any two of its steps, a call leaves
\* no logs but those of the day on which it cleaned up.
THEOREM OldLogsGone == OneCaller => (AllSpec => []OnlyTodayLeft)
<1> SUFFICES ASSUME OneCaller PROVE AllSpec => []OnlyTodayLeft
  OBVIOUS
<1>1. AllInit => LogInv
  BY DEF AllInit, L!Init, LogInv, LogTypes, CleanupInv, L!OnlyTodayLeft
<1>2. LogInv /\ [AllNext]_allVars => LogInv'
  BY StepOfOne, LogStep
<1>3. LogInv => OnlyTodayLeft
  BY DEF LogInv, OnlyTodayLeft
<1> QED BY <1>1, <1>2, <1>3, PTL DEF AllSpec

(***************************************************************************)
(* ConfigIni.                                                              *)
(***************************************************************************)

\* A set of numbers that is not empty has a least one.
LEMMA Least ==
  ASSUME NEW S, S \subseteq Nat, S # {}
  PROVE  I!Min(S) \in S /\ \A k \in S : I!Min(S) <= k
<1>1. \E x \in S : \A y \in S : ~(<<y, x>> \in OpToRel(<, Nat))
  BY NatLessThanWellFounded, WFMin
<1>2. \A x, y \in Nat : x < y => <<x, y>> \in OpToRel(<, Nat)
  BY DEF OpToRel
<1>3. PICK x \in S : \A y \in S : ~(<<y, x>> \in OpToRel(<, Nat))
  BY <1>1
<1>4. ASSUME NEW y \in S PROVE x <= y
  <2>1. ~(y < x)
    BY <1>2, <1>3, Zenon
  <2> QED BY <2>1
<1> QED BY <1>4 DEF I!Min

\* The lines of a text.
HeaderLines == {<<s>> : s \in Sections}
EntryLines == Keys \X Values

\* Line n belongs to section s.
Under(text, s, n) ==
  \E h \in 1..(n - 1) : text[h] = <<s>> /\ \A j \in (h + 1)..n : ~I!IsHeader(text[j])

\* Line n gives key k of section s its value.
Sets(text, s, k, n) == n \in 1..Len(text) /\ Under(text, s, n) /\ text[n][1] = k

\* No section and no key of a section is there twice.
Regular(text) ==
  /\ text \in Seq(HeaderLines \cup EntryLines)
  /\ \A m, n \in 1..Len(text) : I!IsHeader(text[m]) /\ text[m] = text[n] => m = n
  /\ \A s \in Sections, k \in Keys, m, n \in 1..Len(text) :
       Sets(text, s, k, m) /\ Sets(text, s, k, n) => m = n

\* A header is no entry: they differ in length.
LEMMA LineKinds ==
  /\ \A s \in Sections : I!IsHeader(<<s>>)
  /\ \A s, t \in Sections : <<s>> = <<t>> => s = t
  /\ \A l \in EntryLines : ~I!IsHeader(l) /\ l = <<l[1], l[2]>> /\ l[1] \in Keys /\ l[2] \in Values
  /\ \A k \in Keys, v \in Values : <<k, v>> \in EntryLines /\ <<k, v>>[1] = k /\ <<k, v>>[2] = v
  /\ \A l \in HeaderLines : I!IsHeader(l) /\ \E s \in Sections : l = <<s>>
BY DEF I!IsHeader, HeaderLines, EntryLines

\* HeaderOf is the line of the header, or one behind the text.
LEMMA HeaderAt ==
  ASSUME NEW text, Regular(text), NEW s \in Sections
  PROVE  /\ I!HeaderOf(text, s) \in 1..(Len(text) + 1)
         /\ I!HeaderOf(text, s) <= Len(text) => text[I!HeaderOf(text, s)] = <<s>>
         /\ \A h \in 1..Len(text) : text[h] = <<s>> => I!HeaderOf(text, s) = h
<1> DEFINE head == <<s>>
           S == {Len(text) + 1} \cup {j \in 1..Len(text) : text[j] = head}
<1>1. Len(text) \in Nat
  BY DEF Regular
<1>2. I!HeaderOf(text, s) = I!Min(S)
  BY DEF I!HeaderOf, I!Indices
<1>3. I!IsHeader(head)
  BY LineKinds
<1> HIDE DEF head
<1>4. I!Min(S) \in S /\ \A k \in S : I!Min(S) <= k
  <2>1. S \subseteq Nat /\ S # {}
    BY <1>1
  <2> HIDE DEF S
  <2> QED BY <2>1, Least
<1>5. ASSUME NEW h \in 1..Len(text), text[h] = head PROVE I!Min(S) = h
  <2>1. h \in S
    BY <1>5
  <2>2. I!Min(S) \in 1..Len(text) /\ text[I!Min(S)] = head
    BY <1>1, <1>4, <2>1
  <2> QED BY <1>3, <1>5, <2>2 DEF Regular
<1>6. I!Min(S) \in 1..(Len(text) + 1) /\ (I!Min(S) <= Len(text) => text[I!Min(S)] = head)
  <2> DEFINE m == I!Min(S)
  <2>1. m \in S
    BY <1>4
  <2> HIDE DEF m
  <2>2. m \in 1..(Len(text) + 1) /\ (m <= Len(text) => text[m] = head)
    BY <1>1, <2>1
  <2> QED BY <2>2 DEF m
<1> QED BY <1>2, <1>5, <1>6 DEF head

\* EndOf is the next header behind a line, or one behind the text.
LEMMA EndAt ==
  ASSUME NEW text, Regular(text), NEW at \in 1..(Len(text) + 1)
  PROVE  /\ I!EndOf(text, at) \in at..(Len(text) + 1)
         /\ at <= Len(text) => I!EndOf(text, at) > at
         /\ I!EndOf(text, at) <= Len(text) => I!IsHeader(text[I!EndOf(text, at)])
         /\ \A j \in (at + 1)..(I!EndOf(text, at) - 1) : ~I!IsHeader(text[j])
<1> DEFINE S == {Len(text) + 1} \cup {j \in 1..Len(text) : I!IsHeader(text[j]) /\ j > at}
<1>1. Len(text) \in Nat
  BY DEF Regular
<1>2. I!EndOf(text, at) = I!Min(S)
  <2>1. {j \in I!Indices(text, I!IsHeader) : j > at}
          = {j \in 1..Len(text) : I!IsHeader(text[j]) /\ j > at}
    BY DEF I!Indices, I!IsHeader
  <2> QED BY <2>1 DEF I!EndOf
<1>3. I!Min(S) \in S /\ \A k \in S : I!Min(S) <= k
  BY <1>1, Least, SMTT(30)
<1>4. I!Min(S) \in at..(Len(text) + 1) /\ (at <= Len(text) => I!Min(S) > at)
  BY <1>1, <1>3
<1>5. I!Min(S) <= Len(text) => I!IsHeader(text[I!Min(S)])
  BY <1>1, <1>3
<1>6. ASSUME NEW j \in (at + 1)..(I!Min(S) - 1) PROVE ~I!IsHeader(text[j])
  <2>1. j \in 1..Len(text) /\ j > at /\ j < I!Min(S)
    BY <1>1, <1>4
  <2>2. j \notin S
    BY <1>3, <2>1
  <2> QED BY <2>1, <2>2
<1> QED BY <1>2, <1>4, <1>5, <1>6

\* KeyIn are the lines that set the key.
LEMMA KeyLines ==
  ASSUME NEW text, Regular(text), NEW s \in Sections, NEW k \in Keys
  PROVE  I!KeyIn(text, s, k) = {n \in 1..Len(text) : Sets(text, s, k, n)}
<1> DEFINE at == I!HeaderOf(text, s)
           end == I!EndOf(text, at)
<1>1. Len(text) \in Nat
  BY DEF Regular
<1>2. /\ at \in 1..(Len(text) + 1) /\ (at <= Len(text) => text[at] = <<s>>)
      /\ \A h \in 1..Len(text) : text[h] = <<s>> => at = h
  BY HeaderAt
<1>3. /\ end \in at..(Len(text) + 1) /\ (at <= Len(text) => end > at)
      /\ (end <= Len(text) => I!IsHeader(text[end]))
      /\ \A j \in (at + 1)..(end - 1) : ~I!IsHeader(text[j])
  BY <1>2, EndAt
<1>4. I!KeyIn(text, s, k) = {n \in (at + 1)..(end - 1) : text[n][1] = k}
  BY DEF I!KeyIn
<1> HIDE DEF at, end
<1>5. ASSUME NEW n \in (at + 1)..(end - 1) PROVE n \in 1..Len(text) /\ Under(text, s, n)
  <2>1. n \in 1..Len(text) /\ at \in 1..(n - 1) /\ text[at] = <<s>>
    BY <1>1, <1>2, <1>3
  <2>2. \A j \in (at + 1)..n : ~I!IsHeader(text[j])
    BY <1>1, <1>2, <1>3
  <2> QED BY <2>1, <2>2 DEF Under
<1>6. ASSUME NEW n \in 1..Len(text), Under(text, s, n) PROVE n \in (at + 1)..(end - 1)
  <2>1. PICK h \in 1..(n - 1) : text[h] = <<s>> /\ \A j \in (h + 1)..n : ~I!IsHeader(text[j])
    BY <1>6 DEF Under
  <2>2. h \in 1..Len(text) /\ at = h
    BY <1>1, <1>2, <2>1
  <2>3. end > n
    BY <1>1, <1>2, <1>3, <2>1, <2>2
  <2> QED BY <1>1, <1>3, <2>2, <2>3
<1> QED BY <1>4, <1>5, <1>6 DEF Sets

\* What Get tells, without Min: the value that some line sets, or Default.
LEMMA GetIs ==
  ASSUME NEW text, Regular(text), NEW s \in Sections, NEW k \in Keys
  PROVE  /\ \A n \in 1..Len(text) : Sets(text, s, k, n) => I!Get(text, s, k) = text[n][2]
         /\ (\A n \in 1..Len(text) : ~Sets(text, s, k, n)) => I!Get(text, s, k) = Default
<1>1. ASSUME NEW n \in 1..Len(text), Sets(text, s, k, n) PROVE I!Get(text, s, k) = text[n][2]
  <2>1. I!KeyIn(text, s, k) = {n}
    BY <1>1, KeyLines DEF Regular
  <2>2. n \in Nat
    BY DEF Regular
  <2>3. I!Min({n}) = n
    BY <2>2, Least
  <2> QED BY <2>1, <2>3 DEF I!Get
<1>2. ASSUME \A n \in 1..Len(text) : ~Sets(text, s, k, n) PROVE I!Get(text, s, k) = Default
  BY <1>2, KeyLines DEF I!Get
<1> QED BY <1>1, <1>2

\* Texts in which the same lines set a key tell the same of it.
LEMMA SameLines ==
  ASSUME NEW text, NEW u, Regular(text), Regular(u), NEW s \in Sections, NEW k \in Keys,
         \A n \in 1..Len(u) : Sets(u, s, k, n) =>
           \E m \in 1..Len(text) : Sets(text, s, k, m) /\ text[m] = u[n],
         \A m \in 1..Len(text) : Sets(text, s, k, m) =>
           \E n \in 1..Len(u) : Sets(u, s, k, n)
  PROVE  I!Get(u, s, k) = I!Get(text, s, k)
<1>1. CASE \E n \in 1..Len(u) : Sets(u, s, k, n)
  BY <1>1, GetIs
<1>2. CASE ~\E n \in 1..Len(u) : Sets(u, s, k, n)
  BY <1>2, GetIs
<1> QED BY <1>1, <1>2

\* u is text with one more line, which is no header, at n.
OneMore(text, u, n) ==
  /\ text \in Seq(HeaderLines \cup EntryLines) /\ u \in Seq(HeaderLines \cup EntryLines)
  /\ n \in 1..Len(u) /\ Len(u) = Len(text) + 1 /\ ~I!IsHeader(u[n])
  /\ \A m \in 1..(n - 1) : u[m] = text[m]
  /\ \A m \in n..Len(text) : u[m + 1] = text[m]

\* Where line m of the shorter text is in the longer one.
Shifted(n, m) == IF m < n THEN m ELSE m + 1

\* The lines of the longer text other than the new one are those of the other.
LEMMA ShiftedPlace ==
  ASSUME NEW text, NEW u, NEW n, OneMore(text, u, n)
  PROVE  /\ Len(text) \in Nat /\ Len(u) = Len(text) + 1 /\ n \in 1..Len(u)
         /\ \A m \in 1..Len(text) :
              Shifted(n, m) \in 1..Len(u) /\ Shifted(n, m) # n /\ u[Shifted(n, m)] = text[m]
         /\ \A m \in 1..Len(u) : m # n => \E j \in 1..Len(text) : m = Shifted(n, j)
         /\ \A m, j \in 1..Len(text) : Shifted(n, m) < Shifted(n, j) <=> m < j
<1>1. Len(text) \in Nat /\ Len(u) = Len(text) + 1 /\ n \in 1..Len(u)
  BY DEF OneMore
<1>2. ASSUME NEW m \in 1..Len(text)
      PROVE  Shifted(n, m) \in 1..Len(u) /\ Shifted(n, m) # n /\ u[Shifted(n, m)] = text[m]
  BY <1>1 DEF OneMore, Shifted
<1>3. ASSUME NEW m \in 1..Len(u), m # n PROVE \E j \in 1..Len(text) : m = Shifted(n, j)
  <2> DEFINE j == IF m < n THEN m ELSE m - 1
  <2>1. j \in 1..Len(text) /\ m = Shifted(n, j)
    BY <1>1, <1>3 DEF Shifted
  <2> QED BY <2>1
<1>4. ASSUME NEW m \in 1..Len(text), NEW j \in 1..Len(text)
      PROVE  Shifted(n, m) < Shifted(n, j) <=> m < j
  BY <1>1 DEF Shifted
<1> QED BY <1>1, <1>2, <1>3, <1>4

\* A line that moves stays in its section.
LEMMA ShiftedUnder ==
  ASSUME NEW text, NEW u, NEW n, OneMore(text, u, n), NEW s \in Sections, NEW m \in 1..Len(text)
  PROVE  Under(text, s, m) <=> Under(u, s, Shifted(n, m))
<1> DEFINE head == <<s>>
<1>1. I!IsHeader(head) /\ ~I!IsHeader(u[n])
  BY LineKinds DEF OneMore
<1> HIDE DEF head
<1>2. ASSUME NEW h \in 1..(m - 1), text[h] = head, \A j \in (h + 1)..m : ~I!IsHeader(text[j])
      PROVE  \E g \in 1..(Shifted(n, m) - 1) :
               u[g] = head /\ \A j \in (g + 1)..Shifted(n, m) : ~I!IsHeader(u[j])
  <2>1. h \in 1..Len(text)
    BY ShiftedPlace
  <2>2. Shifted(n, h) \in 1..(Shifted(n, m) - 1) /\ u[Shifted(n, h)] = head
    BY <1>2, <2>1, ShiftedPlace
  <2>3. ASSUME NEW j \in (Shifted(n, h) + 1)..Shifted(n, m) PROVE ~I!IsHeader(u[j])
    <3>1. CASE j = n
      BY <1>1, <3>1
    <3>2. CASE j # n
      <4>0. j \in 1..Len(u)
        BY <2>1, ShiftedPlace
      <4>1. PICK l \in 1..Len(text) : j = Shifted(n, l)
        BY <4>0, <3>2, ShiftedPlace
      <4>2. Shifted(n, h) < Shifted(n, l) /\ ~(Shifted(n, m) < Shifted(n, l))
        BY <2>1, <4>1, ShiftedPlace
      <4>3. l \in (h + 1)..m
        BY <2>1, <4>2, ShiftedPlace
      <4> QED BY <1>2, <4>1, <4>3, ShiftedPlace
    <3> QED BY <3>1, <3>2
  <2> QED BY <2>2, <2>3
<1>3. ASSUME NEW g \in 1..(Shifted(n, m) - 1), u[g] = head,
             \A j \in (g + 1)..Shifted(n, m) : ~I!IsHeader(u[j])
      PROVE  \E h \in 1..(m - 1) :
               text[h] = head /\ \A j \in (h + 1)..m : ~I!IsHeader(text[j])
  <2>1. g \in 1..Len(u) /\ g # n
    BY <1>1, <1>3, ShiftedPlace
  <2>2. PICK h \in 1..Len(text) : g = Shifted(n, h)
    BY <2>1, ShiftedPlace
  <2>3. h < m /\ text[h] = head
    BY <1>3, <2>2, ShiftedPlace
  <2>4. ASSUME NEW j \in (h + 1)..m PROVE ~I!IsHeader(text[j])
    <3>1. j \in 1..Len(text) /\ ~(m < j) /\ h < j
      BY ShiftedPlace
    <3>2. Shifted(n, j) \in (g + 1)..Shifted(n, m) /\ u[Shifted(n, j)] = text[j]
      BY <2>2, <3>1, ShiftedPlace, SMTT(30)
    <3> QED BY <1>3, <3>2
  <2> QED BY <2>3, <2>4
<1> QED BY <1>2, <1>3 DEF Under, head

\* A line that moves sets what it did.
LEMMA ShiftedSets ==
  ASSUME NEW text, NEW u, NEW n, OneMore(text, u, n), NEW s \in Sections, NEW k \in Keys
  PROVE  /\ \A m \in 1..Len(text) : Sets(text, s, k, m) <=> Sets(u, s, k, Shifted(n, m))
         /\ \A j \in 1..Len(u) : Sets(u, s, k, j) =>
              j = n \/ \E m \in 1..Len(text) : j = Shifted(n, m) /\ Sets(text, s, k, m)
<1>1. ASSUME NEW m \in 1..Len(text) PROVE Sets(text, s, k, m) <=> Sets(u, s, k, Shifted(n, m))
  BY ShiftedUnder, ShiftedPlace DEF Sets
<1> QED BY <1>1, ShiftedPlace

\* A line for a key that was not there keeps a text regular.
LEMMA MoreIsRegular ==
  ASSUME NEW text, NEW u, NEW n, OneMore(text, u, n), Regular(text),
         \A s \in Sections, k \in Keys :
           Sets(u, s, k, n) => \A m \in 1..Len(text) : ~Sets(text, s, k, m)
  PROVE  Regular(u)
<1>1. u \in Seq(HeaderLines \cup EntryLines) /\ ~I!IsHeader(u[n])
  BY DEF OneMore
<1>2. ASSUME NEW i1 \in 1..Len(u), NEW i2 \in 1..Len(u), I!IsHeader(u[i1]), u[i1] = u[i2]
      PROVE  i1 = i2
  <2>1. i1 # n /\ i2 # n
    BY <1>1, <1>2
  <2>2. PICK m1 \in 1..Len(text) : i1 = Shifted(n, m1)
    BY <2>1, ShiftedPlace
  <2>3. PICK m2 \in 1..Len(text) : i2 = Shifted(n, m2)
    BY <2>1, ShiftedPlace
  <2>4. I!IsHeader(text[m1]) /\ text[m1] = text[m2]
    BY <1>2, <2>2, <2>3, ShiftedPlace
  <2> QED BY <2>2, <2>3, <2>4 DEF Regular
<1>3. ASSUME NEW s \in Sections, NEW k \in Keys, NEW i1 \in 1..Len(u), NEW i2 \in 1..Len(u),
             Sets(u, s, k, i1), Sets(u, s, k, i2)
      PROVE  i1 = i2
  <2>1. i1 = n \/ \E m \in 1..Len(text) : i1 = Shifted(n, m) /\ Sets(text, s, k, m)
    BY <1>3, ShiftedSets
  <2>2. i2 = n \/ \E m \in 1..Len(text) : i2 = Shifted(n, m) /\ Sets(text, s, k, m)
    BY <1>3, ShiftedSets
  <2>3. CASE i1 = n
    BY <1>3, <2>2, <2>3
  <2>4. CASE i2 = n
    BY <1>3, <2>1, <2>4
  <2>5. CASE i1 # n /\ i2 # n
    <3>1. PICK m1 \in 1..Len(text) : i1 = Shifted(n, m1) /\ Sets(text, s, k, m1)
      BY <2>1, <2>5
    <3>2. PICK m2 \in 1..Len(text) : i2 = Shifted(n, m2) /\ Sets(text, s, k, m2)
      BY <2>2, <2>5
    <3> QED BY <3>1, <3>2 DEF Regular
  <2> QED BY <2>3, <2>4, <2>5
<1> QED BY <1>1, <1>2, <1>3 DEF Regular

\* So does taking a line away.
LEMMA FewerIsRegular ==
  ASSUME NEW text, NEW u, NEW n, OneMore(text, u, n), Regular(u)
  PROVE  Regular(text)
<1>1. text \in Seq(HeaderLines \cup EntryLines)
  BY DEF OneMore
<1>2. ASSUME NEW m1 \in 1..Len(text), NEW m2 \in 1..Len(text), Shifted(n, m1) = Shifted(n, m2)
      PROVE  m1 = m2
  BY <1>2, ShiftedPlace DEF Shifted
<1>3. ASSUME NEW m1 \in 1..Len(text), NEW m2 \in 1..Len(text),
             I!IsHeader(text[m1]), text[m1] = text[m2]
      PROVE  m1 = m2
  <2>1. Shifted(n, m1) = Shifted(n, m2)
    BY <1>3, ShiftedPlace, SMTT(30) DEF Regular
  <2> QED BY <1>2, <2>1
<1>4. ASSUME NEW s \in Sections, NEW k \in Keys, NEW m1 \in 1..Len(text), NEW m2 \in 1..Len(text),
             Sets(text, s, k, m1), Sets(text, s, k, m2)
      PROVE  m1 = m2
  <2>1. Sets(u, s, k, Shifted(n, m1)) /\ Sets(u, s, k, Shifted(n, m2))
    BY <1>4, ShiftedSets
  <2>2. Shifted(n, m1) = Shifted(n, m2)
    BY <2>1, ShiftedPlace DEF Regular
  <2> QED BY <1>2, <2>2
<1> QED BY <1>1, <1>3, <1>4 DEF Regular

\* The line more is all that makes a difference.
LEMMA MoreTells ==
  ASSUME NEW text, NEW u, NEW n, OneMore(text, u, n), Regular(text), Regular(u),
         NEW s \in Sections, NEW k \in Keys
  PROVE  I!Get(u, s, k) = IF Sets(u, s, k, n) THEN u[n][2] ELSE I!Get(text, s, k)
<1>1. CASE Sets(u, s, k, n)
  BY <1>1, GetIs, ShiftedPlace
<1>2. CASE ~Sets(u, s, k, n)
  <2>1. \A j \in 1..Len(u) : Sets(u, s, k, j) =>
          \E m \in 1..Len(text) : Sets(text, s, k, m) /\ text[m] = u[j]
    BY <1>2, ShiftedSets, ShiftedPlace, SMTT(30)
  <2>2. \A m \in 1..Len(text) : Sets(text, s, k, m) => \E j \in 1..Len(u) : Sets(u, s, k, j)
    BY ShiftedSets, ShiftedPlace
  <2> QED BY <1>2, <2>1, <2>2, SameLines
<1> QED BY <1>1, <1>2

\* A line belongs to one section.
LEMMA OneSection ==
  ASSUME NEW text, NEW s \in Sections, NEW t \in Sections, NEW n \in Nat,
         Under(text, s, n), Under(text, t, n)
  PROVE  s = t
<1>1. PICK h \in 1..(n - 1) : text[h] = <<s>> /\ \A j \in (h + 1)..n : ~I!IsHeader(text[j])
  BY DEF Under
<1>2. PICK g \in 1..(n - 1) : text[g] = <<t>> /\ \A j \in (g + 1)..n : ~I!IsHeader(text[j])
  BY DEF Under
<1>3. I!IsHeader(text[h]) /\ I!IsHeader(text[g])
  BY <1>1, <1>2, LineKinds
<1>4. g = h
  BY <1>1, <1>2, <1>3
<1> QED BY <1>1, <1>2, <1>4, LineKinds, Zenon

\* RemoveAt is the reverse of OneMore.
LEMMA Without ==
  ASSUME NEW text, Regular(text), NEW n \in 1..Len(text), ~I!IsHeader(text[n])
  PROVE  OneMore(I!RemoveAt(text, n), text, n) /\ Regular(I!RemoveAt(text, n))
<1> DEFINE Line == HeaderLines \cup EntryLines
           a == SubSeq(text, 1, n - 1)
           b == SubSeq(text, n + 1, Len(text))
<1>1. text \in Seq(Line) /\ Len(text) \in Nat
  BY DEF Regular
<1>2. a \in Seq(Line) /\ Len(a) = n - 1 /\ \A m \in 1..(n - 1) : a[m] = text[m]
  BY <1>1
<1>3. b \in Seq(Line) /\ Len(b) = Len(text) - n /\ \A m \in 1..(Len(text) - n) : b[m] = text[n + m]
  BY <1>1
<1>4. I!RemoveAt(text, n) = a \o b
  BY DEF I!RemoveAt
<1> HIDE DEF Line, a, b
<1>5. /\ a \o b \in Seq(Line) /\ Len(a \o b) = Len(text) - 1
      /\ \A m \in 1..(n - 1) : (a \o b)[m] = text[m]
      /\ \A m \in n..(Len(text) - 1) : (a \o b)[m] = text[m + 1]
  <2>1. a \o b \in Seq(Line) /\ Len(a \o b) = Len(text) - 1
    BY <1>1, <1>2, <1>3
  <2>2. \A m \in 1..(n - 1) : (a \o b)[m] = text[m]
    BY <1>1, <1>2, <1>3
  <2>3. ASSUME NEW m \in n..(Len(text) - 1) PROVE (a \o b)[m] = text[m + 1]
    <3>1. (a \o b)[m] = b[m - (n - 1)]
      BY <1>1, <1>2, <1>3
    <3>2. b[m - (n - 1)] = text[n + (m - (n - 1))]
      BY <1>1, <1>3
    <3> QED BY <1>1, <3>1, <3>2
  <2> QED BY <2>1, <2>2, <2>3
<1>6. OneMore(a \o b, text, n)
  <2> DEFINE c == a \o b
  <2>0. c = a \o b
    OBVIOUS
  <2> HIDE DEF c
  <2>1. /\ c \in Seq(Line) /\ Len(c) = Len(text) - 1 /\ n \in Nat
        /\ \A m \in 1..(n - 1) : text[m] = c[m]
        /\ \A m \in n..(Len(text) - 1) : text[m + 1] = c[m]
    BY <1>1, <1>5, <2>0
  <2>2. OneMore(c, text, n)
    BY <1>1, <2>1 DEF OneMore, Line
  <2> QED BY <2>2 DEF c
<1> QED BY <1>4, <1>6, FewerIsRegular

\* Deleting a key makes it unset and leaves all others.
LEMMA DropTells ==
  ASSUME NEW text, Regular(text), NEW s \in Sections, NEW k \in Keys
  PROVE  /\ Regular(I!Drop(text, s, k)) /\ I!Get(I!Drop(text, s, k), s, k) = Default
         /\ \A t \in Sections, l \in Keys : <<t, l>> # <<s, k>> =>
              I!Get(I!Drop(text, s, k), t, l) = I!Get(text, t, l)
<1>1. CASE I!KeyIn(text, s, k) = {}
  BY <1>1 DEF I!Drop, I!Get
<1>2. CASE I!KeyIn(text, s, k) # {}
  <2> DEFINE n == I!Min(I!KeyIn(text, s, k))
             u == I!RemoveAt(text, n)
  <2>1. n \in 1..Len(text) /\ Sets(text, s, k, n)
    <3>1. I!KeyIn(text, s, k) \subseteq Nat
      BY KeyLines
    <3>2. n \in I!KeyIn(text, s, k)
      BY <1>2, <3>1, Least
    <3> QED BY <3>2, KeyLines
  <2>2. n \in Nat /\ Under(text, s, n) /\ text[n][1] = k /\ ~I!IsHeader(text[n])
    <3>1. Under(text, s, n) /\ text[n][1] = k /\ n \in Nat
      BY <2>1 DEF Sets
    <3> QED BY <2>1, <3>1 DEF Under
  <2>3. OneMore(u, text, n) /\ Regular(u)
    BY <2>1, <2>2, Without
  <2>4. I!Drop(text, s, k) = u
    BY <1>2 DEF I!Drop
  <2> HIDE DEF n, u
  <2>5. ASSUME NEW t \in Sections, NEW l \in Keys, Sets(text, t, l, n) PROVE t = s /\ l = k
    BY <2>2, <2>5, OneSection DEF Sets
  <2>6. I!Get(u, s, k) = Default
    <3>1. ASSUME NEW m \in 1..Len(u), Sets(u, s, k, m) PROVE FALSE
      <4>1. Sets(text, s, k, Shifted(n, m)) /\ Shifted(n, m) # n /\ Shifted(n, m) \in 1..Len(text)
        BY <2>3, <3>1, ShiftedSets, ShiftedPlace
      <4> QED BY <2>1, <4>1 DEF Regular
    <3> QED BY <2>3, <3>1, GetIs
  <2>7. ASSUME NEW t \in Sections, NEW l \in Keys, <<t, l>> # <<s, k>>
        PROVE  I!Get(u, t, l) = I!Get(text, t, l)
    <3>1. ~Sets(text, t, l, n)
      BY <2>5, <2>7
    <3> QED BY <2>3, <3>1, MoreTells
  <2> QED BY <2>3, <2>4, <2>6, <2>7
<1> QED BY <1>1, <1>2

\* A line for key k of section s put where u has it.
LEMMA MorePut ==
  ASSUME NEW text, NEW u, NEW n, OneMore(text, u, n), Regular(text),
         NEW s \in Sections, NEW k \in Keys, NEW v \in Values,
         u[n] = <<k, v>>, Under(u, s, n), \A m \in 1..Len(text) : ~Sets(text, s, k, m)
  PROVE  /\ Regular(u) /\ I!Get(u, s, k) = v
         /\ \A t \in Sections, l \in Keys : <<t, l>> # <<s, k>> =>
              I!Get(u, t, l) = I!Get(text, t, l)
<1>1. n \in 1..Len(u) /\ n \in Nat /\ u[n][1] = k /\ u[n][2] = v
  BY ShiftedPlace, LineKinds
<1>2. Sets(u, s, k, n)
  BY <1>1 DEF Sets
<1>3. ASSUME NEW t \in Sections, NEW l \in Keys, Sets(u, t, l, n) PROVE t = s /\ l = k
  BY <1>1, <1>3, OneSection DEF Sets
<1>4. Regular(u)
  BY <1>3, MoreIsRegular
<1>5. I!Get(u, s, k) = v
  BY <1>1, <1>2, <1>4, MoreTells
<1>6. ASSUME NEW t \in Sections, NEW l \in Keys, <<t, l>> # <<s, k>>
      PROVE  I!Get(u, t, l) = I!Get(text, t, l)
  <2>1. ~Sets(u, t, l, n)
    BY <1>3, <1>6
  <2> QED BY <1>4, <2>1, MoreTells
<1> QED BY <1>4, <1>5, <1>6

\* Writing a value over one that is there: no other entry changes.
LEMMA PutChange ==
  ASSUME NEW text, Regular(text), NEW s \in Sections, NEW k \in Keys, NEW v \in Values,
         NEW n \in 1..Len(text), Sets(text, s, k, n), NEW u,
         u \in Seq(HeaderLines \cup EntryLines), Len(u) = Len(text), u[n] = <<k, v>>,
         \A m \in 1..Len(text) : m # n => u[m] = text[m]
  PROVE  /\ Regular(u) /\ I!Get(u, s, k) = v
         /\ \A t \in Sections, l \in Keys : <<t, l>> # <<s, k>> =>
              I!Get(u, t, l) = I!Get(text, t, l)
<1> DEFINE new == <<k, v>>
           mid == I!RemoveAt(text, n)
<1>1. Under(text, s, n) /\ n \in Nat /\ Len(text) \in Nat
  BY DEF Sets, Regular
<1>2. ~I!IsHeader(text[n])
  BY <1>1 DEF Under
<1>3. OneMore(mid, text, n) /\ Regular(mid)
  BY <1>2, Without
<1>4. new \in EntryLines /\ ~I!IsHeader(new)
  BY LineKinds, Zenon
<1>5. u[n] = new
  OBVIOUS
<1> HIDE DEF new, mid
<1>6. OneMore(mid, u, n)
  <2>1. \A m \in 1..(n - 1) : u[m] = mid[m]
    BY <1>1, <1>3, <1>5 DEF OneMore
  <2>2. \A m \in n..Len(mid) : u[m + 1] = mid[m]
    BY <1>1, <1>3, <1>5 DEF OneMore
  <2> QED BY <1>3, <1>4, <1>5, <2>1, <2>2 DEF OneMore
<1>7. Under(u, s, n)
  <2>1. PICK h \in 1..(n - 1) : text[h] = <<s>> /\ \A j \in (h + 1)..n : ~I!IsHeader(text[j])
    BY <1>1 DEF Under
  <2>2. u[h] = <<s>>
    BY <1>1, <1>5, <2>1
  <2>3. \A j \in (h + 1)..n : ~I!IsHeader(u[j])
    BY <1>1, <1>4, <1>5, <2>1
  <2> QED BY <2>2, <2>3 DEF Under
<1>8. ASSUME NEW m \in 1..Len(mid) PROVE ~Sets(mid, s, k, m)
  <2>1. Sets(mid, s, k, m) =>
          Sets(text, s, k, Shifted(n, m)) /\ Shifted(n, m) # n /\ Shifted(n, m) \in 1..Len(text)
    BY <1>3, ShiftedSets, ShiftedPlace
  <2> QED BY <2>1 DEF Regular
<1>9. /\ Regular(u) /\ I!Get(u, s, k) = v
      /\ \A t \in Sections, l \in Keys : <<t, l>> # <<s, k>> => I!Get(u, t, l) = I!Get(mid, t, l)
  BY <1>3, <1>6, <1>7, <1>8, MorePut
<1>10. ASSUME NEW t \in Sections, NEW l \in Keys, <<t, l>> # <<s, k>>
       PROVE  I!Get(mid, t, l) = I!Get(text, t, l)
  <2>1. ~Sets(text, t, l, n)
    BY <1>1, <1>10, OneSection DEF Sets
  <2> QED BY <1>3, <2>1, MoreTells
<1> QED BY <1>9, <1>10

\* InsertAt is OneMore.
LEMMA Inserted ==
  ASSUME NEW text, Regular(text), NEW n \in 1..(Len(text) + 1), NEW e \in EntryLines
  PROVE  OneMore(text, I!InsertAt(text, n, e), n) /\ I!InsertAt(text, n, e)[n] = e
<1> DEFINE Line == HeaderLines \cup EntryLines
           a == SubSeq(text, 1, n - 1)
           b == SubSeq(text, n, Len(text))
           c == a \o <<e>>
<1>1. text \in Seq(Line) /\ Len(text) \in Nat /\ e \in Line /\ ~I!IsHeader(e)
  BY LineKinds DEF Regular
<1>2. a \in Seq(Line) /\ Len(a) = n - 1 /\ \A m \in 1..(n - 1) : a[m] = text[m]
  BY <1>1
<1>3. /\ b \in Seq(Line) /\ Len(b) = Len(text) - n + 1
      /\ \A m \in 1..(Len(text) - n + 1) : b[m] = text[n + m - 1]
  BY <1>1
<1>4. I!InsertAt(text, n, e) = c \o b
  BY DEF I!InsertAt
<1> HIDE DEF Line, a, b
<1>5. c \in Seq(Line) /\ Len(c) = n /\ c[n] = e /\ \A m \in 1..(n - 1) : c[m] = text[m]
  <2> DEFINE one == <<e>>
  <2>1. one \in Seq(Line) /\ Len(one) = 1 /\ one[1] = e
    BY <1>1
  <2>2. n \in Nat /\ n >= 1
    BY <1>1
  <2> HIDE DEF one
  <2>3. /\ a \o one \in Seq(Line) /\ Len(a \o one) = Len(a) + Len(one)
        /\ \A m \in 1..(Len(a) + Len(one)) :
             (a \o one)[m] = IF m <= Len(a) THEN a[m] ELSE one[m - Len(a)]
    BY <1>2, <2>1, ConcatProperties, ZenonT(60)
  <2>4. c = a \o one
    BY DEF one
  <2> HIDE DEF c
  <2>5. c \in Seq(Line) /\ Len(c) = n
    BY <1>2, <2>1, <2>2, <2>3, <2>4
  <2>6. c[n] = e
    <3>1. n \in 1..(Len(a) + Len(one)) /\ ~(n <= Len(a)) /\ n - Len(a) = 1
      BY <1>2, <2>1, <2>2
    <3> QED BY <2>1, <2>3, <2>4, <3>1
  <2>7. ASSUME NEW m \in 1..(n - 1) PROVE c[m] = text[m]
    <3>1. m \in 1..(Len(a) + Len(one)) /\ m <= Len(a)
      BY <1>2, <2>1, <2>2
    <3> QED BY <1>2, <2>3, <2>4, <3>1
  <2> QED BY <2>5, <2>6, <2>7
<1> HIDE DEF c
<1>6. c \o b \in Seq(Line) /\ Len(c \o b) = Len(text) + 1
  BY <1>1, <1>3, <1>5
<1>7. (c \o b)[n] = e /\ \A m \in 1..(n - 1) : (c \o b)[m] = text[m]
  BY <1>1, <1>3, <1>5
<1>8. ASSUME NEW m \in n..Len(text) PROVE (c \o b)[m + 1] = text[m]
  <2>1. (c \o b)[m + 1] = b[m + 1 - n]
    BY <1>1, <1>3, <1>5
  <2>2. b[m + 1 - n] = text[n + (m + 1 - n) - 1]
    BY <1>1, <1>3
  <2> QED BY <1>1, <2>1, <2>2
<1> QED BY <1>1, <1>4, <1>6, <1>7, <1>8 DEF OneMore, Line

\* The header of a section that was not there makes no difference.
LEMMA HeaderMore ==
  ASSUME NEW text, Regular(text), NEW s \in Sections, \A h \in 1..Len(text) : text[h] # <<s>>
  PROVE  /\ Regular(Append(text, <<s>>))
         /\ \A t \in Sections, l \in Keys : I!Get(Append(text, <<s>>), t, l) = I!Get(text, t, l)
         /\ \A l \in Keys, m \in 1..(Len(text) + 1) : ~Sets(Append(text, <<s>>), s, l, m)
<1> DEFINE head == <<s>>
           u == Append(text, head)
           z == Len(text) + 1
<1>1. text \in Seq(HeaderLines \cup EntryLines) /\ Len(text) \in Nat
  BY DEF Regular
<1>2. head \in HeaderLines /\ I!IsHeader(head) /\ \A h \in 1..Len(text) : text[h] # head
  BY LineKinds DEF HeaderLines
<1> HIDE DEF head
<1>3. /\ u \in Seq(HeaderLines \cup EntryLines) /\ Len(u) = z /\ u[z] = head
      /\ \A m \in 1..Len(text) : u[m] = text[m]
  BY <1>1, <1>2
<1> HIDE DEF u
<1>4. ASSUME NEW t \in Sections, NEW m \in 1..Len(text) PROVE Under(u, t, m) <=> Under(text, t, m)
  BY <1>1, <1>3, SMTT(30) DEF Under
<1>5. ASSUME NEW t \in Sections PROVE ~Under(u, t, z)
  BY <1>1, <1>2, <1>3 DEF Under
<1>6. ASSUME NEW t \in Sections, NEW l \in Keys
      PROVE  /\ \A m \in 1..Len(text) : Sets(u, t, l, m) <=> Sets(text, t, l, m)
             /\ ~Sets(u, t, l, z)
  BY <1>1, <1>3, <1>4, <1>5 DEF Sets
<1>7. Regular(u)
  <2>1. ASSUME NEW m \in 1..Len(u), NEW n \in 1..Len(u), I!IsHeader(u[m]), u[m] = u[n] PROVE m = n
    BY <1>1, <1>2, <1>3, <2>1 DEF Regular
  <2>2. ASSUME NEW t \in Sections, NEW l \in Keys, NEW m \in 1..Len(u), NEW n \in 1..Len(u),
               Sets(u, t, l, m), Sets(u, t, l, n)
        PROVE  m = n
    <3>1. m \in 1..Len(text) /\ n \in 1..Len(text)
      BY <1>1, <1>3, <1>6, <2>2
    <3> QED BY <1>6, <2>2, <3>1 DEF Regular
  <2> QED BY <1>3, <2>1, <2>2 DEF Regular
<1>8. ASSUME NEW t \in Sections, NEW l \in Keys PROVE I!Get(u, t, l) = I!Get(text, t, l)
  <2>1. \A j \in 1..Len(u) : Sets(u, t, l, j) =>
          \E m \in 1..Len(text) : Sets(text, t, l, m) /\ text[m] = u[j]
    BY <1>1, <1>3, <1>6
  <2>2. \A m \in 1..Len(text) : Sets(text, t, l, m) => \E j \in 1..Len(u) : Sets(u, t, l, j)
    BY <1>1, <1>3, <1>6
  <2> QED BY <1>7, <2>1, <2>2, SameLines
<1>9. ASSUME NEW l \in Keys, NEW m \in 1..z PROVE ~Sets(u, s, l, m)
  <2>1. CASE m = z
    BY <1>6, <2>1
  <2>2. CASE m # z
    <3>1. m \in 1..Len(text)
      BY <1>1, <2>2
    <3>2. ~Under(text, s, m)
      BY <1>1, <1>2, <3>1 DEF Under, head
    <3> QED BY <1>6, <3>1, <3>2 DEF Sets
  <2> QED BY <2>1, <2>2
<1> QED BY <1>7, <1>8, <1>9 DEF u, head

\* Writing a value sets it, and leaves all others.
LEMMA PutTells ==
  ASSUME NEW text, Regular(text), NEW s \in Sections, NEW k \in Keys, NEW v \in Values
  PROVE  /\ Regular(I!Put(text, s, k, v)) /\ I!Get(I!Put(text, s, k, v), s, k) = v
         /\ \A t \in Sections, l \in Keys : <<t, l>> # <<s, k>> =>
              I!Get(I!Put(text, s, k, v), t, l) = I!Get(text, t, l)
<1> DEFINE u == I!Put(text, s, k, v)
           at == I!HeaderOf(text, s)
<1>1. Len(text) \in Nat /\ text \in Seq(HeaderLines \cup EntryLines) /\ <<k, v>> \in EntryLines
  BY LineKinds DEF Regular
<1>2. CASE I!KeyIn(text, s, k) # {}
  <2> DEFINE n == I!Min(I!KeyIn(text, s, k))
  <2>1. n \in 1..Len(text) /\ Sets(text, s, k, n)
    <3>1. I!KeyIn(text, s, k) \subseteq Nat
      BY KeyLines
    <3>2. n \in I!KeyIn(text, s, k)
      BY <1>2, <3>1, Least
    <3> QED BY <3>2, KeyLines
  <2>2. /\ u \in Seq(HeaderLines \cup EntryLines) /\ Len(u) = Len(text) /\ u[n] = <<k, v>>
        /\ \A m \in 1..Len(text) : m # n => u[m] = text[m]
    <3> DEFINE new == <<k, v>>
    <3>1. u = [text EXCEPT ![n] = new]
      BY <1>2 DEF I!Put
    <3>2. new \in EntryLines
      BY <1>1
    <3> HIDE DEF n, u, new
    <3>3. /\ u \in Seq(HeaderLines \cup EntryLines) /\ Len(u) = Len(text) /\ u[n] = new
          /\ \A m \in 1..Len(text) : m # n => u[m] = text[m]
      BY <1>1, <2>1, <3>1, <3>2
    <3> QED BY <3>3 DEF new
  <2> HIDE DEF n, u
  <2>3. /\ Regular(u) /\ I!Get(u, s, k) = v
        /\ \A t \in Sections, l \in Keys : <<t, l>> # <<s, k>> => I!Get(u, t, l) = I!Get(text, t, l)
    BY <2>1, <2>2, PutChange
  <2> QED BY <2>3 DEF u
<1>3. CASE I!KeyIn(text, s, k) = {} /\ at <= Len(text)
  <2> DEFINE n == I!EndOf(text, at)
  <2>1. u = I!InsertAt(text, n, <<k, v>>)
    BY <1>3 DEF I!Put
  <2>2. at \in 1..Len(text) /\ text[at] = <<s>>
    BY <1>1, <1>3, HeaderAt
  <2>3. /\ n \in (at + 1)..(Len(text) + 1) /\ n \in Nat
        /\ \A j \in (at + 1)..(n - 1) : ~I!IsHeader(text[j])
    BY <1>1, <2>2, EndAt
  <2> HIDE DEF n, u, at
  <2>4. OneMore(text, u, n) /\ u[n] = <<k, v>>
    BY <1>1, <2>1, <2>2, <2>3, Inserted
  <2>5. u[at] = text[at] /\ at \in 1..(n - 1)
    BY <2>2, <2>3, <2>4 DEF OneMore
  <2>6. ASSUME NEW j \in (at + 1)..n PROVE ~I!IsHeader(u[j])
    <3>1. CASE j = n
      BY <2>4, <3>1 DEF OneMore
    <3>2. CASE j # n
      <4>1. j \in (at + 1)..(n - 1) /\ j \in 1..(n - 1)
        BY <2>2, <2>3, <3>2
      <4> QED BY <2>3, <2>4, <4>1 DEF OneMore
    <3> QED BY <3>1, <3>2
  <2>7. Under(u, s, n)
    BY <2>2, <2>5, <2>6 DEF Under
  <2>8. \A m \in 1..Len(text) : ~Sets(text, s, k, m)
    BY <1>3, KeyLines
  <2>9. /\ Regular(u) /\ I!Get(u, s, k) = v
        /\ \A t \in Sections, l \in Keys : <<t, l>> # <<s, k>> => I!Get(u, t, l) = I!Get(text, t, l)
    BY <2>4, <2>7, <2>8, MorePut
  <2> QED BY <2>9 DEF u
<1>4. CASE I!KeyIn(text, s, k) = {} /\ ~(at <= Len(text))
  <2> DEFINE mid == Append(text, <<s>>)
             n == Len(text) + 2
  <2>1. \A h \in 1..Len(text) : text[h] # <<s>>
    BY <1>1, <1>4, HeaderAt
  <2>2. /\ Regular(mid)
        /\ \A t \in Sections, l \in Keys : I!Get(mid, t, l) = I!Get(text, t, l)
        /\ \A m \in 1..(Len(text) + 1) : ~Sets(mid, s, k, m)
    BY <2>1, HeaderMore
  <2>3. u = text \o << <<s>>, <<k, v>> >>
    BY <1>4 DEF I!Put
  <2>4. <<s>> \in HeaderLines
    BY DEF HeaderLines
  <2>5. /\ mid \in Seq(HeaderLines \cup EntryLines) /\ Len(mid) = Len(text) + 1
        /\ mid[Len(text) + 1] = <<s>>
    BY <1>1, <2>4
  <2>6. u = Append(mid, <<k, v>>)
    BY <1>1, <2>3, <2>4
  <2> HIDE DEF u, mid
  <2>7. /\ u \in Seq(HeaderLines \cup EntryLines) /\ Len(u) = n /\ u[n] = <<k, v>>
        /\ \A m \in 1..(n - 1) : u[m] = mid[m]
    BY <1>1, <2>5, <2>6
  <2>8. ~I!IsHeader(u[n])
    BY <1>1, <2>7, LineKinds
  <2>9. OneMore(mid, u, n)
    BY <1>1, <2>5, <2>7, <2>8 DEF OneMore
  <2>10. Under(u, s, n)
    <3>1. Len(text) + 1 \in 1..(n - 1) /\ u[Len(text) + 1] = <<s>>
      BY <1>1, <2>5, <2>7, SMTT(30)
    <3>2. \A j \in (Len(text) + 2)..n : ~I!IsHeader(u[j])
      BY <1>1, <2>8
    <3> QED BY <1>1, <3>1, <3>2 DEF Under
  <2> HIDE DEF n
  <2>11. /\ Regular(u) /\ I!Get(u, s, k) = v
         /\ \A t \in Sections, l \in Keys : <<t, l>> # <<s, k>> => I!Get(u, t, l) = I!Get(mid, t, l)
    BY <2>2, <2>5, <2>7, <2>9, <2>10, MorePut
  <2> QED BY <2>2, <2>11 DEF u
<1> QED BY <1>2, <1>3, <1>4

\* Lines at..(end - 1) of text, a section, are missing in u.
Shorter(text, u, at, end) ==
  /\ u \in Seq(HeaderLines \cup EntryLines)
  /\ at \in 1..Len(text) /\ end \in (at + 1)..(Len(text) + 1)
  /\ Len(u) = Len(text) - (end - at)
  /\ \A m \in 1..(at - 1) : u[m] = text[m]
  /\ \A m \in at..Len(u) : u[m] = text[m + (end - at)]

\* Cut takes out the lines of the section.
LEMMA CutShorter ==
  ASSUME NEW text, Regular(text), NEW s \in Sections, I!HeaderOf(text, s) <= Len(text)
  PROVE  Shorter(text, I!Cut(text, s), I!HeaderOf(text, s), I!EndOf(text, I!HeaderOf(text, s)))
<1> DEFINE at == I!HeaderOf(text, s)
           end == I!EndOf(text, at)
           Line == HeaderLines \cup EntryLines
           a == SubSeq(text, 1, at - 1)
           b == SubSeq(text, end, Len(text))
<1>1. text \in Seq(Line) /\ Len(text) \in Nat
  BY DEF Regular
<1>2. at \in 1..Len(text)
  BY <1>1, HeaderAt
<1>3. end \in (at + 1)..(Len(text) + 1)
  BY <1>1, <1>2, EndAt
<1>4. I!Cut(text, s) = a \o b
  BY DEF I!Cut, I!Rest
<1> HIDE DEF at, end, Line
<1>5. a \in Seq(Line) /\ Len(a) = at - 1 /\ \A m \in 1..(at - 1) : a[m] = text[m]
  BY <1>1, <1>2
<1>6. /\ b \in Seq(Line) /\ Len(b) = Len(text) - end + 1
      /\ \A m \in 1..(Len(text) - end + 1) : b[m] = text[end + m - 1]
  BY <1>1, <1>2, <1>3
<1> HIDE DEF a, b
<1>7. a \o b \in Seq(Line) /\ Len(a \o b) = Len(text) - (end - at)
  <2>1. a \o b \in Seq(Line) /\ Len(a \o b) = Len(a) + Len(b)
    BY <1>5, <1>6, ConcatProperties
  <2> QED BY <1>1, <1>2, <1>3, <1>5, <1>6, <2>1, SMTT(30)
<1>8. \A m \in 1..(at - 1) : (a \o b)[m] = text[m]
  BY <1>1, <1>2, <1>3, <1>5, <1>6
<1>9. ASSUME NEW m \in at..(Len(text) - (end - at)) PROVE (a \o b)[m] = text[m + (end - at)]
  <2>0. m \in (Len(a) + 1)..(Len(a) + Len(b)) /\ m - (at - 1) \in 1..(Len(text) - end + 1)
    BY <1>1, <1>2, <1>3, <1>5, <1>6
  <2>1. (a \o b)[m] = b[m - (at - 1)]
    BY <1>5, <1>6, <2>0
  <2>2. b[m - (at - 1)] = text[end + (m - (at - 1)) - 1]
    BY <1>6, <2>0
  <2>3. end + (m - (at - 1)) - 1 = m + (end - at)
    BY <1>1, <1>2, <1>3
  <2> QED BY <2>1, <2>2, <2>3
<1> QED BY <1>2, <1>3, <1>4, <1>7, <1>8, <1>9 DEF Shorter, Line, at, end

\* The lines that are left stay in their sections.
LEMMA CutUnder ==
  ASSUME NEW text, Regular(text), NEW u, NEW at, NEW end, Shorter(text, u, at, end),
         end <= Len(text) => I!IsHeader(text[end]),
         NEW t \in Sections, NEW m \in 1..Len(u)
  PROVE  Under(u, t, m) <=> Under(text, t, IF m < at THEN m ELSE m + (end - at))
<1> DEFINE head == <<t>>
           d == end - at
<1>1. /\ Len(text) \in Nat /\ at \in 1..Len(text) /\ end \in (at + 1)..(Len(text) + 1)
      /\ Len(u) = Len(text) - d /\ d \in Nat /\ at + d = end
      /\ \A n \in 1..(at - 1) : u[n] = text[n]
      /\ \A n \in at..Len(u) : u[n] = text[n + d]
  BY DEF Regular, Shorter
<1>2. I!IsHeader(head)
  BY LineKinds
<1> HIDE DEF head, d
<1>3. CASE m < at
  <2>1. \A n \in 1..m : u[n] = text[n]
    BY <1>1, <1>3
  <2>2. ASSUME NEW h \in 1..(m - 1)
        PROVE  (u[h] = head /\ \A j \in (h + 1)..m : ~I!IsHeader(u[j])) <=>
               (text[h] = head /\ \A j \in (h + 1)..m : ~I!IsHeader(text[j]))
    BY <1>1, <2>1
  <2> QED BY <1>3, <2>2 DEF Under, head
<1>4. CASE ~(m < at)
  <2>0. at \in 1..Len(u) /\ end \in 1..Len(text)
    BY <1>1, <1>4
  <2>1. at \in 1..Len(u) /\ I!IsHeader(text[end]) /\ I!IsHeader(u[at])
    <3>1. I!IsHeader(text[end])
      BY <2>0
    <3>2. at \in at..Len(u) /\ at + d = end
      BY <1>1, <2>0
    <3>3. u[at] = text[at + d]
      BY <1>1, <3>2
    <3> QED BY <2>0, <3>1, <3>2, <3>3
  <2>2. ASSUME NEW h \in 1..(m - 1), u[h] = head, \A j \in (h + 1)..m : ~I!IsHeader(u[j])
        PROVE  \E g \in 1..((m + d) - 1) :
                 text[g] = head /\ \A j \in (g + 1)..(m + d) : ~I!IsHeader(text[j])
    <3>1. h >= at
      BY <1>1, <1>4, <2>1, <2>2
    <3>2. h + d \in 1..((m + d) - 1) /\ text[h + d] = head
      BY <1>1, <2>2, <3>1
    <3>3. ASSUME NEW j \in (h + d + 1)..(m + d) PROVE ~I!IsHeader(text[j])
      <4>1. j - d \in (h + 1)..m /\ j - d \in at..Len(u) /\ (j - d) + d = j
        BY <1>1, <3>1, SMTT(30)
      <4>2. u[j - d] = text[(j - d) + d]
        BY <1>1, <4>1
      <4> QED BY <2>2, <4>1, <4>2
    <3> QED BY <3>2, <3>3
  <2>3. ASSUME NEW g \in 1..((m + d) - 1), text[g] = head,
               \A j \in (g + 1)..(m + d) : ~I!IsHeader(text[j])
        PROVE  \E h \in 1..(m - 1) : u[h] = head /\ \A j \in (h + 1)..m : ~I!IsHeader(u[j])
    <3>1. g >= end
      BY <1>1, <1>4, <2>1, <2>3
    <3>2. g - d \in 1..(m - 1) /\ g - d \in at..Len(u) /\ (g - d) + d = g
      BY <1>1, <3>1
    <3>3. u[g - d] = head
      BY <1>1, <2>3, <3>2
    <3>4. ASSUME NEW j \in (g - d + 1)..m PROVE ~I!IsHeader(u[j])
      <4>1. at \in Nat /\ d \in Nat /\ g \in Nat /\ m \in Nat /\ Len(u) \in Nat
        BY <1>1
      <4>2. j \in at..Len(u) /\ j + d \in (g + 1)..(m + d)
        BY <3>2, <4>1
      <4> QED BY <1>1, <2>3, <4>2
    <3> QED BY <3>2, <3>3, <3>4
  <2>4. Under(u, t, m) <=>
          \E h \in 1..(m - 1) : u[h] = head /\ \A j \in (h + 1)..m : ~I!IsHeader(u[j])
    BY DEF Under, head
  <2>5. Under(text, t, m + d) <=>
          \E g \in 1..((m + d) - 1) :
            text[g] = head /\ \A j \in (g + 1)..(m + d) : ~I!IsHeader(text[j])
    BY DEF Under, head
  <2>6. Under(u, t, m) <=> Under(text, t, m + d)
    BY <2>2, <2>3, <2>4, <2>5, Zenon
  <2> QED BY <1>4, <2>6 DEF d
<1> QED BY <1>3, <1>4

\* Cutting a section unsets its keys and leaves all others.
LEMMA CutTells ==
  ASSUME NEW text, Regular(text), NEW s \in Sections, I!HeaderOf(text, s) <= Len(text)
  PROVE  /\ Regular(I!Cut(text, s))
         /\ \A k \in Keys : I!Get(I!Cut(text, s), s, k) = Default
         /\ \A t \in Sections \ {s}, k \in Keys : I!Get(I!Cut(text, s), t, k) = I!Get(text, t, k)
<1> DEFINE u == I!Cut(text, s)
           at == I!HeaderOf(text, s)
           end == I!EndOf(text, at)
           was(m) == IF m < at THEN m ELSE m + (end - at)
<1>1. Shorter(text, u, at, end)
  BY CutShorter
<1>2. Len(text) \in Nat /\ at \in 1..Len(text) /\ text[at] = <<s>> /\ I!IsHeader(text[at])
  BY HeaderAt, LineKinds DEF Regular
<1>3. /\ end \in (at + 1)..(Len(text) + 1) /\ (end <= Len(text) => I!IsHeader(text[end]))
      /\ \A j \in (at + 1)..(end - 1) : ~I!IsHeader(text[j])
  BY <1>2, EndAt
<1> HIDE DEF u, at, end
<1>4. /\ u \in Seq(HeaderLines \cup EntryLines) /\ Len(u) \in Nat
      /\ \A m \in 1..Len(u) :
           was(m) \in 1..Len(text) /\ u[m] = text[was(m)] /\ was(m) \notin at..(end - 1)
  BY <1>1, <1>2, <1>3 DEF Shorter
<1>5. \A m, n \in 1..Len(u) : was(m) = was(n) => m = n
  BY <1>1, <1>2, <1>3, <1>4
<1>6. ASSUME NEW n \in 1..Len(text), n \notin at..(end - 1) PROVE \E m \in 1..Len(u) : was(m) = n
  <2> DEFINE m == IF n < at THEN n ELSE n - (end - at)
  <2>1. m \in 1..Len(u) /\ was(m) = n
    BY <1>1, <1>2, <1>3, <1>6 DEF Shorter
  <2> QED BY <2>1
<1>7. ASSUME NEW t \in Sections, NEW m \in 1..Len(u) PROVE Under(u, t, m) <=> Under(text, t, was(m))
  BY <1>1, <1>3, CutUnder
<1> HIDE DEF was
<1>8. ASSUME NEW t \in Sections, NEW k \in Keys, NEW m \in 1..Len(u)
      PROVE  Sets(u, t, k, m) <=> Sets(text, t, k, was(m))
  BY <1>4, <1>7 DEF Sets
<1>9. Regular(u)
  <2>1. ASSUME NEW m \in 1..Len(u), NEW n \in 1..Len(u), I!IsHeader(u[m]), u[m] = u[n] PROVE m = n
    <3>1. was(m) = was(n)
      BY <1>4, <2>1 DEF Regular
    <3> QED BY <1>5, <3>1
  <2>2. ASSUME NEW t \in Sections, NEW k \in Keys, NEW m \in 1..Len(u), NEW n \in 1..Len(u),
               Sets(u, t, k, m), Sets(u, t, k, n)
        PROVE  m = n
    <3>1. Sets(text, t, k, was(m)) /\ Sets(text, t, k, was(n))
      BY <1>8, <2>2
    <3>2. was(m) = was(n)
      BY <1>4, <3>1 DEF Regular
    <3> QED BY <1>5, <3>2
  <2> QED BY <1>4, <2>1, <2>2 DEF Regular
<1>10. ASSUME NEW k \in Keys PROVE I!Get(u, s, k) = Default
  <2>1. ASSUME NEW m \in 1..Len(u), Sets(u, s, k, m) PROVE FALSE
    <3>1. PICK h \in 1..(m - 1) : u[h] = <<s>>
      BY <2>1 DEF Sets, Under
    <3>2. h \in 1..Len(u) /\ was(h) \in 1..Len(text) /\ was(h) # at
      BY <1>2, <1>3, <1>4, SMTT(30)
    <3>3. text[was(h)] = text[at]
      BY <1>2, <1>4, <3>1, <3>2
    <3> QED BY <1>2, <3>2, <3>3 DEF Regular
  <2> QED BY <1>9, <2>1, GetIs
<1>11. ASSUME NEW t \in Sections \ {s}, NEW k \in Keys PROVE I!Get(u, t, k) = I!Get(text, t, k)
  <2>1. \A m \in 1..Len(u) : Sets(u, t, k, m) =>
          \E n \in 1..Len(text) : Sets(text, t, k, n) /\ text[n] = u[m]
    BY <1>4, <1>8
  <2>2. ASSUME NEW n \in 1..Len(text), Sets(text, t, k, n)
        PROVE  \E m \in 1..Len(u) : Sets(u, t, k, m)
    <3>1. Under(text, t, n) /\ ~I!IsHeader(text[n]) /\ n \in Nat
      <4>1. Under(text, t, n)
        BY <2>2 DEF Sets
      <4> QED BY <4>1 DEF Under
    <3>2. ASSUME n \in at..(end - 1) PROVE FALSE
      <4>1. n \in (at + 1)..(end - 1)
        BY <1>2, <3>1, <3>2
      <4>2. at \in 1..(n - 1) /\ \A j \in (at + 1)..n : ~I!IsHeader(text[j])
        BY <1>2, <1>3, <4>1
      <4>3. Under(text, s, n)
        BY <1>2, <4>2 DEF Under
      <4> QED BY <3>1, <4>3, OneSection
    <3> QED BY <1>6, <1>8, <2>2, <3>2
  <2> QED BY <1>9, <2>1, <2>2, SameLines
<1> QED BY <1>9, <1>10, <1>11 DEF u

\* The file, and the texts that deletions have read, are regular; one of them
\* has the file open at most, and then it is empty; and the file, and the texts
\* that will be written to it unless they are cut out, hold what they could.
IniTypes ==
  /\ iniPc \in [Programs -> {"idle", "read", "opened"}]
  /\ DOMAIN section = Programs /\ DOMAIN outData = Programs
  /\ \A p \in Programs : Regular(outData[p]) /\ (iniPc[p] # "idle" => section[p] \in Sections)
  /\ Regular(lines)
  /\ DOMAIN could = I!Entries

OpenInv ==
  \A p \in Programs : iniPc[p] = "opened" =>
    lines = <<>> /\ \A q \in Programs : iniPc[q] = "opened" => q = p

\* The text that p has read is as it could be, but for its own section.
HeldBy(p) ==
  /\ I!HeaderOf(outData[p], section[p]) <= Len(outData[p])
  /\ \A s \in Sections, k \in Keys : s # section[p] =>
       I!Get(outData[p], s, k) \in could[<<s, k>>]

CouldInv ==
  /\ ~I!Opened => \A s \in Sections, k \in Keys : I!Get(lines, s, k) \in could[<<s, k>>]
  /\ \A p \in Programs : iniPc[p] # "idle" => HeldBy(p)

Apart == IniTypes /\ OpenInv /\ CouldInv

\* Nothing is known of a file that two have written at once.
IniInv == ~mixed => Apart

\* The empty file sets nothing.
LEMMA EmptyText ==
  /\ Regular(<<>>)
  /\ \A s \in Sections : I!HeaderOf(<<>>, s) = 1
  /\ \A s \in Sections, k \in Keys : I!Get(<<>>, s, k) = Default
<1>1. Regular(<<>>)
  BY DEF Regular
<1>2. \A s \in Sections : I!HeaderOf(<<>>, s) = 1
  BY <1>1, HeaderAt
<1> QED BY <1>1, <1>2, GetIs

\* The empty file of the beginning is as it could be.
LEMMA IniInitial == I!Init => Apart
<1> SUFFICES ASSUME I!Init PROVE Apart
  OBVIOUS
<1>1. /\ DOMAIN could = I!Entries
      /\ \A s \in Sections, k \in Keys : could[<<s, k>>] = {Default}
  BY DEF I!Init, I!Entries
<1>2. IniTypes
  BY <1>1, EmptyText DEF I!Init, IniTypes
<1>3. OpenInv
  BY DEF I!Init, OpenInv
<1>4. CouldInv
  BY <1>1, EmptyText DEF I!Init, CouldInv
<1> QED BY <1>2, <1>3, <1>4 DEF Apart

\* What a gift adds, and that it takes nothing from those who delete.
LEMMA GiveTells ==
  ASSUME NEW E, NEW v, NEW by, I!Give(E, v, by)
  PROVE  /\ DOMAIN could' = I!Entries
         /\ \A s \in Sections, k \in Keys : <<s, k>> \in E => v \in could'[<<s, k>>]
         /\ \A s \in Sections, k \in Keys : <<s, k>> \notin E =>
              could'[<<s, k>>] = could[<<s, k>>]
         /\ ~(I!Deleting \subseteq by) =>
              \A s \in Sections, k \in Keys : could[<<s, k>>] \subseteq could'[<<s, k>>]
<1> DEFINE Rest(e) == IF I!Deleting \subseteq by THEN {} ELSE could[e]
<1>1. could' = [e \in I!Entries |-> IF e \notin E THEN could[e] ELSE {v} \cup Rest(e)]
  BY DEF I!Give
<1>2. \A s \in Sections, k \in Keys : <<s, k>> \in I!Entries
  BY DEF I!Entries
<1>3. ~(I!Deleting \subseteq by) => \A e : Rest(e) = could[e]
  OBVIOUS
<1> HIDE DEF Rest
<1>4. \A s \in Sections, k \in Keys : could'[<<s, k>>] =
        IF <<s, k>> \notin E THEN could[<<s, k>>] ELSE {v} \cup Rest(<<s, k>>)
  BY <1>1, <1>2
<1>5. ASSUME ~(I!Deleting \subseteq by), NEW s \in Sections, NEW k \in Keys
      PROVE  could[<<s, k>>] \subseteq could'[<<s, k>>]
  <2>1. Rest(<<s, k>>) = could[<<s, k>>]
    BY <1>3, <1>5
  <2>2. could'[<<s, k>>] = could[<<s, k>>] \/ could'[<<s, k>>] = {v} \cup could[<<s, k>>]
    BY <1>4, <2>1
  <2> QED BY <2>2
<1>6. DOMAIN could' = I!Entries
  BY <1>1
<1>7. \A s \in Sections, k \in Keys : <<s, k>> \in E => v \in could'[<<s, k>>]
  BY <1>4
<1>8. \A s \in Sections, k \in Keys : <<s, k>> \notin E => could'[<<s, k>>] = could[<<s, k>>]
  BY <1>4
<1> QED BY <1>5, <1>6, <1>7, <1>8

\* WriteValue and DeleteKey change one entry of the file.
LEMMA ChangeStep ==
  ASSUME Apart, NEW s \in Sections, NEW k \in Keys, NEW v, ~I!Opened,
         Regular(lines'), I!Get(lines', s, k) = v,
         \A t \in Sections, l \in Keys : <<t, l>> # <<s, k>> =>
           I!Get(lines', t, l) = I!Get(lines, t, l),
         I!Give({<<s, k>>}, v, {}), UNCHANGED <<iniPc, section, outData>>
  PROVE  Apart'
<1> USE DEF Apart
<1>1. iniPc' = iniPc /\ section' = section /\ outData' = outData
  OBVIOUS
<1>2. /\ DOMAIN could' = I!Entries /\ v \in could'[<<s, k>>]
      /\ \A t \in Sections, l \in Keys : <<t, l>> # <<s, k>> =>
           could'[<<t, l>>] = could[<<t, l>>]
  <2>1. \A t \in Sections, l \in Keys : <<t, l>> \in {<<s, k>>} <=> <<t, l>> = <<s, k>>
    OBVIOUS
  <2> DEFINE E == {<<s, k>>}
  <2>2. I!Give(E, v, {}) /\ (\A t \in Sections, l \in Keys : <<t, l>> \in E <=> <<t, l>> = <<s, k>>)
    BY <2>1
  <2> HIDE DEF E
  <2> QED BY <2>2, GiveTells
<1>3. ~(I!Deleting \subseteq {}) =>
        \A t \in Sections, l \in Keys : could[<<t, l>>] \subseteq could'[<<t, l>>]
  <2> DEFINE E == {<<s, k>>}
             B == {}
  <2>1. I!Give(E, v, B)
    OBVIOUS
  <2> HIDE DEF E, B
  <2>2. ~(I!Deleting \subseteq B) =>
          \A t \in Sections, l \in Keys : could[<<t, l>>] \subseteq could'[<<t, l>>]
    BY <2>1, GiveTells
  <2> QED BY <2>2 DEF B
<1>4. IniTypes'
  BY <1>1, <1>2 DEF IniTypes, I!Entries
<1>5. OpenInv'
  BY <1>1 DEF I!Opened, OpenInv
<1>6. ASSUME NEW t \in Sections, NEW l \in Keys
      PROVE  I!Get(lines', t, l) \in could'[<<t, l>>]
  <2>1. CASE <<t, l>> = <<s, k>>
    BY <1>2, <2>1
  <2>2. CASE <<t, l>> # <<s, k>>
    BY <1>2, <2>2 DEF CouldInv
  <2> QED BY <2>1, <2>2
<1>7. ASSUME NEW p \in Programs, iniPc'[p] # "idle"
      PROVE  HeldBy(p)'
  <2>1. ~(I!Deleting \subseteq {})
    BY <1>1, <1>7 DEF I!Deleting
  <2> QED BY <1>1, <1>3, <1>7, <2>1 DEF CouldInv, HeldBy
<1>8. CouldInv'
  BY <1>6, <1>7 DEF CouldInv
<1> QED BY <1>4, <1>5, <1>8

\* The text that is read has what the file has.
LEMMA DeleteReadStep ==
  ASSUME Apart, NEW p \in Programs, NEW s \in Sections, I!DeleteRead(p, s)
  PROVE  Apart'
<1> USE DEF Apart
<1>1. /\ lines' = lines /\ iniPc[p] = "idle"
      /\ could' = IF I!Deleting = {} THEN [e \in I!Entries |-> {I!Get(lines, e[1], e[2])}] ELSE could
      /\ outData' = [outData EXCEPT ![p] = lines] /\ section' = [section EXCEPT ![p] = s]
      /\ iniPc' = [iniPc EXCEPT ![p] = IF I!HeaderOf(lines, s) > Len(lines) THEN "idle" ELSE "read"]
  BY DEF I!DeleteRead
<1>2. I!HeaderOf(lines, s) \in Nat /\ Len(lines) \in Nat
  <2>1. Regular(lines)
    BY DEF IniTypes
  <2>2. Len(lines) \in Nat
    BY <2>1 DEF Regular
  <2> QED BY <2>1, <2>2, HeaderAt
<1>3. IniTypes'
  BY <1>1 DEF IniTypes, I!Entries
<1>4. \A q \in Programs : iniPc'[q] = "opened" <=> iniPc[q] = "opened"
  BY <1>1 DEF IniTypes
<1>5. OpenInv'
  BY <1>1, <1>4 DEF OpenInv
<1>6. I!Opened' <=> I!Opened
  BY <1>4 DEF I!Opened
<1>7. ~I!Opened =>
        \A t \in Sections, l \in Keys : I!Get(lines, t, l) \in could'[<<t, l>>]
  BY <1>1 DEF CouldInv, I!Entries
<1>8. ASSUME NEW q \in Programs, iniPc'[q] # "idle"
      PROVE  HeldBy(q)'
  <2>1. CASE q # p
    <3>1. outData'[q] = outData[q] /\ section'[q] = section[q] /\ iniPc'[q] = iniPc[q]
      BY <1>1, <2>1 DEF IniTypes
    <3>2. could' = could
      BY <1>1, <1>8, <3>1 DEF I!Deleting
    <3> QED BY <1>8, <3>1, <3>2 DEF CouldInv, HeldBy
  <2>2. CASE q = p
    <3>1. outData'[q] = lines /\ section'[q] = s /\ ~(I!HeaderOf(lines, s) > Len(lines))
      BY <1>1, <1>8, <2>2 DEF IniTypes
    <3>2. ~I!Opened
      <4>1. ASSUME I!Opened PROVE FALSE
        <5>1. lines = <<>>
          BY <4>1 DEF I!Opened, OpenInv
        <5> QED BY <3>1, <5>1, EmptyText
      <4> QED BY <4>1
    <3> QED BY <1>2, <1>7, <3>1, <3>2 DEF HeldBy
  <2> QED BY <2>1, <2>2
<1>9. CouldInv'
  BY <1>1, <1>6, <1>7, <1>8 DEF CouldInv
<1> QED BY <1>3, <1>5, <1>9

\* The file is empty and open: nothing is said about what it holds.
LEMMA DeleteOpenStep ==
  ASSUME Apart, NEW p \in Programs, I!DeleteOpen(p), ~I!Opened
  PROVE  Apart'
<1> USE DEF Apart
<1>1. /\ lines' = <<>> /\ iniPc[p] = "read" /\ iniPc' = [iniPc EXCEPT ![p] = "opened"]
      /\ section' = section /\ outData' = outData /\ could' = could
  BY DEF I!DeleteOpen
<1>2. IniTypes'
  BY <1>1, EmptyText DEF IniTypes, I!Entries
<1>3. iniPc'[p] = "opened" /\ \A q \in Programs : iniPc'[q] = "opened" <=> q = p
  BY <1>1 DEF IniTypes, I!Opened
<1>4. OpenInv'
  BY <1>1, <1>3 DEF OpenInv
<1>5. I!Opened'
  BY <1>3 DEF I!Opened
<1>6. \A q \in Programs : iniPc'[q] # "idle" => iniPc[q] # "idle"
  BY <1>1 DEF IniTypes
<1>7. CouldInv'
  BY <1>1, <1>5, <1>6 DEF CouldInv, HeldBy
<1> QED BY <1>2, <1>4, <1>7

\* Over an empty file, the whole text is left.
LEMMA WrittenAlone ==
  ASSUME NEW S, NEW text \in Seq(S), NEW at \in I!Left(<<>>, text)
  PROVE  text \o SubSeq(<<>>, at, Len(<<>>)) = text
<1>1. at = 1
  BY DEF I!Left, I!IsPrefix
<1> QED BY <1>1

\* The file has what the text had, without the section.
LEMMA DeleteWriteStep ==
  ASSUME Apart, NEW p \in Programs, I!DeleteWrite(p)
  PROVE  Apart'
<1> USE DEF Apart
<1> DEFINE text == outData[p]
           s == section[p]
<1>1. /\ iniPc[p] = "opened" /\ iniPc' = [iniPc EXCEPT ![p] = "idle"]
      /\ \E at \in I!Left(lines, I!Cut(text, s)) :
           lines' = I!Cut(text, s) \o SubSeq(lines, at, Len(lines))
      /\ I!Give({s} \X Keys, Default, {p})
      /\ section' = section /\ outData' = outData
  BY DEF I!DeleteWrite
<1>2. Regular(text) /\ s \in Sections /\ I!HeaderOf(text, s) <= Len(text)
  BY <1>1 DEF IniTypes, CouldInv, HeldBy
<1>3. /\ Regular(I!Cut(text, s)) /\ \A k \in Keys : I!Get(I!Cut(text, s), s, k) = Default
      /\ \A t \in Sections \ {s}, k \in Keys : I!Get(I!Cut(text, s), t, k) = I!Get(text, t, k)
  BY <1>2, CutTells
<1>4. lines = <<>>
  BY <1>1 DEF OpenInv
<1>5. lines' = I!Cut(text, s)
  <2> DEFINE u == I!Cut(text, s)
  <2> HIDE DEF u
  <2>1. PICK at \in I!Left(<<>>, u) : lines' = u \o SubSeq(<<>>, at, Len(<<>>))
    BY <1>1, <1>4 DEF u
  <2>2. u \in Seq(HeaderLines \cup EntryLines)
    BY <1>3 DEF u, Regular
  <2>3. u \o SubSeq(<<>>, at, Len(<<>>)) = u
    BY <2>1, <2>2, WrittenAlone
  <2> QED BY <2>1, <2>3 DEF u
<1>6. /\ DOMAIN could' = I!Entries
      /\ \A k \in Keys : Default \in could'[<<s, k>>]
      /\ \A t \in Sections, k \in Keys : t # s => could'[<<t, k>>] = could[<<t, k>>]
  <2> HIDE DEF s
  <2>1. \A t \in Sections, k \in Keys : <<t, k>> \in {s} \X Keys <=> t = s
    OBVIOUS
  <2>2. I!Give({s} \X Keys, Default, {p})
    BY <1>1
  <2> QED BY <1>2, <2>1, <2>2, GiveTells
<1>7. ~(I!Deleting \subseteq {p}) =>
        \A t \in Sections, k \in Keys : could[<<t, k>>] \subseteq could'[<<t, k>>]
  BY <1>1, GiveTells
<1>8. IniTypes'
  BY <1>1, <1>3, <1>5, <1>6 DEF IniTypes, I!Entries
<1>9. \A q \in Programs : iniPc'[q] # "opened"
  BY <1>1 DEF IniTypes, OpenInv
<1>10. OpenInv'
  BY <1>9 DEF OpenInv
<1>11. ASSUME NEW t \in Sections, NEW k \in Keys
       PROVE  I!Get(lines', t, k) \in could'[<<t, k>>]
  <2>1. CASE t = s
    BY <1>3, <1>5, <1>6, <2>1
  <2>2. CASE t # s
    <3>1. I!Get(lines', t, k) = I!Get(text, t, k)
      BY <1>3, <1>5, <2>2
    <3>2. I!Get(text, t, k) \in could[<<t, k>>]
      BY <1>1, <2>2 DEF CouldInv, HeldBy
    <3> QED BY <1>6, <2>2, <3>1, <3>2
  <2> QED BY <2>1, <2>2
<1>12. ASSUME NEW q \in Programs, iniPc'[q] # "idle"
       PROVE  HeldBy(q)'
  <2>1. q # p /\ iniPc[q] # "idle"
    BY <1>1, <1>12 DEF IniTypes
  <2>2. ~(I!Deleting \subseteq {p})
    BY <2>1 DEF I!Deleting
  <2>3. HeldBy(q) /\ outData'[q] = outData[q] /\ section'[q] = section[q]
    BY <1>1, <2>1 DEF CouldInv
  <2> HIDE DEF s, text
  <2> QED BY <1>7, <2>2, <2>3 DEF HeldBy
<1>13. CouldInv'
  BY <1>11, <1>12 DEF CouldInv
<1> QED BY <1>8, <1>10, <1>13

\* After a kill with the file open, it has nothing.
LEMMA KillStep ==
  ASSUME Apart, NEW p \in Programs, I!Kill(p)
  PROVE  Apart'
<1> USE DEF Apart
<1> DEFINE E == IF iniPc[p] = "opened" THEN I!Entries ELSE {}
<1>1. /\ iniPc[p] # "idle" /\ iniPc' = [iniPc EXCEPT ![p] = "idle"]
      /\ I!Give(E, Default, {p})
      /\ lines' = lines /\ section' = section /\ outData' = outData
  BY DEF I!Kill
<1>2. /\ DOMAIN could' = I!Entries
      /\ \A t \in Sections, k \in Keys : <<t, k>> \in E => Default \in could'[<<t, k>>]
      /\ \A t \in Sections, k \in Keys : <<t, k>> \notin E => could'[<<t, k>>] = could[<<t, k>>]
      /\ ~(I!Deleting \subseteq {p}) =>
           \A t \in Sections, k \in Keys : could[<<t, k>>] \subseteq could'[<<t, k>>]
  <2> HIDE DEF E
  <2> QED BY <1>1, GiveTells
<1>3. IniTypes'
  BY <1>1, <1>2 DEF IniTypes, I!Entries
<1>4. OpenInv'
  BY <1>1 DEF IniTypes, OpenInv
<1>5. ~I!Opened' => \A t \in Sections, k \in Keys : I!Get(lines', t, k) \in could'[<<t, k>>]
  <2>1. CASE iniPc[p] = "opened"
    <3>1. lines' = <<>>
      BY <1>1, <2>1 DEF OpenInv
    <3>2. \A t \in Sections, k \in Keys : <<t, k>> \in E
      BY <2>1 DEF I!Entries
    <3> HIDE DEF E
    <3> QED BY <1>2, <3>1, <3>2, EmptyText
  <2>2. CASE iniPc[p] # "opened"
    <3>1. ~I!Opened' => ~I!Opened
      BY <1>1, <2>2 DEF I!Opened, IniTypes
    <3>2. \A t \in Sections, k \in Keys : could'[<<t, k>>] = could[<<t, k>>]
      BY <1>2, <2>2
    <3> QED BY <1>1, <3>1, <3>2 DEF CouldInv
  <2> QED BY <2>1, <2>2
<1>6. ASSUME NEW q \in Programs, iniPc'[q] # "idle"
      PROVE  HeldBy(q)'
  <2>1. q # p /\ iniPc[q] # "idle"
    BY <1>1, <1>6 DEF IniTypes
  <2>2. ~(I!Deleting \subseteq {p})
    BY <2>1 DEF I!Deleting
  <2>3. HeldBy(q) /\ outData'[q] = outData[q] /\ section'[q] = section[q]
    BY <1>1, <2>1 DEF CouldInv
  <2> QED BY <1>2, <2>2, <2>3 DEF HeldBy
<1>7. CouldInv'
  BY <1>5, <1>6 DEF CouldInv
<1> QED BY <1>3, <1>4, <1>7

\* Who opens or writes a file that is open mixes it.
LEMMA MixedIs ==
  ASSUME I!Share, ~mixed'
  PROVE  ~mixed /\ ~I!Opened
BY DEF I!Share

\* Every step of the programs keeps the invariant.
LEMMA IniStep == IniInv /\ [I!Next]_(I!vars) => IniInv'
<1> SUFFICES ASSUME IniInv, [I!Next]_(I!vars), ~mixed' PROVE Apart'
  BY DEF IniInv
<1>1. ASSUME NEW p \in Programs, NEW s \in Sections, NEW k \in Keys, NEW v \in Values,
             I!WriteValue(p, s, k, v)
      PROVE  Apart'
  <2>1. Apart /\ ~I!Opened
    BY <1>1, MixedIs DEF I!WriteValue, IniInv
  <2>2. /\ lines' = I!Put(lines, s, k, v) /\ I!Give({<<s, k>>}, v, {})
        /\ UNCHANGED <<iniPc, section, outData>>
    BY <1>1 DEF I!WriteValue
  <2>3. Regular(lines)
    BY <2>1 DEF Apart, IniTypes
  <2>4. /\ Regular(lines') /\ I!Get(lines', s, k) = v
        /\ \A t \in Sections, l \in Keys : <<t, l>> # <<s, k>> =>
             I!Get(lines', t, l) = I!Get(lines, t, l)
    BY <2>2, <2>3, PutTells
  <2> QED BY <2>1, <2>2, <2>4, ChangeStep
<1>2. ASSUME NEW p \in Programs, NEW s \in Sections, NEW k \in Keys, I!DeleteKey(p, s, k)
      PROVE  Apart'
  <2>1. Apart /\ ~I!Opened
    BY <1>2, MixedIs DEF I!DeleteKey, IniInv
  <2>2. /\ lines' = I!Drop(lines, s, k) /\ I!Give({<<s, k>>}, Default, {})
        /\ UNCHANGED <<iniPc, section, outData>>
    BY <1>2 DEF I!DeleteKey
  <2>3. Regular(lines)
    BY <2>1 DEF Apart, IniTypes
  <2>4. /\ Regular(lines') /\ I!Get(lines', s, k) = Default
        /\ \A t \in Sections, l \in Keys : <<t, l>> # <<s, k>> =>
             I!Get(lines', t, l) = I!Get(lines, t, l)
    BY <2>2, <2>3, DropTells
  <2> QED BY <2>1, <2>2, <2>4, ChangeStep
<1>3. ASSUME NEW p \in Programs, I!DeleteOpen(p) PROVE Apart'
  <2>1. Apart /\ ~I!Opened
    BY <1>3, MixedIs DEF I!DeleteOpen, IniInv
  <2> QED BY <1>3, <2>1, DeleteOpenStep
<1>4. ASSUME NEW p \in Programs, I!DeleteWrite(p) \/ I!Kill(p) PROVE Apart'
  <2>1. Apart
    BY <1>4 DEF I!DeleteWrite, I!Kill, IniInv
  <2> QED BY <1>4, <2>1, DeleteWriteStep, KillStep
<1>5. ASSUME NEW p \in Programs, NEW s \in Sections, I!DeleteRead(p, s) PROVE Apart'
  <2>1. Apart
    BY <1>5 DEF I!DeleteRead, IniInv
  <2> QED BY <1>5, <2>1, DeleteReadStep
<1>6. CASE UNCHANGED I!vars
  <2>1. Apart /\ (I!Opened' <=> I!Opened)
    BY <1>6 DEF I!vars, I!Opened, IniInv
  <2> QED BY <1>6, <2>1 DEF I!vars, Apart, IniTypes, OpenInv, CouldInv, HeldBy, I!Entries
<1> QED BY <1>1, <1>2, <1>3, <1>4, <1>5, <1>6 DEF I!Next

\* However programs write values and delete keys and sections, interleaved and
\* killed at any point: while none of them deletes a section, every entry has
\* one of the values that it was given since the deletions that ran last began
\* or had then, and its last value if no change fell into a deletion, unless
\* two programs had the file open for writing at once.
THEOREM OverlapsOnly == AllSpec => []OnlyOverlapsLost
<1>1. AllInit => IniInv
  BY IniInitial DEF AllInit, IniInv
<1>2. IniInv /\ [AllNext]_allVars => IniInv'
  BY StepOfOne, IniStep
<1>3. ASSUME IniInv PROVE OnlyOverlapsLost
  <2>1. SUFFICES ASSUME ~mixed, I!Deleting = {}, NEW e \in I!Entries
                 PROVE  I!Get(lines, e[1], e[2]) \in could[e]
    BY DEF OnlyOverlapsLost, I!OnlyOverlapsLost
  <2>2. ~I!Opened
    BY <2>1 DEF I!Deleting, I!Opened
  <2>3. e[1] \in Sections /\ e[2] \in Keys /\ e = <<e[1], e[2]>>
    BY DEF I!Entries
  <2> QED BY <1>3, <2>1, <2>2, <2>3 DEF IniInv, Apart, CouldInv
<1> QED BY <1>1, <1>2, <1>3, PTL DEF AllSpec
=============================================================================
