----------------------------- MODULE ConfigJson -----------------------------
(***************************************************************************)
(* include/ConfigJson.hpp: programs that keep their settings in one file,  *)
(* each through an object of its own.  A document is a function from its   *)
(* fields to values, or Scalar, a JSON text that is no object.             *)
(***************************************************************************)
EXTENDS Integers

CONSTANTS
  Programs,  \* the programs
  Fields,
  Given,     \* values passed to WriteValue, some of JsonValues
  Scalar,    \* a document that is not an object
  None, Empty, Torn,  \* no file, an empty file, pieces of two documents
  MaxCalls   \* bound on the calls that change an object or the file

JsonValues == {"null", "0", "1", "true", "false", "word", "object"}

VARIABLES
  jv,        \* of each program: the document of its object
  filename,  \* of each program: "", or what filename names, "file" or "dir"
  pc,        \* of each program: "idle", or "opened" with the file open
  file,      \* the file
  calls,     \* number of calls so far
  wrote,     \* history: what each object was given and wrote since it exists
  looked,    \* history: the fields that each object was asked for
  settled    \* history: the file as the last save wrote it, or None when a
             \* kill or an overlapping save leaves no promise

vars == <<jv, filename, pc, file, calls, wrote, looked, settled>>

NoFields == [f \in {} |-> "null"]

\* d with field f set to v.
Put(d, f, v) == [g \in DOMAIN d \cup {f} |-> IF g = f THEN v ELSE d[g]]

\* d with the fields that only e has.
Filled(d, e) == [f \in DOMAIN d \cup DOMAIN e |-> IF f \in DOMAIN d THEN d[f] ELSE e[f]]

Init ==
  /\ jv = [p \in Programs |-> NoFields]
  /\ filename = [p \in Programs |-> ""]
  /\ pc = [p \in Programs |-> "idle"]
  /\ file = None /\ settled = None
  /\ calls = 0
  /\ wrote = jv
  /\ looked = [p \in Programs |-> {}]

Call(p) == pc[p] = "idle" /\ calls < MaxCalls /\ calls' = calls + 1

(***************************************************************************)
(* Reading.                                                                *)
(***************************************************************************)

\* Json::Value::operator[] puts a null where there is no field.
Inserted == "null"

\* jv[filed]: the document afterwards; it throws for a scalar.
Accessed(d, f) == IF d = Scalar \/ f \in DOMAIN d THEN d ELSE Put(d, f, Inserted)

\* Any of the readers, ReadJsonObj too, accesses the field of the object; what
\* they make of its value is left out.
Read(p, f) ==
  /\ pc[p] = "idle"
  /\ jv' = [jv EXCEPT ![p] = Accessed(@, f)]
  /\ looked' = [looked EXCEPT ![p] = @ \cup {f}]
  /\ UNCHANGED <<filename, pc, file, calls, wrote, settled>>

(***************************************************************************)
(* Writing.                                                                *)
(***************************************************************************)

Stored(d, f, v) == IF d = Scalar THEN d ELSE Put(d, f, v)

WriteValue(p, f, v) ==
  /\ Call(p)
  /\ jv' = [jv EXCEPT ![p] = Stored(@, f, v)]
  /\ wrote' = [wrote EXCEPT ![p] = Stored(@, f, v)]
  /\ UNCHANGED <<filename, pc, file, looked, settled>>

\* A new object, from the text of d, in place of the program's.
Construct(p, d) ==
  /\ Call(p)
  /\ jv' = [jv EXCEPT ![p] = d] /\ wrote' = [wrote EXCEPT ![p] = d]
  /\ filename' = [filename EXCEPT ![p] = ""]
  /\ looked' = [looked EXCEPT ![p] = {}]
  /\ UNCHANGED <<pc, file, settled>>

\* Mutant: fields that the file has and the object has not are taken over.
ParsedMerge(d, path) ==
  IF path = "file" /\ file \notin {None, Empty, Torn, Scalar} /\ d # Scalar THEN Filled(d, file) ELSE d

\* LoadFromFile asks Path::Exists, true of directories only, and a directory
\* has no text to parse: the document stays and the result is false.
Parsed(d, path) == d

LoadFromFile(p, path) ==
  /\ Call(p)
  /\ filename' = [filename EXCEPT ![p] = path]
  /\ jv' = [jv EXCEPT ![p] = Parsed(@, path)]
  /\ UNCHANGED <<pc, file, wrote, looked, settled>>

\* Save, or SaveAs: File::Delete only where Path::Exists, a directory, which
\* remove keeps; then the file is opened and emptied.
SaveOpen(p, path) ==
  /\ Call(p)
  /\ path = "file"
  /\ pc' = [pc EXCEPT ![p] = "opened"]
  /\ file' = Empty
  /\ settled' = None
  /\ UNCHANGED <<jv, filename, wrote, looked>>

\* Without a name or with a directory's the stream does not open: Save writes
\* nothing and returns true.
SaveNowhere(p) ==
  /\ Call(p)
  /\ filename[p] # "file"
  /\ UNCHANGED <<jv, filename, pc, file, wrote, looked, settled>>

\* ofs << jv.toStyledString(), from the beginning of the file whatever
\* another program has put there meanwhile.
SaveWrite(p) ==
  /\ pc[p] = "opened"
  /\ pc' = [pc EXCEPT ![p] = "idle"]
  /\ file' \in IF file \in {Empty, jv[p]} THEN {jv[p]} ELSE {jv[p], Torn}
  /\ settled' = IF file = Empty /\ \A q \in Programs \ {p} : pc[q] = "idle"
                THEN jv[p] ELSE None
  /\ UNCHANGED <<jv, filename, calls, wrote, looked>>

Kill(p) ==
  /\ pc[p] = "opened"
  /\ pc' = [pc EXCEPT ![p] = "idle"]
  /\ jv' = [jv EXCEPT ![p] = NoFields] /\ wrote' = [wrote EXCEPT ![p] = NoFields]
  /\ filename' = [filename EXCEPT ![p] = ""]
  /\ looked' = [looked EXCEPT ![p] = {}]
  /\ UNCHANGED <<file, calls, settled>>

Next ==
  \E p \in Programs :
    \/ \E f \in Fields : Read(p, f) \/ \E v \in Given : WriteValue(p, f, v)
    \/ \E d \in {Scalar, NoFields} \cup [Fields -> Given] : Construct(p, d)
    \/ \E path \in {"file", "dir"} : LoadFromFile(p, path)
    \/ \E path \in {filename[p], "file"} : SaveOpen(p, path)
    \/ SaveNowhere(p) \/ SaveWrite(p) \/ Kill(p)

Spec == Init /\ [][Next]_vars

(***************************************************************************)
(* Properties.                                                             *)
(***************************************************************************)

\* An object holds exactly the fields it was constructed with or wrote, and
\* nulls for those it was only asked for, and a file that a save has written
\* undisturbed stays what that save wrote.  So nothing that an earlier object
\* saved comes back through LoadFromFile, and the next save replaces it all.
OwnDocument ==
  /\ \A p \in Programs :
       jv[p] = IF wrote[p] = Scalar THEN Scalar
               ELSE Filled(wrote[p], [f \in looked[p] |-> "null"])
  /\ settled # None => file = settled
=============================================================================
