----------------------------- MODULE FileReader -----------------------------
(***************************************************************************)
(* include/FileSystem.hpp: FileInfo, which reads a file in chunks.  The    *)
(* constructor keeps the size that the file has then; an object that comes *)
(* from FileSystem::Find has no size, and any number may stand there.      *)
(* Other programs change the file between the reads.                       *)
(***************************************************************************)
EXTENDS Integers, Sequences, FiniteSetsExt

CONSTANTS
  Bytes,
  MaxSize,   \* bound on the size of the file
  MaxRead    \* bound on _rdCount

VARIABLES
  data,      \* the content of the file
  st_size, StreamPos,
  fs,        \* "null", "good", or "fail" after a read that met the end
  got,       \* history: the bytes put into the buffers
  counted,   \* history: the sum of the results of Read
  trusted    \* history: st_size is the file's size, and nobody changed it

vars == <<data, st_size, StreamPos, fs, got, counted, trusted>>

Contents == UNION {[1..n -> Bytes] : n \in 0..MaxSize}

Init ==
  /\ data \in Contents
  /\ trusted \in BOOLEAN
  /\ st_size \in IF trusted THEN {Len(data)} ELSE 0..MaxSize
  /\ StreamPos = 0 /\ fs = "null" /\ got = <<>> /\ counted = 0

\* Mutant: the rest is read only when it is shorter than what is asked for.
ReadCountShort(n) == IF n > st_size THEN st_size - StreamPos ELSE n

ReadCount(n) == IF StreamPos + n >= st_size THEN st_size - StreamPos ELSE n

\* seekg and read: a stream that has failed does nothing more, the count is
\* what was asked for all the same.
Read(n) ==
  LET rdbufCount == ReadCount(n)
      there == Max({0, Min({rdbufCount, Len(data) - StreamPos})})
      chunk == [k \in 1..there |-> data[StreamPos + k]]
  IN  IF rdbufCount = 0 THEN UNCHANGED vars
      ELSE /\ got' = IF fs = "fail" THEN got ELSE got \o chunk
           /\ fs' = IF fs = "fail" \/ Len(chunk) < rdbufCount THEN "fail" ELSE "good"
           /\ StreamPos' = StreamPos + rdbufCount
           /\ counted' = counted + rdbufCount
           /\ UNCHANGED <<data, st_size, trusted>>

\* The next Read opens the file again and goes on where it was.
Close == fs' = "null" /\ UNCHANGED <<data, st_size, StreamPos, got, counted, trusted>>

Change(d) ==
  /\ d # data /\ data' = d /\ trusted' = FALSE
  /\ UNCHANGED <<st_size, StreamPos, fs, got, counted>>

Next == (\E n \in 0..MaxRead : Read(n)) \/ Close \/ \E d \in Contents : Change(d)

Spec == Init /\ [][Next]_vars

(***************************************************************************)
(* Properties.                                                             *)
(***************************************************************************)

\* Whatever the chunks, and with the object closed in between, the reads of a
\* file that nobody changes give its bytes in order, none twice, and count
\* them; of a file that changes they count no more than its first size.
ChunksInOrder ==
  /\ trusted => got = SubSeq(data, 1, StreamPos) /\ counted = Len(got)
  /\ counted <= st_size
=============================================================================
