----------------------------- MODULE ZipArchive -----------------------------
(***************************************************************************)
(* include/zip/zip.cpp: TZip, which writes an archive to a file, a pipe or *)
(* a block of memory, and the part of unzip.cpp that finds the entries of  *)
(* an archive again.                                                       *)
(*                                                                         *)
(* An archive is a row of cells: a header has one for its fixed fields and *)
(* one for its name, the key bytes of an encrypted entry are one, and so   *)
(* is the record at the end.  The k-th call of Add has entry k.  A disk, a *)
(* pipe or a block of memory ends at `capacity', for good: a write beyond  *)
(* it does nothing, or on a disk or a pipe what still fits.                *)
(***************************************************************************)
EXTENDS Integers, Sequences, FiniteSetsExt, SequencesExt

CONSTANTS
  Capacities,
  MaxText,      \* bound on the length of a file, in cells
  MaxCalls,     \* bound on the calls of Add
  CHUNK         \* 16384: what istore reads at once

VARIABLES
  z,            \* the TZip object
  result,       \* of the last call
  calls,
  added,        \* history: the entries that Add accepted
  torn          \* history: after a write fell short, pos was not where writ said

vars == <<z, result, calls, added, torn>>

None == [cell |-> "none"]
Cells == 0..Max(Capacities)

\* Create: memory of no size is refused, before anything is there.
Init ==
  /\ \E kind \in {"memory", "file", "pipe"}, start \in {0, 1}, capacity \in Capacities,
        password, partial \in BOOLEAN :
       /\ kind # "file" => start = 0
       /\ kind = "memory" => capacity > 0 /\ ~partial
       /\ z = [kind |-> kind, cells |-> [p \in Cells |-> None], pos |-> start, writ |-> 0,
               ooffset |-> start, oerr |-> FALSE, hasputcen |-> FALSE, zfis |-> <<>>,
               password |-> password, capacity |-> capacity, partial |-> partial,
               short |-> FALSE, open |-> TRUE]
  /\ result = "ZR_OK" /\ calls = 0 /\ added = <<>> /\ torn = FALSE

ocanseek(s) == s.kind # "pipe"

(***************************************************************************)
(* write and oseek.  Only memory remembers that a write failed.            *)
(***************************************************************************)
write(s, cells) ==
  LET end == s.pos + Len(cells)
      fits == IF s.kind = "memory" THEN end < s.capacity ELSE end <= s.capacity
      n == IF fits THEN Len(cells)
           ELSE IF s.partial THEN Max({0, s.capacity - s.pos}) ELSE 0
  IN  [s EXCEPT !.cells = [p \in Cells |-> IF s.pos <= p /\ p < s.pos + n
                                           THEN cells[p - s.pos + 1] ELSE @[p]],
                !.pos = @ + n, !.short = @ \/ ~fits,
                !.oerr = @ \/ (s.kind = "memory" /\ ~fits)]

oseek(s, p) ==
  IF s.kind = "memory" /\ p >= s.capacity THEN [s EXCEPT !.oerr = TRUE]
  ELSE [s EXCEPT !.pos = p + s.ooffset]

\* The fixed fields are written without a look at the result, the name with one.
Header(s, kind, e) ==
  LET fixed == write(s, <<[cell |-> kind, e |-> e]>>)
      named == write(fixed, <<[cell |-> "name", id |-> e.id]>>)
  IN  [s |-> named, ok |-> named.pos = fixed.pos + 1]

putlocal(s, e) == Header(s, "local", e)
putcentral(s, e) == Header(s, "central", e)
putextended(s, e) == write(s, <<[cell |-> "extended", e |-> e]>>)
putend(s, n, size, offset) == write(s, <<[cell |-> "end", n |-> n, size |-> size, offset |-> offset]>>)

(***************************************************************************)
(* The content of an entry, and the cells that stand for it.               *)
(***************************************************************************)
Text(id, n) == [k \in 1..n |-> <<id, k>>]

\* The compressed form is shorter, and never empty.
Deflated(text) ==
  [k \in 1..Max({1, (Len(text) + 1) \div 2}) |-> [cell |-> "deflated", text |-> text, part |-> k]]

Stored(text) == [k \in 1..Len(text) |-> [cell |-> "stored", byte |-> text[k]]]

zencode(cells, encrypt) == IF encrypt THEN [k \in DOMAIN cells |-> [cell |-> "encoded", of |-> cells[k]]] ELSE cells

\* The compressor flushes its buffer without a look at the result.
ideflate(s, text, encrypt) ==
  [s |-> write(s, zencode(Deflated(text), encrypt)), csize |-> Len(Deflated(text)), ok |-> TRUE]

istore(s, text, encrypt) ==
  LET cells == zencode(Stored(text), encrypt)
      chunks == [k \in 1..((Len(text) + CHUNK - 1) \div CHUNK) |->
                   SubSeq(cells, (k - 1) * CHUNK + 1, Min({k * CHUNK, Len(cells)}))]
      r == FoldLeft(LAMBDA a, c : LET w == write(a.s, c)
                                  IN  IF a.ok THEN [s |-> w, ok |-> w.pos = a.s.pos + Len(c)] ELSE a,
                    [s |-> s, ok |-> TRUE], chunks)
  IN  [s |-> r.s, csize |-> IF r.ok THEN Len(text) ELSE 0, ok |-> r.ok]

(***************************************************************************)
(* Add.                                                                    *)
(***************************************************************************)
\* The key bytes of an encrypted entry.
\* Mutant: they are written but not counted.
EncHeadUncounted(s, encrypt) == IF encrypt THEN write(s, <<[cell |-> "key"]>>) ELSE s

EncHead(s, encrypt) ==
  IF encrypt THEN [write(s, <<[cell |-> "key"]>>) EXCEPT !.writ = @ + 1] ELSE s

\* The size that is known before the file is read: whether a file has one is
\* asked of the archive's handle; a pipe or memory has what the caller says.
isize(src, n, announced) ==
  CASE src = "folder" -> 0
    [] src = "memory" -> n
    [] src = "file" -> IF z.kind = "file" \/ announced # 0 THEN announced ELSE -1

\* Back after the header was written again.
Rewritten(back, writ) ==
  IF back.ok THEN [s |-> oseek(back.s, writ), result |-> "ZR_OK"] ELSE [s |-> back.s, result |-> "ZR_WRITE"]

\* The header again with the right sizes, or a record after the data.
Settle(s, e, right) ==
  IF ocanseek(s) /\ ~e.encrypt THEN Rewritten(putlocal(oseek(s, e.off - s.ooffset), e), s.writ)
  ELSE IF e.how = "store" /\ ~right THEN [s |-> s, result |-> "ZR_NOCHANGE"]
  ELSE [s |-> [putextended(s, e) EXCEPT !.writ = @ + 1], result |-> "ZR_OK"]

\* The entry is kept for the central directory.
Keep(settled, e) ==
  IF settled.result # "ZR_OK" THEN settled
  ELSE IF settled.s.oerr THEN [settled EXCEPT !.result = "ZR_MEMSIZE"]
  ELSE [settled EXCEPT !.s.zfis = Append(@, e)]

\* The data of entry e0, after its header and its key.
Body(s, e0, text) ==
  IF e0.dir THEN [s |-> s, csize |-> 0, ok |-> TRUE]
  ELSE IF e0.how = "deflate" THEN ideflate(s, text, e0.encrypt)
  ELSE istore(s, text, e0.encrypt)

\* What follows the data: siz is the size that it has.
Finish(s, ok, e0, siz, len) ==
  LET e == [e0 EXCEPT !.siz = siz, !.len = len, !.extended = ~(ocanseek(s) /\ ~e0.encrypt)]
  IN  IF s.oerr THEN [s |-> s, result |-> "ZR_MEMSIZE"]
      ELSE IF ~ok THEN [s |-> s, result |-> "ZR_WRITE"]
      ELSE Keep(Settle(s, e, e0.siz = siz), e)

\* passex: the key bytes count.
AfterBody(body, e0, len) ==
  Finish([body.s EXCEPT !.writ = @ + body.csize], body.ok, e0,
         body.csize + (IF e0.encrypt THEN 1 ELSE 0), len)

AfterHeader(local, e0, text) ==
  IF local.ok
  THEN AfterBody(Body(EncHead([local.s EXCEPT !.writ = @ + 2], e0.encrypt), e0, text), e0, Len(text))
  ELSE [s |-> local.s, result |-> "ZR_WRITE"]

\* An entry that is written, from the state and the entry as it is announced.
Written(s0, e0, text) == AfterHeader(putlocal(s0, e0), e0, text)

Refuse(r) == result' = r /\ UNCHANGED <<z, added, torn>>

Add(src, how, n, announced) ==
  LET id == calls + 1
      size == isize(src, n, announced)
      encrypt == z.password /\ src # "folder"
      e == [id |-> id, dir |-> src = "folder", how |-> how, encrypt |-> encrypt, extended |-> TRUE,
            siz |-> IF how = "store" /\ size >= 0 THEN size + (IF encrypt THEN 1 ELSE 0) ELSE 0,
            len |-> size, off |-> z.writ + z.ooffset]
      r == Written([z EXCEPT !.short = FALSE], e, Text(id, n))
  IN  /\ z.open /\ calls < MaxCalls /\ calls' = id
      /\ src = "folder" => how = "store" /\ n = 0 /\ announced = 0
      /\ src = "memory" => announced = 0
      /\ IF z.oerr THEN Refuse("ZR_FAILED")
         ELSE IF z.hasputcen THEN Refuse("ZR_ENDED")
         ELSE IF src = "memory" /\ n = 0 THEN Refuse("ZR_ARGS")
         ELSE \/ src = "file" /\ Refuse("ZR_NOFILE")
              \/ /\ z' = r.s /\ result' = r.result
                 /\ added' = IF r.result = "ZR_OK" THEN Append(added, [id |-> id, text |-> Text(id, n)]) ELSE added
                 /\ torn' = (torn \/ (r.s.short /\ r.s.pos # r.s.writ + r.s.ooffset))

(***************************************************************************)
(* The central directory, and the end.                                     *)
(***************************************************************************)
AddCentral ==
  LET r == FoldLeft(LAMBDA a, e : IF a.ok THEN putcentral(a.s, e) ELSE a, [s |-> z, ok |-> TRUE], z.zfis)
      size == 2 * Len(z.zfis)
      s == [r.s EXCEPT !.writ = @ + size, !.zfis = <<>>, !.hasputcen = TRUE]
      end == [putend(s, Len(z.zfis), size, z.writ + z.ooffset) EXCEPT !.writ = @ + 1]
  IN  IF z.hasputcen THEN [s |-> z, result |-> "ZR_OK"]
      ELSE IF r.ok THEN [s |-> end, result |-> "ZR_OK"] ELSE [s |-> s, result |-> "ZR_WRITE"]

\* Whether the directory could be written is not told.
GetMemory ==
  /\ z.open
  /\ z' = AddCentral.s /\ result' = IF z.kind = "memory" THEN "ZR_OK" ELSE "ZR_NOTMMAP"
  /\ UNCHANGED <<calls, added, torn>>

Close ==
  /\ z.open
  /\ z' = [AddCentral.s EXCEPT !.open = FALSE] /\ result' = AddCentral.result
  /\ UNCHANGED <<calls, added, torn>>

Next ==
  \/ \E src \in {"memory", "file", "folder"}, how \in {"deflate", "store"},
        n, announced \in 0..MaxText : Add(src, how, n, announced)
  \/ GetMemory \/ Close

Spec == Init /\ [][Next]_vars

(***************************************************************************)
(* Reading: unzOpenInternal, unzGoToFirstFile and unzGoToNextFile, the     *)
(* check of the local header, and the content.                             *)
(***************************************************************************)
At(p) == IF p \in Cells THEN z.cells[p] ELSE None

Ends == {p \in Cells : z.cells[p].cell = "end"}

\* unzlocal_SearchCentralDir: the last one.
central_pos == Max(Ends)

byte_before_the_zipfile == central_pos - (At(central_pos).offset + At(central_pos).size)

Central(k) == At(byte_before_the_zipfile + At(central_pos).offset + 2 * (k - 1))

CheckCurrentFileCoherencyHeader(c) ==
  LET local == At(c.off + byte_before_the_zipfile)
  IN  /\ local.cell = "local" /\ local.e.how = c.how
      /\ ~c.extended => local.e.siz = c.siz /\ local.e.len = c.len
      /\ At(c.off + byte_before_the_zipfile + 1) = [cell |-> "name", id |-> c.id]

Data(c) ==
  LET start == c.off + byte_before_the_zipfile + 2
      raw == [k \in 1..c.siz |-> At(start + k - 1)]
      cells == IF c.encrypt THEN [k \in 1..(c.siz - 1) |-> raw[k + 1].of] ELSE raw
  IN  IF c.how = "store" THEN [k \in DOMAIN cells |-> cells[k].byte]
      ELSE IF cells = Deflated(cells[1].text) THEN cells[1].text ELSE <<"ZR_FLATE">>

Readable ==
  /\ byte_before_the_zipfile >= 0
  /\ \A k \in 1..At(central_pos).n :
       Central(k).cell = "central" /\ CheckCurrentFileCoherencyHeader(Central(k).e)

(***************************************************************************)
(* Properties.                                                             *)
(***************************************************************************)
\* Whatever the archive is written to, encrypted or not, with sizes known
\* before or not, and with files that were refused in between: when the end
\* is there, and no write that fell short has left the archive where the
\* counting does not know of it, a reader finds exactly the entries that Add
\* accepted, each with its content; and the length that GetMemory tells is
\* the length of the archive.
ArchiveComplete ==
  Ends # {} /\ ~torn =>
    /\ z.pos = z.writ + z.ooffset
    /\ Readable
    /\ [k \in 1..At(central_pos).n |-> [id |-> Central(k).e.id, text |-> Data(Central(k).e)]] = added
=============================================================================
