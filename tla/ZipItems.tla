------------------------------ MODULE ZipItems ------------------------------
(***************************************************************************)
(* include/zip/unzip.cpp: TUnzip, which hands out the items of an archive  *)
(* by number or name, over one cursor in the central directory and one     *)
(* open item.                                                              *)
(*                                                                         *)
(* An item has len bytes of its own; what a call delivers is told by the   *)
(* item and the number of bytes since it was opened.  The archive is       *)
(* sound.  Its central directory has a place for each item that is `size'  *)
(* long.  `tail' says when the decompressor meets the end of an item:      *)
(* "with" its last byte, "later" when it is called again, or "never", for  *)
(* want of a byte after the end.  The read buffer holds a whole item, and  *)
(* a wrong password is noticed.                                            *)
(***************************************************************************)
EXTENDS Integers, Sequences, FiniteSetsExt

CONSTANTS
  Archives,   \* sequences of items [name, len, stored, encrypted, dir, tail, size]
  Names,      \* what FindZipItem is asked for
  ENCHEAD,    \* 12: the bytes before the data of an encrypted item
  BUFSIZE,    \* 16384: the buffer for unzipping to a file
  Lens,       \* the sizes of the caller's buffer
  Word        \* 2^32

VARIABLES
  items, passwordRight,
  uf,            \* the cursor: num_file, pos_in_central_dir, the item that
                 \* cur_file_info is about, current_file_ok; and a loop that never ends
  pfile,         \* the open item: item, at, rest_read_uncompressed, encheadleft
  currentfile, czei,
  call,          \* what the last call was, returned and delivered
  stale          \* history: cur_file_info is not about item num_file

vars == <<items, passwordRight, uf, pfile, currentfile, czei, call, stale>>

NULL == [item |-> -1]
NoCall == [name |-> "none", index |-> -1, len |-> 0, result |-> "ZR_OK", item |-> -1, from |-> 0, n |-> 0]

Item(i) == items[i + 1]
number_entry == Len(items)
Indices == 0..(number_entry - 1)

\* The place of item i in the central directory.
Place(i) ==
  LET place[k \in 0..i] == IF k = 0 THEN 0 ELSE place[k - 1] + Item(k - 1).size
  IN  place[i]

(***************************************************************************)
(* The cursor.                                                             *)
(***************************************************************************)
Cursors == [num_file : Nat, pos : Nat, cur : Indices, ok : BOOLEAN, hangs : BOOLEAN]
OpenItems == [item : Indices, at : Nat, rest : Nat, encheadleft : Nat]

\* unzlocal_GetCurrentFileInfoInternal for the cursor: without an item at the
\* place, what is known of another one stays.
Loaded(u) ==
  LET here == {i \in Indices : Place(i) = u.pos}
  IN  IF here = {} THEN [u EXCEPT !.ok = FALSE]
      ELSE [u EXCEPT !.ok = TRUE, !.cur = CHOOSE i \in here : TRUE]

unzGoToFirstFile(u) == Loaded([u EXCEPT !.num_file = 0, !.pos = 0])

unzGoToNextFile(u) ==
  IF ~u.ok \/ u.num_file + 1 = number_entry THEN u
  ELSE Loaded([u EXCEPT !.pos = @ + Item(u.cur).size, !.num_file = @ + 1])

\* To item index; a step that goes nowhere is tried for ever.
GoTo(u, index) ==
  LET to[v \in Cursors] ==
        IF v.num_file >= index THEN v
        ELSE IF unzGoToNextFile(v) = v THEN [v EXCEPT !.hangs = TRUE]
        ELSE to[unzGoToNextFile(v)]
  IN  to[IF index < u.num_file THEN unzGoToFirstFile(u) ELSE u]

\* The cursor as a search for the name leaves it, and whether it is there.
\* Mutant: the search goes on from the cursor.
LocateFrom(u, name) ==
  LET there == {i \in u.num_file..(number_entry - 1) : Item(i).name = name}
  IN  IF u.ok /\ there # {} THEN [found |-> TRUE, u |-> GoTo(u, Min(there))] ELSE [found |-> FALSE, u |-> u]

unzLocateFile(u, name) ==
  LET there == {i \in Indices : Item(i).name = name}
      first == unzGoToFirstFile(u)
      last == GoTo(first, number_entry - 1)
  IN  IF ~u.ok THEN [found |-> FALSE, u |-> u]
      ELSE IF there # {} THEN [found |-> TRUE, u |-> GoTo(first, Min(there))]
      ELSE [found |-> FALSE, u |-> [last EXCEPT !.num_file = u.num_file, !.pos = u.pos]]

Stale(u) == u.cur # u.num_file \/ u.pos # Place(u.num_file) \/ ~u.ok

(***************************************************************************)
(* The open item.                                                          *)
(***************************************************************************)
unzOpenCurrentFile(u) ==
  IF ~u.ok THEN NULL
  ELSE [item |-> u.cur, at |-> 0, rest |-> Item(u.cur).len,
        encheadleft |-> IF Item(u.cur).encrypted THEN ENCHEAD ELSE 0]

\* unzReadCurrentFile: the item after it, the number of bytes or an error,
\* reached_eof, and whether the call never comes back.
unzReadCurrentFile(p, len) ==
  LET room == Min({len, p.rest})
      it == Item(p.item)
      left == it.len - p.at
      n == Min({room, left})
      rest == (p.rest - p.encheadleft - n) % Word
      after == [p EXCEPT !.at = @ + n, !.rest = rest, !.encheadleft = 0]
      ends == n = left /\ (it.tail = "with" \/ (n < room /\ it.tail = "later"))
      result(res, eof, hangs) == [p |-> after, res |-> res, eof |-> eof, hangs |-> hangs]
  IN  IF p = NULL THEN [p |-> p, res |-> -1, eof |-> FALSE, hangs |-> FALSE]
      ELSE IF room = 0 THEN [p |-> p, res |-> 0, eof |-> FALSE, hangs |-> FALSE]
      ELSE IF p.encheadleft > 0 /\ ~passwordRight
      THEN [p |-> [p EXCEPT !.encheadleft = 0], res |-> -2, eof |-> FALSE, hangs |-> FALSE]
      ELSE IF it.stored THEN result(n, rest = 0, n < room)
      ELSE IF ends \/ rest = 0 THEN result(n, TRUE, FALSE)
      ELSE result(IF n < room THEN -1 ELSE n, FALSE, FALSE)

(***************************************************************************)
(* The calls.                                                              *)
(***************************************************************************)
Init ==
  /\ items \in Archives /\ passwordRight \in BOOLEAN
  /\ uf = Loaded([num_file |-> 0, pos |-> 0, cur |-> 0, ok |-> TRUE, hangs |-> FALSE])
  /\ pfile = NULL /\ currentfile = -1 /\ czei = -1 /\ call = NoCall /\ stale = FALSE

Delivered(p) == IF p = NULL THEN 0 ELSE p.at

\* p0 and p: the open item before and after the call.
Returns(name, index, len, result, p0, p) ==
  call' = [name |-> name, index |-> index, len |-> len, result |-> result,
           item |-> p.item, from |-> Delivered(p0), n |-> Delivered(p)]

At(u) ==
  /\ uf' = u /\ stale' = Stale(u)
  /\ UNCHANGED <<items, passwordRight>>

Answer(u, result) == IF u.hangs THEN "hangs" ELSE result

\* GetZipItem: the open item is closed, and the answer may be the kept one.
Get(index) ==
  LET u == IF index \in {-1, czei} THEN uf ELSE GoTo(uf, index)
  IN  /\ ~uf.hangs
      /\ At(u) /\ pfile' = NULL /\ currentfile' = -1
      /\ czei' = IF index = -1 \/ u.hangs THEN czei ELSE index
      /\ Returns("Get", index, 0, Answer(u, "ZR_OK"), NULL, NULL)

\* FindZipItem.  A search that fails leaves the open item open.
Find(name) ==
  LET r == unzLocateFile(uf, name)
  IN  /\ ~uf.hangs /\ At(r.u)
      /\ pfile' = IF r.found THEN NULL ELSE pfile
      /\ currentfile' = IF r.found THEN -1 ELSE currentfile
      /\ czei' = IF r.found THEN r.u.num_file ELSE czei
      /\ Returns("Find", IF r.found THEN r.u.num_file ELSE -1, 0,
                 Answer(r.u, IF r.found THEN "ZR_OK" ELSE "ZR_NOTFOUND"), NULL, NULL)

\* UnzipItem to memory: go on with the open item, or open another.
UnzipMemory(index, len) ==
  LET u == IF index = currentfile THEN uf ELSE GoTo(uf, index)
      p == IF index = currentfile THEN pfile ELSE unzOpenCurrentFile(u)
      r == unzReadCurrentFile(p, len)
  IN  /\ ~uf.hangs /\ At([u EXCEPT !.hangs = @ \/ r.hangs]) /\ UNCHANGED czei
      /\ pfile' = IF r.res <= 0 THEN NULL ELSE r.p
      /\ currentfile' = IF r.res <= 0 THEN -1 ELSE index
      /\ Returns("UnzipMemory", index, len,
                 Answer(uf', IF r.eof THEN "ZR_OK" ELSE IF r.res > 0 THEN "ZR_MORE"
                             ELSE IF r.res = -2 THEN "ZR_PASSWORD" ELSE "ZR_FLATE"),
                 p, r.p)

\* The loop of UnzipItem to a file or a handle: what has been written, and why it ended.
Copied(p0) ==
  LET copy[p \in {p0} \union OpenItems] ==
        LET r == unzReadCurrentFile(p, BUFSIZE)
        IN  IF r.hangs THEN [p |-> r.p, result |-> "hangs"]
            ELSE IF r.res = -2 THEN [p |-> p, result |-> "ZR_PASSWORD"]
            ELSE IF r.res < 0 \/ (r.res = 0 /\ ~r.eof) THEN [p |-> p, result |-> "ZR_FLATE"]
            ELSE IF r.eof THEN [p |-> r.p, result |-> "ZR_OK"]
            ELSE copy[r.p]
  IN  copy[p0]

\* To a file or a handle, which may fail to open or to be written to.
UnzipFile(index) ==
  LET u == GoTo(uf, index)
      r == Copied(unzOpenCurrentFile(u))
  IN  /\ ~uf.hangs /\ pfile' = NULL /\ currentfile' = -1
      /\ At([u EXCEPT !.hangs = @ \/ (~Item(index).dir /\ r.result = "hangs")])
      /\ czei' = IF u.hangs THEN czei ELSE index
      /\ IF uf'.hangs THEN Returns("UnzipFile", index, BUFSIZE, "hangs", NULL, NULL)
         ELSE IF Item(index).dir THEN Returns("UnzipFile", index, BUFSIZE, "ZR_OK", NULL, NULL)
         ELSE \/ Returns("UnzipFile", index, BUFSIZE, r.result, NULL, r.p)
              \/ Returns("UnzipFile", index, BUFSIZE, "ZR_NOFILE", NULL, NULL)
              \/ r.p # NULL /\ r.p.at > 0 /\ Returns("UnzipFile", index, BUFSIZE, "ZR_WRITE", NULL, r.p)

Refuse ==
  /\ ~uf.hangs /\ pfile' = NULL /\ currentfile' = -1
  /\ Returns("Unzip", number_entry, 0, "ZR_ARGS", NULL, NULL)
  /\ UNCHANGED <<items, passwordRight, uf, czei, stale>>

Next ==
  \/ \E i \in Indices \union {-1} : Get(i)
  \/ \E name \in Names : Find(name)
  \/ \E i \in Indices, len \in Lens : UnzipMemory(i, len)
  \/ \E i \in Indices : UnzipFile(i)
  \/ Refuse

Spec == Init /\ [][Next]_vars

(***************************************************************************)
(* Properties.                                                             *)
(***************************************************************************)
Unzipped == call.name \in {"UnzipMemory", "UnzipFile"}

\* The item that the call was about is delivered, whole when the call says so.
Whole == call.item = call.index /\ call.n = Item(call.index).len

\* In whatever order items are asked for, found and unzipped, in pieces or at
\* once: a name is found where it is first, an unencrypted item comes whole
\* with ZR_OK, not yet whole with ZR_MORE, and never hangs; an encrypted one
\* does so when the buffer holds it and it was compressed, and gives nothing
\* to a wrong password.  That is, as long as the cursor is about the item
\* that it stands at.
ItemsDelivered ==
  ~stale =>
    /\ call.name = "Find" =>
         call.index = -1 \/ \A i \in 0..(call.index - 1) : Item(i).name # Item(call.index).name
    /\ Unzipped =>
         LET it == Item(call.index)
         IN  /\ call.result = "ZR_OK" /\ (~it.encrypted \/ (~it.stored /\ call.from = 0 /\ call.len >= it.len)) =>
                  Whole \/ it.dir
             /\ call.result = "ZR_MORE" /\ ~it.encrypted => call.item = call.index /\ call.n \in 1..(it.len - 1)
             /\ call.result = "hangs" => it.encrypted /\ it.stored
             /\ it.encrypted /\ ~passwordRight => call.n = 0 /\ call.result # "ZR_MORE"

\* Items can be unzipped in any order: what is delivered is the item asked for.
RightItem ==
  Unzipped /\ call.result \in {"ZR_OK", "ZR_MORE"} /\ ~Item(call.index).dir => call.item = call.index
=============================================================================
