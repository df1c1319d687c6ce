------------------------------ MODULE Inflate ------------------------------
(***************************************************************************)
(* include/zip/unzip.cpp: the decompressor from the decoded symbols to the *)
(* caller's buffer.  Bytes go through a circular window of Size bytes that *)
(* serves both as the dictionary of the matches and as the buffer of what  *)
(* the caller has no room for yet; a call of inflate ends wherever input   *)
(* or room runs out, in the middle of a match as well, and the next call   *)
(* goes on there.  Bits and trees are left out: a symbol <<0, byte>>,      *)
(* <<distance, length>> or an end of block is there when it is needed, or  *)
(* the input has run out.  The archive is sound: a match lies within what  *)
(* has been sent and within the window.                                    *)
(***************************************************************************)
EXTENDS Integers, Sequences, FiniteSetsExt

CONSTANTS
  Size,                \* 32768
  MinMatch, MaxMatch,  \* 3 and 258
  Bytes,
  MaxText,             \* bound on the length of the file
  MaxRoom              \* bound on the caller's buffer

VARIABLES
  w,         \* window, read, write, and the caller's avail_out and bytes
  mode,      \* the modes of inflate_blocks and of inflate_codes in one
  last,      \* the current block is the last one
  pending,   \* <<dist, len>> of COPY, <<0, byte>> of LIT
  text,      \* history: the file that the symbols so far stand for
  pc         \* "caller", or "inflate" during a call

vars == <<w, mode, last, pending, text, pc>>

Init ==
  /\ w = [window |-> [k \in 0..(Size - 1) |-> CHOOSE b \in Bytes : TRUE], read |-> 0, write |-> 0,
          avail_out |-> 0, bytes |-> <<>>]
  /\ mode = "TYPE" /\ last = FALSE /\ pending = <<>> /\ text = <<>> /\ pc = "caller"

(***************************************************************************)
(* The window.                                                             *)
(***************************************************************************)
\* Mutant: the byte that keeps a full window from looking empty is used.
WAVAILFull(v) == IF v.write < v.read THEN v.read - v.write ELSE Size - v.write

WAVAIL(v) == IF v.write < v.read THEN v.read - v.write - 1 ELSE Size - v.write

\* memcpy to the caller of what it has room for, up to position end.
Deliver(v, end) ==
  LET n == Min({end - v.read, v.avail_out})
  IN  [v EXCEPT !.read = @ + n, !.avail_out = @ - n,
                !.bytes = @ \o [k \in 1..n |-> v.window[v.read + k - 1]]]

inflate_flush(v) ==
  LET a == Deliver(v, IF v.read <= v.write THEN v.write ELSE Size)
      b == [a EXCEPT !.read = 0, !.write = IF @ = Size THEN 0 ELSE @]
  IN  IF a.read = Size THEN Deliver(b, b.write) ELSE a

WRAP(v) == IF v.write = Size /\ v.read # 0 THEN [v EXCEPT !.write = 0] ELSE v

NEEDOUT(v) ==
  LET a == IF WAVAIL(v) = 0 THEN WRAP(v) ELSE v
  IN  IF WAVAIL(a) = 0 THEN WRAP(inflate_flush(a)) ELSE a

OUTBYTE(v, b) == [v EXCEPT !.window[v.write] = b, !.write = @ + 1]

\* The byte at a distance, modulo the size of the window.
Back(v, dist) == v.window[(v.write - dist) % Size]

(***************************************************************************)
(* The steps of a call.  LEAVE flushes the window.                         *)
(***************************************************************************)
LEAVE(v) == w' = inflate_flush(v) /\ pc' = "caller" /\ UNCHANGED <<mode, last, pending, text>>

NeedsInput == mode \in {"TYPE", "LEN", "STORED"}

InputRunsOut == pc = "inflate" /\ NeedsInput /\ LEAVE(w)

AfterBlock(end) == IF end THEN "DRY" ELSE "TYPE"

\* IBM_TYPE, and IBM_LENS or the trees of the block; a stored block may be empty.
BlockType ==
  /\ pc = "inflate" /\ mode = "TYPE"
  /\ last' \in BOOLEAN
  /\ mode' \in {"STORED", "LEN", AfterBlock(last')}
  /\ UNCHANGED <<w, pending, text, pc>>

\* The file after a symbol.
Extended(symbol) ==
  IF symbol[1] = 0 THEN Append(text, symbol[2])
  ELSE text \o [k \in 1..symbol[2] |-> text[Len(text) - symbol[1] + 1 + ((k - 1) % symbol[1])]]

Symbols ==
  {s \in ({0} \X Bytes) \union ((1..Min({Len(text), Size})) \X (MinMatch..MaxMatch)) :
     Len(Extended(s)) <= MaxText}

\* LEN, LENEXT, DIST and DISTEXT.
Symbol(s) ==
  /\ pc = "inflate" /\ mode = "LEN"
  /\ pending' = s /\ text' = Extended(s) /\ mode' = IF s[1] = 0 THEN "LIT" ELSE "COPY"
  /\ UNCHANGED <<w, last, pc>>

\* inflate_fast: with room for the longest match before the read pointer or
\* the end, a symbol is carried out without asking for room.
Copied(v, dist, len) ==
  LET f[k \in 0..len] == IF k = 0 THEN v ELSE OUTBYTE(f[k - 1], Back(f[k - 1], dist))
  IN  f[len]

Fast(s) ==
  /\ pc = "inflate" /\ mode = "LEN" /\ WAVAIL(w) >= MaxMatch
  /\ w' = IF s[1] = 0 THEN OUTBYTE(w, s[2]) ELSE Copied(w, s[1], s[2])
  /\ text' = Extended(s)
  /\ UNCHANGED <<mode, last, pending, pc>>

EndOfBlock ==
  /\ pc = "inflate" /\ mode = "LEN"
  /\ mode' = "WASH"
  /\ UNCHANGED <<w, last, pending, text, pc>>

\* One byte of a match or a literal.
Put ==
  /\ pc = "inflate" /\ mode \in {"COPY", "LIT"}
  /\ LET v == NEEDOUT(w)
         lit == mode = "LIT"
     IN  IF WAVAIL(v) = 0 THEN LEAVE(v)
         ELSE /\ w' = OUTBYTE(v, IF lit THEN pending[2] ELSE Back(v, pending[1]))
              /\ pending' = IF lit \/ pending[2] = 1 THEN <<>> ELSE <<pending[1], pending[2] - 1>>
              /\ mode' = IF pending' = <<>> THEN "LEN" ELSE mode
              /\ UNCHANGED <<last, text, pc>>

\* WASH, and DRY after the last block: everything must be with the caller.
Wash ==
  /\ pc = "inflate" /\ mode \in {"WASH", "DRY"}
  /\ LET v == inflate_flush(w)
     IN  IF v.read # v.write THEN LEAVE(v)
         ELSE /\ w' = v /\ mode' = IF mode = "DRY" THEN "DONE" ELSE AfterBlock(last)
              /\ UNCHANGED <<last, pending, text, pc>>

\* Bytes copied from the input.
Filled(v, bytes) ==
  LET f[k \in 0..Len(bytes)] == IF k = 0 THEN v ELSE OUTBYTE(f[k - 1], bytes[k])
  IN  f[Len(bytes)]

\* The bytes of a stored block, as many as the input, the room and the block
\* allow at once.
Stored(bytes) ==
  /\ pc = "inflate" /\ mode = "STORED"
  /\ Len(text) + Len(bytes) <= MaxText
  /\ LET v == NEEDOUT(w)
     IN  IF WAVAIL(v) = 0 THEN LEAVE(v)
         ELSE /\ Len(bytes) <= WAVAIL(v)
              /\ w' = Filled(v, bytes) /\ text' = text \o bytes
              /\ mode' \in {"STORED", AfterBlock(last)}
              /\ UNCHANGED <<last, pending, pc>>

Done ==
  /\ pc = "inflate" /\ mode = "DONE"
  /\ LEAVE(w)

\* unzReadCurrentFile, with the rest of the caller's buffer or a new one.
Call(room) ==
  /\ pc = "caller" /\ mode # "DONE"
  /\ w.avail_out = 0 \/ room = w.avail_out
  /\ pc' = "inflate" /\ w' = [w EXCEPT !.avail_out = room]
  /\ UNCHANGED <<mode, last, pending, text>>

Next ==
  \/ \E room \in 1..MaxRoom : Call(room)
  \/ InputRunsOut \/ BlockType \/ EndOfBlock \/ Put \/ Wash \/ Done
  \/ \E s \in Symbols : Symbol(s) \/ Fast(s)
  \/ \E b \in Bytes : Stored(<<b>>) \/ Stored(<<b, b>>)

Spec == Init /\ [][Next]_vars

(***************************************************************************)
(* Properties.                                                             *)
(***************************************************************************)
\* What is in the window and not yet with the caller.
Unread ==
  IF w.read <= w.write THEN [k \in 1..(w.write - w.read) |-> w.window[w.read + k - 1]]
  ELSE [k \in 1..(Size - w.read + w.write) |-> w.window[(w.read + k - 1) % Size]]

\* Of the symbol that is being carried out, what is still to be put.
Owed == IF pending = <<>> THEN 0 ELSE IF pending[1] = 0 THEN 1 ELSE pending[2]

\* However the calls cut the work, the caller's bytes, the window and what is
\* owed make up the file: nothing is overwritten before it is delivered and no
\* match reads what has gone; a call that had room left ended for want of
\* input or with the file; and the file is over only when all of it is out.
InflateExact ==
  /\ w.bytes \o Unread = SubSeq(text, 1, Len(text) - Owed)
  /\ pc = "caller" /\ w.avail_out > 0 => NeedsInput \/ mode = "DONE"
  /\ mode = "DONE" => w.bytes = text
=============================================================================
