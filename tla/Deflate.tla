------------------------------ MODULE Deflate ------------------------------
(***************************************************************************)
(* include/zip/zip.cpp: the compressor of TZip::ideflate, from lm_init to  *)
(* the flush of the last block: a window of 2 * WSIZE bytes that slides    *)
(* under the positions kept in head, prev, match_start and block_start,    *)
(* hash chains, and the lazy choice of matches.  ideflate compresses at    *)
(* level 8, so deflate_fast is never called.                               *)
(*                                                                         *)
(* A byte is a small number, and a token is what ct_tally is given:        *)
(* <<0, byte>> or <<distance, length>>.  flush_block sends a block as its  *)
(* tokens, with one of two codes, or as it stands in the window, whichever *)
(* is shortest; `out' keeps both forms of every block.                     *)
(***************************************************************************)
EXTENDS Integers, Sequences, FiniteSetsExt, SequencesExt

CONSTANTS
  WSIZE, MIN_MATCH, MAX_MATCH, HASH_BITS, TOO_FAR, LIT_BUFSIZE,
  GUESS,      \* 0x1000: after so many tokens ct_tally may end a block early
  good_match, max_lazy_match, nice_length, max_chain_length,  \* level 8
  Inputs      \* the files that are compressed

VARIABLES
  input, ired,   \* the file, and how much of it has been read
  ds,            \* the compressor's state
  hash_head, match_available, match_length,   \* locals of deflate
  block,         \* the tokens in l_buf and d_buf
  out, pc

vars == <<input, ired, ds, hash_head, match_available, match_length, block, out, pc>>

MIN_LOOKAHEAD == MAX_MATCH + MIN_MATCH + 1
MAX_DIST == WSIZE - MIN_LOOKAHEAD
NIL == 0
H_SHIFT == (HASH_BITS + MIN_MATCH - 1) \div MIN_MATCH

\* The exclusive or, as far as HASH_MASK keeps it.
Xor(a, b) == SumSet({2^k : k \in {j \in 0..(HASH_BITS - 1) : (a \div 2^j) % 2 # (b \div 2^j) % 2}})

UPDATE_HASH(h, c) == Xor(h * 2^H_SHIFT, c)

\* The window of an earlier file is not cleared; prev is set on the fly.
Init ==
  /\ input \in Inputs /\ ired = 0
  /\ \E junk \in {0, 1} :
       ds = [window |-> [k \in 0..(2 * WSIZE - 1) |-> junk], prev |-> [k \in 0..(WSIZE - 1) |-> junk],
             head |-> [h \in 0..(2^HASH_BITS - 1) |-> NIL], ins_h |-> 0, strstart |-> 0,
             lookahead |-> 0, block_start |-> 0, match_start |-> 0, nice_match |-> nice_length]
  /\ hash_head = NIL /\ match_available = FALSE /\ match_length = MIN_MATCH - 1
  /\ block = <<>> /\ out = <<>> /\ pc = "lm_init"

\* INSERT_STRING: the record, and the head that the chain had before.
INSERT_STRING(d, s) ==
  LET h == UPDATE_HASH(d.ins_h, d.window[s + MIN_MATCH - 1])
  IN  [ds |-> [d EXCEPT !.ins_h = h, !.prev[s % WSIZE] = d.head[h], !.head[h] = s],
       head |-> d.head[h]]

(***************************************************************************)
(* longest_match.  The third byte is not compared: the strings of a chain  *)
(* have one hash key.                                                      *)
(***************************************************************************)
Run(d, m) ==
  LET differ == {k \in MIN_MATCH..(MAX_MATCH - 1) : d.window[d.strstart + k] # d.window[m + k]}
  IN  IF differ = {} THEN MAX_MATCH ELSE Min(differ)

longest_match(d, cur_match, prev_length) ==
  LET limit == IF d.strstart > MAX_DIST THEN d.strstart - MAX_DIST ELSE NIL
      chain == IF prev_length >= good_match THEN max_chain_length \div 4 ELSE max_chain_length
      better(m, best) == \A k \in {best, best - 1, 0, 1} : d.window[m + k] = d.window[d.strstart + k]
      search[n \in 0..chain, m \in 0..(2 * WSIZE), best \in 0..MAX_MATCH, start \in Int] ==
        LET longer == better(m, best) /\ Run(d, m) > best
            b == IF longer THEN Run(d, m) ELSE best
            s == IF longer THEN m ELSE start
            after == d.prev[m % WSIZE]
        IN  IF (longer /\ b >= d.nice_match) \/ after <= limit \/ n = 1
            THEN [len |-> b, start |-> s]
            ELSE search[n - 1, after, b, s]
  IN  search[chain, cur_match, prev_length, d.match_start]

(***************************************************************************)
(* fill_window: slide, then read until there is enough lookahead or the    *)
(* file ends.  A read may return less than it was asked for.               *)
(***************************************************************************)
Lower(m) == IF m >= WSIZE THEN m - WSIZE ELSE NIL

\* Mutant: the match that is being put off does not move with the window.
SlideNotMatch(d) ==
  IF d.strstart < WSIZE + MAX_DIST THEN d
  ELSE [d EXCEPT !.window = [k \in DOMAIN @ |-> IF k < WSIZE THEN @[k + WSIZE] ELSE @[k]],
                 !.strstart = @ - WSIZE, !.block_start = @ - WSIZE,
                 !.head = [h \in DOMAIN @ |-> Lower(@[h])], !.prev = [k \in DOMAIN @ |-> Lower(@[k])]]

Slide(d) ==
  IF d.strstart < WSIZE + MAX_DIST THEN d
  ELSE [d EXCEPT !.window = [k \in DOMAIN @ |-> IF k < WSIZE THEN @[k + WSIZE] ELSE @[k]],
                 !.match_start = @ - WSIZE, !.strstart = @ - WSIZE, !.block_start = @ - WSIZE,
                 !.head = [h \in DOMAIN @ |-> Lower(@[h])], !.prev = [k \in DOMAIN @ |-> Lower(@[k])]]

\* The bytes that the reads return together: as few or as many as possible.
Reads(d) ==
  LET most == Min({2 * WSIZE - d.lookahead - d.strstart, Len(input) - ired})
  IN  {most, Min({most, MIN_LOOKAHEAD - d.lookahead})}

Filled(d, n) ==
  LET end == d.strstart + d.lookahead
  IN  [d EXCEPT !.window = [k \in DOMAIN @ |-> IF end <= k /\ k < end + n
                                               THEN input[ired + k - end + 1] ELSE @[k]],
                !.lookahead = @ + n]

fill_window(d) ==
  IF d.lookahead >= MIN_LOOKAHEAD THEN ds' = d /\ UNCHANGED ired
  ELSE \E n \in Reads(Slide(d)) : ds' = Filled(Slide(d), n) /\ ired' = ired + n

lm_init ==
  /\ pc = "lm_init" /\ pc' = "deflate"
  /\ \E n \in Reads(ds) :
       LET d == Filled(ds, n)
       IN  /\ ds' = [d EXCEPT !.ins_h = FoldLeft(UPDATE_HASH, 0, [k \in 1..(MIN_MATCH - 1) |-> d.window[k - 1]])]
           /\ ired' = n
  /\ UNCHANGED <<input, hash_head, match_available, match_length, block, out>>

(***************************************************************************)
(* ct_tally and FLUSH_BLOCK.  The guess of ct_tally that the block had     *)
(* better end here is a choice.                                            *)
(***************************************************************************)
\* The bytes are offered only when the block has not left the window.
FLUSH_BLOCK(d, tokens, eof) ==
  LET buf == [k \in 1..(d.strstart - d.block_start) |-> d.window[d.block_start + k - 1]]
  IN  out' = Append(out, [tokens |-> tokens, eof |-> eof,
                          buf |-> IF d.block_start >= 0 THEN {buf} ELSE {}])

\* Tally a token, with d as deflate leaves it when it flushes, and go on with e.
Tally(token, d, e) ==
  LET tokens == Append(block, token)
  IN  \/ /\ Len(tokens) = LIT_BUFSIZE - 1 \/ Len(tokens) % GUESS = 0
         /\ FLUSH_BLOCK(d, tokens, FALSE) /\ block' = <<>>
         /\ fill_window([e EXCEPT !.block_start = d.strstart])
      \/ /\ Len(tokens) # LIT_BUFSIZE - 1
         /\ block' = tokens /\ fill_window(e) /\ UNCHANGED out

(***************************************************************************)
(* One turn of the loop of deflate.                                        *)
(***************************************************************************)
\* What is found at strstart: the state, the head of its chain, the length.
Found ==
  LET ins == INSERT_STRING(ds, ds.strstart)
      d == IF ds.lookahead >= MIN_MATCH THEN ins.ds ELSE ds
      h == IF ds.lookahead >= MIN_MATCH THEN ins.head ELSE hash_head
      e == [d EXCEPT !.nice_match = Min({@, d.lookahead})]
      m == longest_match(e, h, match_length)
      len == Min({m.len, d.lookahead})
      far == len = MIN_MATCH /\ d.strstart - m.start > TOO_FAR
  IN  IF h # NIL /\ match_length < max_lazy_match /\ d.strstart - h \in 0..MAX_DIST
      THEN [ds |-> [e EXCEPT !.match_start = m.start], head |-> h,
            len |-> IF far THEN MIN_MATCH - 1 ELSE len]
      ELSE [ds |-> d, head |-> h, len |-> MIN_MATCH - 1]

Literal == <<0, ds.window[ds.strstart - 1]>>

Advance(d) == [d EXCEPT !.strstart = @ + 1, !.lookahead = @ - 1]

\* The match put off at the last turn is as good as this one: emit it.
EmitMatch(f) ==
  LET skipped == ds.strstart..(ds.strstart + match_length - 2)
      inserted == {s \in skipped : s > ds.strstart /\ s <= ds.strstart + ds.lookahead - MIN_MATCH}
      r == FoldLeft(LAMBDA a, s : INSERT_STRING(a.ds, s), [ds |-> f.ds, head |-> f.head],
                    SetToSortSeq(inserted, <))
      d == [r.ds EXCEPT !.strstart = @ + match_length - 1, !.lookahead = @ - (match_length - 1)]
  IN  /\ match_length >= MIN_MATCH /\ f.len <= match_length
      /\ Tally(<<ds.strstart - 1 - ds.match_start, match_length>>, d, d)
      /\ hash_head' = r.head /\ match_available' = FALSE /\ match_length' = MIN_MATCH - 1

\* This one is better, or there was none: the byte before is a literal.
EmitLiteral(f) ==
  /\ ~(match_length >= MIN_MATCH /\ f.len <= match_length) /\ match_available
  /\ Tally(Literal, f.ds, Advance(f.ds))
  /\ hash_head' = f.head /\ match_length' = f.len /\ UNCHANGED match_available

PutOff(f) ==
  /\ ~(match_length >= MIN_MATCH /\ f.len <= match_length) /\ ~match_available
  /\ fill_window(Advance(f.ds))
  /\ hash_head' = f.head /\ match_length' = f.len /\ match_available' = TRUE
  /\ UNCHANGED <<block, out>>

Turn ==
  /\ pc = "deflate" /\ ds.lookahead # 0
  /\ EmitMatch(Found) \/ EmitLiteral(Found) \/ PutOff(Found)
  /\ UNCHANGED <<input, pc>>

Finish ==
  /\ pc = "deflate" /\ ds.lookahead = 0
  /\ pc' = "done" /\ block' = <<>>
  /\ FLUSH_BLOCK(ds, IF match_available THEN Append(block, Literal) ELSE block, TRUE)
  /\ UNCHANGED <<input, ired, ds, hash_head, match_available, match_length>>

Next == lm_init \/ Turn \/ Finish

Spec == Init /\ [][Next]_vars

(***************************************************************************)
(* Properties.                                                             *)
(***************************************************************************)
\* What a decoder makes of tokens after the bytes s.
Expand(s, tokens) ==
  FoldLeft(LAMBDA a, t : IF t[1] = 0 THEN Append(a, t[2])
                         ELSE a \o [k \in 1..t[2] |-> a[Len(a) - t[1] + 1 + ((k - 1) % t[1])]],
           s, tokens)

AllTokens == FlattenSeq([k \in DOMAIN out |-> out[k].tokens]) \o block

\* However the reads cut the file and whenever the window slides, the tokens
\* sent so far stand for the bytes passed so far, none lost and none twice;
\* no match reaches beyond what a decoder keeps; and a block that is stored
\* holds the bytes that its tokens stand for, or is not offered.
DeflateExact ==
  /\ \A k \in DOMAIN AllTokens : AllTokens[k][1] \in 0..MAX_DIST
  /\ Expand(<<>>, AllTokens) =
       SubSeq(input, 1, ired - ds.lookahead - (IF match_available /\ pc # "done" THEN 1 ELSE 0))
  /\ pc = "done" => ired = Len(input)
  /\ \A k \in DOMAIN out :
       LET before == FlattenSeq([j \in 1..(k - 1) |-> out[j].tokens])
       IN  \A buf \in out[k].buf :
             Expand(<<>>, before \o out[k].tokens) = Expand(<<>>, before) \o buf
=============================================================================
