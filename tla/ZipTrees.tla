------------------------------ MODULE ZipTrees ------------------------------
(***************************************************************************)
(* include/zip: the dynamic trees of a deflate block, from the frequencies *)
(* to the bits (zip.cpp) and from the bits to the symbols (unzip.cpp).     *)
(*                                                                         *)
(* A block has a literal tree and a distance tree; extra bits are left     *)
(* out, so that every code stands for itself.  A bit string is a sequence  *)
(* of bytes, and a byte is what PUTSHORT and PUTBYTE put.                  *)
(***************************************************************************)
EXTENDS Integers, Sequences, FiniteSetsExt, SequencesExt

CONSTANTS
  MAX_BITS, MAX_BL_BITS,    \* 15 and 7
  MaxZeros,                 \* 138: zeros in one repeat
  LFreqs, DFreqs,           \* the frequencies of a block: sequences, code 0 first
  LookupBits                \* 9 and 6: the bits that the first table decodes

VARIABLES
  lfreq, dfreq, bits,
  ltree, dtree, bltree, max_blindex,
  bytes,                    \* the block that is sent
  got,                      \* the symbols that are read
  pc

vars == <<lfreq, dfreq, bits, ltree, dtree, bltree, max_blindex, bytes, got, pc>>

REP_3_6 == 16
REPZ_3_10 == 17
REPZ_11_138 == 18
BL_CODES == 19
bl_order == <<16, 17, 18, 0, 8, 7, 9, 6, 10, 5, 11, 4, 12, 3, 13, 2, 14, 1, 15>>
Buf_size == 16

None == [len |-> <<>>]

\* 9 bits for 286 literals, 6 for 30 distances: two tables hold the longest
\* code, or there are too few codes to fill what a code of a third would skip.
Proportioned(freq) ==
  2 * bits >= MAX_BITS \/ Cardinality({k \in DOMAIN freq : freq[k] # 0}) < 2^(bits + 1)

Init ==
  /\ lfreq \in LFreqs /\ dfreq \in DFreqs /\ bits \in LookupBits
  /\ Proportioned(lfreq) /\ Proportioned(dfreq)
  /\ ltree = None /\ dtree = None /\ bltree = None /\ max_blindex = 0
  /\ bytes = <<>> /\ got = <<>> /\ pc = "build_tree"

(***************************************************************************)
(* build_tree.  The heap is a sequence; what it has given up, the most     *)
(* frequent first, is `sorted'.  Inner nodes are numbered from elems on.   *)
(***************************************************************************)
smaller(t, n, m) ==
  t.freq[n] < t.freq[m] \/ (t.freq[n] = t.freq[m] /\ t.depth[n] <= t.depth[m])

pqdownheap(t, k) ==
  LET v == t.heap[k]
      down[h \in Seq(Nat), i \in Nat] ==
        LET left == 2 * i
            j == IF left < Len(h) /\ smaller(t, h[left + 1], h[left]) THEN left + 1 ELSE left
        IN  IF left > Len(h) \/ smaller(t, v, h[j]) THEN [h EXCEPT ![i] = v]
            ELSE down[[h EXCEPT ![i] = h[j]], j]
  IN  [t EXCEPT !.heap = down[t.heap, k]]

\* At least two codes: the ones that are forced cost nothing.
ForceOne(t) ==
  LET new == IF t.max_code < 2 THEN t.max_code + 1 ELSE 0
  IN  IF Len(t.heap) >= 2 THEN t
      ELSE [t EXCEPT !.heap = Append(@, new), !.max_code = IF @ < 2 THEN @ + 1 ELSE @,
                     !.freq[new] = 1, !.opt_len = @ - 1]

ForceTwo(t) == ForceOne(ForceOne(t))

\* The two least frequent nodes, n and the top of the heap, get a father.
Father(t, n) ==
  LET m == t.heap[1]
  IN  pqdownheap([t EXCEPT !.sorted = <<m, n>> \o @,
                           !.freq[t.node] = t.freq[n] + t.freq[m],
                           !.depth[t.node] = Max({t.depth[n], t.depth[m]}) + 1,
                           !.dad[n] = t.node, !.dad[m] = t.node,
                           !.heap[1] = t.node, !.node = @ + 1], 1)

Combine(t) == Father(pqdownheap([t EXCEPT !.heap = Front(<<Last(@)>> \o Tail(@))], 1), t.heap[1])

Times(n) == [k \in 1..n |-> k]

\* gen_bitlen, first pass: lengths from the root down, cut at max_length.
CutLengths(t, max_length) ==
  FoldLeft(LAMBDA a, n :
             LET b == a.len[a.dad[n]] + 1
                 cut == Min({b, max_length})
             IN  [a EXCEPT !.len[n] = cut, !.overflow = IF b > max_length THEN @ + 1 ELSE @,
                           !.bl_count = IF n > a.max_code THEN @ ELSE [@ EXCEPT ![cut] = @ + 1],
                           !.opt_len = IF n > a.max_code THEN @ ELSE @ + a.freq[n] * cut],
           [t EXCEPT !.len[t.sorted[1]] = 0], Tail(t.sorted))

\* Mutant: a leaf that moves down is taken to settle one code, not two.
RebalanceOne(t, max_length) ==
  LET down[c \in [0..MAX_BITS -> Int], over \in Int] ==
        LET b == Max({k \in 1..(max_length - 1) : c[k] # 0})
            d == [c EXCEPT ![b] = @ - 1, ![b + 1] = @ + 2]
        IN  IF over <= 0 THEN c ELSE down[[d EXCEPT ![max_length] = @ - 1], over - 1]
  IN  down[t.bl_count, t.overflow]

\* While there is overflow, a leaf moves down and takes one as its brother.
Rebalance(t, max_length) ==
  LET down[c \in [0..MAX_BITS -> Int], over \in Int] ==
        LET b == Max({k \in 1..(max_length - 1) : c[k] # 0})
            d == [c EXCEPT ![b] = @ - 1, ![b + 1] = @ + 2]
        IN  IF over <= 0 THEN c ELSE down[[d EXCEPT ![max_length] = @ - 1], over - 2]
  IN  down[t.bl_count, t.overflow]

\* The lengths again, the least frequent leaf first.
Recompute(t, max_length) ==
  LET c == Rebalance(t, max_length)
      leaves == Reverse(SelectSeq(t.sorted, LAMBDA n : n <= t.max_code))
      longer(b) == FoldSet(LAMBDA k, s : s + c[k], 0, (b + 1)..max_length)
      new(j) == CHOOSE b \in 1..max_length : longer(b) < j /\ j <= longer(b) + c[b]
  IN  FoldLeft(LAMBDA a, j : [a EXCEPT !.len[leaves[j]] = new(j),
                                       !.opt_len = @ + (new(j) - a.len[leaves[j]]) * a.freq[leaves[j]]],
               [t EXCEPT !.bl_count = c], Times(Len(leaves)))

gen_bitlen(t, max_length) ==
  LET settled(u) == IF u.overflow = 0 THEN u ELSE Recompute(u, max_length)
  IN  settled(CutLengths(t, max_length))

bi_reverse(code, len) ==
  FoldSet(LAMBDA k, s : s + ((code \div 2^k) % 2) * 2^(len - 1 - k), 0, 0..(len - 1))

gen_codes(t) ==
  LET next[b \in 0..MAX_BITS] == IF b = 0 THEN 0 ELSE 2 * (next[b - 1] + t.bl_count[b - 1])
      used == {n \in 0..t.max_code : t.len[n] # 0}
      rank(n) == Cardinality({k \in used : k < n /\ t.len[k] = t.len[n]})
  IN  [t EXCEPT !.code = [n \in 0..t.max_code |->
                            IF n \in used THEN bi_reverse(next[t.len[n]] + rank(n), t.len[n]) ELSE 0]]

Heaped(t) == FoldLeft(pqdownheap, t, Reverse(Times(Len(t.heap) \div 2)))

build_tree(freq, max_length) ==
  LET elems == Len(freq)
      nodes == 0..(2 * elems)
      used == SelectSeq([k \in 1..elems |-> k - 1], LAMBDA n : freq[n + 1] # 0)
      zero == [n \in nodes |-> 0]
      t == [heap |-> used, sorted |-> <<>>, node |-> elems, overflow |-> 0, opt_len |-> 0,
            freq |-> [n \in nodes |-> IF n < elems THEN freq[n + 1] ELSE 0],
            depth |-> zero, dad |-> zero, len |-> zero, code |-> zero,
            bl_count |-> [b \in 0..MAX_BITS |-> 0],
            max_code |-> IF used = <<>> THEN -1 ELSE Last(used)]
      joined(u) == FoldLeft(LAMBDA a, k : Combine(a), u, Times(Len(u.heap) - 1))
      rooted(u) == [u EXCEPT !.sorted = u.heap \o @]
  IN  gen_codes(gen_bitlen(rooted(joined(Heaped(ForceTwo(t)))), max_length))

(***************************************************************************)
(* The lengths as runs: the loop that scan_tree and send_tree share, and   *)
(* what each of them makes of a run <<length before, length, count>>.      *)
(***************************************************************************)
Limits(curlen, nextlen) ==
  IF nextlen = 0 THEN <<MaxZeros, 3>> ELSE IF curlen = nextlen THEN <<6, 3>> ELSE <<7, 4>>

Runs(t) ==
  LET guarded(n) == IF n > t.max_code THEN -1 ELSE t.len[n]
      step(a, n) ==
        LET curlen == guarded(n)
            nextlen == guarded(n + 1)
            count == a.count + 1
        IN  IF count < a.limits[1] /\ curlen = nextlen THEN [a EXCEPT !.count = count]
            ELSE [count |-> 0, prevlen |-> curlen, limits |-> Limits(curlen, nextlen),
                  runs |-> Append(a.runs, [prev |-> a.prevlen, len |-> curlen, count |-> count,
                                           min |-> a.limits[2]])]
  IN  FoldLeft(step, [count |-> 0, prevlen |-> -1, limits |-> Limits(-1, guarded(0)), runs |-> <<>>],
               [k \in 1..(t.max_code + 1) |-> k - 1]).runs

scan_tree(freq, t) ==
  LET bump(f, c, n) == [f EXCEPT ![c + 1] = @ + n]
      step(f, r) ==
        IF r.count < r.min THEN bump(f, r.len, r.count)
        ELSE IF r.len # 0 THEN bump(IF r.len # r.prev THEN bump(f, r.len, 1) ELSE f, REP_3_6, 1)
        ELSE bump(f, IF r.count <= 10 THEN REPZ_3_10 ELSE REPZ_11_138, 1)
  IN  FoldLeft(step, freq, Runs(t))

\* A sequence of codes <<code>> and of numbers <<value, width>>.
send_tree(t) ==
  LET step(s, r) ==
        IF r.count < r.min THEN s \o [k \in 1..r.count |-> <<r.len>>]
        ELSE IF r.len # 0
        THEN s \o (IF r.len # r.prev THEN <<<<r.len>>, <<REP_3_6>>, <<r.count - 4, 2>>>>
                   ELSE <<<<REP_3_6>>, <<r.count - 3, 2>>>>)
        ELSE s \o (IF r.count <= 10 THEN <<<<REPZ_3_10>>, <<r.count - 3, 3>>>>
                   ELSE <<<<REPZ_11_138>>, <<r.count - 11, 7>>>>)
  IN  FoldLeft(step, <<>>, Runs(t))

(***************************************************************************)
(* The bits.                                                               *)
(***************************************************************************)
PUTSHORT(s, v) == [s EXCEPT !.out = @ \o <<v % 256, (v \div 256) % 256>>]

send_bits(s, value, length) ==
  LET buf == s.bi_buf + value * 2^s.bi_valid
      valid == s.bi_valid + length
  IN  IF valid > Buf_size
      THEN [PUTSHORT(s, buf) EXCEPT !.bi_valid = valid - Buf_size, !.bits_sent = @ + length,
                                    !.bi_buf = value \div 2^(length - (valid - Buf_size))]
      ELSE [s EXCEPT !.bi_buf = buf, !.bi_valid = valid, !.bits_sent = @ + length]

send_code(s, c, t) == send_bits(s, t.code[c], t.len[c])

bi_windup(s) ==
  LET u == IF s.bi_valid > 8 THEN PUTSHORT(s, s.bi_buf)
           ELSE IF s.bi_valid > 0 THEN [s EXCEPT !.out = Append(@, s.bi_buf % 256)] ELSE s
  IN  [u EXCEPT !.bi_buf = 0, !.bi_valid = 0]

NewBits == [bi_buf |-> 0, bi_valid |-> 0, bits_sent |-> 0, out |-> <<>>]

Sent(s, items, t) ==
  FoldLeft(LAMBDA a, x : IF Len(x) = 1 THEN send_code(a, x[1], t) ELSE send_bits(a, x[1], x[2]), s, items)

send_all_trees(s) ==
  LET counts == <<<<ltree.max_code, 5>>, <<dtree.max_code, 5>>, <<max_blindex + 1 - 4, 4>>>>
      lens == [k \in 1..(max_blindex + 1) |-> <<bltree.len[bl_order[k]], 3>>]
  IN  Sent(s, counts \o lens \o send_tree(ltree) \o send_tree(dtree), bltree)

\* The symbols of the block: every code as often as its frequency says.
Symbols(freq) == FlattenSeq([k \in DOMAIN freq |-> [j \in 1..freq[k] |-> k - 1]])

compress_block(s) ==
  Sent(Sent(s, [k \in DOMAIN Symbols(lfreq) |-> <<Symbols(lfreq)[k]>>], ltree),
       [k \in DOMAIN Symbols(dfreq) |-> <<Symbols(dfreq)[k]>>], dtree)

(***************************************************************************)
(* huft_build.  The tables lie one after the other in hp; an entry has the *)
(* bits to drop, the bits of the next table or 0, and the symbol or the    *)
(* way to the next table.                                                  *)
(***************************************************************************)
Invalid == [bits |-> 0, exop |-> -1, base |-> 0]

\* The size of a new table, in bits, for codes of k bits from bit w on.
TableBits(c, l, g, k, w, a) ==
  LET z == Min({g - w, l})
      try[j \in Nat, f \in Int] ==
        IF j + 1 >= z THEN z
        ELSE IF 2 * f <= c[w + j + 1] THEN j + 1 ELSE try[j + 1, 2 * f - c[w + j + 1]]
  IN  IF 2^(k - w) > a + 1 /\ k - w < z THEN try[k - w, 2^(k - w) - (a + 1)] ELSE k - w

NewTable(s, c, l, g, k, a) ==
  LET w == s.w + l
      j == TableBits(c, l, g, k, w, a)
      q == Len(s.hp)
      from == s.u[Len(s.u)] + (s.i \div 2^(w - l))
      hp == s.hp \o [n \in 1..2^j |-> Invalid]
  IN  [s EXCEPT !.w = w, !.q = q, !.z = 2^j, !.u = Append(@, q), !.x = Append(@, s.i),
                !.hp = IF s.u = <<>> THEN hp
                       ELSE [hp EXCEPT ![from + 1] = [bits |-> l, exop |-> j, base |-> q - from]]]

\* The k-bit code i, its bits reversed, plus one.
Incremented(i, k) ==
  LET zeros == {b \in 0..(k - 1) : (i \div 2^b) % 2 = 0}
  IN  IF zeros = {} THEN 0 ELSE (i % 2^Max(zeros)) + 2^Max(zeros)

\* The tables that a code of k bits needs.
NewTables(s, c, l, g, k, a) ==
  FoldLeft(LAMBDA t, n : IF k > t.w + l THEN NewTable(t, c, l, g, k, a) ELSE t, s, Times(k))

\* The entries of a code of k bits in the last table.
FillIn(s, v, k) ==
  LET r == [bits |-> k - s.w, exop |-> IF s.p > Len(v) THEN -1 ELSE 0,
            base |-> IF s.p > Len(v) THEN 0 ELSE v[s.p]]
      slots == {j \in 0..(s.z - 1) : j % 2^(k - s.w) = s.i \div 2^s.w}
  IN  [s EXCEPT !.hp = [n \in DOMAIN @ |-> IF n - 1 - s.q \in slots THEN r ELSE @[n]],
                !.p = @ + 1, !.i = Incremented(@, k)]

\* Back up over the tables that are full.
BackUp(s, l) ==
  LET keep == Max({h \in 1..Len(s.u) : s.i % 2^(l * (h - 1)) = s.x[h]})
  IN  [s EXCEPT !.w = l * (keep - 1), !.u = SubSeq(@, 1, keep), !.x = SubSeq(@, 1, keep)]

\* One code of k bits, with a more of that length to come.
PutCode(s, c, l, g, v, k, a) == BackUp(FillIn(NewTables(s, c, l, g, k, a), v, k), l)

\* The tables for the symbols v in the order of their codes, of which there
\* are c[b] with b bits, the first table for l bits and the last code of g.
Tables(v, c, l, g) ==
  LET codes == FlattenSeq([b \in 1..g |-> [j \in 1..c[b] |-> <<b, c[b] - j>>]])
      s0 == [hp |-> <<>>, u |-> <<>>, x |-> <<>>, w |-> -l, q |-> 0, z |-> 0, i |-> 0, p |-> 1]
  IN  FoldLeft(LAMBDA s, x : PutCode(s, c, l, g, v, x[1], x[2]), s0, codes).hp

huft_build(len, m) ==
  LET n == Len(len)
      c == [b \in 0..MAX_BITS |-> Cardinality({k \in 1..n : len[k] = b})]
      there == {b \in 1..MAX_BITS : c[b] # 0}
      g == Max(there)
      l == Min({Max({m, Min(there)}), g})
      left[b \in 0..MAX_BITS] == IF b = 0 THEN 1 ELSE 2 * left[b - 1] - c[b]
      v == FlattenSeq([b \in 1..MAX_BITS |->
             SelectSeq([k \in 1..n |-> k - 1], LAMBDA k : len[k + 1] = b)])
  IN  IF there = {} THEN [err |-> "Z_OK", bits |-> 0, hp |-> <<>>]
      ELSE IF \E b \in 1..g : left[b] < 0 THEN [err |-> "Z_DATA_ERROR", bits |-> l, hp |-> <<>>]
      ELSE [err |-> IF left[g] # 0 /\ g # 1 THEN "Z_BUF_ERROR" ELSE "Z_OK", bits |-> l,
            hp |-> Tables(v, [c EXCEPT ![g] = @ + left[g]], l, g)]

(***************************************************************************)
(* Reading.  A reader has a position in the bits; bytes beyond the block   *)
(* belong to what follows it.                                              *)
(***************************************************************************)
Bit(p) == IF p \div 8 < Len(bytes) THEN (bytes[(p \div 8) + 1] \div 2^(p % 8)) % 2 ELSE 0

NEEDBITS(p, j) == FoldSet(LAMBDA k, s : s + Bit(p + k) * 2^k, 0, 0..(j - 1))

\* LEN and DIST: the symbol at p, and the position after it.
Lookup(t, p) ==
  LET look[at \in Nat, need \in Nat, q \in Nat] ==
        LET n == at + NEEDBITS(q, need)
            e == t.hp[n + 1]
        IN  IF e.exop <= 0 THEN [symbol |-> IF e.exop = 0 THEN e.base ELSE -1, p |-> q + e.bits]
            ELSE look[n + e.base, e.exop, q + e.bits]
  IN  look[0, t.bits, p]

\* IBM_BTREE
ReadBlens(p, n) ==
  [k \in 1..BL_CODES |->
     LET rank == CHOOSE r \in 1..BL_CODES : bl_order[r] = k - 1
     IN  IF rank <= n THEN NEEDBITS(p + 3 * (rank - 1), 3) ELSE 0]

\* IBM_DTREE: total lengths, of both trees, or as many as there are before
\* an invalid repeat.
ReadLens(t, start, total) ==
  LET read[lens \in Seq(Nat), p \in Nat] ==
        LET s == Lookup(t, p)
            extra == IF s.symbol = REP_3_6 THEN 2 ELSE IF s.symbol = REPZ_3_10 THEN 3 ELSE 7
            n == NEEDBITS(s.p, extra) + IF s.symbol = REPZ_11_138 THEN 11 ELSE 3
            again == IF s.symbol = REP_3_6 THEN Last(lens) ELSE 0
        IN  IF Len(lens) = total THEN [lens |-> lens, p |-> p]
            ELSE IF s.symbol \in 0..15 THEN read[Append(lens, s.symbol), s.p]
            ELSE IF Len(lens) + n > total \/ (s.symbol = REP_3_6 /\ lens = <<>>) THEN [lens |-> lens, p |-> p]
            ELSE read[lens \o [k \in 1..n |-> again], s.p + extra]
  IN  read[<<>>, start]

ReadSymbols(t, start, n) ==
  FoldLeft(LAMBDA a, k : LET s == Lookup(t, a.p) IN [p |-> s.p, symbols |-> Append(a.symbols, s.symbol)],
           [p |-> start, symbols |-> <<>>], Times(n))

(***************************************************************************)
(* A block.                                                                *)
(***************************************************************************)
BuildTrees ==
  /\ pc = "build_tree" /\ pc' = "build_bl_tree"
  /\ ltree' = build_tree(lfreq, MAX_BITS) /\ dtree' = build_tree(dfreq, MAX_BITS)
  /\ UNCHANGED <<lfreq, dfreq, bits, bltree, max_blindex, bytes, got>>

build_bl_tree ==
  /\ pc = "build_bl_tree" /\ pc' = "send"
  /\ bltree' = build_tree(scan_tree(scan_tree([c \in 1..BL_CODES |-> 0], ltree), dtree), MAX_BL_BITS)
  /\ max_blindex' = Max({2} \union {k \in 3..(BL_CODES - 1) : bltree'.len[bl_order[k + 1]] # 0})
  /\ UNCHANGED <<lfreq, dfreq, bits, ltree, dtree, bytes, got>>

Send ==
  /\ pc = "send" /\ pc' = "read"
  /\ bytes' = bi_windup(compress_block(send_all_trees(NewBits))).out
  /\ UNCHANGED <<lfreq, dfreq, bits, ltree, dtree, bltree, max_blindex, got>>

Read ==
  /\ pc = "read" /\ pc' = "done"
  /\ \E nl \in {NEEDBITS(0, 5) + 1}, nd \in {NEEDBITS(5, 5) + 1}, nb \in {NEEDBITS(10, 4) + 4} :
     \E tb \in {huft_build(ReadBlens(14, nb), 7)} :
     \E r \in {ReadLens(tb, 14 + 3 * nb, nl + nd)} :
     \E tl \in {huft_build(SubSeq(r.lens, 1, nl), bits)},
        td \in {huft_build(SubSeq(r.lens, nl + 1, nl + nd), bits)} :
     \E l \in {ReadSymbols(tl, r.p, Len(Symbols(lfreq)))} :
     \E d \in {ReadSymbols(td, l.p, Len(Symbols(dfreq)))} :
       got' = [err |-> {tb.err, tl.err, td.err}, l |-> l.symbols, d |-> d.symbols, p |-> d.p]
  /\ UNCHANGED <<lfreq, dfreq, bits, ltree, dtree, bltree, max_blindex, bytes>>

Next == BuildTrees \/ build_bl_tree \/ Send \/ Read

Spec == Init /\ [][Next]_vars

(***************************************************************************)
(* Properties.                                                             *)
(***************************************************************************)
\* The least number of bits for the frequencies of a sequence.
HuffmanCost(freq) ==
  LET cost[f \in Seq(Nat)] ==
        LET s == SortSeq(f, <)
        IN  IF Len(f) < 2 THEN 0 ELSE s[1] + s[2] + cost[<<s[1] + s[2]>> \o SubSeq(s, 3, Len(s))]
      used == SelectSeq(freq, LAMBDA n : n # 0)
  IN  IF Len(used) = 1 THEN used[1] ELSE cost[used]

\* A tree is a complete code within the limit, it costs what opt_len says, and
\* the least that is possible when no length had to be cut.
Complete(t, freq, max_length) ==
  LET used == {n \in 0..t.max_code : t.len[n] # 0}
  IN  /\ \A n \in used : t.len[n] <= max_length
      /\ FoldSet(LAMBDA n, s : s + 2^(max_length - t.len[n]), 0, used) = 2^max_length
      /\ \A k \in DOMAIN freq : freq[k] # 0 => k - 1 \in used
      /\ t.opt_len = FoldSet(LAMBDA k, s : s + freq[k] * t.len[k - 1], 0, DOMAIN freq)
      /\ t.overflow = 0 => t.opt_len = HuffmanCost(freq)

\* Whatever the frequencies, the trees of a block are complete and as short as
\* they can be, and the block that is sent is read as it was meant: the same
\* lengths through the run lengths, the same symbols through the tables of
\* several levels, to the last bit.
BlockExact ==
  /\ pc # "build_tree" => Complete(ltree, lfreq, MAX_BITS) /\ Complete(dtree, dfreq, MAX_BITS)
  /\ pc = "done" =>
       /\ got.err = {"Z_OK"}
       /\ got.l = Symbols(lfreq) /\ got.d = Symbols(dfreq)
       /\ (got.p + 7) \div 8 = Len(bytes)
=============================================================================
