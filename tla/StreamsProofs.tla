--------------------------- MODULE StreamsProofs ---------------------------
(***************************************************************************)
(* Proofs about FileReader, Inflate, Md5 and ZipItems, for every size of   *)
(* file, chunk, window, buffer, block, word and archive.                   *)
(***************************************************************************)
EXTENDS MCStreams, SequenceTheorems, WellFoundedInduction, TLAPS

(***************************************************************************)
(* FileReader.  A file is read in chunks, closed and changed between any   *)
(* two reads.                                                              *)
(***************************************************************************)
ReaderTypes ==
  /\ data \in Seq(Letters) /\ got \in Seq(Letters)
  /\ st_size \in Nat /\ StreamPos \in 0..st_size
  /\ counted = StreamPos

\* What is trusted was never read past its end, so its stream has not failed.
TrustedInv ==
  trusted => /\ st_size = Len(data) /\ fs # "fail"
             /\ got = SubSeq(data, 1, StreamPos)

ReaderInv == ReaderTypes /\ TrustedInv

\* The contents that a file may have are sequences of bytes.
LEMMA ContentsType == MaxSize \in Nat => R!Contents \subseteq Seq(Letters)
<1> SUFFICES ASSUME MaxSize \in Nat, NEW n \in 0..MaxSize, NEW d \in [1..n -> Letters]
             PROVE  d \in Seq(Letters)
  BY DEF R!Contents
<1>1. n \in Nat
  OBVIOUS
<1> QED BY <1>1

\* The number of bytes that are there to be read.
LEMMA There ==
  ASSUME NEW a \in Int, NEW b \in Int
  PROVE  R!Max({0, R!Min({a, b})}) = IF a <= b THEN (IF a >= 0 THEN a ELSE 0)
                                           ELSE (IF b >= 0 THEN b ELSE 0)
<1> DEFINE m == IF a <= b THEN a ELSE b
<1>1. R!Min({a, b}) = m
  BY DEF R!Min
<1>2. R!Max({0, m}) = IF m >= 0 THEN m ELSE 0
  BY DEF R!Max
<1> QED BY <1>1, <1>2

\* Reading on where the last read ended gives the beginning of the file.
LEMMA ReadOn ==
  ASSUME NEW d \in Seq(Letters), NEW p \in Nat, NEW n \in Nat, p + n <= Len(d)
  PROVE  SubSeq(d, 1, p) \o [k \in 1..n |-> d[p + k]] = SubSeq(d, 1, p + n)
<1> DEFINE chunk == [k \in 1..n |-> d[p + k]]
<1>1. \A k \in 1..n : d[p + k] \in Letters
  OBVIOUS
<1>2. chunk \in Seq(Letters) /\ Len(chunk) = n /\ \A k \in 1..n : chunk[k] = d[p + k]
  BY <1>1
<1>3. /\ SubSeq(d, 1, p) \in Seq(Letters) /\ Len(SubSeq(d, 1, p)) = p
      /\ \A i \in 1..p : SubSeq(d, 1, p)[i] = d[i]
  OBVIOUS
<1>4. /\ SubSeq(d, 1, p + n) \in Seq(Letters) /\ Len(SubSeq(d, 1, p + n)) = p + n
      /\ \A i \in 1..(p + n) : SubSeq(d, 1, p + n)[i] = d[i]
  OBVIOUS
<1> HIDE DEF chunk
<1>5. ASSUME NEW i \in 1..(p + n) PROVE (SubSeq(d, 1, p) \o chunk)[i] = d[i]
  BY <1>2, <1>3
<1> QED BY <1>2, <1>3, <1>4, <1>5 DEF chunk

\* A read goes on where the last one ended.
LEMMA ReadStep ==
  ASSUME ReaderInv, NEW n \in Nat, R!Read(n)
  PROVE  ReaderInv'
<1> DEFINE r == R!ReadCount(n)
           there == R!Max({0, R!Min({r, Len(data) - StreamPos})})
           chunk == [k \in 1..there |-> data[StreamPos + k]]
<1> USE DEF ReaderInv
<1>1. r \in Nat /\ StreamPos + r <= st_size /\ StreamPos \in Nat /\ Len(data) \in Nat
  BY DEF ReaderTypes, R!ReadCount
<1>2. CASE r = 0
  BY <1>2 DEF R!Read, R!vars, ReaderTypes, TrustedInv
<1>3. CASE r # 0
  <2>1. /\ got' = IF fs = "fail" THEN got ELSE got \o chunk
        /\ fs' = IF fs = "fail" \/ Len(chunk) < r THEN "fail" ELSE "good"
        /\ StreamPos' = StreamPos + r /\ counted' = counted + r
        /\ data' = data /\ st_size' = st_size /\ trusted' = trusted
    BY <1>3 DEF R!Read
  <2>2. /\ there \in Nat /\ there <= r /\ (there = 0 \/ StreamPos + there <= Len(data))
        /\ StreamPos + r <= Len(data) => there = r
    BY <1>1, There
  <2> HIDE DEF r, there
  <2>3. \A k \in 1..there : data[StreamPos + k] \in Letters
    BY <1>1, <2>2 DEF ReaderTypes
  <2>4. chunk \in Seq(Letters) /\ Len(chunk) = there
    BY <2>2, <2>3
  <2>5. ASSUME trusted PROVE got \o chunk = SubSeq(data, 1, StreamPos + r) /\ Len(chunk) = r
    <3>1. there = r /\ StreamPos + r <= Len(data) /\ got = SubSeq(data, 1, StreamPos)
      BY <1>1, <2>2, <2>5 DEF TrustedInv
    <3>2. data \in Seq(Letters)
      BY DEF ReaderTypes
    <3>3. SubSeq(data, 1, StreamPos) \o chunk = SubSeq(data, 1, StreamPos + there)
      BY <1>1, <2>2, <3>1, <3>2, ReadOn
    <3> QED BY <2>4, <3>1, <3>3
  <2> HIDE DEF chunk
  <2>6. ReaderTypes'
    <3>1. got' \in Seq(Letters)
      BY <2>1, <2>4 DEF ReaderTypes
    <3> QED BY <1>1, <2>1, <3>1 DEF ReaderTypes
  <2>7. TrustedInv'
    BY <1>1, <2>1, <2>5 DEF TrustedInv
  <2> QED BY <2>6, <2>7
<1> QED BY <1>2, <1>3

\* The chunks of a file that nobody changes are its bytes in order, whatever
\* their sizes and however often the object is closed in between; and Read
\* never counts more than the size that the object began with.
THEOREM InOrder == AllSpec => []ChunksInOrder
<1> USE ReaderAssumption
<1>1. AllInit => ReaderInv
  <2> SUFFICES ASSUME R!Init PROVE ReaderInv
    BY DEF AllInit
  <2>1. data \in Seq(Letters) /\ Len(data) \in Nat
    BY ContentsType DEF R!Init
  <2>2. st_size \in Nat /\ (trusted => st_size = Len(data))
    BY <2>1 DEF R!Init
  <2> QED BY <2>1, <2>2 DEF R!Init, ReaderInv, ReaderTypes, TrustedInv
<1>2. ReaderInv /\ [AllNext]_allVars => ReaderInv'
  <2> SUFFICES ASSUME ReaderInv, [AllNext]_allVars PROVE ReaderInv'
    OBVIOUS
  <2>1. ASSUME NEW n \in 0..MaxRead, R!Read(n) PROVE ReaderInv'
    BY <2>1, ReadStep
  <2>2. CASE R!Close
    BY <2>2 DEF R!Close, ReaderInv, ReaderTypes, TrustedInv
  <2>3. ASSUME NEW d \in R!Contents, R!Change(d) PROVE ReaderInv'
    BY <2>3, ContentsType DEF R!Change, ReaderInv, ReaderTypes, TrustedInv
  <2>4. CASE UNCHANGED readerVars
    BY <2>4 DEF readerVars, ReaderInv, ReaderTypes, TrustedInv
  <2>5. R!Next \/ UNCHANGED readerVars
    BY DEF AllNext, allVars, Md5Next, ReaderNext, DeflateNext, InflateNext, TreesNext,
           ArchiveNext, ItemsNext
  <2> QED BY <2>1, <2>2, <2>3, <2>4, <2>5 DEF R!Next
<1>3. ReaderInv => ChunksInOrder
  BY DEF ReaderInv, ReaderTypes, TrustedInv, ChunksInOrder, R!ChunksInOrder
<1> QED BY <1>1, <1>2, <1>3, PTL DEF AllSpec

(***************************************************************************)
(* Remainders, and induction over a set of numbers.                        *)
(***************************************************************************)
\* A quotient and a remainder are unique.
LEMMA DivModUnique ==
  ASSUME NEW n \in Nat \ {0}, NEW q \in Int, NEW r \in 0..(n - 1), NEW x \in Int, x = n * q + r
  PROVE  x \div n = q /\ x % n = r
<1> DEFINE p == x \div n
           s == x % n
<1>1. p \in Int /\ s \in 0..(n - 1) /\ x = n * p + s
  OBVIOUS
<1> HIDE DEF p, s
<1>2. n * (q - p) = s - r
  BY <1>1
<1>3. ASSUME NEW e \in Int, e >= 1 PROVE n * e >= n
  BY <1>3
<1>4. ~(q - p >= 1)
  <2> SUFFICES ASSUME q - p >= 1 PROVE FALSE
    OBVIOUS
  <2>1. n * (q - p) >= n
    BY <1>1, <1>3
  <2> QED BY <1>1, <1>2, <2>1
<1>5. ~(p - q >= 1)
  <2> SUFFICES ASSUME p - q >= 1 PROVE FALSE
    OBVIOUS
  <2>1. n * (p - q) >= n
    BY <1>1, <1>3
  <2>2. n * (p - q) = r - s
    BY <1>1
  <2> QED BY <1>1, <2>1, <2>2
<1>6. q = p
  BY <1>1, <1>4, <1>5
<1>7. s = r
  BY <1>1, <1>6
<1> QED BY <1>6, <1>7 DEF p, s

\* A number of n more has the same remainder by n.
LEMMA ModPlus ==
  ASSUME NEW x \in Int, NEW n \in Nat \ {0}
  PROVE  (x + n) % n = x % n
<1> DEFINE q == x \div n
           r == x % n
<1>1. q \in Int /\ r \in 0..(n - 1) /\ x = n * q + r
  OBVIOUS
<1> HIDE DEF q, r
<1>2. x + n = n * (q + 1) + r
  BY <1>1
<1>3. (x + n) % n = r
  BY <1>1, <1>2, DivModUnique
<1> QED BY <1>3 DEF r

\* The remainders that the places in a window need: a number below n is its own,
LEMMA ModSmall == \A x, n \in Int : 0 <= x /\ x < n => x % n = x
OBVIOUS

\* a negative one is n more,
LEMMA ModNeg == \A x, n \in Int : -n <= x /\ x < 0 /\ n > 0 => x % n = x + n
OBVIOUS

\* and one past n is n less.
LEMMA ModBig == \A x, n \in Int : n <= x /\ x < 2 * n /\ n > 0 => x % n = x - n
OBVIOUS

(***************************************************************************)
(* Inflate.                                                                *)
(***************************************************************************)
Windows ==
  [window : [0..(Size - 1) -> Letters], read : 0..Size, write : 0..Size, avail_out : Nat,
   bytes : Seq(Letters)]

\* The place in the window of the k-th byte before the write pointer.
Place(write, k) == IF k <= write THEN write - k ELSE write - k + Size

\* How much is in the window that the caller does not have.
Waiting(v) == IF v.read <= v.write THEN v.write - v.read ELSE Size - v.read + v.write

\* The caller and the window have the first p bytes of t.
Holds(v, t, p) ==
  /\ v \in Windows /\ p \in 0..Len(t)
  /\ Waiting(v) <= p /\ Len(v.bytes) = p - Waiting(v)
  /\ \A i \in 1..Len(v.bytes) : v.bytes[i] = t[i]
  /\ \A k \in 1..Size : k <= p => v.window[Place(v.write, k)] = t[p - k + 1]

\* Min of two numbers.
LEMMA MinOfTwo ==
  ASSUME NEW a \in Int, NEW b \in Int
  PROVE  I!Min({a, b}) = IF a <= b THEN a ELSE b
BY DEF I!Min

\* The k-th byte that waits is so many bytes back from the write pointer.
LEMMA PlaceOf ==
  ASSUME Size \in Nat, NEW rd \in 0..Size, NEW wr \in 0..Size, NEW wait \in Int, NEW k \in Nat,
         k >= 1, wait = IF rd <= wr THEN wr - rd ELSE Size - rd + wr,
         k <= IF rd <= wr THEN wr - rd ELSE Size - rd
  PROVE  wait - k + 1 \in 1..Size /\ Place(wr, wait - k + 1) = rd + k - 1
<1>1. CASE rd <= wr
  BY <1>1 DEF Place
<1>2. CASE rd > wr
  BY <1>2 DEF Place
<1> QED BY <1>1, <1>2

\* The end of what can be delivered at once.
EndOf(v) == IF v.read <= v.write THEN v.write ELSE Size

\* A delivery moves bytes from the window to the caller, in order.
LEMMA DeliverHolds ==
  ASSUME Size \in Nat \ {0}, NEW t \in Seq(Letters), NEW p, NEW v, Holds(v, t, p)
  PROVE  LET d == I!Deliver(v, EndOf(v))
         IN  /\ Holds(d, t, p) /\ d.write = v.write /\ d.read >= v.read
             /\ d.avail_out = 0 \/ d.read = EndOf(v)
             /\ v.avail_out = 0 => d.avail_out = 0 /\ d.read = v.read
             /\ v.read = EndOf(v) => d.read = v.read
             /\ d.read <= EndOf(v)
<1> DEFINE end == EndOf(v)
           n == IF end - v.read <= v.avail_out THEN end - v.read ELSE v.avail_out
           chunk == [k \in 1..n |-> v.window[v.read + k - 1]]
           d == I!Deliver(v, end)
<1>1. /\ v \in Windows /\ v.read \in 0..Size /\ v.write \in 0..Size /\ v.avail_out \in Nat
      /\ v.window \in [0..(Size - 1) -> Letters] /\ v.bytes \in Seq(Letters)
      /\ p \in Nat /\ Waiting(v) \in Nat /\ Len(v.bytes) \in Nat
  BY SMTT(30) DEF Holds, Windows, Waiting
<1>0. /\ v.read \in Int /\ v.write \in Int /\ 0 <= v.read /\ v.read <= Size /\ 0 <= v.write
      /\ v.write <= Size /\ p \in Int /\ Waiting(v) \in Int /\ Len(v.bytes) \in Int
      /\ Size \in Int
      /\ v.avail_out \in Nat
  BY <1>1
<1>2. end \in v.read..Size /\ end \in Nat
  BY <1>1 DEF EndOf
<1>3. I!Min({end - v.read, v.avail_out}) = n
  <2>1. end - v.read \in Int /\ v.avail_out \in Int
    BY <1>1, <1>2
  <2> HIDE DEF end
  <2> QED BY <2>1, MinOfTwo
<1>4. n \in 0..(end - v.read) /\ n <= v.avail_out
  BY <1>1, <1>2
<1>5. d = [v EXCEPT !.read = v.read + n, !.avail_out = v.avail_out - n,
                     !.bytes = v.bytes \o chunk]
  BY <1>3 DEF I!Deliver
<1> HIDE DEF n, end
<1>6. chunk \in Seq(Letters) /\ Len(chunk) = n
      /\ \A k \in 1..n : chunk[k] = v.window[v.read + k - 1]
  <2>1. \A k \in 1..n : v.read + k - 1 \in 0..(Size - 1)
    BY <1>1, <1>2, <1>4, SMTT(30)
  <2>2. \A k \in 1..n : v.window[v.read + k - 1] \in Letters
    BY <1>1, <2>1
  <2> QED BY <1>4, <2>2
<1>7. ASSUME NEW k \in 1..n PROVE chunk[k] = t[Len(v.bytes) + k]
  <2> DEFINE back == Waiting(v) - k + 1
  <2>0. /\ v.read \in 0..Size /\ v.write \in 0..Size /\ Waiting(v) \in Int /\ k \in Nat /\ k >= 1
        /\ Waiting(v) = IF v.read <= v.write THEN v.write - v.read ELSE Size - v.read + v.write
        /\ k <= IF v.read <= v.write THEN v.write - v.read ELSE Size - v.read
    BY <1>1, <1>2, <1>4 DEF Waiting, EndOf, end
  <2>1. back \in 1..Size /\ Place(v.write, back) = v.read + k - 1
    BY <2>0, PlaceOf
  <2>2. back <= p /\ p - back + 1 = Len(v.bytes) + k
    <3>1. Waiting(v) <= p /\ Len(v.bytes) = p - Waiting(v)
      BY DEF Holds
    <3> QED BY <1>0, <2>0, <3>1, SMTT(30)
  <2> HIDE DEF back
  <2> QED BY <1>6, <2>1, <2>2 DEF Holds
<1> HIDE DEF chunk, d
<1>8. v.bytes \o chunk \in Seq(Letters) /\ Len(v.bytes \o chunk) = Len(v.bytes) + n
  BY <1>1, <1>6, ConcatProperties
<1>9. ASSUME NEW i \in 1..(Len(v.bytes) + n) PROVE (v.bytes \o chunk)[i] = t[i]
  <2>1. CASE i <= Len(v.bytes)
    <3>1. (v.bytes \o chunk)[i] = v.bytes[i]
      BY <1>1, <1>6, <2>1, ConcatProperties
    <3> QED BY <1>1, <2>1, <3>1 DEF Holds
  <2>2. CASE i > Len(v.bytes)
    <3>1. i - Len(v.bytes) \in 1..n /\ Len(v.bytes) + (i - Len(v.bytes)) = i
      BY <1>1, <1>4, <2>2
    <3>2. (v.bytes \o chunk)[i] = chunk[i - Len(v.bytes)]
      BY <1>1, <1>4, <1>6, <2>2, ConcatProperties, SMTT(30)
    <3> DEFINE k == i - Len(v.bytes)
    <3> HIDE DEF k
    <3>3. chunk[k] = t[Len(v.bytes) + k]
      BY <1>7, <3>1 DEF k
    <3> QED BY <3>1, <3>2, <3>3 DEF k
  <2>3. i <= Len(v.bytes) \/ i > Len(v.bytes)
    BY <1>0, <1>4
  <2> QED BY <2>1, <2>2, <2>3
<1>10. /\ d.read = v.read + n /\ d.write = v.write /\ d.avail_out = v.avail_out - n
       /\ d.window = v.window /\ d.bytes = v.bytes \o chunk
  BY <1>1, <1>5 DEF Windows
<1>11. d \in Windows
  <2>1. v.read + n \in 0..Size /\ v.avail_out - n \in Nat
    BY <1>0, <1>2, <1>4, SMTT(30)
  <2> QED BY <1>1, <1>5, <1>8, <2>1 DEF Windows
<1>12. Waiting(d) = Waiting(v) - n
  <2>0. n \in Int /\ n <= end - v.read /\ end \in Int
    BY <1>2, <1>4
  <2>1. CASE v.read <= v.write
    <3>1. end = v.write
      BY <2>1 DEF EndOf, end
    <3>2. d.read <= d.write
      BY <1>0, <1>10, <2>0, <3>1
    <3>3. Waiting(d) = d.write - d.read /\ Waiting(v) = v.write - v.read
      BY <2>1, <3>2 DEF Waiting
    <3> QED BY <1>0, <1>10, <2>0, <3>3, SMTT(30)
  <2>2. CASE ~(v.read <= v.write)
    <3>1. ~(d.read <= d.write)
      BY <1>0, <1>10, <2>0, <1>4, <2>2
    <3>2. Waiting(d) = (Size - d.read) + d.write /\ Waiting(v) = (Size - v.read) + v.write
      BY <2>2, <3>1 DEF Waiting
    <3> QED BY <1>0, <1>10, <2>0, <3>2, SMTT(30)
  <2> QED BY <2>1, <2>2
<1>13. Holds(d, t, p)
  <2>1. Waiting(d) <= p /\ Len(d.bytes) = p - Waiting(d)
    <3>1. Waiting(v) <= p /\ Len(v.bytes) = p - Waiting(v) /\ n \in Nat
      BY <1>4 DEF Holds
    <3>2. Len(d.bytes) = Len(v.bytes) + n
      BY <1>8, <1>10
    <3> HIDE DEF d
    <3> QED BY <1>0, <1>12, <3>1, <3>2, SMTT(30)
  <2>2. \A i \in 1..Len(d.bytes) : d.bytes[i] = t[i]
    BY <1>8, <1>9, <1>10
  <2> QED BY <1>10, <1>11, <2>1, <2>2 DEF Holds
<1>14. /\ d.avail_out = 0 \/ d.read = end
       /\ v.avail_out = 0 => d.avail_out = 0 /\ d.read = v.read
       /\ v.read = end => d.read = v.read
       /\ d.read <= end /\ d.read >= v.read
  <2>1. n = IF end - v.read <= v.avail_out THEN end - v.read ELSE v.avail_out
    BY DEF n
  <2>2. /\ n \in Int /\ n >= 0 /\ n <= end - v.read /\ n <= v.avail_out /\ end \in Int
        /\ v.avail_out \in Int /\ v.avail_out >= 0
    BY <1>0, <1>2, <1>4
  <2>3. d.avail_out = v.avail_out - n /\ d.read = v.read + n
    BY <1>10
  <2>4. d.avail_out = 0 \/ d.read = end
    BY <1>0, <2>1, <2>2, <2>3
  <2>5. d.read <= end /\ d.read >= v.read
    BY <1>0, <2>2, <2>3
  <2>6. v.avail_out = 0 => d.avail_out = 0 /\ d.read = v.read
    BY <1>0, <2>2, <2>3
  <2>7. v.read = end => d.read = v.read
    BY <1>0, <2>2, <2>3
  <2> QED BY <2>4, <2>5, <2>6, <2>7
<1> QED BY <1>10, <1>13, <1>14 DEF d, end

\* A flush delivers all there is room for.
LEMMA FlushHolds ==
  ASSUME Size \in Nat \ {0}, NEW t \in Seq(Letters), NEW p, NEW v, Holds(v, t, p)
  PROVE  LET u == I!inflate_flush(v)
         IN  /\ Holds(u, t, p) /\ u.read \in 0..(Size - 1)
             /\ u.avail_out = 0 \/ u.read = u.write
             /\ v.avail_out = 0 => u.avail_out = 0
             /\ v.read = v.write => u.read = u.write
<1> DEFINE a == I!Deliver(v, EndOf(v))
           b == [a EXCEPT !.read = 0, !.write = IF a.write = Size THEN 0 ELSE a.write]
           c == I!Deliver(b, b.write)
           u == I!inflate_flush(v)
<1>1. u = IF a.read = Size THEN c ELSE a
  BY DEF I!inflate_flush, EndOf
<1>2. /\ Holds(a, t, p) /\ a.write = v.write /\ a.read >= v.read
      /\ a.avail_out = 0 \/ a.read = EndOf(v)
      /\ v.avail_out = 0 => a.avail_out = 0 /\ a.read = v.read
      /\ v.read = EndOf(v) => a.read = v.read
      /\ a.read <= EndOf(v)
  BY DeliverHolds
<1>3. v \in Windows /\ v.read \in 0..Size /\ v.write \in 0..Size
  BY DEF Holds, Windows
<1> HIDE DEF a, u, c
<1>4. /\ a \in Windows /\ a.read \in 0..Size /\ a.write \in 0..Size /\ p \in Nat
      /\ Waiting(a) \in Nat /\ Len(a.bytes) \in Nat
  <2>1. a \in Windows /\ p \in 0..Len(t)
    BY <1>2 DEF Holds
  <2>2. a.read \in 0..Size /\ a.write \in 0..Size /\ a.bytes \in Seq(Letters)
    BY <2>1 DEF Windows
  <2> QED BY <2>1, <2>2, SMTT(30) DEF Waiting
<1>5. CASE a.read # Size
  <2>1. u = a /\ a.read \in 0..(Size - 1)
    BY <1>1, <1>4, <1>5
  <2>2. a.avail_out = 0 \/ a.read = a.write
    BY <1>2, <1>3, <1>5 DEF EndOf
  <2>3. v.read = v.write => a.read = a.write
    BY <1>2, <1>3 DEF EndOf
  <2> QED BY <1>2, <2>1, <2>2, <2>3 DEF u
<1>6. CASE a.read = Size
  <2>1. b \in Windows
    <3>1. (IF a.write = Size THEN 0 ELSE a.write) \in 0..Size /\ 0 \in 0..Size
      BY <1>4
    <3> QED BY <1>4, <3>1 DEF Windows
  <2>2. /\ b.read = 0 /\ b.write = IF a.write = Size THEN 0 ELSE a.write
        /\ b.window = a.window /\ b.bytes = a.bytes /\ b.avail_out = a.avail_out
    BY <1>4 DEF Windows
  <2> HIDE DEF b
  <2>3. Waiting(b) = Waiting(a)
    BY <1>4, <1>6, <2>2 DEF Waiting
  <2>4. \A k \in 1..Size : Place(b.write, k) = Place(a.write, k)
    BY <1>4, <2>2 DEF Place
  <2>5. Holds(b, t, p)
    BY <1>2, <2>1, <2>2, <2>3, <2>4 DEF Holds
  <2>6. b.write \in 0..(Size - 1) /\ EndOf(b) = b.write
    BY <1>4, <2>2 DEF EndOf
  <2>7. /\ Holds(c, t, p) /\ c.write = b.write
        /\ c.avail_out = 0 \/ c.read = b.write
        /\ b.avail_out = 0 => c.avail_out = 0
        /\ b.read = b.write => c.read = b.read
        /\ c.read <= b.write
    BY <2>5, <2>6, DeliverHolds, ZenonT(60) DEF c
  <2>8. c.read \in 0..(Size - 1)
    <3>1. c.read \in 0..Size
      BY <2>7 DEF Holds, Windows
    <3> QED BY <2>6, <2>7, <3>1
  <2>9. v.read = v.write => b.read = b.write
    BY <1>2, <1>3, <1>6, <2>2 DEF EndOf
  <2> QED BY <1>1, <1>2, <1>6, <2>2, <2>7, <2>8, <2>9 DEF u
<1> QED BY <1>4, <1>5, <1>6

\* So does starting again at the beginning of the window.
LEMMA WrapHolds ==
  ASSUME Size \in Nat \ {0}, NEW t \in Seq(Letters), NEW p, NEW v, Holds(v, t, p),
         v.read \in 0..(Size - 1)
  PROVE  LET u == I!WRAP(v)
         IN  /\ Holds(u, t, p) /\ u.read = v.read /\ u.avail_out = v.avail_out
             /\ v.write # Size => u = v
<1> DEFINE u == I!WRAP(v)
<1>1. CASE ~(v.write = Size /\ v.read # 0)
  BY <1>1 DEF I!WRAP
<1>2. CASE v.write = Size /\ v.read # 0
  <2>1. u = [v EXCEPT !.write = 0]
    BY <1>2 DEF I!WRAP
  <2>2. v \in Windows /\ v.read \in 0..Size /\ v.write \in 0..Size
    BY DEF Holds, Windows
  <2>3. /\ u \in Windows /\ u.write = 0 /\ u.read = v.read /\ u.window = v.window
        /\ u.bytes = v.bytes /\ u.avail_out = v.avail_out
    BY <2>1, <2>2, SMTT(30) DEF Windows
  <2> HIDE DEF u
  <2>4. Waiting(u) = Waiting(v)
    BY <1>2, <2>2, <2>3 DEF Waiting
  <2>5. \A k \in 1..Size : Place(u.write, k) = Place(v.write, k)
    BY <1>2, <2>3 DEF Place
  <2>6. Holds(u, t, p)
    BY <2>3, <2>4, <2>5 DEF Holds
  <2> QED BY <1>2, <2>3, <2>6 DEF u
<1> QED BY <1>1, <1>2

\* Without room in the window after NEEDOUT, there is none with the caller.
LEMMA NeedoutHolds ==
  ASSUME Size \in Nat \ {0}, NEW t \in Seq(Letters), NEW p, NEW v, Holds(v, t, p),
         v.read \in 0..(Size - 1)
  PROVE  LET u == I!NEEDOUT(v)
         IN  /\ Holds(u, t, p) /\ u.read \in 0..(Size - 1)
             /\ I!WAVAIL(u) = 0 => u.avail_out = 0
<1> DEFINE a == IF I!WAVAIL(v) = 0 THEN I!WRAP(v) ELSE v
           f == I!inflate_flush(a)
           u == I!NEEDOUT(v)
<1>1. u = IF I!WAVAIL(a) = 0 THEN I!WRAP(f) ELSE a
  BY DEF I!NEEDOUT
<1>2. Holds(a, t, p) /\ a.read \in 0..(Size - 1)
  BY WrapHolds
<1> HIDE DEF a, u
<1>3. Holds(f, t, p) /\ f.read \in 0..(Size - 1) /\ (f.avail_out = 0 \/ f.read = f.write)
  BY <1>2, FlushHolds
<1> HIDE DEF f
<1>4. CASE I!WAVAIL(a) # 0
  BY <1>1, <1>2, <1>4 DEF u
<1>5. CASE I!WAVAIL(a) = 0
  <2>1. /\ Holds(u, t, p) /\ u.read = f.read /\ u.avail_out = f.avail_out
        /\ f.write # Size => u = f
    BY <1>1, <1>3, <1>5, WrapHolds
  <2>2. ASSUME f.read = f.write PROVE I!WAVAIL(u) # 0
    <3>1. u = f /\ f.write \in 0..(Size - 1)
      BY <1>3, <2>1, <2>2
    <3> QED BY <1>3, <2>2, <3>1 DEF I!WAVAIL
  <2> QED BY <1>3, <2>1, <2>2 DEF u
<1> QED BY <1>4, <1>5

\* The window after n bytes of the text t have been put into it.
Run(v, t, p, n) ==
  [v EXCEPT !.window = [j \in 0..(Size - 1) |-> IF v.write <= j /\ j < v.write + n
                                                THEN t[p + (j - v.write) + 1] ELSE v.window[j]],
            !.write = v.write + n]

\* With room for it, a run leaves everything else where it is needed.
LEMMA RunHolds ==
  ASSUME Size \in Nat \ {0}, NEW t \in Seq(Letters), NEW p \in Nat, NEW v, Holds(v, t, p),
         v.read \in 0..(Size - 1), NEW n \in Nat, p + n <= Len(t), I!WAVAIL(v) >= n
  PROVE  LET u == Run(v, t, p, n)
         IN  /\ Holds(u, t, p + n) /\ u.read = v.read /\ u.avail_out = v.avail_out
             /\ u.write = v.write + n /\ u.write \in 0..Size
<1> DEFINE win == [j \in 0..(Size - 1) |-> IF v.write <= j /\ j < v.write + n
                                           THEN t[p + (j - v.write) + 1] ELSE v.window[j]]
           u == Run(v, t, p, n)
<1>1. /\ v \in Windows /\ v.read \in 0..Size /\ v.write \in 0..Size /\ v.bytes \in Seq(Letters)
      /\ v.window \in [0..(Size - 1) -> Letters]
  BY DEF Holds, Windows
<1>2. v.write + n \in 0..Size /\ (v.write < v.read => v.write + n < v.read)
  BY <1>1, SMTT(30) DEF I!WAVAIL
<1>3. win \in [0..(Size - 1) -> Letters]
  <2>1. ASSUME NEW j \in 0..(Size - 1), v.write <= j, j < v.write + n
        PROVE  t[p + (j - v.write) + 1] \in Letters
    <3>1. p + (j - v.write) + 1 \in 1..Len(t)
      BY <1>1, <2>1, SMTT(30)
    <3> QED BY <3>1
  <2> QED BY <1>1, <2>1
<1> HIDE DEF win
<1>4. u = [v EXCEPT !.window = win, !.write = v.write + n]
  BY DEF Run, win
<1> HIDE DEF u
<1>5. /\ u \in Windows /\ u.window = win /\ u.write = v.write + n
      /\ u.read = v.read /\ u.avail_out = v.avail_out /\ u.bytes = v.bytes
  BY <1>1, <1>2, <1>3, <1>4 DEF Windows
<1>6. Waiting(u) = Waiting(v) + n /\ Waiting(v) \in Nat
  <2>1. CASE v.read <= v.write
    BY <1>1, <1>2, <1>5, <2>1, SMTT(30) DEF Waiting
  <2>2. CASE ~(v.read <= v.write)
    <3>1. ~(u.read <= u.write) /\ u.write = v.write + n /\ u.read = v.read
      BY <1>1, <1>2, <1>5, <2>2
    <3>2. Waiting(u) = (Size - u.read) + u.write /\ Waiting(v) = (Size - v.read) + v.write
      BY <2>2, <3>1 DEF Waiting
    <3> QED BY <1>1, <3>1, <3>2
  <2> QED BY <2>1, <2>2
<1>7. ASSUME NEW k \in 1..Size, k <= p + n
      PROVE  u.window[Place(u.write, k)] = t[(p + n) - k + 1]
  <2>1. CASE k <= n
    <3> DEFINE j == v.write + (n - k)
    <3>1. /\ Place(u.write, k) = j /\ j \in 0..(Size - 1) /\ v.write <= j /\ j < v.write + n
          /\ p + (j - v.write) + 1 = (p + n) - k + 1
      <4>1. /\ v.write \in Nat /\ n \in Nat /\ v.write + n <= Size /\ Size \in Nat /\ p \in Nat
            /\ k \in Nat /\ k >= 1 /\ k <= n
        BY <1>1, <1>2, <2>1
      <4>2. u.write = v.write + n /\ k <= u.write
        BY <1>5, <4>1
      <4>3. Place(u.write, k) = u.write - k
        BY <4>2 DEF Place
      <4> QED BY <4>1, <4>2, <4>3, SMTT(30)
    <3> HIDE DEF j
    <3>2. win[j] = t[p + (j - v.write) + 1]
      BY <3>1 DEF win
    <3> QED BY <1>5, <3>1, <3>2
  <2>2. CASE k > n
    <3> DEFINE i == k - n
               j == Place(v.write, i)
    <3>1. i \in 1..Size /\ i <= p /\ p - i + 1 = (p + n) - k + 1
      BY <1>7, <2>2
    <3>2. /\ Place(u.write, k) = j /\ j \in 0..(Size - 1)
          /\ ~(v.write <= j /\ j < v.write + n)
      <4>1. CASE i <= v.write
        BY <1>1, <1>2, <1>5, <2>2, <3>1, <4>1, SMTT(30) DEF Place
      <4>2. CASE i > v.write
        BY <1>1, <1>2, <1>5, <2>2, <3>1, <4>2, SMTT(30) DEF Place
      <4> QED BY <1>1, <3>1, <4>1, <4>2
    <3>3. v.window[Place(v.write, i)] = t[p - i + 1]
      BY <3>1 DEF Holds
    <3> HIDE DEF i, j
    <3>4. win[j] = v.window[j]
      BY <3>2 DEF win
    <3> QED BY <1>5, <3>1, <3>2, <3>3, <3>4 DEF j
  <2> QED BY <2>1, <2>2
<1>8. Holds(u, t, p + n)
  <2>1. /\ Waiting(v) <= p /\ Len(v.bytes) = p - Waiting(v)
        /\ \A i \in 1..Len(v.bytes) : v.bytes[i] = t[i]
    BY DEF Holds
  <2>2. p + n \in 0..Len(t) /\ Waiting(u) <= p + n /\ Len(u.bytes) = (p + n) - Waiting(u)
    BY <1>5, <1>6, <2>1
  <2> QED BY <1>5, <1>7, <2>1, <2>2 DEF Holds
<1> QED BY <1>2, <1>5, <1>8 DEF u

\* A run is made of bytes that are put one after the other.
LEMMA RunStep ==
  ASSUME Size \in Nat \ {0}, NEW t \in Seq(Letters), NEW p \in Nat, NEW v, Holds(v, t, p)
  PROVE  /\ Run(v, t, p, 0) = v
         /\ \A n \in Nat \ {0} : v.write + n <= Size =>
              Run(v, t, p, n) = I!OUTBYTE(Run(v, t, p, n - 1), t[p + n])
<1>1. /\ v \in Windows /\ v.write \in 0..Size /\ v.window \in [0..(Size - 1) -> Letters]
  BY DEF Holds, Windows
<1> DEFINE win(n) == [j \in 0..(Size - 1) |-> IF v.write <= j /\ j < v.write + n
                                              THEN t[p + (j - v.write) + 1] ELSE v.window[j]]
<1>2. \A n \in Nat : Run(v, t, p, n) = [v EXCEPT !.window = win(n), !.write = v.write + n]
  BY DEF Run
<1>3. Run(v, t, p, 0) = v
  <2>1. win(0) = v.window /\ v.write + 0 = v.write
    <3>1. \A j \in 0..(Size - 1) : ~(v.write <= j /\ j < v.write + 0)
      BY <1>1
    <3>2. win(0) = [j \in 0..(Size - 1) |-> v.window[j]]
      BY <3>1
    <3>3. v.window = [j \in 0..(Size - 1) |-> v.window[j]]
      BY <1>1
    <3> HIDE DEF win
    <3> QED BY <1>1, <3>2, <3>3
  <2> HIDE DEF win
  <2>2. Run(v, t, p, 0) = [v EXCEPT !.window = v.window, !.write = v.write]
    BY <1>2, <2>1
  <2> QED BY <1>1, <2>2 DEF Windows
<1>4. ASSUME NEW n \in Nat \ {0}, v.write + n <= Size
      PROVE  Run(v, t, p, n) = I!OUTBYTE(Run(v, t, p, n - 1), t[p + n])
  <2> DEFINE u == Run(v, t, p, n - 1)
             at == v.write + (n - 1)
             byte == t[p + n]
  <2>1. at \in 0..(Size - 1) /\ n - 1 \in Nat /\ at + 1 = v.write + n
    BY <1>1, <1>4
  <2>2. u = [v EXCEPT !.window = win(n - 1), !.write = at]
    BY <1>2, <2>1
  <2>3. win(n) = [win(n - 1) EXCEPT ![at] = byte]
    <3>1. ASSUME NEW j \in 0..(Size - 1)
          PROVE  win(n)[j] = IF j = at THEN byte ELSE win(n - 1)[j]
      <4>1. CASE j = at
        <5>0. v.write \in Int
          BY <1>1
        <5>1. v.write <= j /\ j < v.write + n /\ p + (j - v.write) + 1 = p + n
          BY <5>0, <4>1
        <5>2. win(n)[j] = t[p + (j - v.write) + 1]
          BY <5>1
        <5> HIDE DEF win, at
        <5> QED BY <4>1, <5>1, <5>2
      <4>2. CASE j # at
        <5>1. (v.write <= j /\ j < v.write + n) <=> (v.write <= j /\ j < v.write + (n - 1))
          BY <1>1, <2>1, <4>2, SMTT(30)
        <5> QED BY <4>2, <5>1
      <4> QED BY <4>1, <4>2
    <3>2. DOMAIN win(n - 1) = 0..(Size - 1) /\ DOMAIN win(n) = 0..(Size - 1)
      OBVIOUS
    <3>3. win(n) = [j \in 0..(Size - 1) |-> win(n)[j]]
          /\ win(n - 1) = [j \in 0..(Size - 1) |-> win(n - 1)[j]]
      OBVIOUS
    <3> HIDE DEF win, at, byte
    <3> QED BY <2>1, <3>1, <3>2, <3>3
  <2>4. I!OUTBYTE(u, byte) = [u EXCEPT !.window = [u.window EXCEPT ![u.write] = byte],
                                       !.write = u.write + 1]
    BY <1>1, <2>2 DEF I!OUTBYTE, Windows
  <2> HIDE DEF win, at, byte, u
  <2>5. u.window = win(n - 1) /\ u.write = at
    BY <1>1, <2>2 DEF Windows
  <2>6. Run(v, t, p, n) = [v EXCEPT !.window = win(n), !.write = v.write + n]
    BY <1>2
  <2>7. I!OUTBYTE(u, byte) = [u EXCEPT !.window = win(n), !.write = v.write + n]
    BY <2>1, <2>3, <2>4, <2>5
  <2>8. ASSUME NEW x, NEW y
        PROVE  [u EXCEPT !.window = x, !.write = y] = [v EXCEPT !.window = x, !.write = y]
    BY <1>1, <2>2 DEF Windows
  <2>9. I!OUTBYTE(u, byte) = Run(v, t, p, n)
    BY <2>6, <2>7, <2>8
  <2> QED BY <2>9 DEF u, byte
<1> QED BY <1>3, <1>4

\* The byte at a distance.
LEMMA BackIs ==
  ASSUME Size \in Nat \ {0}, NEW t \in Seq(Letters), NEW p \in Nat, NEW v, Holds(v, t, p),
         NEW dist \in 1..Size, dist <= p
  PROVE  I!Back(v, dist) = t[p - dist + 1]
<1>1. v.write \in 0..Size
  BY DEF Holds, Windows
<1>2. (v.write - dist) % Size = Place(v.write, dist)
  <2>1. CASE dist <= v.write
    <3>1. v.write - dist \in Int /\ 0 <= v.write - dist /\ v.write - dist < Size
      BY <1>1, <2>1
    <3> QED BY <2>1, <3>1, ModSmall DEF Place
  <2>2. CASE dist > v.write
    <3>1. v.write - dist \in Int /\ -Size <= v.write - dist /\ v.write - dist < 0
      BY <1>1, <2>2
    <3> QED BY <1>1, <2>2, <3>1, ModNeg, SMTT(30) DEF Place
  <2> QED BY <1>1, <2>1, <2>2
<1> QED BY <1>2 DEF I!Back, Holds

\* A set of natural numbers has a least one.
LEMMA Least ==
  ASSUME NEW S, S \subseteq Nat, S # {}
  PROVE  \E x \in S : \A y \in S : x <= y
<1>1. \E x \in S : \A y \in S : ~(<<y, x>> \in OpToRel(<, Nat))
  BY NatLessThanWellFounded, WFMin
<1>2. \A x, y \in Nat : x < y => <<x, y>> \in OpToRel(<, Nat)
  BY DEF OpToRel
<1>3. PICK x \in S : \A y \in S : ~(<<y, x>> \in OpToRel(<, Nat))
  BY <1>1
<1>4. ASSUME NEW y \in S PROVE x <= y
  <2>1. ~(y < x)
    BY <1>2, <1>3, Zenon
  <2> QED BY <2>1
<1> QED BY <1>4

\* A set with 0, and with k if it has k - 1, has all numbers up to n.
LEMMA Upto ==
  ASSUME NEW n \in Nat, NEW S, 0 \in S, \A k \in 1..n : k - 1 \in S => k \in S
  PROVE  0..n \subseteq S
<1> DEFINE M == (0..n) \ S
<1> SUFFICES ASSUME M # {} PROVE FALSE
  OBVIOUS
<1>1. PICK k \in M : \A j \in M : k <= j
  <2>1. M \subseteq Nat
    OBVIOUS
  <2> HIDE DEF M
  <2> QED BY <2>1, Least
<1>2. k \in 1..n /\ k - 1 \in 0..n /\ ~(k <= k - 1)
  BY <1>1
<1>3. k - 1 \in S
  BY <1>1, <1>2
<1> QED BY <1>1, <1>2, <1>3

\* The n bytes of t from p on are the ones that are d bytes back.
Repeats(t, p, d, n) == \A j \in 1..n : t[p + j] = t[p + j - d]

\* inflate_fast puts a match as a run.
LEMMA CopiedIsRun ==
  ASSUME Size \in Nat \ {0}, NEW t \in Seq(Letters), NEW p \in Nat, NEW v, Holds(v, t, p),
         v.read \in 0..(Size - 1), NEW dist \in 1..Size, dist <= p, NEW len \in Nat,
         p + len <= Len(t), I!WAVAIL(v) >= len,
         Repeats(t, p, dist, len)
  PROVE  I!Copied(v, dist, len) = Run(v, t, p, len)
<1> DEFINE Step(f) == [k \in 0..len |->
                        IF k = 0 THEN v ELSE I!OUTBYTE(f[k - 1], I!Back(f[k - 1], dist))]
           G == [k \in 0..len |-> Run(v, t, p, k)]
           F == CHOOSE f : f = Step(f)
<1>0. v.write \in 0..Size /\ v.read \in 0..Size
  BY DEF Holds, Windows
<1>1. ASSUME NEW k \in 0..len PROVE Holds(Run(v, t, p, k), t, p + k) /\ v.write + k <= Size
  <2>1. k \in Nat /\ p + k <= Len(t) /\ I!WAVAIL(v) >= k
    BY <1>0, SMTT(30) DEF I!WAVAIL
  <2> QED BY <2>1, RunHolds
<1>2. ASSUME NEW k \in 1..len PROVE G[k] = I!OUTBYTE(G[k - 1], I!Back(G[k - 1], dist))
  <2>1. k - 1 \in 0..len /\ k \in 0..len /\ k \in Nat \ {0} /\ p + (k - 1) \in Nat
        /\ dist <= p + (k - 1)
    OBVIOUS
  <2>2. G[k - 1] = Run(v, t, p, k - 1) /\ G[k] = Run(v, t, p, k)
    BY <2>1
  <2> HIDE DEF G
  <2>3. I!Back(G[k - 1], dist) = t[(p + (k - 1)) - dist + 1]
    BY <1>1, <2>1, <2>2, BackIs, SMTT(30)
  <2>4. (p + (k - 1)) - dist + 1 = p + k - dist
    OBVIOUS
  <2>5. I!Back(G[k - 1], dist) = t[p + k]
    BY <2>3, <2>4 DEF Repeats
  <2> QED BY <1>1, <2>1, <2>2, <2>5, RunStep, SMTT(30)
<1>3. G[0] = v
  <2>1. G[0] = Run(v, t, p, 0)
    OBVIOUS
  <2> HIDE DEF G
  <2> QED BY <2>1, RunStep
<1>4. G = Step(G)
  <2> DEFINE H == Step(G)
  <2>1. ASSUME NEW k \in 0..len PROVE G[k] = H[k]
    <3>1. CASE k = 0
      <4>1. H[k] = v
        BY <3>1
      <4> HIDE DEF G, H
      <4> QED BY <1>3, <3>1, <4>1
    <3>2. CASE k # 0
      <4>1. k \in 1..len /\ H[k] = I!OUTBYTE(G[k - 1], I!Back(G[k - 1], dist))
        BY <3>2
      <4> HIDE DEF G, H
      <4> QED BY <1>2, <4>1
    <3> QED BY <3>1, <3>2
  <2>2. G = [k \in 0..len |-> G[k]] /\ H = [k \in 0..len |-> H[k]]
    OBVIOUS
  <2>3. G = H
    <3> HIDE DEF G, H
    <3> QED BY <2>1, <2>2
  <2> QED BY <2>3
<1> HIDE DEF G
<1>5. F = Step(F)
  <2> HIDE DEF Step
  <2> QED BY <1>4
<1> HIDE DEF F
<1>6. F[0] = v /\ \A k \in 1..len : F[k] = I!OUTBYTE(F[k - 1], I!Back(F[k - 1], dist))
  <2> DEFINE H == Step(F)
  <2>1. H[0] = v /\ \A k \in 1..len : H[k] = I!OUTBYTE(F[k - 1], I!Back(F[k - 1], dist))
    OBVIOUS
  <2> HIDE DEF Step
  <2> QED BY <1>5, <2>1
<1>7. F[len] = G[len]
  <2> DEFINE S == {k \in 0..len : F[k] = G[k]}
  <2>1. 0 \in S
    BY <1>0, <1>3, <1>6
  <2>2. ASSUME NEW k \in 1..len, k - 1 \in S PROVE k \in S
    BY <1>2, <1>6, <2>2
  <2> HIDE DEF S
  <2>3. 0..len \subseteq S
    BY <1>0, <2>1, <2>2, Upto
  <2> QED BY <1>0, <2>3 DEF S
<1>8. I!Copied(v, dist, len) = F[len]
  BY DEF I!Copied, F
<1>9. G[len] = Run(v, t, p, len)
  BY DEF G
<1> QED BY <1>7, <1>8, <1>9

\* So are the bytes of a stored block.
LEMMA FilledIsRun ==
  ASSUME Size \in Nat \ {0}, NEW t \in Seq(Letters), NEW p \in Nat, NEW v, Holds(v, t, p),
         v.read \in 0..(Size - 1), NEW b \in Seq(Letters),
         p + Len(b) <= Len(t), I!WAVAIL(v) >= Len(b),
         \A j \in 1..Len(b) : t[p + j] = b[j]
  PROVE  I!Filled(v, b) = Run(v, t, p, Len(b))
<1> DEFINE len == Len(b)
           Step(f) == [k \in 0..len |-> IF k = 0 THEN v ELSE I!OUTBYTE(f[k - 1], b[k])]
           G == [k \in 0..len |-> Run(v, t, p, k)]
           F == CHOOSE f : f = Step(f)
<1>0. v.write \in 0..Size /\ v.read \in 0..Size /\ len \in Nat
  BY DEF Holds, Windows
<1>8. I!Filled(v, b) = F[len]
  BY DEF I!Filled
<1>b. \A j \in 1..len : t[p + j] = b[j]
  OBVIOUS
<1>1. ASSUME NEW k \in 0..len PROVE v.write + k <= Size
  BY <1>0, SMTT(30) DEF I!WAVAIL
<1> HIDE DEF len, F
<1>2. ASSUME NEW k \in 1..len PROVE G[k] = I!OUTBYTE(G[k - 1], b[k])
  <2>1. k - 1 \in 0..len /\ k \in 0..len /\ k \in Nat \ {0}
    BY <1>0
  <2>2. G[k - 1] = Run(v, t, p, k - 1) /\ G[k] = Run(v, t, p, k)
    BY <2>1
  <2> HIDE DEF G
  <2>3. Run(v, t, p, k) = I!OUTBYTE(Run(v, t, p, k - 1), t[p + k])
    BY <1>1, <2>1, RunStep
  <2> QED BY <1>b, <2>2, <2>3
<1>3. G[0] = v
  <2>1. G[0] = Run(v, t, p, 0)
    BY <1>0
  <2> HIDE DEF G
  <2> QED BY <2>1, RunStep
<1>4. G = Step(G)
  <2> DEFINE H == Step(G)
  <2>1. ASSUME NEW k \in 0..len PROVE G[k] = H[k]
    <3>1. CASE k = 0
      <4>1. H[k] = v
        BY <3>1
      <4> HIDE DEF G, H
      <4> QED BY <1>3, <3>1, <4>1
    <3>2. CASE k # 0
      <4>1. k \in 1..len /\ H[k] = I!OUTBYTE(G[k - 1], b[k])
        BY <1>0, <3>2
      <4> HIDE DEF G, H
      <4> QED BY <1>2, <4>1
    <3> QED BY <3>1, <3>2
  <2>2. G = [k \in 0..len |-> G[k]] /\ H = [k \in 0..len |-> H[k]]
    OBVIOUS
  <2>3. G = H
    <3> HIDE DEF G, H
    <3> QED BY <2>1, <2>2
  <2> QED BY <2>3
<1> HIDE DEF G
<1>5. F = Step(F)
  <2> HIDE DEF Step
  <2> QED BY <1>4 DEF F
<1>6. F[0] = v /\ \A k \in 1..len : F[k] = I!OUTBYTE(F[k - 1], b[k])
  <2> DEFINE H == Step(F)
  <2>1. H[0] = v /\ \A k \in 1..len : H[k] = I!OUTBYTE(F[k - 1], b[k])
    BY <1>0
  <2> HIDE DEF Step
  <2> QED BY <1>5, <2>1
<1>7. F[len] = G[len]
  <2> DEFINE S == {k \in 0..len : F[k] = G[k]}
  <2>1. 0 \in S
    BY <1>0, <1>3, <1>6
  <2>2. ASSUME NEW k \in 1..len, k - 1 \in S PROVE k \in S
    BY <1>2, <1>6, <2>2
  <2> HIDE DEF S
  <2>3. 0..len \subseteq S
    BY <1>0, <2>1, <2>2, Upto
  <2> QED BY <1>0, <2>3 DEF S
<1>9. G[len] = Run(v, t, p, len)
  BY <1>0 DEF G
<1> QED BY <1>7, <1>8, <1>9 DEF len

\* A text that goes on where another ends.
LEMMA LongerHolds ==
  ASSUME Size \in Nat \ {0}, NEW t \in Seq(Letters), NEW u \in Seq(Letters), NEW p,
         NEW v, Holds(v, t, p),
         Len(t) <= Len(u), \A i \in 1..Len(t) : u[i] = t[i]
  PROVE  Holds(v, u, p)
<1>0. /\ v \in Windows /\ p \in 0..Len(t) /\ Waiting(v) <= p /\ Len(v.bytes) = p - Waiting(v)
      /\ \A i \in 1..Len(v.bytes) : v.bytes[i] = t[i]
      /\ \A k \in 1..Size : k <= p => v.window[Place(v.write, k)] = t[p - k + 1]
  BY DEF Holds
<1>1. /\ Len(v.bytes) \in Nat /\ Len(t) \in Nat /\ Len(u) \in Nat /\ p \in Nat /\ p <= Len(t)
      /\ Len(v.bytes) <= Len(t)
  <2>1. v.bytes \in Seq(Letters) /\ v.read \in 0..Size /\ v.write \in 0..Size
    BY <1>0 DEF Windows
  <2>2. Waiting(v) \in Nat
    BY <2>1 DEF Waiting
  <2> QED BY <1>0, <2>1, <2>2
<1>2. ASSUME NEW k \in 1..Size, k <= p PROVE v.window[Place(v.write, k)] = u[p - k + 1]
  <2>1. p - k + 1 \in 1..Len(t)
    BY <1>1, <1>2
  <2> QED BY <1>0, <1>2, <2>1
<1>3. ASSUME NEW i \in 1..Len(v.bytes) PROVE v.bytes[i] = u[i]
  BY <1>0, <1>1
<1>4. p \in 0..Len(u)
  BY <1>1
<1> QED BY <1>0, <1>2, <1>3, <1>4 DEF Holds

\* The text after a match.
Match(t, d, n) == t \o [k \in 1..n |-> t[Len(t) - d + 1 + ((k - 1) % d)]]

\* What a match adds to a text is what is so far back.
LEMMA MatchAdds ==
  ASSUME NEW t \in Seq(Letters), NEW d \in 1..Len(t), NEW n \in Nat
  PROVE  /\ Match(t, d, n) \in Seq(Letters) /\ Len(Match(t, d, n)) = Len(t) + n
         /\ \A i \in 1..Len(t) : Match(t, d, n)[i] = t[i]
         /\ Repeats(Match(t, d, n), Len(t), d, n)
<1> DEFINE L == Len(t)
           a == [k \in 1..n |-> t[L - d + 1 + ((k - 1) % d)]]
           e == Match(t, d, n)
<1>0. e = t \o a
  BY DEF Match
<1>1. L \in Nat /\ d \in Nat \ {0} /\ d <= L
  OBVIOUS
<1>2. ASSUME NEW k \in 1..n PROVE L - d + 1 + ((k - 1) % d) \in 1..L
  <2>1. (k - 1) % d \in 0..(d - 1)
    BY <1>1
  <2> HIDE DEF L
  <2> QED BY <1>1, <2>1
<1>3. a \in Seq(Letters) /\ Len(a) = n /\ \A k \in 1..n : a[k] = t[L - d + 1 + ((k - 1) % d)]
  <2>1. \A k \in 1..n : t[L - d + 1 + ((k - 1) % d)] \in Letters
    BY <1>2
  <2> QED BY <2>1
<1> HIDE DEF a
<1>4. e \in Seq(Letters) /\ Len(e) = L + n
  BY <1>0, <1>3, ConcatProperties
<1>5. /\ \A i \in 1..L : e[i] = t[i]
      /\ \A j \in 1..n : e[L + j] = a[j]
  BY <1>0, <1>3, ConcatProperties
<1> HIDE DEF e, L
<1>6. ASSUME NEW j \in 1..n PROVE e[L + j] = e[L + j - d]
  <2>1. CASE j <= d
    <3>1. (j - 1) % d = j - 1
      BY <1>1, <2>1, ModSmall
    <3>2. L - d + 1 + (j - 1) = L + j - d /\ L + j - d \in 1..L
      BY <1>1, <2>1
    <3> QED BY <1>3, <1>5, <3>1, <3>2, SMTT(30)
  <2>2. CASE j > d
    <3> DEFINE i == j - d
    <3>1. i \in 1..n /\ L + i = L + j - d /\ i - 1 \in Int /\ (i - 1) + d = j - 1
      BY <1>1, <2>2
    <3> HIDE DEF i
    <3>2. ((i - 1) + d) % d = (i - 1) % d
      BY <1>1, <3>1, ModPlus
    <3>3. a[j] = a[i]
      BY <1>3, <3>1, <3>2
    <3> QED BY <1>5, <3>1, <3>3
  <2>3. j <= d \/ j > d
    BY <1>1
  <2> QED BY <2>1, <2>2, <2>3
<1> QED BY <1>4, <1>5, <1>6 DEF L, e, Repeats

\* The places of what waits when the window has gone round.
LEMMA PlaceRound ==
  ASSUME Size \in Nat \ {0}, NEW rd \in 0..(Size - 1), NEW wr \in 0..Size, rd > wr,
         NEW n, n = Size - rd + wr, NEW k \in 1..n
  PROVE  Place(wr, n - k + 1) = (rd + k - 1) % Size
<1>1. n \in Nat /\ k \in Nat
  OBVIOUS
<1>2. CASE rd + k - 1 < Size
  <2>1. rd + k - 1 \in Int /\ 0 <= rd + k - 1
    BY <1>1
  <2>2. (rd + k - 1) % Size = rd + k - 1
    BY <1>2, <2>1, ModSmall
  <2>3. Place(wr, n - k + 1) = rd + k - 1
    BY <1>1, <1>2 DEF Place
  <2> QED BY <2>2, <2>3
<1>3. CASE ~(rd + k - 1 < Size)
  <2>1. rd + k - 1 \in Int /\ Size <= rd + k - 1 /\ rd + k - 1 < 2 * Size
    BY <1>1, <1>3
  <2>2. (rd + k - 1) % Size = (rd + k - 1) - Size
    BY <2>1, ModBig
  <2>3. Place(wr, n - k + 1) = (rd + k - 1) - Size
    BY <1>1, <1>3 DEF Place
  <2> QED BY <2>2, <2>3
<1> QED BY <1>2, <1>3

\* What the caller and the window have, as one sequence.
LEMMA UnreadIs ==
  ASSUME Size \in Nat \ {0}, NEW t \in Seq(Letters), NEW p, Holds(w, t, p),
         w.read \in 0..(Size - 1)
  PROVE  w.bytes \o I!Unread = SubSeq(t, 1, p)
<1> DEFINE n == Waiting(w)
           del == Len(w.bytes)
<1>1. /\ w.read \in 0..(Size - 1) /\ w.write \in 0..Size /\ w.bytes \in Seq(Letters)
      /\ p \in 0..Len(t)
      /\ n <= p /\ del = p - n
  BY DEF Holds, Windows
<1>2. n \in Nat /\ del \in Nat /\ p \in Nat /\ Len(t) \in Nat /\ p <= Len(t) /\ del + n = p
  <2>1. n \in Nat
    BY <1>1, SMTT(30) DEF Waiting
  <2>2. del \in Nat /\ Len(t) \in Nat
    BY <1>1
  <2> HIDE DEF n, del
  <2> QED BY <1>1, <2>1, <2>2
<1>3. ASSUME NEW k \in 1..n PROVE w.window[Place(w.write, n - k + 1)] = t[del + k]
  <2>1. n - k + 1 \in 1..Size /\ n - k + 1 <= p /\ p - (n - k + 1) + 1 = del + k
    <3>1. n <= Size
      BY <1>1 DEF Waiting
    <3> HIDE DEF n, del
    <3> QED BY <1>1, <1>2, <3>1
  <2> QED BY <2>1 DEF Holds
<1>4. I!Unread \in Seq(Letters) /\ Len(I!Unread) = n /\ \A k \in 1..n : I!Unread[k] = t[del + k]
  <2>1. CASE w.read <= w.write
    <3> DEFINE s == [k \in 1..(w.write - w.read) |-> w.window[w.read + k - 1]]
    <3>1. I!Unread = s /\ n = w.write - w.read
      BY <2>1 DEF I!Unread, Waiting
    <3>2. ASSUME NEW k \in 1..n
          PROVE  w.window[w.read + k - 1] = t[del + k] /\ t[del + k] \in Letters
      <4>1. Place(w.write, n - k + 1) = w.read + k - 1
        BY <1>1, <2>1, <3>1, SMTT(30) DEF Place
      <4>2. del + k \in 1..Len(t)
        BY <1>2
      <4> QED BY <1>3, <4>1, <4>2
    <3> HIDE DEF n, del
    <3>3. s = [k \in 1..n |-> t[del + k]]
      BY <3>1, <3>2
    <3>4. /\ [k \in 1..n |-> t[del + k]] \in Seq(Letters) /\ Len([k \in 1..n |-> t[del + k]]) = n
          /\ \A k \in 1..n : [j \in 1..n |-> t[del + j]][k] = t[del + k]
      BY <1>2, <3>2
    <3> HIDE DEF s
    <3> QED BY <3>1, <3>3, <3>4
  <2>2. CASE ~(w.read <= w.write)
    <3> DEFINE s == [k \in 1..(Size - w.read + w.write) |-> w.window[(w.read + k - 1) % Size]]
    <3>1. I!Unread = s /\ n = Size - w.read + w.write
      BY <2>2 DEF I!Unread, Waiting
    <3>2. ASSUME NEW k \in 1..n
          PROVE  w.window[(w.read + k - 1) % Size] = t[del + k] /\ t[del + k] \in Letters
      <4>1. Place(w.write, n - k + 1) = (w.read + k - 1) % Size
        <5>1. n = Size - w.read + w.write /\ w.read > w.write
          BY <1>1, <2>2, <3>1
        <5> HIDE DEF n
        <5> QED BY <1>1, <5>1, PlaceRound
      <4>2. del + k \in 1..Len(t)
        BY <1>2
      <4> QED BY <1>3, <4>1, <4>2
    <3> HIDE DEF n, del
    <3>3. s = [k \in 1..n |-> t[del + k]]
      BY <3>1, <3>2
    <3>4. /\ [k \in 1..n |-> t[del + k]] \in Seq(Letters) /\ Len([k \in 1..n |-> t[del + k]]) = n
          /\ \A k \in 1..n : [j \in 1..n |-> t[del + j]][k] = t[del + k]
      BY <1>2, <3>2
    <3> HIDE DEF s
    <3> QED BY <3>1, <3>3, <3>4
  <2> QED BY <2>1, <2>2
<1> DEFINE a == w.bytes \o I!Unread
           b == SubSeq(t, 1, p)
<1>5. a \in Seq(Letters) /\ Len(a) = p
  <2>1. a \in Seq(Letters) /\ Len(a) = Len(w.bytes) + Len(I!Unread)
    BY <1>1, <1>4, ConcatProperties
  <2> HIDE DEF n, a
  <2> QED BY <1>2, <1>4, <2>1
<1>6. b \in Seq(Letters) /\ Len(b) = p /\ \A i \in 1..p : b[i] = t[i]
  BY <1>2
<1>7. ASSUME NEW i \in 1..p PROVE a[i] = t[i]
  <2>1. CASE i <= del
    <3>1. a[i] = w.bytes[i]
      BY <1>1, <1>4, <2>1, ConcatProperties
    <3> QED BY <2>1, <3>1 DEF Holds
  <2>2. CASE i > del
    <3> DEFINE k == i - del
    <3>1. k \in 1..n /\ del + k = i
      BY <1>2, <2>2
    <3>2. a[i] = I!Unread[k]
      <4>1. i \in 1..(Len(w.bytes) + Len(I!Unread)) /\ i > Len(w.bytes)
        BY <1>2, <1>4, <2>2
      <4>2. ASSUME NEW x \in Seq(Letters), NEW y \in Seq(Letters), NEW j \in 1..(Len(x) + Len(y)),
                   j > Len(x)
            PROVE  (x \o y)[j] = y[j - Len(x)]
        BY <4>2, ConcatProperties
      <4> HIDE DEF n
      <4> QED BY <1>1, <1>4, <4>1, <4>2
    <3> HIDE DEF k, a, n, del
    <3> QED BY <1>4, <3>1, <3>2
  <2>3. i <= del \/ i > del
    <3> HIDE DEF del
    <3> QED BY <1>2
  <2> QED BY <2>1, <2>2, <2>3
<1> HIDE DEF a, b, n, del
<1>8. a = b
  BY <1>2, <1>5, <1>6, <1>7
<1> QED BY <1>8 DEF a, b

\* The part of the text that has been put into the window.
Passed == Len(text) - I!Owed

\* The symbol that is being carried out is the end of the text.
SymbolInv ==
  /\ mode = "LIT" => Len(text) >= 1 /\ pending = <<0, text[Len(text)]>>
  /\ mode = "COPY" =>
       /\ pending = <<pending[1], pending[2]>> /\ pending[1] \in 1..Size
       /\ pending[2] \in Nat \ {0}
       /\ pending[1] + pending[2] <= Len(text)
       /\ Repeats(text, Len(text) - pending[2], pending[1], pending[2])
  /\ mode \notin {"LIT", "COPY"} => pending = <<>>

\* A call ends early for want of input only; after the end nothing waits.
CallInv ==
  /\ inflatePc = "caller" /\ w.avail_out > 0 => I!NeedsInput \/ mode = "DONE"
  /\ mode = "DONE" => w.read = w.write

InflateInv ==
  /\ text \in Seq(Letters)
  /\ Holds(w, text, Passed) /\ w.read \in 0..(Size - 1)
  /\ SymbolInv /\ CallInv

\* What is owed in the different modes.
LEMMA OwedIs ==
  ASSUME InflateInv
  PROVE  /\ Len(text) \in Nat /\ Passed \in 0..Len(text)
         /\ mode = "LIT" => I!Owed = 1
         /\ mode = "COPY" => I!Owed = pending[2]
         /\ mode \notin {"LIT", "COPY"} => I!Owed = 0 /\ Passed = Len(text)
<1>1. Len(text) \in Nat /\ Passed \in 0..Len(text)
  BY DEF InflateInv, Holds
<1>2. ASSUME mode = "LIT" PROVE I!Owed = 1
  <2>1. pending = <<0, text[Len(text)]>>
    BY <1>2 DEF InflateInv, SymbolInv
  <2>2. pending # <<>> /\ pending[1] = 0
    BY <2>1
  <2> QED BY <2>2 DEF I!Owed
<1>3. ASSUME mode = "COPY" PROVE I!Owed = pending[2]
  <2>1. pending = <<pending[1], pending[2]>> /\ pending[1] \in 1..Size
    BY <1>3 DEF InflateInv, SymbolInv
  <2>2. pending # <<>>
    BY <2>1
  <2>3. pending[1] # 0
    BY <2>1, InflateAssumption
  <2> QED BY <2>2, <2>3 DEF I!Owed
<1>4. ASSUME mode \notin {"LIT", "COPY"} PROVE I!Owed = 0 /\ Passed = Len(text)
  <2>1. pending = <<>>
    BY <1>4 DEF InflateInv, SymbolInv
  <2>2. I!Owed = 0
    BY <2>1 DEF I!Owed
  <2> QED BY <1>1, <2>2 DEF Passed
<1> QED BY <1>1, <1>2, <1>3, <1>4

\* A step that leaves the symbol and the text alone.
LEMMA SameSymbol ==
  ASSUME InflateInv, text' = text, pending' = pending
  PROVE  Passed' = Passed
BY DEF Passed, I!Owed

\* A call that ends flushes the window.
LEMMA LeaveStep ==
  ASSUME InflateInv, NEW v, Holds(v, text, Passed), I!LEAVE(v),
         v.avail_out = 0 \/ I!NeedsInput \/ mode = "DONE", mode = "DONE" => v.read = v.write
  PROVE  InflateInv'
<1>0. Size \in Nat \ {0}
  BY InflateAssumption
<1>1. /\ w' = I!inflate_flush(v) /\ inflatePc' = "caller"
      /\ mode' = mode /\ last' = last /\ pending' = pending /\ text' = text
  BY DEF I!LEAVE
<1>2. text \in Seq(Letters) /\ SymbolInv
  BY DEF InflateInv
<1>3. /\ Holds(w', text, Passed) /\ w'.read \in 0..(Size - 1)
      /\ v.avail_out = 0 => w'.avail_out = 0
      /\ v.read = v.write => w'.read = w'.write
  BY <1>0, <1>1, <1>2, FlushHolds
<1>4. Passed' = Passed
  BY <1>1, SameSymbol
<1>5. SymbolInv'
  BY <1>1, <1>2 DEF SymbolInv
<1>6. CallInv'
  BY <1>1, <1>3 DEF CallInv, I!NeedsInput
<1> QED BY <1>1, <1>2, <1>3, <1>4, <1>5, <1>6 DEF InflateInv

\* A call ends for want of input, or with the file.
LEMMA InputRunsOutStep ==
  ASSUME InflateInv, I!InputRunsOut \/ I!Done
  PROVE  InflateInv'
<1>1. Holds(w, text, Passed)
  BY DEF InflateInv
<1>2. CASE I!InputRunsOut
  <2>1. I!LEAVE(w) /\ I!NeedsInput /\ mode # "DONE"
    BY <1>2 DEF I!InputRunsOut, I!NeedsInput
  <2> QED BY <1>1, <2>1, LeaveStep
<1>3. CASE I!Done
  <2>1. I!LEAVE(w) /\ mode = "DONE" /\ w.read = w.write
    BY <1>3 DEF I!Done, InflateInv, CallInv
  <2> QED BY <1>1, <2>1, LeaveStep
<1> QED BY <1>2, <1>3

\* The steps that change no byte.
LEMMA ModeStep ==
  ASSUME InflateInv, (\E room \in 1..MaxRoom : I!Call(room)) \/ I!BlockType \/ I!EndOfBlock
  PROVE  InflateInv'
<1>1. text \in Seq(Letters) /\ SymbolInv /\ CallInv /\ Holds(w, text, Passed)
      /\ w.read \in 0..(Size - 1)
  BY DEF InflateInv
<1>2. text' = text /\ pending' = pending
  BY DEF I!Call, I!BlockType, I!EndOfBlock
<1>3. Passed' = Passed
  BY <1>2, SameSymbol
<1>4. ASSUME NEW room \in 1..MaxRoom, I!Call(room) PROVE InflateInv'
  <2>1. mode' = mode /\ inflatePc' = "inflate" /\ w' = [w EXCEPT !.avail_out = room]
        /\ mode # "DONE"
    BY <1>4 DEF I!Call
  <2>2. w \in Windows /\ room \in Nat
    BY <1>1, InflateAssumption DEF Holds
  <2>3. /\ w' \in Windows /\ w'.read = w.read /\ w'.write = w.write /\ w'.window = w.window
        /\ w'.bytes = w.bytes
    BY <2>1, <2>2 DEF Windows
  <2>4. Holds(w', text, Passed)
    BY <1>1, <2>3 DEF Holds, Waiting
  <2>5. SymbolInv' /\ CallInv'
    BY <1>1, <1>2, <2>1 DEF SymbolInv, CallInv
  <2> QED BY <1>1, <1>2, <1>3, <2>3, <2>4, <2>5 DEF InflateInv
<1>5. ASSUME I!BlockType \/ I!EndOfBlock PROVE InflateInv'
  <2>1. /\ w' = w /\ inflatePc = "inflate" /\ inflatePc' = inflatePc
        /\ mode \notin {"LIT", "COPY"} /\ mode' \notin {"LIT", "COPY", "DONE"}
    BY <1>5 DEF I!BlockType, I!EndOfBlock, I!AfterBlock
  <2>2. SymbolInv' /\ CallInv'
    BY <1>1, <1>2, <2>1 DEF SymbolInv, CallInv
  <2> QED BY <1>1, <1>2, <1>3, <2>1, <2>2 DEF InflateInv
<1> QED BY <1>4, <1>5

\* At the end of a block everything goes to the caller.
LEMMA WashStep ==
  ASSUME InflateInv, I!Wash
  PROVE  InflateInv'
<1> DEFINE v == I!inflate_flush(w)
<1>0. Size \in Nat \ {0}
  BY InflateAssumption
<1>1. text \in Seq(Letters) /\ SymbolInv /\ CallInv /\ Holds(w, text, Passed)
      /\ w.read \in 0..(Size - 1)
  BY DEF InflateInv
<1>2. /\ Holds(v, text, Passed) /\ v.read \in 0..(Size - 1)
      /\ v.avail_out = 0 \/ v.read = v.write
  BY <1>0, <1>1, FlushHolds
<1>3. mode \in {"WASH", "DRY"} /\ inflatePc = "inflate"
  BY DEF I!Wash
<1> HIDE DEF v
<1>4. CASE v.read # v.write
  <2>1. I!LEAVE(v)
    BY <1>4 DEF I!Wash, v
  <2> QED BY <1>2, <1>3, <1>4, <2>1, LeaveStep
<1>5. CASE v.read = v.write
  <2>1. /\ w' = v /\ mode' \in {"DONE", "DRY", "TYPE"}
        /\ pending' = pending /\ text' = text /\ inflatePc' = inflatePc
    BY <1>3, <1>5 DEF I!Wash, v, I!AfterBlock
  <2>2. Passed' = Passed
    BY <2>1, SameSymbol
  <2>3. SymbolInv' /\ CallInv'
    BY <1>1, <1>3, <1>5, <2>1 DEF SymbolInv, CallInv
  <2> QED BY <1>1, <1>2, <2>1, <2>2, <2>3 DEF InflateInv
<1> QED BY <1>4, <1>5

\* The text after a literal or a match.
LEMMA ExtendedIs ==
  ASSUME InflateInv, NEW s \in I!Symbols
  PROVE  /\ I!Extended(s) \in Seq(Letters) /\ Len(text) \in Nat /\ s # <<>>
         /\ \A i \in 1..Len(text) : I!Extended(s)[i] = text[i]
         /\ s[1] = 0 => /\ Len(I!Extended(s)) = Len(text) + 1 /\ s = <<0, s[2]>>
                        /\ I!Extended(s)[Len(text) + 1] = s[2]
         /\ s[1] # 0 => /\ s = <<s[1], s[2]>> /\ s[1] \in 1..Size /\ s[1] <= Len(text)
                        /\ s[2] \in Nat \ {0} /\ s[2] <= MaxMatch
                        /\ Len(I!Extended(s)) = Len(text) + s[2]
                        /\ Repeats(I!Extended(s), Len(text), s[1], s[2])
<1>0. /\ Size \in Nat \ {0} /\ MinMatch \in Nat \ {0} /\ MaxMatch \in Nat
      /\ text \in Seq(Letters) /\ Len(text) \in Nat
  BY InflateAssumption DEF InflateInv
<1>1. I!Min({Len(text), Size}) = IF Len(text) <= Size THEN Len(text) ELSE Size
  BY <1>0, MinOfTwo
<1>2. s \in {0} \X Letters \/ s \in (1..I!Min({Len(text), Size})) \X (MinMatch..MaxMatch)
  BY DEF I!Symbols
<1>3. CASE s \in {0} \X Letters
  <2>1. s[1] = 0 /\ s[2] \in Letters /\ s = <<0, s[2]>>
    BY <1>3
  <2>2. I!Extended(s) = Append(text, s[2])
    BY <2>1 DEF I!Extended
  <2>3. s # <<>>
    BY <1>3
  <2> QED BY <1>0, <2>1, <2>2, <2>3
<1>4. CASE s \in (1..I!Min({Len(text), Size})) \X (MinMatch..MaxMatch)
  <2>1. /\ s[1] \in 1..I!Min({Len(text), Size}) /\ s[2] \in MinMatch..MaxMatch
        /\ s = <<s[1], s[2]>>
    BY <1>4
  <2>2. /\ s[1] # 0 /\ s[1] \in 1..Size /\ s[1] \in 1..Len(text) /\ s[1] <= Len(text)
        /\ s[2] \in Nat \ {0} /\ s[2] \in Nat /\ s[2] <= MaxMatch
    BY <1>0, <1>1, <2>1
  <2>3. I!Extended(s) = text \o [k \in 1..s[2] |-> text[Len(text) - s[1] + 1 + ((k - 1) % s[1])]]
    BY <2>2 DEF I!Extended
  <2> DEFINE e == I!Extended(s)
             d == s[1]
             n == s[2]
  <2>4. d \in 1..Len(text) /\ n \in Nat
    BY <2>2
  <2>5. e = Match(text, d, n)
    BY <2>3 DEF Match
  <2> HIDE DEF e, d, n
  <2>6. /\ e \in Seq(Letters) /\ Len(e) = Len(text) + n
        /\ \A i \in 1..Len(text) : e[i] = text[i]
        /\ Repeats(e, Len(text), d, n)
    BY <1>0, <2>4, <2>5, MatchAdds
  <2>7. s # <<>>
    BY <1>4
  <2> QED BY <1>0, <2>1, <2>2, <2>6, <2>7 DEF e, d, n
<1> QED BY <1>2, <1>3, <1>4

\* A symbol is decoded, and all of it is owed.
LEMMA SymbolStep ==
  ASSUME InflateInv, NEW s \in I!Symbols, I!Symbol(s)
  PROVE  InflateInv'
<1> DEFINE e == I!Extended(s)
           L == Len(text)
<1>0. Size \in Nat \ {0}
  BY InflateAssumption
<1>1. /\ text \in Seq(Letters) /\ Holds(w, text, Passed) /\ w.read \in 0..(Size - 1) /\ L \in Nat
      /\ mode = "LEN" /\ inflatePc = "inflate"
  BY DEF InflateInv, I!Symbol
<1>2. Passed = L
  BY <1>1, OwedIs
<1>3. /\ pending' = s /\ text' = e /\ mode' = (IF s[1] = 0 THEN "LIT" ELSE "COPY")
      /\ w' = w /\ inflatePc' = "inflate"
  BY <1>1 DEF I!Symbol
<1>4. e \in Seq(Letters) /\ L <= Len(e) /\ \A i \in 1..L : e[i] = text[i]
  <2>1. s[1] # 0 => s[2] \in Nat /\ Len(e) = L + s[2]
    BY ExtendedIs
  <2>2. s[1] = 0 => Len(e) = L + 1
    BY ExtendedIs
  <2>3. e \in Seq(Letters) /\ \A i \in 1..L : e[i] = text[i]
    BY ExtendedIs
  <2> HIDE DEF e, L
  <2> QED BY <1>1, <2>1, <2>2, <2>3
<1>5. Holds(w, e, L)
  BY <1>0, <1>1, <1>2, <1>4, LongerHolds
<1>6. CallInv'
  BY <1>3 DEF CallInv
<1>7. CASE s[1] = 0
  <2>1. Len(e) = L + 1 /\ s = <<0, s[2]>> /\ e[L + 1] = s[2]
    BY <1>7, ExtendedIs
  <2> HIDE DEF e, L
  <2>2. s # <<>>
    BY <1>7, ExtendedIs
  <2>3. Passed' = L
    BY <1>1, <1>3, <1>7, <2>1, <2>2 DEF Passed, I!Owed
  <2>4. SymbolInv'
    BY <1>1, <1>3, <1>7, <2>1 DEF SymbolInv
  <2> QED BY <1>1, <1>3, <1>4, <1>5, <1>6, <2>3, <2>4 DEF InflateInv
<1>8. CASE s[1] # 0
  <2>1. /\ s = <<s[1], s[2]>> /\ s[1] \in 1..Size /\ s[1] <= L /\ s[2] \in Nat \ {0}
        /\ Len(e) = L + s[2]
        /\ Repeats(e, L, s[1], s[2])
    BY <1>8, ExtendedIs
  <2> HIDE DEF e, L
  <2>2. s # <<>>
    BY <1>8, ExtendedIs
  <2>3. Passed' = L
    BY <1>1, <1>3, <1>8, <2>1, <2>2 DEF Passed, I!Owed
  <2>4. SymbolInv'
    <3>1. mode' = "COPY" /\ Len(e) - s[2] = L /\ s[1] + s[2] <= Len(e)
      BY <1>0, <1>1, <1>3, <1>8, <2>1
    <3>2. Repeats(e, Len(e) - s[2], s[1], s[2])
      BY <2>1, <3>1
    <3> QED BY <1>3, <2>1, <3>1, <3>2 DEF SymbolInv
  <2> QED BY <1>1, <1>3, <1>4, <1>5, <1>6, <2>3, <2>4 DEF InflateInv
<1> QED BY <1>7, <1>8

\* inflate_fast carries a symbol out at once.
LEMMA FastStep ==
  ASSUME InflateInv, NEW s \in I!Symbols, I!Fast(s)
  PROVE  InflateInv'
<1> DEFINE e == I!Extended(s)
           L == Len(text)
           n == IF s[1] = 0 THEN 1 ELSE s[2]
<1>0. Size \in Nat \ {0} /\ MaxMatch \in Nat \ {0}
  BY InflateAssumption
<1>1. /\ text \in Seq(Letters) /\ Holds(w, text, Passed) /\ w.read \in 0..(Size - 1) /\ L \in Nat
      /\ mode = "LEN" /\ inflatePc = "inflate" /\ SymbolInv /\ I!WAVAIL(w) >= MaxMatch
  BY DEF InflateInv, I!Fast
<1>2. Passed = L /\ pending = <<>>
  BY <1>1, OwedIs DEF SymbolInv
<1>3. /\ pending' = <<>> /\ text' = e /\ mode' = "LEN" /\ inflatePc' = "inflate"
      /\ w' = IF s[1] = 0 THEN I!OUTBYTE(w, s[2]) ELSE I!Copied(w, s[1], s[2])
  BY <1>1, <1>2 DEF I!Fast
<1>4. /\ e \in Seq(Letters) /\ \A i \in 1..L : e[i] = text[i]
      /\ n \in Nat \ {0} /\ n <= MaxMatch /\ Len(e) = L + n
  BY <1>0, ExtendedIs
<1>5. s[1] = 0 => e[L + 1] = s[2]
  BY ExtendedIs
<1>6. s[1] # 0 => /\ s[1] \in 1..Size /\ s[1] <= L
                  /\ Repeats(e, L, s[1], s[2])
  BY ExtendedIs
<1>7. s[1] = 0 => n = 1
  OBVIOUS
<1>8. s[1] # 0 => n = s[2]
  OBVIOUS
<1> HIDE DEF e, L, n
<1>9. Holds(w, e, L)
  BY <1>0, <1>1, <1>2, <1>4, LongerHolds DEF L
<1>10. I!WAVAIL(w) >= n
  <2>1. w.write \in 0..Size /\ w.read \in 0..Size
    BY <1>1 DEF Holds, Windows
  <2>2. I!WAVAIL(w) \in Int
    BY <1>0, <2>1 DEF I!WAVAIL
  <2> QED BY <1>0, <1>1, <1>4, <2>2
<1>11. w' = Run(w, e, L, n)
  <2>1. CASE s[1] = 0
    <3>1. w.write + 1 <= Size
      <4>1. w.write \in 0..Size /\ w.read \in 0..Size
        BY <1>1 DEF Holds, Windows
      <4> QED BY <1>0, <1>7, <1>10, <2>1, <4>1 DEF I!WAVAIL
    <3>2. Run(w, e, L, 1) = I!OUTBYTE(Run(w, e, L, 1 - 1), e[L + 1]) /\ Run(w, e, L, 0) = w
      BY <1>0, <1>1, <1>4, <1>9, <3>1, RunStep
    <3> QED BY <1>3, <1>5, <1>7, <2>1, <3>2
  <2>2. CASE s[1] # 0
    <3>1. n \in Nat /\ L + n <= Len(e)
      BY <1>1, <1>4
    <3> DEFINE d == s[1]
    <3>2. d \in 1..Size /\ d <= L /\ Repeats(e, L, d, n)
      BY <1>6, <1>8, <2>2
    <3> HIDE DEF d
    <3>3. I!Copied(w, d, n) = Run(w, e, L, n)
      BY <1>0, <1>1, <1>4, <1>9, <1>10, <3>1, <3>2, CopiedIsRun
    <3> QED BY <1>3, <1>8, <2>2, <3>3 DEF d
  <2> QED BY <2>1, <2>2
<1>12. Holds(w', e, L + n) /\ w'.read = w.read
  <2>1. n \in Nat /\ L + n <= Len(e)
    BY <1>1, <1>4
  <2> QED BY <1>0, <1>1, <1>4, <1>9, <1>10, <1>11, <2>1, RunHolds
<1>13. Passed' = L + n
  BY <1>1, <1>3, <1>4 DEF Passed, I!Owed
<1>14. SymbolInv' /\ CallInv'
  BY <1>3 DEF SymbolInv, CallInv
<1> QED BY <1>1, <1>3, <1>4, <1>12, <1>13, <1>14 DEF InflateInv

\* A byte of a literal or a match goes into the window, or the call ends.
LEMMA PutStep ==
  ASSUME InflateInv, I!Put
  PROVE  InflateInv'
<1> DEFINE v == I!NEEDOUT(w)
           byte == IF mode = "LIT" THEN pending[2] ELSE I!Back(v, pending[1])
           q == Passed
<1>0. Size \in Nat \ {0}
  BY InflateAssumption
<1>1. /\ text \in Seq(Letters) /\ SymbolInv /\ Holds(w, text, q) /\ w.read \in 0..(Size - 1)
      /\ mode \in {"LIT", "COPY"} /\ inflatePc = "inflate" /\ Len(text) \in Nat
  BY DEF InflateInv, I!Put
<1>2. /\ Holds(v, text, q) /\ v.read \in 0..(Size - 1)
      /\ I!WAVAIL(v) = 0 => v.avail_out = 0
  BY <1>0, <1>1, NeedoutHolds
<1>3. CASE I!WAVAIL(v) = 0
  <2>1. I!LEAVE(v)
    BY <1>3 DEF I!Put
  <2> HIDE DEF v
  <2> QED BY <1>1, <1>2, <1>3, <2>1, LeaveStep
<1>4. CASE I!WAVAIL(v) # 0
  <2>1. /\ w' = I!OUTBYTE(v, byte)
        /\ pending' = (IF mode = "LIT" \/ pending[2] = 1 THEN <<>>
                       ELSE <<pending[1], pending[2] - 1>>)
        /\ mode' = (IF pending' = <<>> THEN "LEN" ELSE mode)
        /\ text' = text /\ inflatePc' = "inflate"
    BY <1>1, <1>4 DEF I!Put
  <2> HIDE DEF v
  <2>2. mode = "LIT" => Len(text) >= 1 /\ q = Len(text) - 1 /\ pending[2] = text[Len(text)]
    <3> SUFFICES ASSUME mode = "LIT"
                 PROVE  Len(text) >= 1 /\ q = Len(text) - 1 /\ pending[2] = text[Len(text)]
      OBVIOUS
    <3>1. I!Owed = 1
      BY OwedIs
    <3>2. Len(text) >= 1 /\ pending = <<0, text[Len(text)]>>
      BY <1>1 DEF SymbolInv
    <3> QED BY <3>1, <3>2 DEF Passed
  <2>3. mode = "COPY" =>
          /\ pending[1] \in 1..Size /\ pending[2] \in Nat \ {0} /\ q = Len(text) - pending[2]
          /\ pending[1] + pending[2] <= Len(text) /\ Repeats(text, q, pending[1], pending[2])
    <3> SUFFICES ASSUME mode = "COPY"
                 PROVE  /\ pending[1] \in 1..Size /\ pending[2] \in Nat \ {0}
                        /\ q = Len(text) - pending[2]
                        /\ pending[1] + pending[2] <= Len(text)
                        /\ Repeats(text, q, pending[1], pending[2])
      OBVIOUS
    <3>1. I!Owed = pending[2]
      BY OwedIs
    <3>2. q = Len(text) - pending[2]
      BY <3>1 DEF Passed
    <3>3. /\ pending[1] \in 1..Size /\ pending[2] \in Nat \ {0}
          /\ pending[1] + pending[2] <= Len(text)
          /\ Repeats(text, Len(text) - pending[2], pending[1], pending[2])
      BY <1>1 DEF SymbolInv
    <3> HIDE DEF q
    <3> QED BY <3>2, <3>3
  <2> HIDE DEF q
  <2> DEFINE d == pending[1]
             l == pending[2]
  <2>4. q \in Nat /\ q + 1 <= Len(text)
    <3>1. CASE mode = "LIT"
      BY <1>1, <2>2, <3>1
    <3>2. CASE mode = "COPY"
      <4>1. d \in 1..Size /\ l \in Nat \ {0} /\ q = Len(text) - l /\ d + l <= Len(text)
        BY <2>3, <3>2
      <4> HIDE DEF d, l
      <4> QED BY <1>0, <1>1, <4>1
    <3> QED BY <1>1, <3>1, <3>2
  <2>5. byte = text[q + 1]
    <3>1. CASE mode = "LIT"
      <4>1. q + 1 = Len(text)
        BY <1>1, <2>2, <3>1
      <4> QED BY <2>2, <3>1, <4>1
    <3>2. CASE mode = "COPY"
      <4>1. /\ d \in 1..Size /\ l \in Nat \ {0} /\ q = Len(text) - l /\ d + l <= Len(text)
            /\ Repeats(text, q, d, l) /\ byte = I!Back(v, d)
        BY <2>3, <3>2
      <4> HIDE DEF d, l
      <4>2. d <= q
        BY <1>0, <1>1, <4>1
      <4>3. I!Back(v, d) = text[q - d + 1]
        BY <1>0, <1>1, <1>2, <2>4, <4>1, <4>2, BackIs
      <4>4. text[q + 1] = text[q + 1 - d]
        BY <4>1 DEF Repeats
      <4>5. q - d + 1 = q + 1 - d
        BY <2>4, <4>1
      <4> HIDE DEF byte
      <4> QED BY <4>1, <4>3, <4>4, <4>5
    <3> QED BY <1>1, <3>1, <3>2
  <2> HIDE DEF byte
  <2>6. v.write \in 0..Size /\ v.read \in 0..Size /\ I!WAVAIL(v) >= 1 /\ v.write + 1 <= Size
    <3>1. v.write \in 0..Size /\ v.read \in 0..Size
      BY <1>2 DEF Holds, Windows
    <3> QED BY <1>0, <1>4, <3>1 DEF I!WAVAIL
  <2>7. w' = Run(v, text, q, 1)
    <3>1. /\ Run(v, text, q, 1) = I!OUTBYTE(Run(v, text, q, 1 - 1), text[q + 1])
          /\ Run(v, text, q, 0) = v
      BY <1>0, <1>1, <1>2, <2>4, <2>6, RunStep
    <3> QED BY <2>1, <2>5, <3>1
  <2>8. Holds(w', text, q + 1) /\ w'.read = v.read
    BY <1>0, <1>1, <1>2, <2>4, <2>6, <2>7, RunHolds
  <2>9. CASE mode = "LIT" \/ l = 1
    <3>1. pending' = <<>> /\ mode' = "LEN"
      BY <2>1, <2>9
    <3>2. q + 1 = Len(text)
      BY <1>1, <2>2, <2>3, <2>9
    <3>3. Passed' = q + 1
      BY <1>1, <2>1, <3>1, <3>2 DEF Passed, I!Owed
    <3>4. SymbolInv' /\ CallInv'
      BY <2>1, <3>1 DEF SymbolInv, CallInv
    <3> QED BY <1>1, <1>2, <2>1, <2>8, <3>3, <3>4 DEF InflateInv
  <2>10. CASE mode = "COPY" /\ l # 1
    <3>1. pending' = <<d, l - 1>>
      BY <2>1, <2>10
    <3>2. /\ d \in 1..Size /\ l \in Nat \ {0} /\ q = Len(text) - l /\ d + l <= Len(text)
          /\ Repeats(text, q, d, l) /\ l # 1
      BY <2>3, <2>10
    <3> HIDE DEF d, l
    <3> DEFINE k == l - 1
    <3>3. k \in Nat \ {0} /\ Len(text) - k = q + 1 /\ d + k <= Len(text) /\ l = k + 1
      BY <1>0, <1>1, <3>2
    <3>4. pending' = <<d, k>>
      BY <3>1
    <3> HIDE DEF k
    <3>5. pending' # <<>> /\ pending'[1] = d /\ pending'[2] = k
      BY <3>4
    <3>6. mode' = "COPY"
      BY <2>1, <2>10, <3>5
    <3>7. Repeats(text, q + 1, d, k)
      <4>1. ASSUME NEW j \in 1..k PROVE text[(q + 1) + j] = text[(q + 1) + j - d]
        <5>1. j + 1 \in 1..l /\ q + (j + 1) = (q + 1) + j /\ q + (j + 1) - d = (q + 1) + j - d
          BY <2>4, <3>2, <3>3
        <5>2. \A i \in 1..l : text[q + i] = text[q + i - d]
          BY <3>2 DEF Repeats
        <5>3. text[q + (j + 1)] = text[q + (j + 1) - d]
          BY <5>1, <5>2
        <5> QED BY <5>1, <5>3
      <4> QED BY <4>1 DEF Repeats
    <3>8. Passed' = q + 1
      <4>1. I!Owed' = k
        BY <1>0, <3>2, <3>5 DEF I!Owed
      <4> QED BY <2>1, <3>3, <4>1 DEF Passed
    <3>9. SymbolInv'
      <4>1. Repeats(text, Len(text) - k, d, k)
        BY <3>3, <3>7
      <4> QED BY <2>1, <3>2, <3>3, <3>4, <3>5, <3>6, <4>1 DEF SymbolInv
    <3>10. CallInv'
      BY <2>1, <3>6 DEF CallInv
    <3> QED BY <1>1, <1>2, <2>1, <2>8, <3>8, <3>9, <3>10 DEF InflateInv
  <2> QED BY <1>1, <2>9, <2>10
<1> QED BY <1>3, <1>4

\* Bytes of a stored block go into the window, or the call ends.
LEMMA StoredStep ==
  ASSUME InflateInv, NEW b \in Seq(Letters), I!Stored(b)
  PROVE  InflateInv'
<1> DEFINE v == I!NEEDOUT(w)
           e == text \o b
           m == Len(text)
           n == Len(b)
<1>0. Size \in Nat \ {0}
  BY InflateAssumption
<1>1. /\ text \in Seq(Letters) /\ SymbolInv /\ Holds(w, text, Passed) /\ w.read \in 0..(Size - 1)
      /\ mode = "STORED" /\ inflatePc = "inflate" /\ m \in Nat /\ n \in Nat
  BY DEF InflateInv, I!Stored
<1>2. Passed = m /\ pending = <<>>
  BY <1>1, OwedIs DEF SymbolInv
<1>3. /\ Holds(v, text, m) /\ v.read \in 0..(Size - 1)
      /\ I!WAVAIL(v) = 0 => v.avail_out = 0
  BY <1>0, <1>1, <1>2, NeedoutHolds
<1>4. CASE I!WAVAIL(v) = 0
  <2>1. I!LEAVE(v)
    BY <1>4 DEF I!Stored
  <2> HIDE DEF v
  <2> QED BY <1>1, <1>2, <1>3, <1>4, <2>1, LeaveStep
<1>5. CASE I!WAVAIL(v) # 0
  <2>1. /\ n <= I!WAVAIL(v) /\ w' = I!Filled(v, b) /\ text' = e
        /\ mode' \in {"STORED", "DRY", "TYPE"}
        /\ pending' = <<>> /\ inflatePc' = "inflate"
    BY <1>1, <1>2, <1>5 DEF I!Stored, I!AfterBlock
  <2> HIDE DEF v
  <2>2. e \in Seq(Letters) /\ Len(e) = m + n /\ \A i \in 1..m : e[i] = text[i]
    BY <1>1, ConcatProperties
  <2>3. \A j \in 1..n : e[m + j] = b[j]
    <3> SUFFICES ASSUME NEW j \in 1..n PROVE e[m + j] = b[j]
      OBVIOUS
    <3>1. m + j \in 1..(m + n) /\ m + j > m /\ m + j - m = j
      BY <1>1
    <3>2. ASSUME NEW x \in Seq(Letters), NEW y \in Seq(Letters), NEW i \in 1..(Len(x) + Len(y)),
                 i > Len(x)
          PROVE  (x \o y)[i] = y[i - Len(x)]
      BY <3>2, ConcatProperties
    <3> QED BY <1>1, <3>1, <3>2
  <2> HIDE DEF e
  <2>4. Holds(v, e, m)
    <3>1. Len(text) <= Len(e)
      BY <1>1, <2>2
    <3> QED BY <1>0, <1>1, <1>3, <2>2, <3>1, LongerHolds
  <2>5. I!WAVAIL(v) >= n
    <3>1. v.write \in 0..Size /\ v.read \in 0..Size
      BY <1>3 DEF Holds, Windows
    <3>2. I!WAVAIL(v) \in Int
      BY <1>0, <3>1 DEF I!WAVAIL
    <3> QED BY <1>1, <2>1, <3>2
  <2>6. w' = Run(v, e, m, n)
    <3>1. m + Len(b) <= Len(e)
      BY <1>1, <2>2
    <3> QED BY <1>0, <1>1, <1>3, <2>1, <2>2, <2>3, <2>4, <2>5, <3>1, FilledIsRun, ZenonT(60)
  <2>7. Holds(w', e, m + n) /\ w'.read = v.read
    <3>1. m + n <= Len(e)
      BY <1>1, <2>2
    <3> HIDE DEF m, n
    <3> QED BY <1>0, <1>1, <1>3, <2>2, <2>4, <2>5, <2>6, <3>1, RunHolds
  <2>8. Passed' = m + n
    BY <1>1, <2>1, <2>2 DEF Passed, I!Owed
  <2>9. SymbolInv' /\ CallInv'
    BY <2>1 DEF SymbolInv, CallInv
  <2> HIDE DEF m, n
  <2> QED BY <1>1, <1>3, <2>1, <2>2, <2>7, <2>8, <2>9 DEF InflateInv
<1> QED BY <1>4, <1>5

\* At first there is nothing to hold.
LEMMA InflateInit ==
  ASSUME I!Init
  PROVE  InflateInv
<1>0. Size \in Nat \ {0} /\ (CHOOSE b \in Letters : TRUE) \in Letters
  BY InflateAssumption
<1> DEFINE c == CHOOSE b \in Letters : TRUE
<1>1. /\ w = [window |-> [k \in 0..(Size - 1) |-> c], read |-> 0, write |-> 0,
              avail_out |-> 0, bytes |-> <<>>]
      /\ mode = "TYPE" /\ pending = <<>> /\ text = <<>>
  BY DEF I!Init
<1> HIDE DEF c
<1>2. c \in Letters
  BY <1>0 DEF c
<1>3. text \in Seq(Letters) /\ Len(text) = 0 /\ Passed = 0
  <2>1. text \in Seq(Letters) /\ Len(text) = 0
    BY <1>1
  <2>2. I!Owed = 0
    BY <1>1 DEF I!Owed
  <2> QED BY <2>1, <2>2 DEF Passed
<1>4. w \in Windows /\ w.read = 0 /\ w.write = 0 /\ w.avail_out = 0 /\ Len(w.bytes) = 0
  <2>1. [k \in 0..(Size - 1) |-> c] \in [0..(Size - 1) -> Letters] /\ <<>> \in Seq(Letters)
    BY <1>2
  <2> QED BY <1>0, <1>1, <2>1 DEF Windows
<1>5. Waiting(w) = 0
  BY <1>4 DEF Waiting
<1>6. Holds(w, text, 0)
  <2>1. \A k \in 1..Size : ~(k <= 0)
    BY <1>0
  <2> QED BY <1>3, <1>4, <1>5, <2>1 DEF Holds
<1>7. SymbolInv /\ CallInv
  BY <1>1, <1>4 DEF SymbolInv, CallInv, I!NeedsInput
<1>8. w.read \in 0..(Size - 1)
  BY <1>0, <1>4
<1> QED BY <1>3, <1>6, <1>7, <1>8 DEF InflateInv

\* Every step of a call, and every call, keeps the invariant.
LEMMA InflateStep ==
  ASSUME InflateInv, I!Next
  PROVE  InflateInv'
<1>1. ASSUME NEW b \in Letters PROVE <<b>> \in Seq(Letters) /\ <<b, b>> \in Seq(Letters)
  OBVIOUS
<1>2. ASSUME NEW b \in Letters, I!Stored(<<b>>) \/ I!Stored(<<b, b>>) PROVE InflateInv'
  BY <1>1, <1>2, StoredStep
<1>3. ASSUME NEW s \in I!Symbols, I!Symbol(s) \/ I!Fast(s) PROVE InflateInv'
  BY <1>3, SymbolStep, FastStep
<1> QED BY <1>2, <1>3, ModeStep, InputRunsOutStep, PutStep, WashStep DEF I!Next

\* So does a step of another component.
LEMMA InflateStays ==
  ASSUME InflateInv, UNCHANGED inflateVars
  PROVE  InflateInv'
<1>1. w' = w /\ mode' = mode /\ pending' = pending /\ text' = text /\ inflatePc' = inflatePc
  BY DEF inflateVars
<1>2. Passed' = Passed
  BY <1>1, SameSymbol
<1> QED BY <1>1, <1>2 DEF InflateInv, SymbolInv, CallInv, I!NeedsInput

\* What the invariant means for the caller.
LEMMA InflateMeans ==
  ASSUME InflateInv
  PROVE  I!InflateExact
<1>0. /\ Size \in Nat \ {0} /\ text \in Seq(Letters) /\ Holds(w, text, Passed)
      /\ w.read \in 0..(Size - 1)
  BY InflateAssumption DEF InflateInv
<1>1. w.bytes \o I!Unread = SubSeq(text, 1, Passed)
  BY <1>0, UnreadIs
<1>2. w.bytes \o I!Unread = SubSeq(text, 1, Len(text) - I!Owed)
  BY <1>1 DEF Passed
<1>3. ASSUME mode = "DONE" PROVE w.bytes = text
  <2>1. w.read = w.write /\ Passed = Len(text)
    BY <1>3, OwedIs DEF InflateInv, CallInv
  <2>2. w.read \in 0..Size /\ w.bytes \in Seq(Letters)
    BY <1>0 DEF Holds, Windows
  <2>3. Waiting(w) = 0
    BY <2>1, <2>2 DEF Waiting
  <2>4. Len(w.bytes) = Len(text) /\ \A i \in 1..Len(w.bytes) : w.bytes[i] = text[i]
    <3>1. Len(text) \in Nat
      BY <1>0
    <3> QED BY <1>0, <2>1, <2>3, <3>1 DEF Holds
  <2> QED BY <1>0, <2>2, <2>4
<1> QED BY <1>2, <1>3 DEF I!InflateExact, InflateInv, CallInv

\* Whatever the sizes of the window and of the caller's buffers, and wherever
\* the calls of unzReadCurrentFile end, the caller gets the bytes that the
\* symbols stand for, in order and none twice: nothing is overwritten before it
\* is delivered, and no match reads what has gone.
THEOREM Inflated == AllSpec => []InflateExact
<1>1. AllInit => InflateInv
  BY InflateInit DEF AllInit
<1>2. InflateInv /\ [AllNext]_allVars => InflateInv'
  <2> SUFFICES ASSUME InflateInv, [AllNext]_allVars PROVE InflateInv'
    OBVIOUS
  <2>1. CASE I!Next
    BY <2>1, InflateStep
  <2>2. CASE UNCHANGED inflateVars
    BY <2>2, InflateStays
  <2> QED
    BY <2>1, <2>2 DEF AllNext, allVars, Md5Next, ReaderNext, DeflateNext, InflateNext, TreesNext,
                      ArchiveNext, ItemsNext
<1>3. InflateInv => InflateExact
  BY InflateMeans DEF InflateExact
<1> QED BY <1>1, <1>2, <1>3, PTL DEF AllSpec

(***************************************************************************)
(* Md5.  A message comes in updates and files of any length; the bits are  *)
(* counted in two words, the low one of which also tells the place in the  *)
(* block.                                                                  *)
(***************************************************************************)
\* The constants.
LEMMA Sizes ==
  /\ BlockSize \in Nat /\ BlockSize >= 1 /\ Word \in Nat /\ Word >= 1
  /\ ByteBits \in Nat /\ ByteBits >= 1 /\ WordBits \in Nat /\ WordBits >= 1
  /\ MaxChunk \in Nat /\ MaxLength \in Nat /\ MaxChunk < Word
  /\ BUFFER_SIZE \in Nat /\ BUFFER_SIZE >= 1 /\ BUFFER_SIZE < Word
  /\ LengthSize \in Nat /\ LengthSize >= 1 /\ LengthSize < BlockSize
<1>1. /\ BlockSize \in Nat /\ BlockSize >= 1 /\ Word \in Nat /\ Word >= 1 /\ ByteBits \in Nat
      /\ ByteBits >= 1 /\ WordBits \in Nat /\ WordBits >= 1
      /\ MaxChunk \in Nat /\ MaxLength \in Nat /\ MaxChunk < Word
      /\ BUFFER_SIZE \in Nat /\ BUFFER_SIZE >= 1 /\ BUFFER_SIZE < Word
      /\ WordBits % ByteBits = 0 /\ LengthSize < BlockSize
  BY Md5Assumption
<1> DEFINE n == WordBits \div ByteBits
<1>2. n \in Int /\ WordBits = ByteBits * n + (WordBits % ByteBits)
  BY <1>1
<1>3. LengthSize = 2 * n
  BY DEF LengthSize
<1> HIDE DEF n
<1>4. n >= 1
  <2>1. ASSUME n <= 0 PROVE ByteBits * n <= 0
    BY <1>1, <1>2, <2>1
  <2> QED BY <1>1, <1>2, <2>1
<1> QED BY <1>1, <1>2, <1>3, <1>4

\* The length in bits modulo the low word tells the place in the block.
LEMMA LowIs ==
  ASSUME NEW n \in Nat
  PROVE  (((n * ByteBits) % Word) \div ByteBits) % BlockSize = n % BlockSize
<1> DEFINE K == Word \div ByteBits
           j == K \div BlockSize
           a == n \div K
           r == n % K
           e == r \div BlockSize
           f == r % BlockSize
<1>0. BlockSize \in Nat \ {0} /\ Word \in Nat \ {0} /\ ByteBits \in Nat \ {0}
  BY Sizes
<1>1. K \in Int /\ Word = ByteBits * K
  BY <1>0, Md5Assumption
<1>2. K >= 1
  <2> HIDE DEF K
  <2>1. ASSUME K <= 0 PROVE ByteBits * K <= 0
    BY <1>0, <1>1, <2>1
  <2> QED BY <1>0, <1>1, <2>1
<1>3. j \in Int /\ K = BlockSize * j
  <2>1. K % BlockSize = 0
    BY Md5Assumption
  <2> HIDE DEF K
  <2> QED BY <1>0, <1>1, <2>1
<1> HIDE DEF K
<1>4. a \in Int /\ r \in 0..(K - 1) /\ n = K * a + r
  BY <1>1, <1>2
<1> HIDE DEF a, r, j
<1>5. e \in Int /\ f \in 0..(BlockSize - 1) /\ r = BlockSize * e + f
  BY <1>0, <1>4
<1> HIDE DEF e
<1>6. (n * ByteBits) % Word = ByteBits * r
  <2>1. n * ByteBits = Word * a + ByteBits * r
    BY <1>0, <1>1, <1>4
  <2>2. ByteBits * r \in 0..(Word - 1)
    <3>1. ByteBits * r >= 0 /\ ByteBits * r \in Int
      BY <1>0, <1>4
    <3>2. ByteBits * (K - r) >= ByteBits /\ ByteBits * (K - r) = Word - ByteBits * r
      BY <1>0, <1>1, <1>4
    <3> QED BY <1>0, <3>1, <3>2
  <2>3. n * ByteBits \in Int
    BY <1>0
  <2> DEFINE x == n * ByteBits
             s == ByteBits * r
  <2>4. x = Word * a + s /\ x \in Int /\ s \in 0..(Word - 1)
    BY <2>1, <2>2, <2>3
  <2> HIDE DEF x, s
  <2>5. x % Word = s
    BY <1>0, <1>4, <2>4, DivModUnique
  <2> QED BY <2>5 DEF x, s
<1>7. (ByteBits * r) \div ByteBits = r
  <2>1. ByteBits * r = ByteBits * r + 0 /\ ByteBits * r \in Int /\ 0 \in 0..(ByteBits - 1)
    BY <1>0, <1>4
  <2> QED BY <1>0, <1>4, <2>1, DivModUnique
<1>8. n % BlockSize = f
  <2>1. n = BlockSize * (j * a + e) + f /\ j * a + e \in Int
    BY <1>0, <1>3, <1>4, <1>5
  <2> DEFINE g == j * a + e
  <2>2. n = BlockSize * g + f /\ g \in Int /\ n \in Int
    BY <2>1
  <2> HIDE DEF f, g
  <2> QED BY <1>0, <1>5, <2>2, DivModUnique
<1> QED BY <1>6, <1>7, <1>8

\* Remainders of sums.
LEMMA ModSum ==
  ASSUME NEW n \in Nat \ {0}, NEW a \in Int, NEW b \in Int
  PROVE  ((a % n) + b) % n = (a + b) % n
<1> DEFINE q == a \div n
           r == a % n
           p == (r + b) \div n
           s == (r + b) % n
<1>1. q \in Int /\ r \in 0..(n - 1) /\ a = n * q + r
  OBVIOUS
<1> HIDE DEF q, r
<1>2. p \in Int /\ s \in 0..(n - 1) /\ r + b = n * p + s
  BY <1>1
<1>4. s = (r + b) % n
  OBVIOUS
<1> HIDE DEF p, s
<1>3. a + b = n * (q + p) + s /\ q + p \in Int /\ a + b \in Int
  BY <1>1, <1>2
<1>5. (a + b) % n = s
  BY <1>2, <1>3, DivModUnique
<1> QED BY <1>4, <1>5 DEF r

Counts == (0..(Word - 1)) \X (0..(Word - 1))

\* The two words that count the bits of n bytes.
CountOf(n) == <<(n * ByteBits) % Word, ((n * ByteBits) \div Word) % Word>>

\* The addition in update(), low word.
LEMMA AddLow ==
  ASSUME NEW count \in Counts, NEW n \in Nat, NEW len \in Nat, count[1] = (n * ByteBits) % Word
  PROVE  AddBits(count, len) \in Counts /\ AddBits(count, len)[1] = ((n + len) * ByteBits) % Word
<1> DEFINE add == (len * ByteBits) % Word
           low == (count[1] + add) % Word
           carry == IF low < add THEN 1 ELSE 0
           K == Word \div ByteBits
           high == (count[2] + carry + (len % Word) \div K) % Word
<1>0. Word \in Nat \ {0} /\ ByteBits \in Nat \ {0}
  BY Sizes
<1>1. count[1] \in 0..(Word - 1) /\ count[2] \in 0..(Word - 1)
  BY DEF Counts
<1>2. AddBits(count, len) = <<low, high>>
  BY DEF AddBits
<1>3. /\ len * ByteBits \in Int /\ n * ByteBits \in Int
      /\ (n + len) * ByteBits = n * ByteBits + len * ByteBits
  BY <1>0
<1>4. add \in 0..(Word - 1)
  BY <1>0, <1>3
<1>5. low = ((n * ByteBits) + (len * ByteBits)) % Word
  <2>1. low = (n * ByteBits + add) % Word
    <3> DEFINE x == n * ByteBits
    <3>0. low = (count[1] + add) % Word /\ count[1] = x % Word /\ x \in Int
      <4> HIDE DEF add
      <4> QED BY <1>3
    <3> HIDE DEF add, x, low
    <3>1. low = ((x % Word) + add) % Word /\ x \in Int
      BY <1>0, <1>1, <1>4, <3>0
    <3> HIDE DEF add, x, low
    <3>2. \A a, b \in Int : ((a % Word) + b) % Word = (a + b) % Word
      BY <1>0, ModSum
    <3>3. add \in Int
      BY <1>0, <1>4
    <3>4. ((x % Word) + add) % Word = (x + add) % Word
      BY <3>0, <3>2, <3>3
    <3> QED BY <3>1, <3>4 DEF x
  <2>2. (add + n * ByteBits) % Word = (len * ByteBits + n * ByteBits) % Word
    BY <1>0, <1>3, ModSum
  <2>3. /\ add + n * ByteBits = n * ByteBits + add
        /\ len * ByteBits + n * ByteBits = (n * ByteBits) + (len * ByteBits)
    BY <1>3, <1>4
  <2> HIDE DEF low, add
  <2> QED BY <2>1, <2>2, <2>3
<1>6. low \in 0..(Word - 1)
  <2> HIDE DEF add
  <2> QED BY <1>0, <1>1, <1>4
<1> HIDE DEF low
<1>7. high \in 0..(Word - 1)
  <2>1. K \in Int /\ K >= 1
    <3>1. K \in Int /\ Word = ByteBits * K
      BY <1>0, Md5Assumption
    <3> HIDE DEF K
    <3>2. ASSUME K <= 0 PROVE ByteBits * K <= 0
      BY <1>0, <3>1, <3>2
    <3> QED BY <1>0, <3>1, <3>2
  <2>2. carry \in Int
    OBVIOUS
  <2> HIDE DEF K, carry
  <2>3. (len % Word) \div K \in Int
    BY <1>0, <2>1
  <2> QED BY <1>0, <1>1, <2>2, <2>3
<1> HIDE DEF high
<1> QED BY <1>2, <1>3, <1>5, <1>6, <1>7 DEF Counts

\* Both words, for an update that is shorter than 2^32 bytes.
LEMMA AddBoth ==
  ASSUME NEW n \in Nat, NEW len \in Nat, len < Word
  PROVE  AddBits(CountOf(n), len) = CountOf(n + len)
<1> DEFINE K == Word \div ByteBits
           x == n * ByteBits
           y == len * ByteBits
           a == x \div Word
           r == x % Word
           b == len \div K
           s == y % Word
           low == (r + s) % Word
           carry == IF low < s THEN 1 ELSE 0
<1>0. Word \in Nat \ {0} /\ ByteBits \in Nat \ {0}
  BY Sizes
<1>1. K \in Int /\ Word = ByteBits * K
  BY <1>0, Md5Assumption
<1>2. K >= 1
  <2> HIDE DEF K
  <2>1. ASSUME K <= 0 PROVE ByteBits * K <= 0
    BY <1>0, <1>1, <2>1
  <2> QED BY <1>0, <1>1, <2>1
<1>3. AddBits(CountOf(n), len) = <<low, ((a % Word) + carry + b) % Word>>
  <2>1. len % Word = len
    BY <1>0, ModSmall
  <2>2. CountOf(n)[1] = r /\ CountOf(n)[2] = a % Word
    BY DEF CountOf
  <2>3. AddBits(CountOf(n), len) = <<(CountOf(n)[1] + s) % Word,
           (CountOf(n)[2] + (IF (CountOf(n)[1] + s) % Word < s THEN 1 ELSE 0)
              + (len % Word) \div K) % Word>>
    BY DEF AddBits
  <2> HIDE DEF K, s, r, a
  <2> QED BY <2>1, <2>2, <2>3
<1>4. CountOf(n + len) = <<(x + y) % Word, ((x + y) \div Word) % Word>>
  <2>1. (n + len) * ByteBits = x + y
    BY <1>0
  <2> QED BY <2>1 DEF CountOf
<1>5. x \in Int /\ y \in Int
  BY <1>0
<1> HIDE DEF x, K
<1>6. a \in Int /\ r \in 0..(Word - 1) /\ x = Word * a + r
  BY <1>0, <1>5
<1>7. b \in Int /\ s \in 0..(Word - 1) /\ y = Word * b + s
  <2> DEFINE u == len % K
  <2>1. b \in Int /\ u \in 0..(K - 1) /\ len = K * b + u
    BY <1>1, <1>2
  <2> HIDE DEF b, u
  <2>2. y = Word * b + ByteBits * u
    BY <1>0, <1>1, <2>1
  <2>3. ByteBits * u \in 0..(Word - 1)
    <3>1. ByteBits * u >= 0 /\ ByteBits * u \in Int
      BY <1>0, <2>1
    <3>2. ByteBits * (K - u) >= ByteBits /\ ByteBits * (K - u) = Word - ByteBits * u
      BY <1>0, <1>1, <2>1
    <3> QED BY <1>0, <3>1, <3>2
  <2> HIDE DEF y
  <2>4. y % Word = ByteBits * u
    BY <1>0, <1>5, <2>1, <2>2, <2>3, DivModUnique
  <2> QED BY <2>1, <2>2, <2>3, <2>4
<1> HIDE DEF y, a, b, r, s
<1>8. CASE r + s < Word
  <2>1. low = r + s /\ carry = 0
    BY <1>0, <1>6, <1>7, <1>8
  <2>2. (x + y) % Word = r + s /\ (x + y) \div Word = a + b
    <3>1. /\ x + y = Word * (a + b) + (r + s) /\ a + b \in Int
          /\ r + s \in 0..(Word - 1) /\ x + y \in Int
      BY <1>0, <1>5, <1>6, <1>7, <1>8
    <3> DEFINE q == a + b
               t == r + s
               v == x + y
    <3>2. v = Word * q + t /\ q \in Int /\ t \in 0..(Word - 1) /\ v \in Int
      BY <3>1
    <3> HIDE DEF q, t, v
    <3>3. v % Word = t /\ v \div Word = q
      BY <1>0, <3>2, DivModUnique
    <3> QED BY <3>3 DEF q, t, v
  <2>3. ((a % Word) + carry + b) % Word = (a + b) % Word
    <3>1. (a % Word) + carry + b = (a % Word) + b
      BY <1>0, <1>6, <1>7, <2>1
    <3> QED BY <1>0, <1>6, <1>7, <3>1, ModSum
  <2> HIDE DEF low, carry
  <2> QED BY <1>3, <1>4, <2>1, <2>2, <2>3
<1>9. CASE r + s >= Word
  <2>1. low = r + s - Word /\ carry = 1
    <3>1. low = r + s - Word
      <4>1. Word <= r + s /\ r + s < 2 * Word /\ r + s \in Int
        BY <1>0, <1>6, <1>7, <1>9
      <4> DEFINE t == r + s
      <4>2. Word <= t /\ t < 2 * Word /\ t \in Int /\ low = t % Word
        BY <4>1
      <4> HIDE DEF t, low
      <4>3. t % Word = t - Word
        BY <1>0, <4>2, ModBig
      <4> QED BY <1>0, <1>6, <1>7, <4>2, <4>3 DEF t
    <3> HIDE DEF low
    <3> QED BY <1>0, <1>6, <1>7, <3>1
  <2>2. (x + y) % Word = r + s - Word /\ (x + y) \div Word = a + b + 1
    <3>1. /\ x + y = Word * (a + b + 1) + (r + s - Word) /\ a + b + 1 \in Int
          /\ r + s - Word \in 0..(Word - 1) /\ x + y \in Int
      BY <1>0, <1>5, <1>6, <1>7, <1>9
    <3> DEFINE q == a + b + 1
               t == r + s - Word
               v == x + y
    <3>2. v = Word * q + t /\ q \in Int /\ t \in 0..(Word - 1) /\ v \in Int
      BY <3>1
    <3> HIDE DEF q, t, v
    <3>3. v % Word = t /\ v \div Word = q
      BY <1>0, <3>2, DivModUnique
    <3> QED BY <3>3 DEF q, t, v
  <2>3. ((a % Word) + carry + b) % Word = (a + b + 1) % Word
    <3>1. (a % Word) + carry + b = (a % Word) + (b + 1) /\ a + b + 1 = a + (b + 1) /\ b + 1 \in Int
      BY <1>0, <1>6, <1>7, <2>1
    <3> QED BY <1>0, <1>6, <3>1, ModSum
  <2> HIDE DEF low, carry
  <2> QED BY <1>3, <1>4, <2>1, <2>2, <2>3
<1> QED BY <1>0, <1>6, <1>7, <1>8, <1>9

\* The bytes of messages and buffers; what stands for those of the length is
\* left open.
Octets == Int \cup {Uninit} \cup {Encode(c)[j] : c \in Counts, j \in 1..LengthSize}

\* A context after n bytes.
Shape(c, n) ==
  /\ c = [state |-> c.state, count |-> c.count, finished |-> c.finished, digest |-> c.digest,
          buffer |-> c.buffer]
  /\ c.state \in Seq(Octets) /\ c.buffer \in [1..BlockSize -> Octets]
  /\ c.count \in Counts /\ c.count[1] = (n * ByteBits) % Word
  /\ Len(c.state) = n - (n % BlockSize)

\* It has the bytes of the message m.
Content(c, m) ==
  /\ \A i \in 1..Len(c.state) : c.state[i] = m[i]
  /\ \A j \in 1..(Len(m) % BlockSize) : c.buffer[j] = m[Len(c.state) + j]

\* The index into the buffer, taken from the low word of the count.
LEMMA IndexIs ==
  ASSUME NEW n \in Nat, NEW c, Shape(c, n)
  PROVE  Index(c) = n % BlockSize
<1>1. c.count[1] = (n * ByteBits) % Word
  BY DEF Shape
<1> QED BY <1>1, LowIs DEF Index

\* Where an update of len bytes ends.
LEMMA Cut ==
  ASSUME NEW n \in Nat, NEW len \in Nat
  PROVE  LET r == n % BlockSize
             part == BlockSize - r
             be == BlockSize * ((len - part) \div BlockSize)
         IN  /\ r \in 0..(BlockSize - 1) /\ n - r \in Nat
             /\ len < part => (n + len) % BlockSize = r + len
             /\ len >= part => /\ be \in Nat /\ len - part - be \in 0..(BlockSize - 1)
                              /\ (n + len) % BlockSize = len - part - be
<1> DEFINE r == n % BlockSize
           q == n \div BlockSize
           part == BlockSize - r
           e == (len - part) \div BlockSize
           f == (len - part) % BlockSize
           be == BlockSize * e
<1>0. BlockSize \in Nat \ {0}
  BY Sizes
<1>1. q \in Int /\ r \in 0..(BlockSize - 1) /\ n = BlockSize * q + r
  BY <1>0
<1>2. q >= 0
  <2> HIDE DEF q, r
  <2>1. ASSUME q <= -1 PROVE BlockSize * q <= -BlockSize
    BY <1>0, <1>1, <2>1
  <2> QED BY <1>0, <1>1, <2>1
<1>3. BlockSize * q \in Nat
  <2> HIDE DEF q
  <2> QED BY <1>0, <1>1, <1>2
<1>r. r = n % BlockSize
  OBVIOUS
<1> HIDE DEF q, r
<1>4. n - r \in Nat
  BY <1>0, <1>1, <1>3
<1>5. ASSUME len < part PROVE (n + len) % BlockSize = r + len
  <2> DEFINE t == n + len
             s == r + len
  <2>1. t = BlockSize * q + s /\ t \in Int /\ s \in 0..(BlockSize - 1)
    BY <1>0, <1>1, <1>5
  <2> HIDE DEF t, s
  <2>2. t % BlockSize = s
    BY <1>0, <1>1, <2>1, DivModUnique
  <2> QED BY <2>2 DEF t, s
<1>6. ASSUME len >= part
      PROVE  /\ be \in Nat /\ len - part - be \in 0..(BlockSize - 1)
             /\ (n + len) % BlockSize = len - part - be
  <2>1. part \in Int /\ len - part \in Nat
    BY <1>0, <1>1, <1>6
  <2> HIDE DEF part
  <2>2. e \in Int /\ f \in 0..(BlockSize - 1) /\ len - part = BlockSize * e + f
    BY <1>0, <2>1
  <2>3. e >= 0
    <3> HIDE DEF e, f
    <3>1. ASSUME e <= -1 PROVE BlockSize * e <= -BlockSize
      BY <1>0, <2>2, <3>1
    <3> QED BY <1>0, <2>1, <2>2, <3>1
  <2> HIDE DEF e
  <2>4. be \in Nat
    BY <1>0, <2>2, <2>3
  <2>5. part \in Int /\ len - part - be = f
    <3>1. part \in Int
      BY <1>0, <1>1 DEF part
    <3> HIDE DEF f
    <3> QED BY <2>1, <2>2, <2>4, <3>1
  <2>6. (n + len) % BlockSize = f
    <3> DEFINE t == n + len
               g == q + 1 + e
    <3> HIDE DEF f
    <3>1. t \in Int /\ g \in Int
      BY <1>0, <1>1, <2>2
    <3>2. BlockSize * g = BlockSize * q + BlockSize + BlockSize * e
      BY <1>0, <1>1, <2>2
    <3>3. t = BlockSize * g + f
      BY <1>0, <1>1, <2>2, <2>4, <2>5, <3>1, <3>2 DEF part
    <3> HIDE DEF t, g
    <3>4. t % BlockSize = f
      BY <1>0, <2>2, <3>1, <3>3, DivModUnique
    <3> QED BY <3>4 DEF t
  <2> HIDE DEF f, be
  <2> QED BY <2>2, <2>4, <2>5, <2>6
<1> QED BY <1>1, <1>4, <1>5, <1>6 DEF r

\* What memcpy into the buffer leaves there.
LEMMA CopyIs ==
  ASSUME NEW buf \in [1..BlockSize -> Octets], NEW at \in Nat, NEW d \in Seq(Octets),
         at + Len(d) <= BlockSize
  PROVE  /\ Copy(buf, at, d) \in [1..BlockSize -> Octets]
         /\ \A j \in 1..BlockSize :
              Copy(buf, at, d)[j] = IF at < j /\ j <= at + Len(d) THEN d[j - at] ELSE buf[j]
<1>0. BlockSize \in Nat
  BY Sizes
<1>1. ASSUME NEW j \in 1..BlockSize, at < j, j <= at + Len(d) PROVE d[j - at] \in Octets
  <2>1. Len(d) \in Nat /\ j - at \in 1..Len(d)
    BY <1>0, <1>1
  <2> QED BY <2>1
<1> QED BY <1>0, <1>1 DEF Copy

\* update() in its two cases: the block is filled, or not.
LEMMA UpdateFields ==
  ASSUME NEW n \in Nat, NEW c, Shape(c, n), NEW x \in Seq(Octets)
  PROVE  LET r == n % BlockSize
             part == BlockSize - r
             i == part + BlockSize * ((Len(x) - part) \div BlockSize)
             full == Copy(c.buffer, r, SubSeq(x, 1, part))
             u == Update(c, x)
         IN  /\ u = [state |-> u.state, count |-> AddBits(c.count, Len(x)), finished |-> FALSE,
                     digest |-> c.digest, buffer |-> u.buffer]
             /\ Len(x) >= part => /\ u.state = c.state \o (full \o SubSeq(x, part + 1, i))
                                  /\ u.buffer = Copy(full, 0, SubSeq(x, i + 1, Len(x)))
             /\ ~(Len(x) >= part) => /\ u.state = c.state
                                     /\ u.buffer = Copy(c.buffer, r, x)
<1> DEFINE r == n % BlockSize
           part == BlockSize - r
           i == part + BlockSize * ((Len(x) - part) \div BlockSize)
           full == Copy(c.buffer, r, SubSeq(x, 1, part))
           u == Update(c, x)
           k == AddBits(c.count, Len(x))
           sf == c.state \o (full \o SubSeq(x, part + 1, i))
           bf == Copy(full, 0, SubSeq(x, i + 1, Len(x)))
           bn == Copy(c.buffer, r, x)
<1>1. c = [state |-> c.state, count |-> c.count, finished |-> c.finished, digest |-> c.digest,
           buffer |-> c.buffer]
  BY DEF Shape
<1>2. Index(c) = r
  BY IndexIs
<1>3. u = IF Len(x) >= part
          THEN [[c EXCEPT !.finished = FALSE, !.count = k] EXCEPT !.state = sf, !.buffer = bf]
          ELSE [[c EXCEPT !.finished = FALSE, !.count = k] EXCEPT !.buffer = bn]
  BY <1>2 DEF Update, Transform
<1> HIDE DEF u, k, sf, bf, bn
<1>4. CASE Len(x) >= part
  <2>1. u = [state |-> sf, count |-> k, finished |-> FALSE, digest |-> c.digest, buffer |-> bf]
    BY <1>1, <1>3, <1>4
  <2>2. u.state = sf /\ u.buffer = bf
    BY <2>1
  <2>3. u = [state |-> u.state, count |-> k, finished |-> FALSE, digest |-> c.digest,
             buffer |-> u.buffer]
    BY <2>1, <2>2
  <2> HIDE DEF part
  <2> QED BY <1>4, <2>2, <2>3 DEF u, sf, bf, k, part
<1>5. CASE ~(Len(x) >= part)
  <2>1. u = [state |-> c.state, count |-> k, finished |-> FALSE, digest |-> c.digest, buffer |-> bn]
    BY <1>1, <1>3, <1>5
  <2>2. u.state = c.state /\ u.buffer = bn
    BY <2>1
  <2>3. u = [state |-> u.state, count |-> k, finished |-> FALSE, digest |-> c.digest,
             buffer |-> u.buffer]
    BY <2>1, <2>2
  <2> HIDE DEF part
  <2> QED BY <1>5, <2>2, <2>3 DEF u, bn, k, part
<1> QED BY <1>4, <1>5

\* Two sequences, one after the other.
LEMMA Joined ==
  ASSUME NEW x \in Seq(Octets), NEW y \in Seq(Octets)
  PROVE  /\ x \o y \in Seq(Octets) /\ Len(x) \in Nat /\ Len(y) \in Nat
         /\ Len(x \o y) = Len(x) + Len(y)
         /\ \A i \in 1..Len(x) : (x \o y)[i] = x[i]
         /\ \A i \in 1..Len(y) : (x \o y)[Len(x) + i] = y[i]
<1>1. x \o y \in Seq(Octets) /\ Len(x) \in Nat /\ Len(y) \in Nat /\ Len(x \o y) = Len(x) + Len(y)
  BY ConcatProperties
<1>2. ASSUME NEW i \in 1..Len(x) PROVE (x \o y)[i] = x[i]
  <2>1. i \in 1..(Len(x) + Len(y)) /\ i <= Len(x)
    BY <1>1
  <2> QED BY <2>1, ConcatProperties
<1>3. ASSUME NEW i \in 1..Len(y) PROVE (x \o y)[Len(x) + i] = y[i]
  <2> DEFINE k == Len(x) + i
  <2>1. k \in 1..(Len(x) + Len(y)) /\ k > Len(x) /\ k - Len(x) = i
    BY <1>1
  <2> HIDE DEF k
  <2>2. (x \o y)[k] = y[k - Len(x)]
    BY <2>1, ConcatProperties
  <2> QED BY <2>1, <2>2 DEF k
<1> QED BY <1>1, <1>2, <1>3

\* Concatenation is associative.
LEMMA Regrouped ==
  ASSUME NEW x \in Seq(Octets), NEW y \in Seq(Octets), NEW o \in Seq(Octets)
  PROVE  (x \o y) \o o = x \o (y \o o)
BY ConcatAssociative

\* A part of a sequence.
LEMMA Slice ==
  ASSUME NEW x \in Seq(Octets), NEW a \in Nat, NEW b \in Nat, a <= b, b <= Len(x)
  PROVE  /\ SubSeq(x, a + 1, b) \in Seq(Octets) /\ Len(SubSeq(x, a + 1, b)) = b - a
         /\ \A j \in 1..(b - a) : SubSeq(x, a + 1, b)[j] = x[a + j]
<1>1. \A j \in 1..(b - a) : x[a + j] \in Octets /\ (a + 1) + j - 1 = a + j
  OBVIOUS
<1> QED BY <1>1

\* An update keeps the shape; where the message was, it now has what was
\* added as well; the bytes before it stay unless the block was filled.
Updates(c, u, m, x) ==
  /\ Shape(u, Len(m \o x)) /\ u.finished = FALSE
  /\ Content(c, m) => Content(u, m \o x)
  /\ Len(x) <= BlockSize - (Len(m) % BlockSize) =>
       \A j \in 1..(Len(m) % BlockSize) : u.buffer[j] = c.buffer[j]
  /\ Len(x) < Word /\ c.count = CountOf(Len(m)) => u.count = CountOf(Len(m \o x))

\* update(), with the block it fills, the blocks it takes from the input and
\* what it leaves in the buffer.
LEMMA Updated ==
  ASSUME NEW m \in Seq(Octets), NEW c, Shape(c, Len(m)), NEW x \in Seq(Octets)
  PROVE  Updates(c, Update(c, x), m, x)
<1> DEFINE n == Len(m)
           len == Len(x)
           r == n % BlockSize
           part == BlockSize - r
           be == BlockSize * ((len - part) \div BlockSize)
           i == part + be
           full == Copy(c.buffer, r, SubSeq(x, 1, part))
           u == Update(c, x)
           y == m \o x
           p == Len(c.state)
           k == AddBits(c.count, len)
<1>0. BlockSize \in Nat /\ BlockSize >= 1 /\ n \in Nat /\ len \in Nat
  BY Sizes
<1>1. /\ r \in 0..(BlockSize - 1) /\ n - r \in Nat
      /\ len < part => (n + len) % BlockSize = r + len
      /\ len >= part => /\ be \in Nat /\ len - part - be \in 0..(BlockSize - 1)
                       /\ (n + len) % BlockSize = len - part - be
  BY <1>0, Cut
<1>2. /\ c.state \in Seq(Octets) /\ c.buffer \in [1..BlockSize -> Octets]
      /\ c.count \in Counts /\ c.count[1] = (n * ByteBits) % Word
      /\ p = n - r
  BY DEF Shape
<1>3. /\ u = [state |-> u.state, count |-> k, finished |-> FALSE,
              digest |-> c.digest, buffer |-> u.buffer]
      /\ len >= part => /\ u.state = c.state \o (full \o SubSeq(x, part + 1, i))
                       /\ u.buffer = Copy(full, 0, SubSeq(x, i + 1, len))
      /\ ~(len >= part) => /\ u.state = c.state
                          /\ u.buffer = Copy(c.buffer, r, x)
  BY <1>0, UpdateFields, ZenonT(60)
<1>4. /\ y \in Seq(Octets) /\ Len(y) = n + len
      /\ \A j \in 1..n : y[j] = m[j]
      /\ \A j \in 1..len : y[n + j] = x[j]
  BY Joined
<1>5. k \in Counts /\ k[1] = (Len(y) * ByteBits) % Word
  <2> DEFINE cc == c.count
  <2>1. cc \in Counts /\ cc[1] = (n * ByteBits) % Word /\ k = AddBits(cc, len) /\ Len(y) = n + len
    BY <1>2, <1>4
  <2> HIDE DEF cc, k, n, len, y
  <2>2. AddBits(cc, len) \in Counts /\ AddBits(cc, len)[1] = ((n + len) * ByteBits) % Word
    BY <1>0, <2>1, AddLow
  <2> QED BY <2>1, <2>2
<1>6. len < Word /\ c.count = CountOf(n) => k = CountOf(Len(y))
  BY <1>0, <1>4, AddBoth
<1>p. p \in Nat /\ part \in Nat /\ n = p + r
  BY <1>0, <1>1, <1>2
<1> HIDE DEF u, y, k, be, r
<1>7. u.count = k /\ u.finished = FALSE
  BY <1>3
<1>8. u = [state |-> u.state, count |-> u.count, finished |-> u.finished, digest |-> u.digest,
           buffer |-> u.buffer]
  BY <1>3
<1> SUFFICES /\ u.state \in Seq(Octets) /\ u.buffer \in [1..BlockSize -> Octets]
             /\ Len(u.state) = Len(y) - (Len(y) % BlockSize)
             /\ Content(c, m) => Content(u, y)
             /\ len <= part => \A j \in 1..r : u.buffer[j] = c.buffer[j]
  <2> HIDE DEF n
  <2>1. Shape(u, Len(y))
    BY <1>5, <1>7, <1>8 DEF Shape
  <2> QED BY <1>6, <1>7, <2>1 DEF Updates, u, y, r, n
<1>9. CASE len < part
  <2>1. Len(y) % BlockSize = r + len /\ r + len < BlockSize /\ r \in Nat
    BY <1>0, <1>1, <1>4, <1>9
  <2>2. u.state = c.state /\ u.buffer = Copy(c.buffer, r, x)
    BY <1>0, <1>1, <1>3, <1>9
  <2>3. /\ u.buffer \in [1..BlockSize -> Octets]
        /\ \A j \in 1..BlockSize :
             u.buffer[j] = IF r < j /\ j <= r + len THEN x[j - r] ELSE c.buffer[j]
    <3>1. r + Len(x) <= BlockSize
      BY <1>0, <2>1
    <3> DEFINE bu == c.buffer
               bv == Copy(bu, r, x)
    <3>2. bu \in [1..BlockSize -> Octets] /\ u.buffer = bv
      BY <1>2, <2>2
    <3> HIDE DEF bu
    <3>3. /\ bv \in [1..BlockSize -> Octets]
          /\ \A j \in 1..BlockSize : bv[j] = IF r < j /\ j <= r + Len(x) THEN x[j - r] ELSE bu[j]
      BY <2>1, <3>1, <3>2, CopyIs
    <3> HIDE DEF bv
    <3> QED BY <3>2, <3>3 DEF bu
  <2>4. Len(u.state) = Len(y) - (Len(y) % BlockSize)
    <3>1. Len(u.state) = p /\ Len(y) = n + len
      BY <1>4, <2>2
    <3> HIDE DEF p, n, len
    <3> QED BY <1>0, <1>p, <2>1, <3>1
  <2>5. \A j \in 1..r : u.buffer[j] = c.buffer[j]
    BY <1>0, <2>1, <2>3
  <2>6. ASSUME Content(c, m) PROVE Content(u, y)
    <3>1. /\ \A j \in 1..p : c.state[j] = m[j]
          /\ \A j \in 1..r : c.buffer[j] = m[p + j]
      BY <2>6 DEF Content, r
    <3>2. ASSUME NEW j \in 1..p PROVE u.state[j] = y[j]
      <4>1. j \in 1..n
        <5> HIDE DEF p, n
        <5> QED BY <1>0, <1>p, <2>1
      <4> QED BY <1>4, <2>2, <3>1, <4>1
    <3>3. ASSUME NEW j \in 1..(r + len) PROVE u.buffer[j] = y[p + j]
      <4>1. CASE j <= r
        <5>1. j \in 1..r /\ p + j \in 1..n
          BY <1>0, <1>p, <2>1, <4>1
        <5> QED BY <1>4, <2>5, <3>1, <5>1
      <4>2. CASE j > r
        <5> DEFINE h == j - r
        <5>1. h \in 1..len /\ p + j = n + h /\ j \in 1..BlockSize /\ r < j /\ j <= r + len
          BY <1>0, <1>p, <2>1, <4>2
        <5>2. u.buffer[j] = x[h]
          BY <2>3, <5>1
        <5> HIDE DEF h
        <5> QED BY <1>4, <5>1, <5>2
      <4> QED BY <1>0, <2>1, <4>1, <4>2
    <3> QED BY <2>1, <2>2, <3>2, <3>3 DEF Content
  <2> QED BY <1>2, <2>2, <2>3, <2>4, <2>5, <2>6
<1>10. CASE len >= part
  <2> DEFINE f == len - part - be
             a == SubSeq(x, 1, part)
             b == SubSeq(x, part + 1, i)
             d == SubSeq(x, i + 1, len)
  <2>1. be \in Nat /\ f \in 0..(BlockSize - 1) /\ Len(y) % BlockSize = f /\ r \in Nat
    BY <1>0, <1>1, <1>4, <1>10
  <2>2. i \in Nat /\ f \in Nat /\ len = i + f /\ part + r = BlockSize /\ part <= len
    BY <1>0, <1>1, <1>10, <1>p, <2>1
  <2>3. u.state = c.state \o (full \o b) /\ u.buffer = Copy(full, 0, d)
    BY <1>3, <1>10
  <2>i. i = part + be
    OBVIOUS
  <2> HIDE DEF i, f, part
  <2>4. a \in Seq(Octets) /\ Len(a) = part /\ \A j \in 1..part : a[j] = x[j]
    BY <1>0, <1>p, <2>2
  <2>5. b \in Seq(Octets) /\ Len(b) = be /\ \A j \in 1..be : b[j] = x[part + j]
    <3>1. part <= i /\ i <= Len(x) /\ i - part = be
      BY <1>0, <1>p, <2>1, <2>2, <2>i
    <3> QED BY <1>p, <2>2, <3>1, Slice
  <2>6. d \in Seq(Octets) /\ Len(d) = f /\ \A j \in 1..f : d[j] = x[i + j]
    <3>1. i <= len /\ len <= Len(x) /\ len - i = f
      BY <1>0, <2>2
    <3> QED BY <1>0, <2>2, <3>1, Slice
  <2> HIDE DEF a, b, d, full
  <2>7. /\ full \in [1..BlockSize -> Octets]
        /\ \A j \in 1..BlockSize : full[j] = IF r < j THEN x[j - r] ELSE c.buffer[j]
    <3>1. r + Len(a) <= BlockSize
      BY <1>0, <1>p, <2>1, <2>2, <2>4
    <3>2. full = Copy(c.buffer, r, a)
      BY DEF full, a, r, part
    <3>3. /\ full \in [1..BlockSize -> Octets]
          /\ \A j \in 1..BlockSize :
               full[j] = IF r < j /\ j <= r + Len(a) THEN a[j - r] ELSE c.buffer[j]
      BY <1>2, <2>1, <2>4, <3>1, <3>2, CopyIs
    <3>4. ASSUME NEW j \in 1..BlockSize, r < j PROVE full[j] = x[j - r]
      <4>1. j <= r + Len(a) /\ j - r \in 1..part
        BY <1>0, <1>p, <2>1, <2>2, <2>4, <3>4
      <4> QED BY <2>4, <3>3, <3>4, <4>1
    <3>5. ASSUME NEW j \in 1..BlockSize, ~(r < j) PROVE full[j] = c.buffer[j]
      BY <3>3, <3>5
    <3> QED BY <3>3, <3>4, <3>5
  <2>8. full \in Seq(Octets) /\ Len(full) = BlockSize
    BY <1>0, <2>7
  <2> DEFINE g == full \o b
  <2>9. /\ g \in Seq(Octets) /\ Len(g) = BlockSize + be
        /\ \A j \in 1..BlockSize : g[j] = full[j]
        /\ \A j \in 1..be : g[BlockSize + j] = b[j]
    BY <2>5, <2>8, Joined
  <2> HIDE DEF g
  <2>10. /\ u.state \in Seq(Octets) /\ Len(u.state) = p + (BlockSize + be)
         /\ \A j \in 1..p : u.state[j] = c.state[j]
         /\ \A j \in 1..(BlockSize + be) : u.state[p + j] = g[j]
    <3>1. u.state = c.state \o g
      BY <2>3 DEF g
    <3> DEFINE cs == c.state
    <3>2. cs \in Seq(Octets) /\ u.state = cs \o g /\ p = Len(cs)
      BY <1>2, <3>1
    <3> HIDE DEF cs, p
    <3>3. /\ u.state \in Seq(Octets) /\ Len(u.state) = Len(cs) + Len(g)
          /\ \A j \in 1..Len(cs) : u.state[j] = cs[j]
          /\ \A j \in 1..Len(g) : u.state[Len(cs) + j] = g[j]
      BY <2>9, <3>2, Joined
    <3> QED BY <2>9, <3>2, <3>3 DEF cs
  <2>l. /\ Len(u.state) \in Nat /\ Len(u.state) = p + (BlockSize + be)
        /\ Len(y) = Len(u.state) + f
    <3>1. Len(u.state) = p + (BlockSize + be) /\ Len(y) = n + len
      BY <1>4, <2>10
    <3> HIDE DEF p, n, len
    <3> QED BY <1>0, <1>p, <2>1, <2>2, <2>i, <3>1
  <2>11. Len(u.state) = Len(y) - (Len(y) % BlockSize)
    BY <2>1, <2>2, <2>l
  <2>12. /\ u.buffer \in [1..BlockSize -> Octets]
         /\ \A j \in 1..BlockSize :
              u.buffer[j] = IF 0 < j /\ j <= 0 + Len(d) THEN d[j - 0] ELSE full[j]
    <3>1. 0 + Len(d) <= BlockSize /\ 0 \in Nat
      BY <1>0, <2>1, <2>2, <2>6
    <3>2. u.buffer = Copy(full, 0, d) /\ d \in Seq(Octets) /\ full \in [1..BlockSize -> Octets]
      BY <2>3, <2>6, <2>7
    <3> DEFINE bv == Copy(full, 0, d)
    <3>3. /\ bv \in [1..BlockSize -> Octets]
          /\ \A j \in 1..BlockSize : bv[j] = IF 0 < j /\ j <= 0 + Len(d) THEN d[j - 0] ELSE full[j]
      BY <3>1, <3>2, CopyIs
    <3>4. u.buffer = bv
      BY <3>2
    <3> HIDE DEF bv
    <3> QED BY <3>3, <3>4
  <2>13. ASSUME len <= part, NEW j \in 1..r PROVE u.buffer[j] = c.buffer[j]
    <3>1. f = 0 /\ Len(d) = 0 /\ j \in 1..BlockSize /\ ~(j <= 0 + Len(d)) /\ ~(r < j)
      BY <1>0, <1>1, <1>p, <2>1, <2>2, <2>i, <2>6, <2>13
    <3> QED BY <2>7, <2>12, <3>1
  <2>14. ASSUME Content(c, m) PROVE Content(u, y)
    <3>1. /\ \A j \in 1..p : c.state[j] = m[j]
          /\ \A j \in 1..r : c.buffer[j] = m[p + j]
      BY <2>14 DEF Content, r
    <3>2. ASSUME NEW j \in 1..p PROVE u.state[j] = y[j]
      <4>1. j \in 1..n
        BY <1>0, <1>p, <2>1
      <4> QED BY <1>4, <2>10, <3>1, <4>1
    <3>3. ASSUME NEW j \in 1..(BlockSize + be) PROVE u.state[p + j] = y[p + j]
      <4>1. CASE j <= r
        <5>1. j \in 1..r /\ j \in 1..BlockSize /\ p + j \in 1..n /\ ~(r < j)
          BY <1>0, <1>1, <1>p, <2>1, <4>1
        <5> QED BY <1>4, <2>7, <2>9, <2>10, <3>1, <5>1, ZenonT(60)
      <4>2. CASE j > r
        <5> DEFINE h == j - r
        <5>1. h \in 1..len /\ p + j = n + h /\ h = j - r
          BY <1>0, <1>p, <2>1, <2>2, <2>i, <4>2
        <5> HIDE DEF h
        <5>2. g[j] = x[h]
          <6>1. CASE j <= BlockSize
            <7>1. j \in 1..BlockSize /\ r < j
              BY <1>0, <2>1, <4>2, <6>1
            <7> QED BY <2>7, <2>9, <5>1, <7>1
          <6>2. CASE j > BlockSize
            <7> DEFINE o == j - BlockSize
            <7>1. o \in 1..be /\ BlockSize + o = j /\ part + o = h
              BY <1>0, <1>p, <2>1, <2>2, <4>2, <5>1, <6>2
            <7> HIDE DEF o
            <7> QED BY <2>5, <2>9, <7>1
          <6> QED BY <1>0, <2>1, <6>1, <6>2
        <5> QED BY <1>4, <2>10, <5>1, <5>2
      <4> QED BY <1>0, <2>1, <4>1, <4>2
    <3>4. ASSUME NEW j \in 1..Len(u.state) PROVE u.state[j] = y[j]
      <4>1. CASE j <= p
        BY <1>0, <1>p, <3>2, <4>1
      <4>2. CASE j > p
        <5> DEFINE h == j - p
        <5>1. h \in 1..(BlockSize + be) /\ p + h = j
          <6> DEFINE l == Len(u.state)
          <6>1. l \in Nat /\ l = p + (BlockSize + be) /\ j \in 1..l
            BY <2>l
          <6> HIDE DEF l, p
          <6> QED BY <1>0, <1>p, <2>1, <4>2, <6>1
        <5> HIDE DEF h
        <5> QED BY <3>3, <5>1
      <4>3. j <= p \/ j > p
        BY <1>p
      <4> QED BY <4>1, <4>2, <4>3
    <3>5. ASSUME NEW j \in 1..f PROVE u.buffer[j] = y[Len(u.state) + j]
      <4>1. /\ j \in 1..BlockSize /\ 0 < j /\ j <= 0 + Len(d) /\ j - 0 = j
            /\ i + j \in 1..len /\ Len(u.state) + j = n + (i + j)
        <5> DEFINE l == Len(u.state)
        <5>1. l \in Nat /\ l = p + (BlockSize + be) /\ Len(d) = f
          BY <2>6, <2>l
        <5> HIDE DEF l, p, n, len
        <5> QED BY <1>0, <1>p, <2>1, <2>2, <2>i, <5>1 DEF l
      <4>2. u.buffer[j] = x[i + j]
        BY <2>6, <2>12, <4>1
      <4> QED BY <1>4, <4>1, <4>2
    <3> QED BY <2>1, <3>4, <3>5 DEF Content
  <2> QED BY <2>10, <2>11, <2>12, <2>13, <2>14
<1> QED BY <1>0, <1>p, <1>9, <1>10

\* A context between calls: it has taken the message m, and its count is right.
Follows(c, m) ==
  /\ m \in Seq(Octets) /\ Shape(c, Len(m)) /\ c.finished = FALSE
  /\ c.count = CountOf(Len(m))

\* A context that follows a message follows what is added to it.
LEMMA Fed ==
  ASSUME NEW c, NEW m, Follows(c, m), NEW x \in Seq(Octets), Len(x) < Word
  PROVE  /\ Follows(Update(c, x), m \o x)
         /\ Content(c, m) => Content(Update(c, x), m \o x)
<1> DEFINE u == Update(c, x)
<1>1. m \in Seq(Octets) /\ Shape(c, Len(m)) /\ c.count = CountOf(Len(m))
  BY DEF Follows
<1>2. Updates(c, u, m, x)
  BY <1>1, Updated
<1>3. m \o x \in Seq(Octets)
  BY <1>1, Joined
<1> HIDE DEF u
<1>4. Follows(u, m \o x) /\ (Content(c, m) => Content(u, m \o x))
  BY <1>1, <1>2, <1>3 DEF Updates, Follows
<1> QED BY <1>4 DEF u

\* The beginning of a sequence, and what comes next.
LEMMA Longer ==
  ASSUME NEW x \in Seq(Octets), NEW a \in Nat, NEW b \in Nat, a <= b, b <= Len(x)
  PROVE  SubSeq(x, 1, a) \o SubSeq(x, a + 1, b) = SubSeq(x, 1, b)
<1> DEFINE f == SubSeq(x, 1, a)
           g == SubSeq(x, a + 1, b)
           h == SubSeq(x, 1, b)
           y == f \o g
<1>0. Len(x) \in Nat /\ a <= Len(x)
  OBVIOUS
<1>1. f \in Seq(Octets) /\ Len(f) = a /\ \A j \in 1..a : f[j] = x[j]
  BY <1>0
<1>2. g \in Seq(Octets) /\ Len(g) = b - a /\ \A j \in 1..(b - a) : g[j] = x[a + j]
  BY Slice
<1>3. h \in Seq(Octets) /\ Len(h) = b /\ \A j \in 1..b : h[j] = x[j]
  BY <1>0
<1> HIDE DEF f, g
<1>4. /\ y \in Seq(Octets) /\ Len(y) = a + (b - a)
      /\ \A i \in 1..a : y[i] = f[i]
      /\ \A i \in 1..(b - a) : y[a + i] = g[i]
  <2>1. /\ y \in Seq(Octets) /\ Len(y) = Len(f) + Len(g)
        /\ \A i \in 1..Len(f) : y[i] = f[i]
        /\ \A i \in 1..Len(g) : y[Len(f) + i] = g[i]
    BY <1>1, <1>2, Joined
  <2> HIDE DEF y
  <2> QED BY <1>1, <1>2, <2>1
<1> HIDE DEF h, y
<1>5. Len(y) = b
  BY <1>4
<1>6. ASSUME NEW i \in 1..b PROVE y[i] = h[i]
  <2>1. CASE i <= a
    <3>1. i \in 1..a
      BY <2>1
    <3> QED BY <1>1, <1>3, <1>4, <3>1
  <2>2. CASE i > a
    <3> DEFINE k == i - a
    <3>1. k \in 1..(b - a) /\ a + k = i
      BY <2>2
    <3> HIDE DEF k
    <3> QED BY <1>2, <1>3, <1>4, <3>1
  <2> QED BY <2>1, <2>2
<1>7. y = h
  BY <1>3, <1>4, <1>5, <1>6
<1> QED BY <1>7 DEF f, g, h, y

\* How much of a file of len bytes has been read after k reads.
Reached(len, k) == IF k * BUFFER_SIZE < len THEN k * BUFFER_SIZE ELSE len

\* The reads of a file follow one another and reach its end, none longer than
\* the buffer.
LEMMA ReadsReach ==
  ASSUME NEW len \in Nat
  PROVE  LET n == (len + BUFFER_SIZE - 1) \div BUFFER_SIZE
         IN  /\ n \in Nat /\ Reached(len, 0) = 0 /\ Reached(len, n) = len
             /\ \A k \in 1..n : /\ Reached(len, k - 1) = (k - 1) * BUFFER_SIZE
                                /\ Reached(len, k) - Reached(len, k - 1) <= BUFFER_SIZE
                                /\ Reached(len, k - 1) \in Nat /\ Reached(len, k) \in Nat
                                /\ Reached(len, k - 1) <= Reached(len, k) /\ Reached(len, k) <= len
<1> DEFINE t == len + BUFFER_SIZE - 1
           n == t \div BUFFER_SIZE
           r == t % BUFFER_SIZE
<1>0. BUFFER_SIZE \in Nat \ {0}
  BY Sizes
<1>1. t \in Nat
  BY <1>0
<1>t. t = len + BUFFER_SIZE - 1
  OBVIOUS
<1> HIDE DEF t
<1>2. n \in Int /\ r \in 0..(BUFFER_SIZE - 1) /\ t = BUFFER_SIZE * n + r
  BY <1>0, <1>1
<1> HIDE DEF n, r
<1>3. n \in Nat
  <2>1. ASSUME n <= -1 PROVE BUFFER_SIZE * n <= -BUFFER_SIZE
    BY <1>0, <1>2, <2>1
  <2> QED BY <1>0, <1>1, <1>2, <2>1
<1>4. Reached(len, 0) = 0
  <2>1. 0 * BUFFER_SIZE = 0
    BY <1>0
  <2> QED BY <2>1 DEF Reached
<1>5. Reached(len, n) = len
  <2>1. n * BUFFER_SIZE = BUFFER_SIZE * n /\ BUFFER_SIZE * n \in Int
    BY <1>0, <1>2
  <2>2. ~(n * BUFFER_SIZE < len)
    BY <1>0, <1>2, <1>t, <2>1
  <2> QED BY <2>2 DEF Reached
<1>6. ASSUME NEW k \in 1..n
      PROVE  /\ Reached(len, k - 1) = (k - 1) * BUFFER_SIZE
             /\ Reached(len, k) - Reached(len, k - 1) <= BUFFER_SIZE
             /\ Reached(len, k - 1) \in Nat /\ Reached(len, k) \in Nat
             /\ Reached(len, k - 1) <= Reached(len, k) /\ Reached(len, k) <= len
  <2> DEFINE a == (k - 1) * BUFFER_SIZE
             b == k * BUFFER_SIZE
  <2>1. a \in Nat /\ b \in Nat /\ b = a + BUFFER_SIZE
    BY <1>0, <1>3
  <2>2. b <= BUFFER_SIZE * n
    <3>1. n - k \in Nat /\ k \in Nat
      BY <1>3
    <3>2. BUFFER_SIZE * (n - k) >= 0 /\ BUFFER_SIZE * (n - k) = BUFFER_SIZE * n - b
      BY <1>0, <1>3, <3>1
    <3>3. BUFFER_SIZE * n \in Int
      BY <1>0, <1>3
    <3> QED BY <2>1, <3>2, <3>3
  <2>3. BUFFER_SIZE * n \in Int
    BY <1>0, <1>3
  <2> HIDE DEF a, b
  <2>4. a < len
    BY <1>0, <1>2, <1>t, <2>1, <2>2, <2>3
  <2>5. Reached(len, k - 1) = a
    BY <2>4 DEF Reached, a
  <2>6. Reached(len, k) = IF b < len THEN b ELSE len
    BY DEF Reached, b
  <2> QED BY <1>0, <2>1, <2>4, <2>5, <2>6 DEF a
<1> QED BY <1>3, <1>4, <1>5, <1>6 DEF n, t

\* A file is read to its end.
LEMMA FedFile ==
  ASSUME NEW c, NEW m, Follows(c, m), NEW d \in Seq(Octets)
  PROVE  /\ Follows(UpdateFile(c, d), m \o d)
         /\ Content(c, m) => Content(UpdateFile(c, d), m \o d)
<1> DEFINE len == Len(d)
           n == (len + BUFFER_SIZE - 1) \div BUFFER_SIZE
           reads == Reads(d)
           Step(f) == [k \in 0..Len(reads) |-> IF k = 0 THEN c ELSE Update(f[k - 1], reads[k])]
           F == CHOOSE f : f = Step(f)
           part(k) == m \o SubSeq(d, 1, Reached(len, k))
<1>0. len \in Nat /\ BUFFER_SIZE \in Nat /\ BUFFER_SIZE < Word /\ Word \in Nat /\ m \in Seq(Octets)
  BY Sizes DEF Follows
<1>1. /\ n \in Nat /\ Reached(len, 0) = 0 /\ Reached(len, n) = len
      /\ \A k \in 1..n : /\ Reached(len, k - 1) = (k - 1) * BUFFER_SIZE
                         /\ Reached(len, k) - Reached(len, k - 1) <= BUFFER_SIZE
                         /\ Reached(len, k - 1) \in Nat /\ Reached(len, k) \in Nat
                         /\ Reached(len, k - 1) <= Reached(len, k) /\ Reached(len, k) <= len
  BY <1>0, ReadsReach
<1>2. UpdateFile(c, d) = F[Len(reads)]
  BY DEF UpdateFile
<1>3. reads = [k \in 1..n |-> SubSeq(d, (k - 1) * BUFFER_SIZE + 1, Reached(len, k))]
  BY DEF Reads, Reached
<1> HIDE DEF n, reads, F
<1>5. ASSUME NEW k \in 1..n
      PROVE  /\ reads[k] \in Seq(Octets) /\ Len(reads[k]) < Word
             /\ part(k - 1) \o reads[k] = part(k)
  <2> DEFINE a == Reached(len, k - 1)
             b == Reached(len, k)
  <2>1. /\ a \in Nat /\ b \in Nat /\ a <= b /\ b <= len /\ b - a <= BUFFER_SIZE
        /\ a = (k - 1) * BUFFER_SIZE
    BY <1>1
  <2>2. reads[k] = SubSeq(d, a + 1, b)
    BY <1>3, <2>1
  <2> HIDE DEF a, b
  <2>3. SubSeq(d, a + 1, b) \in Seq(Octets) /\ Len(SubSeq(d, a + 1, b)) = b - a
    BY <2>1, Slice
  <2>4. SubSeq(d, 1, a) \o SubSeq(d, a + 1, b) = SubSeq(d, 1, b)
    BY <2>1, Longer
  <2>5. SubSeq(d, 1, a) \in Seq(Octets)
    BY <1>0, <2>1
  <2> DEFINE e == SubSeq(d, 1, a)
             g == SubSeq(d, a + 1, b)
  <2>6. (m \o e) \o g = m \o (e \o g)
    <3> HIDE DEF e, g
    <3>1. e \in Seq(Octets) /\ g \in Seq(Octets)
      BY <2>3, <2>5 DEF e, g
    <3> QED BY <1>0, <3>1, Regrouped
  <2>7. Len(reads[k]) < Word
    <3> DEFINE l == Len(reads[k])
    <3>1. l = b - a
      BY <2>2, <2>3
    <3> HIDE DEF l
    <3>2. l < Word
      BY <1>0, <2>1, <3>1
    <3> QED BY <3>2 DEF l
  <2> QED BY <2>2, <2>3, <2>4, <2>6, <2>7 DEF a, b
<1>4. Len(reads) = n
  <2>1. reads \in [1..n -> Seq(Octets)]
    BY <1>3, <1>5
  <2> QED BY <1>1, <2>1
<1>6. part(0) = m /\ part(n) = m \o d
  <2>1. SubSeq(d, 1, 0) = <<>> /\ SubSeq(d, 1, len) = d
    BY <1>0
  <2>2. m \o <<>> = m
    BY <1>0, ConcatEmptySeq
  <2> QED BY <1>1, <2>1, <2>2
<1> HIDE DEF part
<1> DEFINE Partial(f, k) == f = [j \in 0..k |-> IF j = 0 THEN c ELSE Update(f[j - 1], reads[j])]
           E == {k \in 0..n : \E f : Partial(f, k)}
<1>7. F = Step(F)
  <2>1. 0 \in E
    <3> DEFINE f == [j \in 0..0 |-> c]
    <3>1. Partial(f, 0)
      OBVIOUS
    <3> HIDE DEF Partial
    <3> QED BY <1>1, <3>1
  <2>2. ASSUME NEW k \in 1..n, k - 1 \in E PROVE k \in E
    <3>1. PICK f : Partial(f, k - 1)
      BY <2>2
    <3> DEFINE g == [j \in 0..k |-> IF j = k THEN Update(f[k - 1], reads[k]) ELSE f[j]]
               h == [j \in 0..k |-> IF j = 0 THEN c ELSE Update(g[j - 1], reads[j])]
    <3>2. ASSUME NEW j \in 0..k PROVE g[j] = h[j]
      <4>1. CASE j = 0
        BY <1>1, <3>1, <4>1
      <4>2. CASE j = k
        <5>1. k # 0 /\ k - 1 \in 0..k /\ k - 1 # k
          BY <1>1
        <5> QED BY <4>2, <5>1
      <4>3. CASE j # 0 /\ j # k
        <5>1. j \in 0..(k - 1) /\ j - 1 \in 0..k /\ j - 1 # k
          BY <1>1, <4>3
        <5>2. f[j] = Update(f[j - 1], reads[j])
          BY <3>1, <4>3, <5>1
        <5> QED BY <4>3, <5>1, <5>2
      <4> QED BY <4>1, <4>2, <4>3
    <3>3. g = h
      BY <3>2
    <3>4. Partial(g, k)
      BY <3>3
    <3>5. k \in 0..n
      BY <1>1
    <3> HIDE DEF g, Partial
    <3> QED BY <3>4, <3>5
  <2>3. 0..n \subseteq E
    <3> HIDE DEF E
    <3> QED BY <1>1, <2>1, <2>2, Upto
  <2>4. n \in E
    BY <1>1, <2>3
  <2>5. PICK f : Partial(f, n)
    BY <2>4
  <2>6. f = Step(f)
    BY <1>4, <2>5
  <2> HIDE DEF Step
  <2> QED BY <2>6 DEF F
<1>8. F[0] = c /\ \A k \in 1..n : F[k] = Update(F[k - 1], reads[k])
  <2>1. F = [k \in 0..n |-> IF k = 0 THEN c ELSE Update(F[k - 1], reads[k])]
    BY <1>4, <1>7
  <2>2. ASSUME NEW k \in 0..n PROVE F[k] = IF k = 0 THEN c ELSE Update(F[k - 1], reads[k])
    BY <2>1
  <2>3. 0 \in 0..n /\ \A k \in 1..n : k \in 0..n /\ k # 0
    BY <1>1
  <2> QED BY <2>2, <2>3
<1> HIDE DEF E, Partial, Step
<1> DEFINE S == {k \in 0..n : Follows(F[k], part(k)) /\ (Content(c, m) => Content(F[k], part(k)))}
<1>9. 0 \in S
  <2>1. 0 \in 0..n
    BY <1>1
  <2> QED BY <1>6, <1>8, <2>1
<1>10. ASSUME NEW k \in 1..n, k - 1 \in S PROVE k \in S
  <2> DEFINE u == F[k - 1]
             x == reads[k]
             y == part(k - 1)
  <2>1. Follows(u, y) /\ (Content(c, m) => Content(u, y))
    BY <1>10
  <2>2. x \in Seq(Octets) /\ Len(x) < Word /\ y \o x = part(k) /\ F[k] = Update(u, x)
    BY <1>5, <1>8
  <2> HIDE DEF u, x, y
  <2>3. Follows(Update(u, x), y \o x) /\ (Content(u, y) => Content(Update(u, x), y \o x))
    BY <2>1, <2>2, Fed
  <2>4. k \in 0..n
    BY <1>1
  <2> QED BY <2>1, <2>2, <2>3, <2>4
<1>11. 0..n \subseteq S
  <2> HIDE DEF S
  <2> QED BY <1>1, <1>9, <1>10, Upto
<1>12. n \in S
  BY <1>1, <1>11
<1> QED BY <1>2, <1>4, <1>6, <1>12

\* How long the padding is: the length ends a block.
LEMMA PadIs ==
  ASSUME NEW n \in Nat
  PROVE  LET r == n % BlockSize
             pl == PadLen(r)
         IN  /\ r \in Nat /\ pl \in 1..BlockSize /\ (n + pl + LengthSize) % BlockSize = 0
             /\ r < BlockSize - LengthSize =>
                  pl < BlockSize - r /\ (n + pl) % BlockSize = BlockSize - LengthSize
             /\ pl = 1 + (CHOOSE z0 \in 0..(BlockSize - 1) :
                             (n + 1 + z0 + LengthSize) % BlockSize = 0)
<1> DEFINE r == n % BlockSize
           q == n \div BlockSize
           pl == PadLen(r)
           t == n + pl + LengthSize
           zeros == CHOOSE z0 \in 0..(BlockSize - 1) : (n + 1 + z0 + LengthSize) % BlockSize = 0
<1>0. /\ BlockSize \in Nat \ {0} /\ LengthSize \in Nat /\ LengthSize >= 1 /\ LengthSize < BlockSize
  BY Sizes
<1>1. q \in Int /\ r \in 0..(BlockSize - 1) /\ n = BlockSize * q + r
  BY <1>0
<1>c. \A len \in Nat : len < BlockSize - r => (n + len) % BlockSize = r + len
  BY Cut
<1> HIDE DEF q, r
<1>2. pl = IF r < BlockSize - LengthSize THEN BlockSize - LengthSize - r
           ELSE 2 * BlockSize - LengthSize - r
  BY DEF PadLen
<1> HIDE DEF pl
<1>3. pl \in 1..BlockSize
  BY <1>0, <1>1, <1>2
<1>4. t \in Int /\ (t = BlockSize * q + BlockSize \/ t = BlockSize * q + 2 * BlockSize)
  BY <1>0, <1>1, <1>2, <1>3
<1>5. t % BlockSize = 0
  <2>1. PICK e \in {q + 1, q + 2} : t = BlockSize * e
    BY <1>0, <1>1, <1>4
  <2>2. e \in Int /\ t = BlockSize * e + 0 /\ 0 \in 0..(BlockSize - 1)
    BY <1>0, <1>1, <1>4, <2>1
  <2> HIDE DEF t
  <2> QED BY <1>0, <1>4, <2>2, DivModUnique
<1>6. ASSUME r < BlockSize - LengthSize
      PROVE  pl < BlockSize - r /\ (n + pl) % BlockSize = BlockSize - LengthSize
  <2>1. pl \in Nat /\ pl < BlockSize - r /\ r + pl = BlockSize - LengthSize
    BY <1>0, <1>1, <1>2, <1>6
  <2> QED BY <1>c, <2>1
<1>7. pl = 1 + zeros
  <2> DEFINE o == pl - 1
             s == n + 1 + o + LengthSize
             v == n + 1 + zeros + LengthSize
  <2>1. o \in 0..(BlockSize - 1) /\ s = t /\ pl = 1 + o
    BY <1>0, <1>3
  <2>2. (n + 1 + o + LengthSize) % BlockSize = 0
    <3>1. s % BlockSize = 0
      BY <1>5, <2>1
    <3> QED BY <3>1
  <2> HIDE DEF o
  <2>3. zeros \in 0..(BlockSize - 1) /\ v % BlockSize = 0
    BY <2>1, <2>2
  <2> HIDE DEF zeros
  <2>4. s \in Int /\ v \in Int /\ s - v = o - zeros /\ s % BlockSize = 0
    BY <1>0, <2>1, <2>2, <2>3
  <2> HIDE DEF s, v
  <2> DEFINE a == s \div BlockSize
             b == v \div BlockSize
  <2>5. a \in Int /\ b \in Int /\ s = BlockSize * a /\ v = BlockSize * b
    BY <1>0, <2>3, <2>4
  <2> HIDE DEF a, b
  <2>6. BlockSize * (a - b) = o - zeros
    BY <1>0, <2>4, <2>5
  <2>7. ~(a - b >= 1)
    <3> SUFFICES ASSUME a - b >= 1 PROVE FALSE
      OBVIOUS
    <3>1. BlockSize * (a - b) >= BlockSize
      BY <1>0, <2>5
    <3> QED BY <1>0, <2>1, <2>3, <2>6, <3>1
  <2>8. ~(b - a >= 1)
    <3> SUFFICES ASSUME b - a >= 1 PROVE FALSE
      OBVIOUS
    <3>1. BlockSize * (b - a) >= BlockSize /\ BlockSize * (b - a) = zeros - o
      BY <1>0, <2>1, <2>3, <2>5, <2>6
    <3> QED BY <1>0, <2>1, <2>3, <3>1
  <2>9. a = b
    BY <2>5, <2>7, <2>8
  <2>10. o = zeros
    <3>1. a - b = 0 /\ BlockSize * 0 = 0
      BY <1>0, <2>5, <2>9
    <3>2. o - zeros = 0
      BY <2>6, <3>1
    <3> QED BY <1>0, <2>1, <2>3, <3>2
  <2> QED BY <2>1, <2>10
<1>8. r \in Nat
  BY <1>0, <1>1
<1> HIDE DEF zeros
<1> QED BY <1>3, <1>5, <1>6, <1>7, <1>8 DEF r, pl, zeros

\* What is appended.
LEMMA PaddingIs ==
  ASSUME NEW n \in Nat
  PROVE  Padding(n) \in Seq(Octets) /\ Len(Padding(n)) = n
<1>1. 2^(ByteBits - 1) \in Int
  BY Sizes
<1>2. ASSUME NEW j \in 1..n PROVE (IF j = 1 THEN 2^(ByteBits - 1) ELSE 0) \in Octets
  BY <1>1 DEF Octets
<1> QED BY <1>2 DEF Padding

\* The encoded length is as long as two words.
LEMMA EncodeIs ==
  ASSUME NEW n \in Nat
  PROVE  /\ CountOf(n) \in Counts
         /\ Encode(CountOf(n)) \in Seq(Octets) /\ Len(Encode(CountOf(n))) = LengthSize
<1> DEFINE c == CountOf(n)
           l == WordBits \div ByteBits
           v(j) == (c[((j - 1) \div l) + 1] \div 2^(ByteBits * ((j - 1) % l))) % 2^ByteBits
<1>0. Word \in Nat \ {0} /\ ByteBits \in Nat \ {0} /\ LengthSize \in Nat
  BY Sizes
<1>1. c \in Counts /\ Len(c) = 2
  <2>1. n * ByteBits \in Int
    BY <1>0
  <2> DEFINE x == n * ByteBits
  <2>2. x % Word \in 0..(Word - 1) /\ x \div Word \in Int
    BY <1>0, <2>1
  <2> DEFINE y == x \div Word
  <2>3. y \in Int
    BY <2>2
  <2>4. CountOf(n) = <<x % Word, y % Word>>
    BY DEF CountOf
  <2> HIDE DEF x, y
  <2>5. y % Word \in 0..(Word - 1)
    BY <1>0, <2>3
  <2> QED BY <2>2, <2>4, <2>5 DEF Counts
<1>2. LengthSize = l * Len(c)
  <2>1. LengthSize = 2 * l
    BY DEF LengthSize
  <2>2. l \in Int
    BY Sizes
  <2> HIDE DEF l
  <2> QED BY <1>1, <2>1, <2>2
<1>3. Encode(c) = [j \in 1..LengthSize |-> v(j)]
  BY <1>2 DEF Encode
<1>4. ASSUME NEW j \in 1..LengthSize PROVE v(j) \in Octets
  <2>1. v(j) = Encode(c)[j]
    BY <1>3
  <2> HIDE DEF c, v
  <2> QED BY <1>1, <2>1 DEF Octets
<1> HIDE DEF v, c
<1>5. Encode(c) \in Seq(Octets) /\ Len(Encode(c)) = LengthSize
  BY <1>0, <1>3, <1>4
<1> QED BY <1>1, <1>5 DEF c

\* final(): the digest is that of the padded message; the context goes on with
\* the message if there was room for the length in its block.
LEMMA Finals ==
  ASSUME NEW m \in Seq(Octets), NEW c, Shape(c, Len(m)), c.count = CountOf(Len(m))
  PROVE  LET u == Final(c)
         IN  /\ Shape(u, Len(m)) /\ u.finished = FALSE /\ u.count = CountOf(Len(m))
             /\ Content(c, m) => u.digest = Padded(m)
             /\ Content(c, m) /\ Len(m) % BlockSize < BlockSize - LengthSize => Content(u, m)
<1> DEFINE n == Len(m)
           r == n % BlockSize
           pl == PadLen(r)
           pad == Padding(pl)
           enc == Encode(c.count)
           a == Update(c, pad)
           b == Update(a, enc)
           u == Final(c)
           y == m \o pad
           o == y \o enc
<1>0. /\ BlockSize \in Nat /\ BlockSize >= 1 /\ LengthSize \in Nat /\ LengthSize >= 1
      /\ LengthSize < BlockSize /\ n \in Nat
  BY Sizes
<1>1. /\ r \in Nat /\ pl \in 1..BlockSize /\ (n + pl + LengthSize) % BlockSize = 0
      /\ r < BlockSize - LengthSize =>
           pl < BlockSize - r /\ (n + pl) % BlockSize = BlockSize - LengthSize
      /\ pl = 1 + (CHOOSE z0 \in 0..(BlockSize - 1) :
                             (n + 1 + z0 + LengthSize) % BlockSize = 0)
  BY <1>0, PadIs
<1>2. Padded(m) = o
  <2>1. Padded(m) = m \o Padding(pl) \o Encode(Length(m))
    BY <1>1 DEF Padded
  <2>2. Length(m) = c.count
    BY DEF Length, CountOf
  <2> HIDE DEF pl
  <2> QED BY <2>1, <2>2
<1>3. Index(c) = r
  BY <1>0, IndexIs
<1>4. u = [b EXCEPT !.digest = b.state, !.state = c.state, !.count = c.count]
  BY <1>3 DEF Final
<1> HIDE DEF pl
<1>5. pl \in Nat /\ pad \in Seq(Octets) /\ Len(pad) = pl
  BY <1>0, <1>1, PaddingIs
<1>6. enc \in Seq(Octets) /\ Len(enc) = LengthSize
  BY <1>0, EncodeIs
<1> HIDE DEF pad, enc
<1>7. Updates(c, a, m, pad)
  BY <1>5, Updated
<1>8. y \in Seq(Octets) /\ Len(y) = n + pl /\ Shape(a, Len(y))
  BY <1>5, <1>7, Joined DEF Updates
<1> HIDE DEF a, u
<1>9. Updates(a, b, y, enc)
  BY <1>6, <1>8, Updated
<1>10. o \in Seq(Octets) /\ Len(o) = n + pl + LengthSize /\ Shape(b, Len(o))
  <2>1. o \in Seq(Octets) /\ Len(o) = Len(y) + Len(enc)
    BY <1>6, <1>8, Joined
  <2>2. Shape(b, Len(o))
    BY <1>9 DEF Updates
  <2> HIDE DEF o, y, b
  <2>3. Len(o) = (n + pl) + LengthSize
    BY <1>6, <1>8, <2>1
  <2>4. Len(o) = n + pl + LengthSize
    BY <1>0, <1>5, <2>3
  <2> QED BY <2>1, <2>2, <2>4
<1> HIDE DEF b, o, y
<1>11. /\ u.state = c.state /\ u.count = c.count /\ u.finished = FALSE /\ u.buffer = b.buffer
       /\ u.digest = b.state
       /\ u = [state |-> u.state, count |-> u.count, finished |-> u.finished, digest |-> u.digest,
               buffer |-> u.buffer]
  <2>1. b = [state |-> b.state, count |-> b.count, finished |-> b.finished, digest |-> b.digest,
             buffer |-> b.buffer]
    BY <1>10 DEF Shape
  <2>2. b.finished = FALSE
    BY <1>9 DEF Updates
  <2>3. u = [state |-> c.state, count |-> c.count, finished |-> b.finished, digest |-> b.state,
             buffer |-> b.buffer]
    BY <1>4, <2>1
  <2>4. /\ u.state = c.state /\ u.count = c.count /\ u.finished = b.finished /\ u.buffer = b.buffer
        /\ u.digest = b.state
    BY <2>3
  <2> QED BY <2>2, <2>3, <2>4
<1>12. Shape(u, n)
  BY <1>10, <1>11 DEF Shape
<1>13. ASSUME Content(c, m) PROVE u.digest = Padded(m)
  <2>1. Content(b, o)
    BY <1>7, <1>9, <1>13 DEF Updates, y, o
  <2>2. b.state \in Seq(Octets) /\ Len(b.state) = Len(o)
    <3>1. b.state \in Seq(Octets) /\ Len(b.state) = Len(o) - (Len(o) % BlockSize)
      BY <1>10 DEF Shape
    <3>2. Len(o) % BlockSize = 0 /\ Len(o) \in Nat
      BY <1>1, <1>10
    <3> QED BY <3>1, <3>2
  <2>3. \A i \in 1..Len(o) : b.state[i] = o[i]
    BY <2>1, <2>2 DEF Content
  <2> DEFINE s == b.state
  <2>4. s \in Seq(Octets) /\ Len(s) = Len(o) /\ \A i \in 1..Len(o) : s[i] = o[i]
    BY <2>2, <2>3
  <2> HIDE DEF s
  <2>5. s = o
    BY <1>10, <2>4
  <2> QED BY <1>2, <1>11, <2>5 DEF s
<1>14. ASSUME Content(c, m), r < BlockSize - LengthSize PROVE Content(u, m)
  <2>1. pl < BlockSize - r /\ Len(y) % BlockSize = BlockSize - LengthSize
    BY <1>1, <1>8, <1>14
  <2>2. \A j \in 1..r : a.buffer[j] = c.buffer[j]
    <3>1. Len(pad) <= BlockSize - r
      BY <1>0, <1>1, <1>5, <2>1
    <3> QED BY <1>7, <3>1 DEF Updates
  <2>3. \A j \in 1..(BlockSize - LengthSize) : b.buffer[j] = a.buffer[j]
    <3>1. Len(enc) <= BlockSize - (Len(y) % BlockSize)
      BY <1>0, <1>6, <2>1
    <3> QED BY <1>9, <2>1, <3>1 DEF Updates
  <2>4. ASSUME NEW j \in 1..r PROVE u.buffer[j] = c.buffer[j]
    <3>1. j \in 1..(BlockSize - LengthSize)
      BY <1>0, <1>1, <1>14
    <3> QED BY <1>11, <2>2, <2>3, <3>1
  <2> QED BY <1>11, <1>14, <2>4 DEF Content
<1> QED BY <1>11, <1>12, <1>13, <1>14 DEF u

\* The context follows the message; unless an earlier digest() spoilt it, the
\* blocks it took and what is in its buffer are the message; and the digest
\* last returned is that of the message padded.
Md5Inv ==
  /\ round \in Nat /\ Follows(ctx, msg)
  /\ ~spoilt => Content(ctx, msg)
  /\ ret.ok => ret.value = Padded(msg)

\* What is fed to the context.
LEMMA InputIs ==
  ASSUME Md5Inv, NEW n \in Nat
  PROVE  Input(n) \in Seq(Octets) /\ Len(Input(n)) = n
<1>0. round \in Nat /\ msg \in Seq(Octets) /\ MaxLength \in Nat /\ ByteBits \in Nat
  BY Sizes DEF Md5Inv, Follows
<1>1. 2^ByteBits \in Int /\ Len(msg) \in Nat /\ (round - 1) * MaxLength \in Int
  BY <1>0
<1> DEFINE a == 2^ByteBits
           b == (round - 1) * MaxLength
           l == Len(msg)
<1>2. a \in Int /\ b \in Int /\ l \in Int
  BY <1>1
<1>3. Input(n) = [j \in 1..n |-> a + b + l + j]
  BY DEF Input
<1> HIDE DEF a, b, l
<1>4. ASSUME NEW j \in 1..n PROVE a + b + l + j \in Octets
  BY <1>2 DEF Octets
<1> QED BY <1>3, <1>4

\* Nothing, divided.
LEMMA ZeroOf == \A n \in Nat \ {0} : 0 % n = 0 /\ 0 \div n = 0
OBVIOUS

\* At first, and after a reset, there is no message.
LEMMA EmptyFollows ==
  ASSUME NEW c, c.buffer \in [1..BlockSize -> Octets], c.state = <<>>, c.count = <<0, 0>>,
         c.finished = FALSE,
         c = [state |-> c.state, count |-> c.count, finished |-> c.finished, digest |-> c.digest,
              buffer |-> c.buffer]
  PROVE  Follows(c, <<>>) /\ Content(c, <<>>)
<1>0. BlockSize \in Nat \ {0} /\ Word \in Nat \ {0} /\ ByteBits \in Nat
  BY Sizes
<1>1. 0 * ByteBits = 0 /\ 0 % Word = 0 /\ 0 \div Word = 0 /\ 0 % BlockSize = 0
  BY <1>0, ZeroOf
<1>2. CountOf(0) = <<0, 0>>
  BY <1>1 DEF CountOf
<1>3. <<0, 0>> \in Counts /\ <<0, 0>>[1] = 0
  BY <1>0 DEF Counts
<1>4. <<>> \in Seq(Octets) /\ Len(<<>>) = 0
  OBVIOUS
<1>5. Shape(c, 0)
  <2>1. Len(c.state) = 0 - (0 % BlockSize)
    BY <1>1, <1>4
  <2>2. c.count \in Counts /\ c.count[1] = (0 * ByteBits) % Word
    BY <1>1, <1>3
  <2> QED BY <1>4, <2>1, <2>2 DEF Shape
<1>6. Content(c, <<>>)
  BY <1>1, <1>4 DEF Content
<1> QED BY <1>2, <1>4, <1>5, <1>6 DEF Follows

\* A new context has taken the empty message.
LEMMA Md5Init ==
  ASSUME Init
  PROVE  Md5Inv
<1>1. ctx = Fresh /\ round = 1 /\ msg = <<>> /\ ret = None
  BY DEF Init
<1>2. /\ ctx.buffer \in [1..BlockSize -> Octets] /\ ctx.state = <<>> /\ ctx.count = <<0, 0>>
      /\ ctx.finished = FALSE
      /\ ctx = [state |-> ctx.state, count |-> ctx.count, finished |-> ctx.finished,
                digest |-> ctx.digest, buffer |-> ctx.buffer]
  <2>1. [j \in 1..BlockSize |-> Uninit] \in [1..BlockSize -> Octets]
    BY DEF Octets
  <2> QED BY <1>1, <2>1 DEF Fresh
<1>3. Follows(ctx, <<>>) /\ Content(ctx, <<>>)
  BY <1>2, EmptyFollows
<1>4. ~ret.ok
  BY <1>1 DEF None
<1> QED BY <1>1, <1>3, <1>4 DEF Md5Inv

\* The fields of a context that is finished.
LEMMA FinishedFields ==
  ASSUME NEW s, NEW k, NEW f, NEW d, NEW b, NEW f1,
         NEW c, c = [state |-> s, count |-> k, finished |-> f, digest |-> d, buffer |-> b]
  PROVE  [c EXCEPT !.finished = f1]
           = [state |-> s, count |-> k, finished |-> f1, digest |-> d, buffer |-> b]
OBVIOUS

\* The fields of a context that is reset.
LEMMA ResetFields ==
  ASSUME NEW s, NEW k, NEW f, NEW d, NEW b, NEW s1, NEW k1, NEW f1,
         NEW c, c = [state |-> s, count |-> k, finished |-> f, digest |-> d, buffer |-> b]
  PROVE  [c EXCEPT !.finished = f1, !.count = k1, !.state = s1]
           = [state |-> s1, count |-> k1, finished |-> f1, digest |-> d, buffer |-> b]
<1> DEFINE e == [c EXCEPT !.finished = f1, !.count = k1, !.state = s1]
           g == [state |-> s1, count |-> k1, finished |-> f1, digest |-> d, buffer |-> b]
           F == {"state", "count", "finished", "digest", "buffer"}
<1>1. e = [x \in F |-> e[x]]
  OBVIOUS
<1>2. e.state = s1 /\ e.count = k1 /\ e.finished = f1 /\ e.digest = d /\ e.buffer = b
  OBVIOUS
<1>3. g = [x \in F |-> g[x]]
  OBVIOUS
<1>4. g.state = s1 /\ g.count = k1 /\ g.finished = f1 /\ g.digest = d /\ g.buffer = b
  OBVIOUS
<1> HIDE DEF e, g
<1>5. \A x \in F : e[x] = g[x]
  BY <1>2, <1>4
<1>6. e = g
  BY <1>1, <1>3, <1>5
<1> QED BY <1>6 DEF e, g

\* Every call keeps the context in step with the message.
LEMMA Md5Step ==
  ASSUME Md5Inv, Next
  PROVE  Md5Inv'
<1>0. round \in Nat /\ Follows(ctx, msg) /\ (~spoilt => Content(ctx, msg))
  BY DEF Md5Inv
<1>n. ~None.ok
  BY DEF None
<1>1. CASE CallReset
  <2> DEFINE u == Reset(ctx)
  <2>1. ctx' = u /\ round' = round + 1 /\ msg' = <<>> /\ ret' = None
    BY <1>1 DEF CallReset
  <2>2. /\ ctx.buffer \in [1..BlockSize -> Octets]
        /\ ctx = [state |-> ctx.state, count |-> ctx.count, finished |-> ctx.finished,
                  digest |-> ctx.digest, buffer |-> ctx.buffer]
    BY <1>0 DEF Follows, Shape
  <2>3. u = [state |-> <<>>, count |-> <<0, 0>>, finished |-> FALSE, digest |-> ctx.digest,
             buffer |-> ctx.buffer]
    <3> DEFINE s == ctx.state
               k == ctx.count
               f == ctx.finished
               d == ctx.digest
               b == ctx.buffer
               s1 == <<>>
               k1 == <<0, 0>>
               f1 == FALSE
    <3>1. ctx = [state |-> s, count |-> k, finished |-> f, digest |-> d, buffer |-> b]
      BY <2>2
    <3>2. u = [ctx EXCEPT !.finished = f1, !.count = k1, !.state = s1]
      BY DEF Reset
    <3> HIDE DEF s, k, f, d, b, s1, k1, f1, u
    <3>3. u = [state |-> s1, count |-> k1, finished |-> f1, digest |-> d, buffer |-> b]
      BY <3>1, <3>2, ResetFields
    <3> QED BY <3>3 DEF s1, k1, f1, d, b
  <2> HIDE DEF u
  <2>4. /\ u.buffer \in [1..BlockSize -> Octets] /\ u.state = <<>> /\ u.count = <<0, 0>>
        /\ u.finished = FALSE
        /\ u = [state |-> u.state, count |-> u.count, finished |-> u.finished,
                digest |-> u.digest, buffer |-> u.buffer]
    BY <2>2, <2>3
  <2>5. Follows(u, <<>>) /\ Content(u, <<>>)
    BY <2>4, EmptyFollows
  <2> QED BY <1>0, <1>n, <2>1, <2>5 DEF Md5Inv
<1>2. ASSUME NEW n \in 0..MaxChunk, CallUpdate(n) PROVE Md5Inv'
  <2> DEFINE x == Input(n)
  <2>1. /\ ctx' = Update(ctx, x) /\ msg' = msg \o x
        /\ ret' = None /\ round' = round /\ spoilt' = spoilt
    BY <1>2 DEF CallUpdate
  <2>2. n \in Nat /\ n < Word
    BY Sizes
  <2>3. x \in Seq(Octets) /\ Len(x) < Word
    BY <2>2, InputIs
  <2> HIDE DEF x
  <2>4. Follows(ctx', msg') /\ (Content(ctx, msg) => Content(ctx', msg'))
    BY <1>0, <2>1, <2>3, Fed
  <2> QED BY <1>0, <1>n, <2>1, <2>4 DEF Md5Inv
<1>3. ASSUME NEW n \in 0..MaxLength, CallUpdateFile(n) PROVE Md5Inv'
  <2> DEFINE x == Input(n)
  <2>1. /\ ctx' = UpdateFile(ctx, x) /\ msg' = msg \o x
        /\ ret' = None /\ round' = round /\ spoilt' = spoilt
    BY <1>3 DEF CallUpdateFile
  <2>2. n \in Nat
    BY Sizes
  <2>3. x \in Seq(Octets)
    BY <2>2, InputIs
  <2> HIDE DEF x
  <2>4. Follows(ctx', msg') /\ (Content(ctx, msg) => Content(ctx', msg'))
    BY <1>0, <2>1, <2>3, FedFile
  <2> QED BY <1>0, <1>n, <2>1, <2>4 DEF Md5Inv
<1>4. CASE CallDigest
  <2> DEFINE c == [ctx EXCEPT !.finished = TRUE]
             u == Final(c)
  <2>1. /\ msg \in Seq(Octets) /\ Shape(ctx, Len(msg)) /\ ctx.count = CountOf(Len(msg))
        /\ ctx.finished = FALSE
    BY <1>0 DEF Follows
  <2>2. ctx' = u /\ msg' = msg /\ round' = round
    BY <1>4, <2>1 DEF CallDigest, Digest
  <2>3. ret' = [value |-> ctx'.digest, ok |-> ~spoilt]
    BY <1>4 DEF CallDigest
  <2>4. spoilt' = (spoilt \/ Index(ctx) >= BlockSize - LengthSize)
    BY <1>4 DEF CallDigest
  <2>5. Index(ctx) = Len(msg) % BlockSize
    <3>1. Len(msg) \in Nat
      BY <2>1
    <3> QED BY <2>1, <3>1, IndexIs
  <2>6. /\ Shape(c, Len(msg)) /\ c.count = CountOf(Len(msg))
        /\ c.state = ctx.state /\ c.buffer = ctx.buffer
    <3>1. c = [state |-> ctx.state, count |-> ctx.count, finished |-> TRUE, digest |-> ctx.digest,
               buffer |-> ctx.buffer]
      <4> DEFINE s == ctx.state
                 k == ctx.count
                 f == ctx.finished
                 d == ctx.digest
                 b == ctx.buffer
                 f1 == TRUE
      <4>1. ctx = [state |-> s, count |-> k, finished |-> f, digest |-> d, buffer |-> b]
        BY <2>1 DEF Shape
      <4>2. c = [ctx EXCEPT !.finished = f1]
        OBVIOUS
      <4> HIDE DEF s, k, f, d, b, f1, c
      <4>3. c = [state |-> s, count |-> k, finished |-> f1, digest |-> d, buffer |-> b]
        BY <4>1, <4>2, FinishedFields
      <4> QED BY <4>3 DEF s, k, f1, d, b
    <3> HIDE DEF c
    <3>2. /\ c.state = ctx.state /\ c.count = ctx.count /\ c.buffer = ctx.buffer
          /\ c = [state |-> c.state, count |-> c.count, finished |-> c.finished,
                  digest |-> c.digest, buffer |-> c.buffer]
      BY <3>1
    <3> QED BY <2>1, <3>2 DEF Shape
  <2>7. Content(ctx, msg) => Content(c, msg)
    <3> HIDE DEF c
    <3> QED BY <2>6 DEF Content
  <2> HIDE DEF c
  <2>8. /\ Shape(u, Len(msg)) /\ u.finished = FALSE /\ u.count = CountOf(Len(msg))
        /\ Content(c, msg) => u.digest = Padded(msg)
        /\ Content(c, msg) /\ Len(msg) % BlockSize < BlockSize - LengthSize => Content(u, msg)
    BY <2>1, <2>6, Finals
  <2> HIDE DEF u
  <2>9. Follows(ctx', msg')
    BY <2>1, <2>2, <2>8 DEF Follows
  <2>10. ~spoilt' => Content(ctx', msg')
    <3>1. CASE spoilt'
      BY <3>1
    <3>2. CASE ~spoilt'
      <4>1. ~spoilt /\ ~(Index(ctx) >= BlockSize - LengthSize)
        BY <2>4, <3>2
      <4>2. Len(msg) % BlockSize < BlockSize - LengthSize
        <5>1. Len(msg) % BlockSize \in Int /\ BlockSize - LengthSize \in Int
          BY <2>1, Sizes
        <5> QED BY <2>5, <4>1, <5>1
      <4> QED BY <1>0, <2>2, <2>7, <2>8, <4>1, <4>2
    <3> QED BY <3>1, <3>2
  <2>11. ret'.ok => ret'.value = Padded(msg')
    <3>1. ret'.ok = ~spoilt /\ ret'.value = ctx'.digest
      BY <2>3
    <3> QED BY <1>0, <2>2, <2>7, <2>8, <3>1
  <2> QED BY <1>0, <2>2, <2>9, <2>10, <2>11 DEF Md5Inv
<1> QED BY <1>1, <1>2, <1>3, <1>4 DEF Next

\* The context as one sequence.
LEMMA Md5Means ==
  ASSUME Md5Inv
  PROVE  DigestOfMessage
<1>1. /\ msg \in Seq(Octets) /\ Shape(ctx, Len(msg)) /\ ctx.count = CountOf(Len(msg))
      /\ ~spoilt => Content(ctx, msg)
      /\ ret.ok => ret.value = Padded(msg)
  BY DEF Md5Inv, Follows
<1> DEFINE n == Len(msg)
           r == n % BlockSize
           s == ctx.state
           bu == ctx.buffer
           p == SubSeq(bu, 1, r)
           y == s \o p
<1>2. n \in Nat /\ r \in 0..(BlockSize - 1) /\ BlockSize \in Nat /\ n - r \in Nat
  <2>1. n \in Nat
    BY <1>1
  <2> QED BY <2>1, Cut, Sizes
<1>3. Index(ctx) = r
  BY <1>1, <1>2, IndexIs
<1>4. s \in Seq(Octets) /\ bu \in [1..BlockSize -> Octets] /\ Len(s) = n - r
  BY <1>1 DEF Shape
<1>5. ASSUME Content(ctx, msg) PROVE y = msg
  <2>1. /\ \A i \in 1..Len(s) : s[i] = msg[i]
        /\ \A j \in 1..r : bu[j] = msg[Len(s) + j]
    BY <1>5 DEF Content
  <2> HIDE DEF s, bu, r, n
  <2>2. p \in Seq(Octets) /\ Len(p) = r /\ \A j \in 1..r : p[j] = bu[j]
    <3>1. bu \in Seq(Octets) /\ Len(bu) = BlockSize
      BY <1>2, <1>4
    <3> QED BY <1>2, <3>1
  <2> HIDE DEF p
  <2>3. /\ y \in Seq(Octets) /\ Len(s) \in Nat /\ Len(y) = Len(s) + Len(p)
        /\ \A i \in 1..Len(s) : y[i] = s[i]
        /\ \A i \in 1..Len(p) : y[Len(s) + i] = p[i]
    BY <1>4, <2>2, Joined
  <2> HIDE DEF y
  <2>4. Len(y) = n
    BY <1>2, <1>4, <2>2, <2>3
  <2>5. ASSUME NEW i \in 1..n PROVE y[i] = msg[i]
    <3>1. CASE i <= Len(s)
      <4>1. i \in 1..Len(s)
        BY <1>2, <2>3, <3>1
      <4> QED BY <2>1, <2>3, <4>1
    <3>2. CASE i > Len(s)
      <4> DEFINE k == i - Len(s)
      <4>1. k \in 1..r /\ Len(s) + k = i
        BY <1>2, <1>4, <2>3, <3>2
      <4> HIDE DEF k
      <4> QED BY <2>1, <2>2, <2>3, <4>1
    <3>3. i <= Len(s) \/ i > Len(s)
      BY <1>2, <2>3
    <3> QED BY <3>1, <3>2, <3>3
  <2>6. Len(msg) = n
    BY DEF n
  <2> QED BY <1>1, <2>3, <2>4, <2>5, <2>6
<1> HIDE DEF y
<1>6. ctx.count = Length(msg)
  BY <1>1 DEF Length, CountOf
<1>7. y = ctx.state \o SubSeq(ctx.buffer, 1, Index(ctx))
  BY <1>3 DEF y
<1> QED BY <1>1, <1>5, <1>6, <1>7 DEF DigestOfMessage, ContextIsMessage

\* A step of another component leaves the context alone.
LEMMA Md5Stays ==
  ASSUME Md5Inv, UNCHANGED vars
  PROVE  Md5Inv'
BY DEF Md5Inv, vars

\* However a message is cut into updates and files, of any length and with the
\* bit count carried over two words, digest() returns the digest of the
\* message, as long as no earlier call had to pad into a second block.
THEOREM Digested == AllSpec => []DigestOfMessage
<1>1. AllInit => Md5Inv
  BY Md5Init DEF AllInit
<1>2. Md5Inv /\ [AllNext]_allVars => Md5Inv'
  <2> SUFFICES ASSUME Md5Inv, [AllNext]_allVars PROVE Md5Inv'
    OBVIOUS
  <2>1. CASE Next
    BY <2>1, Md5Step
  <2>2. CASE UNCHANGED vars
    BY <2>2, Md5Stays
  <2> QED
    BY <2>1, <2>2 DEF AllNext, allVars, Md5Next, ReaderNext, DeflateNext, InflateNext, TreesNext,
                      ArchiveNext, ItemsNext
<1>3. Md5Inv => DigestOfMessage
  BY Md5Means
<1> QED BY <1>1, <1>2, <1>3, PTL DEF AllSpec

(***************************************************************************)
(* ZipItems.  The cursor goes from place to place in the central           *)
(* directory; the items themselves are read from the open item.            *)
(***************************************************************************)

\* The place of item i in the central directory of the archive a.
PlaceStep(a, f, k) == IF k = 0 THEN 0 ELSE f[k - 1] + a[k].size

Places(a, f, n) == f = [k \in 0..n |-> PlaceStep(a, f, k)]

PlaceIn(a, n) == (CHOOSE f : Places(a, f, n))[n]

LEMMA PlaceIsPlaceIn == \A n \in Nat : U!Place(n) = PlaceIn(items, n)
<1> SUFFICES ASSUME NEW n \in Nat PROVE U!Place(n) = PlaceIn(items, n)
  OBVIOUS
<1>1. ASSUME NEW f PROVE [k \in 0..n |-> IF k = 0 THEN 0 ELSE f[k - 1] + U!Item(k - 1).size]
                       = [k \in 0..n |-> PlaceStep(items, f, k)]
  BY DEF U!Item, PlaceStep
<1> QED BY <1>1 DEF U!Place, PlaceIn, Places

\* A sound archive.
Sized(a) ==
  /\ Len(a) \in Nat /\ DOMAIN a = 1..Len(a)
  /\ \A k \in 1..Len(a) : a[k].size \in Nat \ {0} /\ a[k].len \in 0..(DWord - 1)

LEMMA ArchivesSized == \A a \in Archives : Sized(a)
BY ItemsAssumption DEF Sized

LEMMA PlacesExist ==
  ASSUME NEW a, Sized(a), NEW n \in 0..Len(a)
  PROVE  \E f : Places(a, f, n)
<1> DEFINE S1 == {k \in 0..n : \E f : Places(a, f, k)}
<1>1. n \in Nat
  BY DEF Sized
<1>2. 0 \in S1
  <2>1. Places(a, [k \in 0..0 |-> 0], 0)
    BY DEF Places, PlaceStep
  <2> QED BY <1>1, <2>1
<1>3. ASSUME NEW j \in 1..n, j - 1 \in S1 PROVE j \in S1
  <2>1. j - 1 \in Nat /\ j \in Nat
    BY <1>1
  <2>2. PICK f : Places(a, f, j - 1)
    BY <1>3
  <2> DEFINE g == [i \in 0..j |-> PlaceStep(a, f, i)]
  <2>3. ASSUME NEW i \in 0..(j - 1) PROVE g[i] = f[i]
    <3>1. f[i] = PlaceStep(a, f, i)
      BY <2>2 DEF Places
    <3>2. i \in 0..j
      BY <2>1
    <3> QED BY <3>1, <3>2
  <2>4. ASSUME NEW i \in 0..j PROVE PlaceStep(a, f, i) = PlaceStep(a, g, i)
    <3>1. CASE i = 0
      BY <3>1 DEF PlaceStep
    <3>2. CASE i # 0
      <4>1. i - 1 \in 0..(j - 1)
        BY <2>1, <3>2
      <4>2. g[i - 1] = f[i - 1]
        BY <2>3, <4>1
      <4> HIDE DEF g
      <4> QED BY <3>2, <4>2 DEF PlaceStep
    <3> QED BY <3>1, <3>2
  <2>5. g = [i \in 0..j |-> PlaceStep(a, g, i)]
    <3> DEFINE h == [i \in 0..j |-> PlaceStep(a, g, i)]
    <3>1. \A i \in 0..j : PlaceStep(a, f, i) = PlaceStep(a, g, i)
      BY <2>4
    <3> QED BY <3>1, Zenon
  <2>6. Places(a, g, j)
    BY <2>5, Zenon DEF Places
  <2>7. \E e : Places(a, e, j)
    BY <2>6
  <2>8. j \in 0..n
    BY <1>1
  <2> QED BY <2>7, <2>8
<1> HIDE DEF S1
<1>4. 0..n \subseteq S1
  BY <1>1, <1>2, <1>3, Upto
<1>5. n \in S1
  BY <1>1, <1>4
<1> QED BY <1>5 DEF S1

\* Shorter and longer tables of places agree.
LEMMA PlacesAgree ==
  ASSUME NEW a, NEW n \in Nat, NEW m \in Nat, n <= m, NEW f, Places(a, f, n), NEW g, Places(a, g, m)
  PROVE  f[n] = g[n]
<1> DEFINE S1 == {k \in 0..n : f[k] = g[k]}
<1>1. /\ \A k \in 0..n : f[k] = PlaceStep(a, f, k)
      /\ \A k \in 0..m : g[k] = PlaceStep(a, g, k)
  BY DEF Places
<1>2. 0 \in S1
  <2>1. f[0] = 0 /\ g[0] = 0
    BY <1>1 DEF PlaceStep
  <2> QED BY <2>1
<1>3. ASSUME NEW j \in 1..n, j - 1 \in S1 PROVE j \in S1
  <2>1. j \in 0..n /\ j \in 0..m /\ j # 0
    OBVIOUS
  <2>2. f[j - 1] = g[j - 1]
    BY <1>3
  <2>3. f[j] = g[j]
    BY <1>1, <2>1, <2>2 DEF PlaceStep
  <2> QED BY <2>1, <2>3
<1> HIDE DEF S1
<1>4. 0..n \subseteq S1
  BY <1>2, <1>3, Upto
<1>5. n \in S1
  BY <1>4
<1> QED BY <1>5 DEF S1

\* The first item is at 0, and each of the others behind the one before it.
LEMMA PlaceIs ==
  ASSUME NEW a, Sized(a)
  PROVE  /\ PlaceIn(a, 0) = 0
         /\ \A i \in 1..Len(a) : PlaceIn(a, i) = PlaceIn(a, i - 1) + a[i].size
<1>1. ASSUME NEW n \in 0..Len(a) PROVE Places(a, CHOOSE f : Places(a, f, n), n)
  BY PlacesExist
<1>2. PlaceIn(a, 0) = 0
  <2>1. 0 \in 0..Len(a)
    BY DEF Sized
  <2> DEFINE f == CHOOSE f : Places(a, f, 0)
  <2>2. Places(a, f, 0)
    BY <1>1, <2>1
  <2> HIDE DEF f
  <2>3. f[0] = 0
    BY <2>2 DEF Places, PlaceStep
  <2> QED BY <2>3 DEF f, PlaceIn
<1>3. ASSUME NEW i \in 1..Len(a) PROVE PlaceIn(a, i) = PlaceIn(a, i - 1) + a[i].size
  <2>1. i \in 0..Len(a) /\ i - 1 \in 0..Len(a) /\ i \in Nat /\ i - 1 \in Nat /\ i - 1 <= i /\ i # 0
    BY DEF Sized
  <2> DEFINE g == CHOOSE f : Places(a, f, i)
             j == i - 1
             f == CHOOSE f : Places(a, f, j)
  <2>2. Places(a, g, i) /\ Places(a, f, j)
    BY <1>1, <2>1
  <2>3. PlaceIn(a, i) = g[i] /\ PlaceIn(a, j) = f[j]
    BY DEF PlaceIn
  <2> HIDE DEF f, g
  <2>4. g[i] = g[j] + a[i].size
    BY <2>1, <2>2 DEF Places, PlaceStep
  <2>5. f[j] = g[j]
    <3> HIDE DEF j
    <3>1. j \in Nat /\ i \in Nat /\ j <= i
      BY <2>1 DEF j
    <3> QED BY <2>2, <3>1, PlacesAgree
  <2> QED BY <2>3, <2>4, <2>5
<1> QED BY <1>2, <1>3

\* No two items are at the same place.
LEMMA PlacesDiffer ==
  ASSUME NEW a, Sized(a), NEW i \in 0..Len(a), NEW j \in 0..Len(a), i < j
  PROVE  PlaceIn(a, i) \in Nat /\ PlaceIn(a, j) \in Nat /\ PlaceIn(a, i) < PlaceIn(a, j)
<1> DEFINE P == [k \in 0..Len(a) |-> PlaceIn(a, k)]
<1>0. Len(a) \in Nat /\ \A k \in 1..Len(a) : a[k].size \in Nat \ {0}
  BY DEF Sized
<1>1. /\ P[0] = 0 /\ \A k \in 1..Len(a) : P[k] = P[k - 1] + a[k].size
      /\ P[i] = PlaceIn(a, i) /\ P[j] = PlaceIn(a, j)
  <2>1. P[0] = 0
    BY <1>0, PlaceIs
  <2>2. ASSUME NEW k \in 1..Len(a) PROVE P[k] = P[k - 1] + a[k].size
    <3>1. k \in 0..Len(a) /\ k - 1 \in 0..Len(a)
      BY <1>0
    <3> QED BY <3>1, PlaceIs
  <2> QED BY <2>1, <2>2
<1> HIDE DEF P
<1> DEFINE n == Len(a)
           S1 == {k \in 0..n : P[k] \in Nat /\ \A h \in 0..(k - 1) : P[h] \in Nat /\ P[h] < P[k]}
<1>2. 0 \in S1
  BY <1>0, <1>1
<1>3. ASSUME NEW k \in 1..n, k - 1 \in S1 PROVE k \in S1
  <2>1. k \in 0..n /\ k \in Nat
    BY <1>0
  <2>2. P[k - 1] \in Nat /\ \A h \in 0..(k - 1 - 1) : P[h] \in Nat /\ P[h] < P[k - 1]
    BY <1>3
  <2>3. P[k] = P[k - 1] + a[k].size /\ a[k].size \in Nat \ {0}
    BY <1>0, <1>1
  <2>4. P[k] \in Nat /\ P[k - 1] < P[k]
    BY <2>2, <2>3
  <2>5. ASSUME NEW h \in 0..(k - 1) PROVE P[h] \in Nat /\ P[h] < P[k]
    <3>1. CASE h = k - 1
      BY <2>2, <2>4, <3>1
    <3>2. CASE h # k - 1
      <4>1. h \in 0..(k - 1 - 1)
        BY <2>1, <3>2
      <4>2. P[h] \in Nat /\ P[h] < P[k - 1]
        BY <2>2, <4>1
      <4> QED BY <2>2, <2>4, <4>2
    <3> QED BY <3>1, <3>2
  <2> QED BY <2>1, <2>4, <2>5
<1> HIDE DEF S1, n
<1>4. 0..n \subseteq S1
  <2>1. n \in Nat
    BY <1>0 DEF n
  <2> QED BY <1>2, <1>3, <2>1, Upto
<1>5. j \in S1 /\ i \in 0..(j - 1)
  BY <1>0, <1>4 DEF n
<1>6. P[j] \in Nat /\ P[i] \in Nat /\ P[i] < P[j]
  BY <1>5 DEF S1
<1> QED BY <1>1, <1>6

(***************************************************************************)
(* The cursor.                                                             *)
(***************************************************************************)
LastItem == U!number_entry - 1

\* The archive is sound and has items.
HasItems == items \in Archives /\ U!number_entry # 0

\* The cursor is about the item that it stands at: it is not stale.
OnItem(v) == v.ok /\ v.cur = v.num_file /\ v.pos = PlaceIn(items, v.num_file)

\* Also a search that failed leaves a cursor at the last item right.
LastRight(v) ==
  v.ok /\ v.num_file = LastItem /\ v.pos = PlaceIn(items, v.num_file) => v.cur = v.num_file

LEMMA ItemTypes ==
  ASSUME HasItems
  PROVE  /\ U!number_entry \in Nat \ {0} /\ LastItem \in Nat /\ U!Indices = 0..LastItem
         /\ Sized(items) /\ U!number_entry = Len(items)
         /\ \A i \in U!Indices : /\ U!Item(i).size \in Nat \ {0}
                                 /\ U!Item(i).len \in 0..(DWord - 1) /\ i \in Nat
<1>1. Sized(items) /\ U!number_entry = Len(items) /\ Len(items) \in Nat
  BY ArchivesSized DEF HasItems, Sized, U!number_entry
<1>2. U!number_entry \in Nat \ {0} /\ LastItem \in Nat /\ U!Indices = 0..LastItem
  BY <1>1 DEF HasItems, LastItem, U!Indices
<1>3. ASSUME NEW i \in U!Indices
      PROVE  U!Item(i).size \in Nat \ {0} /\ U!Item(i).len \in 0..(DWord - 1) /\ i \in Nat
  <2>1. i + 1 \in 1..Len(items) /\ i \in Nat
    BY <1>1, <1>2 DEF LastItem
  <2> QED BY <1>1, <2>1 DEF Sized, U!Item
<1> QED BY <1>1, <1>2, <1>3

\* Different items have different places.
LEMMA OnePlace ==
  ASSUME HasItems, NEW i \in U!Indices, NEW j \in U!Indices,
         PlaceIn(items, i) = PlaceIn(items, j)
  PROVE  i = j
<1>1. Sized(items) /\ i \in 0..Len(items) /\ j \in 0..Len(items) /\ i \in Nat /\ j \in Nat
  BY ItemTypes DEF LastItem
<1>2. ASSUME NEW h \in 0..Len(items), NEW k \in 0..Len(items), h < k
      PROVE  PlaceIn(items, h) # PlaceIn(items, k)
  <2>1. /\ PlaceIn(items, h) \in Nat /\ PlaceIn(items, k) \in Nat
        /\ PlaceIn(items, h) < PlaceIn(items, k)
    BY <1>1, <1>2, PlacesDiffer
  <2> QED BY <2>1
<1>3. ~(i < j) /\ ~(j < i)
  BY <1>1, <1>2
<1> QED BY <1>1, <1>3

LEMMA LoadedIs ==
  ASSUME HasItems, NEW v \in U!Cursors
  PROVE  /\ U!Loaded(v) \in U!Cursors
         /\ U!Loaded(v).num_file = v.num_file /\ U!Loaded(v).hangs = v.hangs
         /\ v.num_file \in U!Indices /\ v.pos = PlaceIn(items, v.num_file) => OnItem(U!Loaded(v))
         /\ LastRight(U!Loaded(v))
<1> DEFINE here == {i \in U!Indices : PlaceIn(items, i) = v.pos}
           x == U!Loaded(v)
<1>1. x = IF here = {} THEN [v EXCEPT !.ok = FALSE]
          ELSE [v EXCEPT !.ok = TRUE, !.cur = CHOOSE i \in here : TRUE]
  <2>1. {i \in U!Indices : U!Place(i) = v.pos} = here
    BY ItemTypes, PlaceIsPlaceIn
  <2> HIDE DEF here
  <2> QED BY <2>1, Zenon DEF U!Loaded
<1>2. /\ v.num_file \in Nat /\ v.pos \in Nat /\ v.cur \in U!Indices /\ v.ok \in BOOLEAN
      /\ v.hangs \in BOOLEAN
      /\ v = [num_file |-> v.num_file, pos |-> v.pos, cur |-> v.cur, ok |-> v.ok,
              hangs |-> v.hangs]
  BY DEF U!Cursors
<1> HIDE DEF x
<1>3. here # {} => (CHOOSE i \in here : TRUE) \in here
  OBVIOUS
<1> DEFINE c == CHOOSE i \in here : TRUE
<1>4. CASE here = {}
  <2>1. x = [num_file |-> v.num_file, pos |-> v.pos, cur |-> v.cur, ok |-> FALSE,
             hangs |-> v.hangs]
    BY <1>1, <1>2, <1>4
  <2>2. x \in U!Cursors /\ x.num_file = v.num_file /\ x.hangs = v.hangs /\ x.ok = FALSE
    BY <1>2, <2>1 DEF U!Cursors
  <2>3. ~(v.num_file \in U!Indices /\ v.pos = PlaceIn(items, v.num_file))
    BY <1>4
  <2> QED BY <2>2, <2>3 DEF LastRight, x
<1>5. CASE here # {}
  <2>1. c \in U!Indices /\ PlaceIn(items, c) = v.pos
    BY <1>3, <1>5
  <2>2. x = [v EXCEPT !.ok = TRUE, !.cur = c]
    BY <1>1, <1>5
  <2> HIDE DEF c, here
  <2>3. x = [num_file |-> v.num_file, pos |-> v.pos, cur |-> c, ok |-> TRUE, hangs |-> v.hangs]
    BY <1>2, <2>2
  <2>4. x \in U!Cursors /\ x.num_file = v.num_file /\ x.hangs = v.hangs /\ x.ok = TRUE
    BY <1>2, <2>1, <2>3 DEF U!Cursors
  <2>5. ASSUME v.num_file \in U!Indices, v.pos = PlaceIn(items, v.num_file) PROVE OnItem(x)
    <3>1. c = v.num_file
      BY <2>1, <2>5, OnePlace
    <3> QED BY <2>3, <2>5, <3>1 DEF OnItem
  <2>6. LastRight(x)
    <3> SUFFICES ASSUME x.num_file = LastItem, x.pos = PlaceIn(items, x.num_file)
                 PROVE  x.cur = x.num_file
      BY DEF LastRight
    <3>1. LastItem \in U!Indices
      BY ItemTypes
    <3>2. v.num_file \in U!Indices /\ v.pos = PlaceIn(items, v.num_file)
      BY <2>3, <3>1
    <3> QED BY <2>5, <3>2 DEF OnItem
  <2> QED BY <2>4, <2>5, <2>6 DEF x
<1> QED BY <1>4, <1>5

LEMMA FirstIs ==
  ASSUME HasItems, NEW v \in U!Cursors
  PROVE  /\ U!unzGoToFirstFile(v) \in U!Cursors /\ U!unzGoToFirstFile(v).num_file = 0
         /\ U!unzGoToFirstFile(v).hangs = v.hangs
         /\ OnItem(U!unzGoToFirstFile(v)) /\ LastRight(U!unzGoToFirstFile(v))
<1> DEFINE x == [v EXCEPT !.num_file = 0, !.pos = 0]
<1>1. x \in U!Cursors /\ x.num_file = 0 /\ x.pos = 0 /\ x.hangs = v.hangs
  BY DEF U!Cursors
<1>2. 0 \in U!Indices /\ PlaceIn(items, 0) = 0
  BY ItemTypes, PlaceIs
<1>3. U!unzGoToFirstFile(v) = U!Loaded(x)
  BY DEF U!unzGoToFirstFile
<1> HIDE DEF x
<1> QED BY <1>1, <1>2, <1>3, LoadedIs

LEMMA NextIs ==
  ASSUME HasItems, NEW v \in U!Cursors
  PROVE  LET x == U!unzGoToNextFile(v)
         IN  /\ x \in U!Cursors /\ x.hangs = v.hangs
             /\ \/ x = v /\ (~v.ok \/ v.num_file = LastItem)
                \/ x # v /\ v.ok /\ v.num_file # LastItem /\ x.num_file = v.num_file + 1
             /\ OnItem(v) /\ v.num_file < LastItem => OnItem(x)
             /\ LastRight(v) => LastRight(x)
<1> DEFINE x == U!unzGoToNextFile(v)
           y == [v EXCEPT !.pos = @ + U!Item(v.cur).size, !.num_file = @ + 1]
<1>1. /\ v.num_file \in Nat /\ v.pos \in Nat /\ v.cur \in U!Indices /\ v.ok \in BOOLEAN
      /\ U!Item(v.cur).size \in Nat \ {0} /\ LastItem \in Nat
      /\ v.num_file + 1 = U!number_entry <=> v.num_file = LastItem
  <2>1. v.num_file \in Nat /\ v.pos \in Nat /\ v.cur \in U!Indices /\ v.ok \in BOOLEAN
    BY DEF U!Cursors
  <2> QED BY <2>1, ItemTypes DEF LastItem
<1>2. x = IF ~v.ok \/ v.num_file = LastItem THEN v ELSE U!Loaded(y)
  BY <1>1 DEF U!unzGoToNextFile
<1>3. /\ y \in U!Cursors /\ y.num_file = v.num_file + 1 /\ y.hangs = v.hangs
      /\ y.pos = v.pos + U!Item(v.cur).size
  <2> DEFINE p == v.pos + U!Item(v.cur).size
             k == v.num_file + 1
  <2>1. p \in Nat /\ k \in Nat
    BY <1>1
  <2>2. v.hangs \in BOOLEAN
    BY DEF U!Cursors
  <2>3. y = [v EXCEPT !.pos = p, !.num_file = k]
    OBVIOUS
  <2> HIDE DEF p, k, y
  <2>4. y = [num_file |-> k, pos |-> p, cur |-> v.cur, ok |-> v.ok, hangs |-> v.hangs]
    BY <2>3 DEF U!Cursors
  <2>5. y \in U!Cursors /\ y.num_file = k /\ y.hangs = v.hangs /\ y.pos = p
    BY <1>1, <2>1, <2>2, <2>4 DEF U!Cursors
  <2> QED BY <2>5 DEF p, k
<1> HIDE DEF x, y
<1>4. CASE ~v.ok \/ v.num_file = LastItem
  <2>1. x = v
    BY <1>2, <1>4
  <2> QED BY <1>1, <1>4, <2>1 DEF x
<1>5. CASE ~(~v.ok \/ v.num_file = LastItem)
  <2>1. x = U!Loaded(y)
    BY <1>2, <1>5
  <2>2. /\ x \in U!Cursors /\ x.num_file = v.num_file + 1 /\ x.hangs = v.hangs /\ LastRight(x)
        /\ y.num_file \in U!Indices /\ y.pos = PlaceIn(items, y.num_file) => OnItem(x)
    BY <1>3, <2>1, LoadedIs
  <2>3. x # v
    BY <1>1, <2>2
  <2>4. ASSUME OnItem(v), v.num_file < LastItem PROVE OnItem(x)
    <3>1. v.num_file + 1 \in U!Indices /\ v.num_file + 1 \in 1..Len(items)
      BY <1>1, <2>4, ItemTypes DEF LastItem
    <3>2. PlaceIn(items, v.num_file + 1) = PlaceIn(items, v.num_file) + items[v.num_file + 1].size
      <4> DEFINE k == v.num_file + 1
      <4>1. k - 1 = v.num_file /\ Sized(items)
        BY <1>1, ItemTypes
      <4> HIDE DEF k
      <4>2. PlaceIn(items, k) = PlaceIn(items, k - 1) + items[k].size
        BY <3>1, <4>1, PlaceIs DEF k
      <4> QED BY <4>1, <4>2 DEF k
    <3>3. U!Item(v.cur) = items[v.num_file + 1] /\ v.pos = PlaceIn(items, v.num_file)
      BY <2>4 DEF OnItem, U!Item
    <3> QED BY <1>3, <2>2, <3>1, <3>2, <3>3
  <2> QED BY <1>5, <2>2, <2>3, <2>4 DEF x
<1> QED BY <1>4, <1>5

\* A step of the way to item index.
GoStep(f, index, v) ==
  IF v.num_file >= index THEN v
  ELSE IF U!unzGoToNextFile(v) = v THEN [v EXCEPT !.hangs = TRUE]
  ELSE f[U!unzGoToNextFile(v)]

Goes(f, index, dom) == f = [v \in dom |-> GoStep(f, index, v)]

\* The cursors at most m items before item index.
Near(index, m) == {v \in U!Cursors : index - v.num_file <= m}

LEMMA NextIsNear ==
  ASSUME HasItems, NEW index \in U!Indices, NEW m \in 1..index, NEW v \in Near(index, m),
         ~(v.num_file >= index), U!unzGoToNextFile(v) # v
  PROVE  U!unzGoToNextFile(v) \in Near(index, m - 1)
<1> DEFINE x == U!unzGoToNextFile(v)
<1>1. v \in U!Cursors /\ index - v.num_file <= m /\ v.num_file \in Nat /\ index \in Nat /\ m \in Nat
  BY ItemTypes DEF Near, U!Cursors
<1>2. x \in U!Cursors /\ x.num_file = v.num_file + 1
  BY <1>1, NextIs
<1> HIDE DEF x
<1>3. index - x.num_file <= m - 1
  BY <1>1, <1>2
<1>4. x \in Near(index, m - 1)
  BY <1>2, <1>3 DEF Near
<1> QED BY <1>4 DEF x

LEMMA NearAll ==
  ASSUME HasItems, NEW index \in U!Indices
  PROVE  Near(index, index) = U!Cursors
<1>1. ASSUME NEW v \in U!Cursors PROVE index - v.num_file <= index
  <2>1. v.num_file \in Nat /\ index \in Nat
    BY ItemTypes DEF U!Cursors
  <2> QED BY <2>1
<1> QED BY <1>1 DEF Near

\* There is a table of where the way to an item ends.
LEMMA WayExists ==
  ASSUME HasItems, NEW index \in U!Indices
  PROVE  \E f : Goes(f, index, U!Cursors)
<1> DEFINE S1 == {m \in 0..index : \E f : Goes(f, index, Near(index, m))}
<1>1. index \in Nat
  BY ItemTypes
<1>2. 0 \in S1
  <2> DEFINE dom == Near(index, 0)
             f == [v \in dom |-> v]
  <2>1. ASSUME NEW v \in dom PROVE GoStep(f, index, v) = v
    <3>1. v.num_file >= index
      <4>1. v.num_file \in Nat /\ index - v.num_file <= 0
        BY DEF Near, U!Cursors
      <4> QED BY <1>1, <4>1
    <3> QED BY <3>1 DEF GoStep
  <2> HIDE DEF dom
  <2>2. f = [v \in dom |-> GoStep(f, index, v)]
    BY <2>1, Zenon
  <2>3. \E e : Goes(e, index, dom)
    <3> HIDE DEF f
    <3> QED BY <2>2, Zenon DEF Goes
  <2> QED BY <1>1, <2>3 DEF dom
<1>3. ASSUME NEW m \in 1..index, m - 1 \in S1 PROVE m \in S1
  <2> DEFINE near == Near(index, m - 1)
             dom == Near(index, m)
  <2>1. PICK f : Goes(f, index, near)
    BY <1>3
  <2> DEFINE g == [v \in dom |-> GoStep(f, index, v)]
  <2>2. near \subseteq dom
    <3>1. ASSUME NEW v \in near PROVE v \in dom
      <4>1. v \in U!Cursors /\ v.num_file \in Nat /\ index - v.num_file <= m - 1
        BY DEF Near, U!Cursors
      <4>2. index - v.num_file <= m
        BY <1>1, <4>1
      <4> QED BY <4>1, <4>2 DEF Near
    <3> QED BY <3>1
  <2>3. ASSUME NEW v \in dom PROVE GoStep(f, index, v) = GoStep(g, index, v)
    <3>1. CASE v.num_file >= index \/ U!unzGoToNextFile(v) = v
      <4> HIDE DEF g
      <4> QED BY <3>1 DEF GoStep
    <3>2. CASE ~(v.num_file >= index \/ U!unzGoToNextFile(v) = v)
      <4> DEFINE x == U!unzGoToNextFile(v)
      <4>1. x \in near
        BY <3>2, NextIsNear
      <4> HIDE DEF x, near, dom
      <4>2. f[x] = GoStep(f, index, x)
        BY <2>1, <4>1, Zenon DEF Goes
      <4>3. g[x] = GoStep(f, index, x)
        BY <2>2, <4>1
      <4> HIDE DEF g
      <4>4. g[x] = f[x]
        BY <4>2, <4>3
      <4> QED BY <3>2, <4>4 DEF GoStep, x
    <3> QED BY <3>1, <3>2
  <2> HIDE DEF dom, near
  <2>4. g = [v \in dom |-> GoStep(g, index, v)]
    <3> DEFINE h == [v \in dom |-> GoStep(g, index, v)]
    <3>1. \A v \in dom : GoStep(f, index, v) = GoStep(g, index, v)
      BY <2>3
    <3> QED BY <3>1, Zenon
  <2>5. \E e : Goes(e, index, dom)
    <3> HIDE DEF g
    <3> QED BY <2>4, Zenon DEF Goes
  <2>6. m \in 0..index
    BY <1>1
  <2> QED BY <2>5, <2>6 DEF dom
<1> HIDE DEF S1
<1>4. 0..index \subseteq S1
  BY <1>1, <1>2, <1>3, Upto
<1>5. index \in S1
  BY <1>1, <1>4
<1>6. \E f : Goes(f, index, Near(index, index))
  BY <1>5 DEF S1
<1> QED BY <1>6, NearAll

\* How a way that begins at the cursor v ends at the cursor x.
Arrived(index, v, x) ==
  /\ x \in U!Cursors
  /\ v.num_file <= index => (x.num_file = index /\ x.hangs = v.hangs) \/ (x.hangs /\ ~x.ok)
  /\ OnItem(v) /\ v.num_file <= index => OnItem(x)
  /\ LastRight(v) => LastRight(x)

LEMMA WayReaches ==
  ASSUME HasItems, NEW index \in U!Indices, NEW f, Goes(f, index, U!Cursors), NEW v \in U!Cursors
  PROVE  Arrived(index, v, f[v])
<1> DEFINE S1 == {m \in 0..index : \A y \in Near(index, m) : Arrived(index, y, f[y])}
<1>1. index \in Nat /\ index <= LastItem /\ LastItem \in Nat
  BY ItemTypes
<1>2. ASSUME NEW y \in U!Cursors, y.num_file >= index PROVE Arrived(index, y, f[y])
  <2>1. f[y] = y
    BY <1>2, Zenon DEF Goes, GoStep
  <2>2. y.num_file \in Nat
    BY DEF U!Cursors
  <2>3. y.num_file <= index => y.num_file = index
    BY <1>1, <1>2, <2>2
  <2> QED BY <2>1, <2>3 DEF Arrived
<1>3. 0 \in S1
  <2>1. ASSUME NEW y \in Near(index, 0) PROVE Arrived(index, y, f[y])
    <3>1. y \in U!Cursors /\ y.num_file \in Nat /\ index - y.num_file <= 0
      BY DEF Near, U!Cursors
    <3>2. y.num_file >= index
      BY <1>1, <3>1
    <3> QED BY <1>2, <3>1, <3>2
  <2> QED BY <1>1, <2>1
<1>4. ASSUME NEW m \in 1..index, m - 1 \in S1 PROVE m \in S1
  <2>1. ASSUME NEW y \in Near(index, m) PROVE Arrived(index, y, f[y])
    <3> DEFINE x == U!unzGoToNextFile(y)
    <3>0. y \in U!Cursors /\ y.num_file \in Nat
      BY DEF Near, U!Cursors
    <3>1. CASE y.num_file >= index
      BY <1>2, <3>0, <3>1
    <3>2. CASE ~(y.num_file >= index) /\ x = y
      <4>1. y.num_file # LastItem /\ y.hangs \in BOOLEAN /\ y.ok \in BOOLEAN
        BY <1>1, <3>0, <3>2 DEF U!Cursors
      <4>2. ~y.ok
        BY <3>0, <3>2, <4>1, NextIs
      <4>3. f[y] = [y EXCEPT !.hangs = TRUE]
        BY <3>0, <3>2, Zenon DEF Goes, GoStep
      <4> DEFINE r == f[y]
      <4>4. r \in U!Cursors /\ r.hangs /\ ~r.ok
        BY <3>0, <4>2, <4>3 DEF U!Cursors
      <4> HIDE DEF r
      <4>5. Arrived(index, y, r)
        BY <4>2, <4>4 DEF Arrived, OnItem, LastRight
      <4> QED BY <4>5 DEF r
    <3>3. CASE ~(y.num_file >= index) /\ x # y
      <4>1. x \in Near(index, m - 1)
        BY <3>3, NextIsNear
      <4>2. Arrived(index, x, f[x])
        BY <1>4, <4>1
      <4>3. f[y] = f[x]
        BY <3>0, <3>3, Zenon DEF Goes, GoStep
      <4>4. /\ x.hangs = y.hangs /\ x.num_file = y.num_file + 1
            /\ OnItem(y) /\ y.num_file < LastItem => OnItem(x)
            /\ LastRight(y) => LastRight(x)
        BY <3>0, <3>3, NextIs
      <4> HIDE DEF x
      <4>5. y.num_file < LastItem /\ x.num_file <= index
        BY <1>1, <3>0, <3>3, <4>4
      <4> DEFINE r == f[x]
      <4>6. Arrived(index, x, r)
        BY <4>2
      <4> HIDE DEF r
      <4>7. Arrived(index, y, r)
        BY <4>4, <4>5, <4>6 DEF Arrived
      <4> QED BY <4>3, <4>7 DEF r
    <3> QED BY <3>1, <3>2, <3>3
  <2>2. m \in 0..index
    BY <1>1
  <2> QED BY <2>1, <2>2
<1> HIDE DEF S1
<1>5. 0..index \subseteq S1
  BY <1>1, <1>3, <1>4, Upto
<1>6. index \in S1
  BY <1>1, <1>5
<1>7. \A y \in Near(index, index) : Arrived(index, y, f[y])
  BY <1>6 DEF S1
<1> QED BY <1>7, NearAll

LEMMA GoToIs ==
  ASSUME HasItems, NEW v \in U!Cursors, NEW index \in U!Indices
  PROVE  /\ U!GoTo(v, index) \in U!Cursors
         /\ \/ U!GoTo(v, index).num_file = index /\ U!GoTo(v, index).hangs = v.hangs
            \/ U!GoTo(v, index).hangs /\ ~U!GoTo(v, index).ok
         /\ OnItem(v) => OnItem(U!GoTo(v, index))
         /\ LastRight(v) => LastRight(U!GoTo(v, index))
<1> DEFINE u == IF index < v.num_file THEN U!unzGoToFirstFile(v) ELSE v
           f == CHOOSE f : Goes(f, index, U!Cursors)
<1>1. U!GoTo(v, index) = f[u]
  BY Zenon DEF U!GoTo, Goes, GoStep
<1>2. Goes(f, index, U!Cursors)
  BY WayExists
<1>3. index \in Nat /\ v.num_file \in Nat
  BY ItemTypes DEF U!Cursors
<1>4. /\ u \in U!Cursors /\ u.num_file <= index /\ u.hangs = v.hangs
      /\ OnItem(v) => OnItem(u)
      /\ LastRight(v) => LastRight(u)
  <2>1. CASE index < v.num_file
    BY <1>3, <2>1, FirstIs
  <2>2. CASE ~(index < v.num_file)
    BY <1>3, <2>2
  <2> QED BY <2>1, <2>2
<1> HIDE DEF u, f
<1> DEFINE x == f[u]
<1>5. Arrived(index, u, x)
  BY <1>2, <1>4, WayReaches
<1>6. x = U!GoTo(v, index)
  BY <1>1
<1> HIDE DEF x
<1>7. /\ x \in U!Cursors
      /\ (x.num_file = index /\ x.hangs = v.hangs) \/ (x.hangs /\ ~x.ok)
      /\ OnItem(v) => OnItem(x)
      /\ LastRight(v) => LastRight(x)
  BY <1>4, <1>5 DEF Arrived
<1> QED BY <1>6, <1>7

\* A search finds the first item of the name, or comes back to where it was,
\* with what it knows of the last item.
LEMMA LocateIs ==
  ASSUME HasItems, NEW v \in U!Cursors, NEW name
  PROVE  LET r == U!unzLocateFile(v, name)
         IN  /\ r.u \in U!Cursors
             /\ ~v.ok => ~r.found /\ r.u = v
             /\ v.ok => r.u.hangs = v.hangs /\ LastRight(r.u)
             /\ v.ok /\ ~r.found =>
                  r.u.num_file = v.num_file /\ r.u.pos = v.pos /\ r.u.cur = LastItem
             /\ r.found => /\ v.ok /\ r.u.num_file \in U!Indices
                           /\ U!Item(r.u.num_file).name = name
                           /\ \A i \in 0..(r.u.num_file - 1) : U!Item(i).name # name
<1> DEFINE there == {i \in U!Indices : U!Item(i).name = name}
           first == U!unzGoToFirstFile(v)
           atEnd == U!GoTo(first, U!number_entry - 1)
           r == U!unzLocateFile(v, name)
<1>1. r = IF ~v.ok THEN [found |-> FALSE, u |-> v]
          ELSE IF there # {} THEN [found |-> TRUE, u |-> U!GoTo(first, U!Min(there))]
          ELSE [found |-> FALSE, u |-> [atEnd EXCEPT !.num_file = v.num_file, !.pos = v.pos]]
  BY Zenon DEF U!unzLocateFile
<1>2. first \in U!Cursors /\ first.hangs = v.hangs /\ OnItem(first) /\ LastRight(first)
  BY FirstIs
<1>3. ASSUME NEW i \in U!Indices
      PROVE  LET x == U!GoTo(first, i)
             IN  /\ x \in U!Cursors /\ x.num_file = i /\ x.hangs = v.hangs /\ OnItem(x)
                 /\ LastRight(x)
  <2> HIDE DEF first
  <2> QED BY <1>2, GoToIs DEF OnItem
<1> HIDE DEF first, r
<1>4. CASE ~v.ok
  <2>1. r.found = FALSE /\ r.u = v
    BY <1>1, <1>4
  <2> QED BY <1>4, <2>1 DEF r
<1>5. CASE v.ok /\ there # {}
  <2> DEFINE k == U!Min(there)
             x == U!GoTo(first, k)
  <2>1. k \in there /\ \A i \in there : k <= i
    <3>1. there \subseteq Nat
      BY ItemTypes
    <3>2. PICK j \in there : \A i \in there : j <= i
      <4> HIDE DEF there
      <4> QED BY <1>5, <3>1, Least
    <3> QED BY <3>2 DEF U!Min
  <2>2. k \in U!Indices /\ U!Item(k).name = name
    BY <2>1
  <2>3. ASSUME NEW i \in 0..(k - 1) PROVE U!Item(i).name # name
    <3>1. k \in Nat /\ LastItem \in Nat /\ U!Indices = 0..LastItem
      BY <2>2, ItemTypes
    <3>2. i \in U!Indices /\ ~(k <= i)
      <4> HIDE DEF k, there
      <4> QED BY <2>2, <3>1
    <3>3. i \notin there
      BY <2>1, <3>2
    <3> QED BY <3>2, <3>3
  <2>4. r = [found |-> TRUE, u |-> x]
    BY <1>1, <1>5
  <2> HIDE DEF k, there
  <2>5. x \in U!Cursors /\ x.num_file = k /\ x.hangs = v.hangs /\ LastRight(x)
    BY <1>3, <2>2
  <2> HIDE DEF x
  <2> QED BY <1>5, <2>2, <2>3, <2>4, <2>5 DEF r
<1>6. CASE v.ok /\ there = {}
  <2> HIDE DEF there
  <2>1. atEnd \in U!Cursors /\ atEnd.num_file = LastItem /\ atEnd.hangs = v.hangs /\ atEnd.cur = LastItem
    <3>1. LastItem \in U!Indices /\ U!number_entry - 1 = LastItem
      BY ItemTypes DEF LastItem
    <3>2. atEnd = U!GoTo(first, LastItem)
      BY <3>1
    <3> HIDE DEF atEnd
    <3> QED BY <1>3, <3>1, <3>2 DEF OnItem
  <2> HIDE DEF atEnd
  <2>2. v.num_file \in Nat /\ v.pos \in Nat /\ atEnd.ok \in BOOLEAN /\ atEnd.cur \in U!Indices
        /\ atEnd.hangs \in BOOLEAN
    BY <2>1 DEF U!Cursors
  <2> DEFINE x == [num_file |-> v.num_file, pos |-> v.pos, cur |-> atEnd.cur, ok |-> atEnd.ok,
                   hangs |-> atEnd.hangs]
  <2>3. r = [found |-> FALSE, u |-> x]
    <3> DEFINE y == [atEnd EXCEPT !.num_file = v.num_file, !.pos = v.pos]
    <3>1. y = x
      <4> DEFINE c == [num_file |-> v.num_file, pos |-> atEnd.pos, cur |-> atEnd.cur,
                       ok |-> atEnd.ok, hangs |-> atEnd.hangs]
      <4>1. [atEnd EXCEPT !.num_file = v.num_file] = c
        BY <2>1 DEF U!Cursors
      <4>2. [c EXCEPT !.pos = v.pos] = x
        OBVIOUS
      <4> HIDE DEF c, x
      <4> QED BY <4>1, <4>2
    <3> HIDE DEF x, y
    <3>2. r = [found |-> FALSE, u |-> y]
      BY <1>1, <1>6 DEF y
    <3> QED BY <3>1, <3>2
  <2>4. /\ x \in U!Cursors /\ x.num_file = v.num_file /\ x.pos = v.pos /\ x.cur = LastItem
        /\ x.hangs = v.hangs
    BY <2>1, <2>2 DEF U!Cursors
  <2> HIDE DEF x
  <2>5. LastRight(x)
    BY <2>4 DEF LastRight
  <2> QED BY <1>6, <2>3, <2>4, <2>5 DEF r
<1> QED BY <1>4, <1>5, <1>6

(***************************************************************************)
(* The open item.                                                          *)
(***************************************************************************)

\* What is left of an open item; one without a header has been decrypted.
Open(p) ==
  LET it == U!Item(p.item)
  IN  /\ p \in U!OpenItems /\ p.at <= it.len
      /\ ~it.encrypted => p.rest = it.len - p.at /\ p.encheadleft = 0
      /\ it.encrypted => \/ p.encheadleft = 0 /\ passwordRight
                         \/ p.encheadleft > 0 /\ p.at = 0 /\ p.rest = it.len

\* A read of len bytes comes to the end of the item.
Fills(p, len) ==
  LET it == U!Item(p.item)
  IN  p.at = it.len \/ (p.at = 0 /\ p.rest = it.len /\ it.len <= len)

LEMMA TwoNumbers ==
  ASSUME NEW a \in Int, NEW b \in Int
  PROVE  U!Min({a, b}) = IF a <= b THEN a ELSE b
BY DEF U!Min

LEMMA ReadIs ==
  ASSUME HasItems, NEW p \in U!OpenItems, NEW len \in Nat
  PROVE  LET r == U!unzReadCurrentFile(p, len)
             it == U!Item(p.item)
         IN  /\ r.res \in Int
             /\ r.res > 0 => /\ r.p \in U!OpenItems /\ r.p.item = p.item
                             /\ p.at < r.p.at /\ r.p.at <= it.len
             /\ Open(p) =>
                  /\ r.p.item = p.item
                  /\ r.res > 0 => Open(r.p) /\ r.p.encheadleft = 0
                  /\ r.eof /\ ~it.encrypted => r.p.at = it.len
                  /\ ~it.stored /\ Fills(p, len) /\ (r.eof \/ r.res > 0) => r.p.at = it.len
                  /\ r.res > 0 /\ ~r.eof /\ ~it.encrypted => r.p.at < it.len
                  /\ r.hangs => it.stored /\ it.encrypted
                  /\ it.encrypted /\ ~passwordRight => r.p.at = 0 /\ r.res <= 0 /\ ~r.eof
<1> DEFINE r == U!unzReadCurrentFile(p, len)
           it == U!Item(p.item)
           room == U!Min({len, p.rest})
           left == it.len - p.at
           n == U!Min({room, left})
           rest == (p.rest - p.encheadleft - n) % DWord
           after == [p EXCEPT !.at = @ + n, !.rest = rest, !.encheadleft = 0]
           ends == n = left /\ (it.tail = "with" \/ (n < room /\ it.tail = "later"))
<1>1. /\ p.item \in U!Indices /\ p.at \in Nat /\ p.rest \in Nat /\ p.encheadleft \in Nat
      /\ it.len \in 0..(DWord - 1) /\ DWord \in Nat \ {0} /\ p.item \in Nat
      /\ p = [item |-> p.item, at |-> p.at, rest |-> p.rest, encheadleft |-> p.encheadleft]
  <2>1. p.item \in U!Indices
    BY DEF U!OpenItems
  <2>2. p = [item |-> p.item, at |-> p.at, rest |-> p.rest, encheadleft |-> p.encheadleft]
    BY DEF U!OpenItems
  <2>3. p.at \in Nat /\ p.rest \in Nat /\ p.encheadleft \in Nat
    BY DEF U!OpenItems
  <2> QED BY <2>1, <2>2, <2>3, ItemTypes, ItemsAssumption
<1>2. p # U!NULL
  <2>1. U!NULL.item = -1
    BY DEF U!NULL
  <2> QED BY <1>1, <2>1
<1>3. r = IF room = 0 THEN [p |-> p, res |-> 0, eof |-> FALSE, hangs |-> FALSE]
          ELSE IF p.encheadleft > 0 /\ ~passwordRight
          THEN [p |-> [p EXCEPT !.encheadleft = 0], res |-> -2, eof |-> FALSE, hangs |-> FALSE]
          ELSE IF it.stored THEN [p |-> after, res |-> n, eof |-> rest = 0, hangs |-> n < room]
          ELSE IF ends \/ rest = 0 THEN [p |-> after, res |-> n, eof |-> TRUE, hangs |-> FALSE]
          ELSE [p |-> after, res |-> IF n < room THEN -1 ELSE n, eof |-> FALSE, hangs |-> FALSE]
  BY <1>2, Zenon DEF U!unzReadCurrentFile
<1> HIDE DEF r
<1>4. /\ room \in Nat /\ room <= len /\ room <= p.rest /\ (room = len \/ room = p.rest)
      /\ left \in Int /\ n \in Int /\ n <= room /\ n <= left /\ (n = room \/ n = left)
  <2>1. room = IF len <= p.rest THEN len ELSE p.rest
    BY <1>1, TwoNumbers
  <2>2. room \in Nat /\ left \in Int
    <3> HIDE DEF room
    <3> QED BY <1>1, <2>1
  <2> HIDE DEF room, left
  <2>3. n = IF room <= left THEN room ELSE left
    BY <2>2, TwoNumbers
  <2> HIDE DEF n
  <2> QED BY <1>1, <2>1, <2>2, <2>3
<1>5. /\ rest \in Nat
      /\ p.rest - p.encheadleft - n \in 0..(DWord - 1) => rest = p.rest - p.encheadleft - n
  <2> DEFINE a == p.rest - p.encheadleft - n
  <2>1. a \in Int
    <3> HIDE DEF n
    <3> QED BY <1>1, <1>4
  <2>2. rest = a % DWord
    OBVIOUS
  <2> HIDE DEF a, n, rest
  <2>3. rest \in Nat /\ (a \in 0..(DWord - 1) => rest = a)
    BY <1>1, <2>1, <2>2
  <2> QED BY <2>3 DEF a
<1> HIDE DEF n, rest, room
<1>6. after = [item |-> p.item, at |-> p.at + n, rest |-> rest, encheadleft |-> 0]
  <2> DEFINE p1 == [item |-> p.item, at |-> p.at + n, rest |-> p.rest,
                    encheadleft |-> p.encheadleft]
             p2 == [item |-> p.item, at |-> p.at + n, rest |-> rest,
                    encheadleft |-> p.encheadleft]
  <2>1. [p EXCEPT !.at = @ + n] = p1
    BY <1>1
  <2>2. [p1 EXCEPT !.rest = rest] = p2
    OBVIOUS
  <2>3. [p2 EXCEPT !.encheadleft = 0]
          = [item |-> p.item, at |-> p.at + n, rest |-> rest, encheadleft |-> 0]
    OBVIOUS
  <2> HIDE DEF p1, p2
  <2> QED BY <2>1, <2>2, <2>3
<1> HIDE DEF after
<1>7. /\ after.item = p.item /\ after.at = p.at + n /\ after.rest = rest /\ after.encheadleft = 0
      /\ p.at + n \in Nat => after \in U!OpenItems
  BY <1>1, <1>4, <1>5, <1>6 DEF U!OpenItems
<1> DEFINE gives == ~(room = 0) /\ ~(p.encheadleft > 0 /\ ~passwordRight)
<1>8. CASE room = 0
  <2>1. r = [p |-> p, res |-> 0, eof |-> FALSE, hangs |-> FALSE]
    BY <1>3, <1>8
  <2>2. r.p = p /\ r.res = 0 /\ ~r.eof /\ ~r.hangs
    BY <2>1
  <2>3. Open(p) /\ it.encrypted /\ ~passwordRight => p.at = 0
    BY DEF Open
  <2> QED BY <2>2, <2>3 DEF r
<1>9. CASE room # 0 /\ p.encheadleft > 0 /\ ~passwordRight
  <2> DEFINE q == [p EXCEPT !.encheadleft = 0]
  <2>1. r = [p |-> q, res |-> -2, eof |-> FALSE, hangs |-> FALSE]
    BY <1>3, <1>9
  <2>2. q.item = p.item /\ q.at = p.at
    BY <1>1
  <2> HIDE DEF q
  <2>3. r.p = q /\ r.res = -2 /\ ~r.eof /\ ~r.hangs
    BY <2>1
  <2>4. Open(p) /\ it.encrypted /\ ~passwordRight => p.at = 0
    BY DEF Open
  <2> QED BY <2>2, <2>3, <2>4 DEF r
<1>10. CASE gives
  <2>1. /\ r.p = after
        /\ r.res = n \/ (r.res = -1 /\ ~r.eof)
        /\ r.hangs => it.stored /\ n < room
        /\ r.eof => rest = 0 \/ (~it.stored /\ n = left)
        /\ rest = 0 => r.eof
    <3>0. room # 0
      BY <1>10
    <3>1. CASE it.stored
      <4>1. r = [p |-> after, res |-> n, eof |-> rest = 0, hangs |-> n < room]
        BY <1>3, <1>10, <3>1
      <4> QED BY <3>1, <4>1
    <3>2. CASE ~it.stored /\ (ends \/ rest = 0)
      <4>1. r = [p |-> after, res |-> n, eof |-> TRUE, hangs |-> FALSE]
        BY <1>3, <1>10, <3>2
      <4> QED BY <3>2, <4>1
    <3>3. CASE ~it.stored /\ ~(ends \/ rest = 0)
      <4>1. r = [p |-> after, res |-> IF n < room THEN -1 ELSE n, eof |-> FALSE, hangs |-> FALSE]
        BY <1>3, <1>10, <3>3
      <4> QED BY <3>3, <4>1
    <3> QED BY <3>1, <3>2, <3>3
  <2>2. room > 0
    BY <1>4, <1>10
  <2> HIDE DEF ends, left, it
  <2>3. r.res > 0 => /\ r.p \in U!OpenItems /\ r.p.item = p.item
                     /\ p.at < r.p.at /\ r.p.at <= it.len
    BY <1>1, <1>4, <1>7, <2>1 DEF left
  <2>4. ASSUME Open(p)
        PROVE  /\ r.res > 0 => Open(r.p) /\ r.p.encheadleft = 0
               /\ r.eof /\ ~it.encrypted => r.p.at = it.len
               /\ ~it.stored /\ Fills(p, len) /\ (r.eof \/ r.res > 0) => r.p.at = it.len
               /\ r.res > 0 /\ ~r.eof /\ ~it.encrypted => r.p.at < it.len
               /\ r.hangs => it.encrypted
               /\ ~(it.encrypted /\ ~passwordRight)
    <3>1. /\ p.at <= it.len
          /\ ~it.encrypted => p.rest = it.len - p.at /\ p.encheadleft = 0
          /\ it.encrypted => \/ p.encheadleft = 0 /\ passwordRight
                             \/ p.encheadleft > 0 /\ p.at = 0 /\ p.rest = it.len
      BY <2>4 DEF Open, it
    <3>2. ~(it.encrypted /\ ~passwordRight)
      BY <1>10, <3>1
    <3>3. left \in Nat /\ n >= 0
      BY <1>1, <1>4, <3>1 DEF left
    <3>4. ASSUME ~it.encrypted
          PROVE  n = room /\ rest = it.len - (p.at + n) /\ p.at + n <= it.len
      <4>1. p.rest = left /\ p.encheadleft = 0 /\ left = it.len - p.at
        BY <3>1, <3>4 DEF left
      <4>2. n = room
        BY <1>4, <4>1
      <4>3. p.rest - p.encheadleft - n \in 0..(DWord - 1)
        BY <1>1, <1>4, <3>3, <4>1
      <4>4. rest = p.rest - p.encheadleft - n
        BY <1>5, <4>3
      <4> QED BY <1>1, <1>4, <4>1, <4>2, <4>4
    <3>5. r.res > 0 => Open(r.p) /\ r.p.encheadleft = 0
      <4> SUFFICES ASSUME r.res > 0 PROVE Open(after) /\ after.encheadleft = 0
        BY <2>1
      <4>1. /\ after \in U!OpenItems /\ after.item = p.item /\ after.at <= it.len
            /\ after.encheadleft = 0 /\ after.rest = rest /\ after.at = p.at + n
        BY <1>7, <2>1, <2>3
      <4>2. U!Item(after.item) = it
        BY <4>1 DEF it
      <4>3. ~it.encrypted => after.rest = it.len - after.at
        BY <3>4, <4>1
      <4>4. it.encrypted => passwordRight
        BY <3>2
      <4> QED BY <4>1, <4>2, <4>3, <4>4 DEF Open
    <3>6. r.eof /\ ~it.encrypted => r.p.at = it.len
      <4> SUFFICES ASSUME r.eof, ~it.encrypted PROVE after.at = it.len
        BY <2>1
      <4>1. rest = 0 \/ n = left
        BY <2>1
      <4> QED BY <1>1, <1>4, <1>7, <3>4, <4>1 DEF left
    <3>7. ~it.stored /\ Fills(p, len) /\ (r.eof \/ r.res > 0) => r.p.at = it.len
      <4> SUFFICES ASSUME Fills(p, len) PROVE after.at = it.len
        BY <2>1
      <4>1. p.at = it.len \/ (p.at = 0 /\ p.rest = it.len /\ it.len <= len)
        BY DEF Fills, it
      <4>2. n = left
        BY <1>1, <1>4, <3>3, <4>1 DEF left
      <4> QED BY <1>1, <1>7, <4>2 DEF left
    <3>8. r.res > 0 /\ ~r.eof /\ ~it.encrypted => r.p.at < it.len
      <4> SUFFICES ASSUME r.res > 0, ~r.eof, ~it.encrypted PROVE after.at < it.len
        BY <2>1
      <4>1. rest # 0
        BY <2>1
      <4> QED BY <1>1, <1>4, <1>7, <3>4, <4>1
    <3>9. r.hangs => it.encrypted
      BY <1>4, <2>1, <3>4
    <3> QED BY <3>2, <3>5, <3>6, <3>7, <3>8, <3>9
  <2>5. r.res \in Int /\ r.p.item = p.item /\ (r.hangs => it.stored)
    BY <1>4, <1>7, <2>1
  <2> QED BY <2>3, <2>4, <2>5 DEF r, it
<1> QED BY <1>8, <1>9, <1>10

\* A turn of the loop that unzips to a file.
CopyStep(f, p) ==
  LET r == U!unzReadCurrentFile(p, BUFSIZE)
  IN  IF r.hangs THEN [p |-> r.p, result |-> "hangs"]
      ELSE IF r.res = -2 THEN [p |-> p, result |-> "ZR_PASSWORD"]
      ELSE IF r.res < 0 \/ (r.res = 0 /\ ~r.eof) THEN [p |-> p, result |-> "ZR_FLATE"]
      ELSE IF r.eof THEN [p |-> r.p, result |-> "ZR_OK"]
      ELSE f[r.p]

Copies(f, dom) == f = [p \in dom |-> CopyStep(f, p)]

\* The open items of which at most m bytes are left.
Left(m) == {p \in U!OpenItems : U!Item(p.item).len - p.at <= m}

LEMMA LeftAll ==
  ASSUME HasItems
  PROVE  Left(DWord) = U!OpenItems
<1>1. ASSUME NEW p \in U!OpenItems PROVE U!Item(p.item).len - p.at <= DWord
  <2>1. p.at \in Nat /\ p.item \in U!Indices
    BY DEF U!OpenItems
  <2>2. U!Item(p.item).len \in 0..(DWord - 1) /\ DWord \in Nat
    BY <2>1, ItemTypes, ItemsAssumption
  <2> QED BY <2>1, <2>2
<1> QED BY <1>1 DEF Left

LEMMA LessIsLeft ==
  ASSUME HasItems, NEW m \in 0..DWord, NEW p \in Left(m),
         U!unzReadCurrentFile(p, BUFSIZE).res > 0
  PROVE  m > 0 /\ U!unzReadCurrentFile(p, BUFSIZE).p \in Left(m - 1)
<1> DEFINE r == U!unzReadCurrentFile(p, BUFSIZE)
<1>1. /\ p \in U!OpenItems /\ U!Item(p.item).len - p.at <= m
      /\ p.at \in Nat /\ p.item \in U!Indices
  BY DEF Left, U!OpenItems
<1>2. BUFSIZE \in Nat /\ DWord \in Nat /\ U!Item(p.item).len \in Nat
  BY <1>1, ItemTypes, ItemsAssumption
<1>3. r.p \in U!OpenItems /\ r.p.item = p.item /\ p.at < r.p.at /\ r.p.at <= U!Item(p.item).len
  BY <1>1, <1>2, ReadIs
<1> HIDE DEF r
<1>4. r.p.at \in Nat
  BY <1>3 DEF U!OpenItems
<1>5. m > 0 /\ U!Item(r.p.item).len - r.p.at <= m - 1
  BY <1>1, <1>2, <1>3, <1>4
<1>6. r.p \in Left(m - 1)
  BY <1>3, <1>5 DEF Left
<1> QED BY <1>5, <1>6 DEF r

\* The loop goes on only after a read that gave something.
LEMMA CopyStops ==
  ASSUME HasItems, NEW p \in U!OpenItems, NEW f, NEW g,
         ~(U!unzReadCurrentFile(p, BUFSIZE).res > 0)
  PROVE  CopyStep(f, p) = CopyStep(g, p)
<1> DEFINE r == U!unzReadCurrentFile(p, BUFSIZE)
<1>1. r.res \in Int /\ ~(r.res > 0)
  BY ReadIs, ItemsAssumption
<1> HIDE DEF r
<1>2. r.res < 0 \/ (r.res = 0 /\ ~r.eof) \/ r.eof
  BY <1>1
<1>3. \A e : CopyStep(e, p)
         = IF r.hangs THEN [p |-> r.p, result |-> "hangs"]
           ELSE IF r.res = -2 THEN [p |-> p, result |-> "ZR_PASSWORD"]
           ELSE IF r.res < 0 \/ (r.res = 0 /\ ~r.eof) THEN [p |-> p, result |-> "ZR_FLATE"]
           ELSE [p |-> r.p, result |-> "ZR_OK"]
  <2> SUFFICES ASSUME NEW e
               PROVE  CopyStep(e, p)
                        = IF r.hangs THEN [p |-> r.p, result |-> "hangs"]
                          ELSE IF r.res = -2 THEN [p |-> p, result |-> "ZR_PASSWORD"]
                          ELSE IF r.res < 0 \/ (r.res = 0 /\ ~r.eof)
                          THEN [p |-> p, result |-> "ZR_FLATE"]
                          ELSE [p |-> r.p, result |-> "ZR_OK"]
    OBVIOUS
  <2>1. CopyStep(e, p)
         = IF r.hangs THEN [p |-> r.p, result |-> "hangs"]
           ELSE IF r.res = -2 THEN [p |-> p, result |-> "ZR_PASSWORD"]
           ELSE IF r.res < 0 \/ (r.res = 0 /\ ~r.eof) THEN [p |-> p, result |-> "ZR_FLATE"]
           ELSE IF r.eof THEN [p |-> r.p, result |-> "ZR_OK"]
           ELSE e[r.p]
    BY Zenon DEF CopyStep, r
  <2> QED BY <1>2, <2>1
<1> QED BY <1>3

LEMMA CopyExists ==
  ASSUME HasItems
  PROVE  \E f : Copies(f, U!OpenItems)
<1> DEFINE S1 == {m \in 0..DWord : \E f : Copies(f, Left(m))}
<1>1. DWord \in Nat
  BY ItemsAssumption
<1>2. 0 \in S1
  <2> DEFINE dom == Left(0)
             e == [p \in dom |-> p]
             f == [p \in dom |-> CopyStep(e, p)]
  <2>1. ASSUME NEW p \in dom PROVE CopyStep(e, p) = CopyStep(f, p)
    <3>1. p \in U!OpenItems /\ 0 \in 0..DWord
      BY <1>1 DEF Left
    <3>2. ~(U!unzReadCurrentFile(p, BUFSIZE).res > 0)
      BY <3>1, LessIsLeft
    <3> HIDE DEF e, f
    <3> QED BY <3>1, <3>2, CopyStops
  <2> HIDE DEF dom
  <2>2. f = [p \in dom |-> CopyStep(f, p)]
    <3> DEFINE h == [p \in dom |-> CopyStep(f, p)]
    <3>1. \A p \in dom : CopyStep(e, p) = CopyStep(f, p)
      BY <2>1
    <3> QED BY <3>1, Zenon
  <2>3. \E g : Copies(g, dom)
    <3> HIDE DEF f
    <3> QED BY <2>2, Zenon DEF Copies
  <2> QED BY <1>1, <2>3 DEF dom
<1>3. ASSUME NEW m \in 1..DWord, m - 1 \in S1 PROVE m \in S1
  <2> DEFINE near == Left(m - 1)
             dom == Left(m)
  <2>0. m \in 0..DWord
    BY <1>1
  <2>1. PICK f : Copies(f, near)
    BY <1>3
  <2> DEFINE g == [p \in dom |-> CopyStep(f, p)]
  <2>2. near \subseteq dom
    <3>1. ASSUME NEW p \in near PROVE p \in dom
      <4>1. /\ p \in U!OpenItems /\ p.at \in Nat /\ p.item \in U!Indices
            /\ U!Item(p.item).len - p.at <= m - 1
        BY DEF Left, U!OpenItems
      <4>2. U!Item(p.item).len \in Nat
        BY <4>1, ItemTypes, ItemsAssumption
      <4>3. U!Item(p.item).len - p.at <= m
        BY <1>1, <4>1, <4>2
      <4> QED BY <4>1, <4>3 DEF Left
    <3> QED BY <3>1
  <2>3. ASSUME NEW p \in dom PROVE CopyStep(f, p) = CopyStep(g, p)
    <3> DEFINE r == U!unzReadCurrentFile(p, BUFSIZE)
    <3>1. p \in U!OpenItems
      BY DEF Left
    <3>2. CASE ~(r.res > 0)
      <4> HIDE DEF g
      <4> QED BY <3>1, <3>2, CopyStops
    <3>3. CASE r.res > 0
      <4>1. r.p \in near
        BY <2>0, <3>3, LessIsLeft
      <4> DEFINE q == r.p
      <4>2. q \in near
        BY <4>1
      <4> HIDE DEF q, near, dom
      <4>3. f[q] = CopyStep(f, q)
        BY <2>1, <4>2, Zenon DEF Copies
      <4>4. g[q] = CopyStep(f, q)
        BY <2>2, <4>2
      <4> HIDE DEF g
      <4>5. g[r.p] = f[r.p]
        BY <4>3, <4>4 DEF q
      <4> QED BY <4>5, Zenon DEF CopyStep
    <3> QED BY <3>2, <3>3
  <2> HIDE DEF dom, near
  <2>4. g = [p \in dom |-> CopyStep(g, p)]
    <3> DEFINE h == [p \in dom |-> CopyStep(g, p)]
    <3>1. \A p \in dom : CopyStep(f, p) = CopyStep(g, p)
      BY <2>3
    <3> QED BY <3>1, Zenon
  <2>5. \E e : Copies(e, dom)
    <3> HIDE DEF g
    <3> QED BY <2>4, Zenon DEF Copies
  <2> QED BY <2>0, <2>5 DEF dom
<1> HIDE DEF S1
<1>4. 0..DWord \subseteq S1
  BY <1>1, <1>2, <1>3, Upto
<1>5. DWord \in S1
  BY <1>1, <1>4
<1>6. \E f : Copies(f, Left(DWord))
  BY <1>5 DEF S1
<1> QED BY <1>6, LeftAll

\* How the loop ends that begins with the open item p.
Comes(p, c) ==
  LET it == U!Item(p.item)
  IN  Open(p) =>
        /\ c.p.item = p.item
        /\ c.result \in {"hangs", "ZR_PASSWORD", "ZR_FLATE", "ZR_OK"}
        /\ c.result = "ZR_OK" /\ (~it.encrypted \/ (~it.stored /\ Fills(p, BUFSIZE))) =>
             c.p.at = it.len
        /\ c.result = "hangs" => it.stored /\ it.encrypted
        /\ it.encrypted /\ ~passwordRight => c.p.at = 0

LEMMA CopyComes ==
  ASSUME HasItems, NEW f, Copies(f, U!OpenItems), NEW p \in U!OpenItems
  PROVE  Comes(p, f[p])
<1> DEFINE S1 == {m \in 0..DWord : \A q \in Left(m) : Comes(q, f[q])}
<1>0. DWord \in Nat /\ BUFSIZE \in Nat
  BY ItemsAssumption
<1>1. ASSUME NEW m \in 0..DWord, NEW q \in Left(m),
             \A o \in Left(m - 1) : m > 0 => Comes(o, f[o])
      PROVE  Comes(q, f[q])
  <2> DEFINE r == U!unzReadCurrentFile(q, BUFSIZE)
             it == U!Item(q.item)
             c == f[q]
  <2>1. q \in U!OpenItems
    BY DEF Left
  <2>2. c = IF r.hangs THEN [p |-> r.p, result |-> "hangs"]
            ELSE IF r.res = -2 THEN [p |-> q, result |-> "ZR_PASSWORD"]
            ELSE IF r.res < 0 \/ (r.res = 0 /\ ~r.eof) THEN [p |-> q, result |-> "ZR_FLATE"]
            ELSE IF r.eof THEN [p |-> r.p, result |-> "ZR_OK"]
            ELSE f[r.p]
    BY <2>1, Zenon DEF Copies, CopyStep
  <2> SUFFICES ASSUME Open(q) PROVE Comes(q, c)
    BY DEF Comes
  <2>3. /\ r.res \in Int
        /\ r.p.item = q.item
        /\ r.res > 0 => Open(r.p)
        /\ r.eof /\ ~it.encrypted => r.p.at = it.len
        /\ ~it.stored /\ Fills(q, BUFSIZE) /\ (r.eof \/ r.res > 0) => r.p.at = it.len
        /\ r.hangs => it.stored /\ it.encrypted
        /\ it.encrypted /\ ~passwordRight => r.p.at = 0 /\ r.res <= 0 /\ ~r.eof
    BY <1>0, <2>1, ReadIs
  <2>4. it.encrypted /\ ~passwordRight => q.at = 0
    BY DEF Open
  <2> HIDE DEF c
  <2>5. CASE r.res > 0 /\ ~r.hangs /\ ~r.eof
    <3> DEFINE o == r.p
    <3>1. m > 0 /\ o \in Left(m - 1)
      BY <2>5, LessIsLeft
    <3>2. c = f[o]
      BY <2>2, <2>3, <2>5
    <3>3. Comes(o, c)
      BY <1>1, <3>1, <3>2
    <3>4. /\ Open(o) /\ U!Item(o.item) = it /\ o.item = q.item
          /\ ~it.stored /\ Fills(q, BUFSIZE) => o.at = it.len
      BY <2>3, <2>5
    <3> HIDE DEF o, r, it
    <3>5. ~it.stored /\ Fills(q, BUFSIZE) => Fills(o, BUFSIZE)
      BY <3>4 DEF Fills
    <3>6. /\ c.p.item = o.item
          /\ c.result \in {"hangs", "ZR_PASSWORD", "ZR_FLATE", "ZR_OK"}
          /\ c.result = "ZR_OK" /\ (~it.encrypted \/ (~it.stored /\ Fills(o, BUFSIZE))) =>
               c.p.at = it.len
          /\ c.result = "hangs" => it.stored /\ it.encrypted
          /\ it.encrypted /\ ~passwordRight => c.p.at = 0
      BY <3>3, <3>4 DEF Comes
    <3> QED BY <3>4, <3>5, <3>6 DEF Comes, it
  <2>6. CASE ~(r.res > 0 /\ ~r.hangs /\ ~r.eof)
    <3> HIDE DEF r
    <3>1. \/ r.hangs /\ c = [p |-> r.p, result |-> "hangs"]
          \/ c = [p |-> q, result |-> "ZR_PASSWORD"]
          \/ c = [p |-> q, result |-> "ZR_FLATE"]
          \/ r.eof /\ c = [p |-> r.p, result |-> "ZR_OK"]
      BY <2>2, <2>3, <2>6
    <3>2. \/ r.hangs /\ c.p = r.p /\ c.result = "hangs"
          \/ c.p = q /\ c.result = "ZR_PASSWORD"
          \/ c.p = q /\ c.result = "ZR_FLATE"
          \/ r.eof /\ c.p = r.p /\ c.result = "ZR_OK"
      BY <3>1
    <3> HIDE DEF it
    <3> QED BY <2>3, <2>4, <3>2 DEF Comes, it
  <2> QED BY <2>5, <2>6
<1>2. 0 \in S1
  BY <1>0, <1>1
<1>3. ASSUME NEW m \in 1..DWord, m - 1 \in S1 PROVE m \in S1
  <2>1. m \in 0..DWord
    BY <1>0
  <2>2. \A o \in Left(m - 1) : Comes(o, f[o])
    BY <1>3
  <2>3. ASSUME NEW q \in Left(m) PROVE Comes(q, f[q])
    BY <1>1, <2>1, <2>2
  <2> QED BY <2>1, <2>3
<1> HIDE DEF S1
<1>4. 0..DWord \subseteq S1
  BY <1>0, <1>2, <1>3, Upto
<1>5. DWord \in S1
  BY <1>0, <1>4
<1>6. \A q \in Left(DWord) : Comes(q, f[q])
  BY <1>5 DEF S1
<1> QED BY <1>6, LeftAll

LEMMA CopiedIs ==
  ASSUME HasItems, NEW p \in U!OpenItems
  PROVE  Comes(p, U!Copied(p))
<1> DEFINE dom == {p} \union U!OpenItems
           f == CHOOSE f : Copies(f, dom)
<1>1. U!Copied(p) = f[p]
  BY Zenon DEF U!Copied, Copies, CopyStep
<1>2. dom = U!OpenItems
  OBVIOUS
<1>3. \E g : Copies(g, dom)
  BY <1>2, CopyExists, Zenon
<1>4. Copies(f, dom)
  BY <1>3
<1> HIDE DEF f, dom
<1>5. Comes(p, f[p])
  BY <1>2, <1>4, CopyComes
<1> QED BY <1>1, <1>5

LEMMA OpensIs ==
  ASSUME HasItems, NEW v \in U!Cursors
  PROVE  LET p == U!unzOpenCurrentFile(v)
         IN  /\ ~v.ok => p = U!NULL
             /\ v.ok => /\ Open(p) /\ p.item = v.cur /\ p.at = 0
                        /\ p.rest = U!Item(p.item).len
<1>1. CASE ~v.ok
  BY <1>1 DEF U!unzOpenCurrentFile
<1>2. CASE v.ok
  <2> DEFINE it == U!Item(v.cur)
             n == IF it.encrypted THEN ENCHEAD ELSE 0
             p == [item |-> v.cur, at |-> 0, rest |-> it.len, encheadleft |-> n]
  <2>1. U!unzOpenCurrentFile(v) = p
    BY <1>2 DEF U!unzOpenCurrentFile
  <2>2. v.cur \in U!Indices
    BY DEF U!Cursors
  <2>3. it.len \in Nat /\ ENCHEAD \in Nat \ {0} /\ DWord \in Nat
    BY <2>2, ItemTypes, ItemsAssumption
  <2>4. n \in Nat /\ (it.encrypted => n > 0) /\ (~it.encrypted => n = 0)
    <3> HIDE DEF it
    <3> QED BY <2>3
  <2> HIDE DEF it, n
  <2>5. p \in U!OpenItems /\ p.item = v.cur /\ p.at = 0 /\ p.rest = it.len /\ p.encheadleft = n
    BY <2>2, <2>3, <2>4 DEF U!OpenItems
  <2> HIDE DEF p
  <2>6. U!Item(p.item) = it
    BY <2>5 DEF it
  <2>7. Open(p)
    BY <2>3, <2>4, <2>5, <2>6 DEF Open
  <2> QED BY <1>2, <2>1, <2>5, <2>6, <2>7
<1> QED BY <1>1, <1>2

\* Nothing can be read from a cursor that failed.
LEMMA ReadNull ==
  ASSUME NEW len
  PROVE  U!unzReadCurrentFile(U!NULL, len)
           = [p |-> U!NULL, res |-> -1, eof |-> FALSE, hangs |-> FALSE]
BY DEF U!unzReadCurrentFile

LEMMA HangsIs ==
  ASSUME NEW v \in U!Cursors, NEW h
  PROVE  LET x == [v EXCEPT !.hangs = @ \/ h]
         IN  /\ x \in U!Cursors /\ x.num_file = v.num_file /\ x.pos = v.pos /\ x.cur = v.cur
             /\ x.ok = v.ok /\ (x.hangs <=> v.hangs \/ h)
             /\ OnItem(x) = OnItem(v) /\ LastRight(x) = LastRight(v)
<1> DEFINE b == v.hangs \/ h
           x == [v EXCEPT !.hangs = b]
<1>1. b \in BOOLEAN
  BY Zenon
<1> HIDE DEF b
<1>2. /\ x \in U!Cursors /\ x.num_file = v.num_file /\ x.pos = v.pos /\ x.cur = v.cur
      /\ x.ok = v.ok /\ x.hangs = b
  BY <1>1 DEF U!Cursors
<1> HIDE DEF x
<1>3. OnItem(x) = OnItem(v) /\ LastRight(x) = LastRight(v)
  BY <1>2 DEF OnItem, LastRight
<1> QED BY <1>2, <1>3 DEF x, b

LEMMA StaleIs ==
  ASSUME HasItems, NEW v \in U!Cursors, ~U!Stale(v)
  PROVE  OnItem(v)
<1>1. v.num_file \in Nat
  BY DEF U!Cursors
<1>2. U!Place(v.num_file) = PlaceIn(items, v.num_file)
  BY <1>1, PlaceIsPlaceIn
<1> QED BY <1>2 DEF U!Stale, OnItem

(***************************************************************************)
(* The invariant.                                                          *)
(***************************************************************************)
CursorRight(v) == v \in U!Cursors /\ LastRight(v)

\* The item k is open as p, and the cursor v is still at it.  If v is about
\* the item at its place, or may be again after a search that fails, then p
\* is that item.
OpenRight(v, p, k) ==
  \/ p = U!NULL /\ k = -1
  \/ /\ Open(p) /\ p.encheadleft = 0 /\ p.at > 0
     /\ k = v.num_file /\ k \in U!Indices
     /\ v.pos = PlaceIn(items, v.num_file) /\ (v.cur = v.num_file \/ v.num_file = LastItem) =>
          p.item = k

\* What ItemsDelivered says of a call.
Delivers(c) ==
  /\ c.name = "Find" =>
       c.index = -1 \/ \A i \in 0..(c.index - 1) : U!Item(i).name # U!Item(c.index).name
  /\ c.name \in {"UnzipMemory", "UnzipFile"} =>
       LET it == U!Item(c.index)
       IN  /\ c.result = "ZR_OK"
                /\ (~it.encrypted \/ (~it.stored /\ c.from = 0 /\ c.len >= it.len)) =>
                (c.item = c.index /\ c.n = it.len) \/ it.dir
           /\ c.result = "ZR_MORE" /\ ~it.encrypted => c.item = c.index /\ c.n \in 1..(it.len - 1)
           /\ c.result = "hangs" => it.encrypted /\ it.stored
           /\ it.encrypted /\ ~passwordRight => c.n = 0 /\ c.result # "ZR_MORE"

ItemsInv ==
  /\ items \in Archives
  /\ U!number_entry # 0 => CursorRight(uf) /\ OpenRight(uf, pfile, currentfile)
  /\ ~stale => Delivers(call)

\* The archive and the password stay, so what holds of the next cursor, open
\* item and call in this state holds in the next one.
LEMMA ItemsKept ==
  ASSUME items \in Archives, items' = items, passwordRight' = passwordRight,
         U!number_entry # 0 => CursorRight(uf') /\ OpenRight(uf', pfile', currentfile'),
         ~stale' => Delivers(call')
  PROVE  ItemsInv'
<1>1. (U!number_entry)' = U!number_entry /\ (U!Indices)' = U!Indices /\ LastItem' = LastItem
      /\ (U!Cursors)' = U!Cursors /\ (U!OpenItems)' = U!OpenItems
  BY DEF U!number_entry, U!Indices, LastItem, U!Cursors, U!OpenItems
<1>2. CursorRight(uf') => CursorRight(uf)'
  BY <1>1 DEF CursorRight, LastRight
<1>3. Open(pfile') => Open(pfile)'
  BY <1>1 DEF Open, U!Item
<1>4. OpenRight(uf', pfile', currentfile') => OpenRight(uf, pfile, currentfile)'
  BY <1>1, <1>3 DEF OpenRight, U!NULL
<1>5. Delivers(call') => Delivers(call)'
  BY DEF Delivers, U!Item
<1> QED BY <1>1, <1>2, <1>4, <1>5 DEF ItemsInv

LEMMA ItemsMeans ==
  ASSUME ItemsInv
  PROVE  U!ItemsDelivered
BY DEF ItemsInv, Delivers, U!ItemsDelivered, U!Unzipped, U!Whole

LEMMA ItemsInit ==
  ASSUME U!Init
  PROVE  ItemsInv
<1>1. items \in Archives
  BY DEF U!Init
<1>2. Delivers(call)
  <2>1. call.name = "none"
    BY DEF U!Init, U!NoCall
  <2> QED BY <2>1 DEF Delivers
<1>3. ASSUME U!number_entry # 0 PROVE CursorRight(uf) /\ OpenRight(uf, pfile, currentfile)
  <2> DEFINE v == [num_file |-> 0, pos |-> 0, cur |-> 0, ok |-> TRUE, hangs |-> FALSE]
  <2>1. HasItems
    BY <1>1, <1>3 DEF HasItems
  <2>2. 0 \in U!Indices
    BY <2>1, ItemTypes
  <2>3. v \in U!Cursors
    BY <2>2 DEF U!Cursors
  <2>4. uf = U!Loaded(v)
    BY DEF U!Init
  <2> HIDE DEF v
  <2>5. uf \in U!Cursors /\ LastRight(uf)
    BY <2>1, <2>3, <2>4, LoadedIs
  <2>6. pfile = U!NULL /\ currentfile = -1
    BY DEF U!Init
  <2> QED BY <2>5, <2>6 DEF CursorRight, OpenRight
<1> QED BY <1>1, <1>2, <1>3 DEF ItemsInv

LEMMA GetStep ==
  ASSUME ItemsInv, NEW index \in U!Indices \union {-1}, U!Get(index)
  PROVE  ItemsInv'
<1> DEFINE u == IF index \in {-1, czei} THEN uf ELSE U!GoTo(uf, index)
<1>1. items \in Archives /\ items' = items /\ passwordRight' = passwordRight /\ uf' = u
      /\ pfile' = U!NULL /\ currentfile' = -1 /\ call'.name = "Get"
  BY DEF ItemsInv, U!Get, U!At, U!Returns
<1>2. Delivers(call')
  BY <1>1 DEF Delivers
<1>3. ASSUME U!number_entry # 0 PROVE CursorRight(uf')
  <2>1. HasItems /\ uf \in U!Cursors /\ LastRight(uf)
    BY <1>3 DEF ItemsInv, HasItems, CursorRight
  <2>2. CASE index \in {-1, czei}
    BY <1>1, <2>1, <2>2 DEF CursorRight
  <2>3. CASE index \notin {-1, czei}
    <3>1. index \in U!Indices /\ uf' = U!GoTo(uf, index)
      BY <1>1, <2>3
    <3> QED BY <2>1, <3>1, GoToIs DEF CursorRight
  <2> QED BY <2>2, <2>3
<1>4. OpenRight(uf', pfile', currentfile')
  BY <1>1 DEF OpenRight
<1> HIDE DEF u
<1> QED BY <1>1, <1>2, <1>3, <1>4, ItemsKept

LEMMA FindStep ==
  ASSUME ItemsInv, NEW name, U!Find(name)
  PROVE  ItemsInv'
<1> DEFINE r == U!unzLocateFile(uf, name)
<1>1. /\ items \in Archives /\ items' = items /\ passwordRight' = passwordRight /\ uf' = r.u
      /\ pfile' = IF r.found THEN U!NULL ELSE pfile
      /\ currentfile' = IF r.found THEN -1 ELSE currentfile
      /\ call'.name = "Find" /\ call'.index = IF r.found THEN r.u.num_file ELSE -1
  BY DEF ItemsInv, U!Find, U!At, U!Returns
<1> HIDE DEF r
<1>2. CASE U!number_entry = 0
  <2>1. ~r.found
    <3>1. Len(items) \in Nat /\ U!Indices = {}
      BY <1>1, <1>2, ArchivesSized DEF U!Indices, Sized
    <3>2. {i \in U!Indices : U!Item(i).name = name} = {}
      BY <3>1
    <3>3. r = IF ~uf.ok THEN [found |-> FALSE, u |-> uf]
              ELSE [found |-> FALSE,
                    u |-> [U!GoTo(U!unzGoToFirstFile(uf), U!number_entry - 1)
                             EXCEPT !.num_file = uf.num_file, !.pos = uf.pos]]
      BY <3>2, Zenon DEF r, U!unzLocateFile
    <3> QED BY <3>3
  <2>2. Delivers(call')
    BY <1>1, <2>1 DEF Delivers
  <2> QED BY <1>1, <1>2, <2>2, ItemsKept
<1>3. CASE U!number_entry # 0
  <2>1. HasItems /\ uf \in U!Cursors /\ LastRight(uf) /\ OpenRight(uf, pfile, currentfile)
    BY <1>3 DEF ItemsInv, HasItems, CursorRight
  <2>2. /\ r.u \in U!Cursors
        /\ ~uf.ok => ~r.found /\ r.u = uf
        /\ uf.ok => r.u.hangs = uf.hangs /\ LastRight(r.u)
        /\ uf.ok /\ ~r.found =>
             r.u.num_file = uf.num_file /\ r.u.pos = uf.pos /\ r.u.cur = LastItem
        /\ r.found => /\ uf.ok /\ r.u.num_file \in U!Indices
                      /\ U!Item(r.u.num_file).name = name
                      /\ \A i \in 0..(r.u.num_file - 1) : U!Item(i).name # name
    BY <2>1, LocateIs DEF r
  <2>3. CursorRight(uf')
    BY <1>1, <2>1, <2>2 DEF CursorRight
  <2>4. OpenRight(uf', pfile', currentfile')
    <3>1. CASE r.found
      BY <1>1, <3>1 DEF OpenRight
    <3>2. CASE ~r.found
      <4>1. OpenRight(r.u, pfile, currentfile)
        BY <2>1, <2>2, <3>2 DEF OpenRight
      <4> QED BY <1>1, <3>2, <4>1
    <3> QED BY <3>1, <3>2
  <2>5. Delivers(call')
    BY <1>1, <2>2 DEF Delivers
  <2> QED BY <1>1, <2>3, <2>4, <2>5, ItemsKept
<1> QED BY <1>2, <1>3

LEMMA RefuseStep ==
  ASSUME ItemsInv, U!Refuse
  PROVE  ItemsInv'
<1>1. /\ items \in Archives /\ items' = items /\ passwordRight' = passwordRight /\ uf' = uf
      /\ pfile' = U!NULL /\ currentfile' = -1 /\ call'.name = "Unzip"
      /\ U!number_entry # 0 => CursorRight(uf)
  BY DEF ItemsInv, U!Refuse, U!Returns
<1>2. Delivers(call')
  BY <1>1 DEF Delivers
<1>3. OpenRight(uf', pfile', currentfile')
  BY <1>1 DEF OpenRight
<1> QED BY <1>1, <1>2, <1>3, ItemsKept

LEMMA UnzipMemoryStep ==
  ASSUME ItemsInv, NEW index \in U!Indices, NEW len \in Lens, U!UnzipMemory(index, len)
  PROVE  ItemsInv'
<1> DEFINE u == IF index = currentfile THEN uf ELSE U!GoTo(uf, index)
           p == IF index = currentfile THEN pfile ELSE U!unzOpenCurrentFile(u)
           r == U!unzReadCurrentFile(p, len)
           x == [u EXCEPT !.hangs = @ \/ r.hangs]
           it == U!Item(index)
<1>1. /\ ~uf.hangs /\ items' = items /\ passwordRight' = passwordRight
      /\ uf' = x /\ stale' = U!Stale(x)
      /\ pfile' = IF r.res <= 0 THEN U!NULL ELSE r.p
      /\ currentfile' = IF r.res <= 0 THEN -1 ELSE index
      /\ U!Returns("UnzipMemory", index, len,
           U!Answer(uf', IF r.eof THEN "ZR_OK" ELSE IF r.res > 0 THEN "ZR_MORE"
                         ELSE IF r.res = -2 THEN "ZR_PASSWORD" ELSE "ZR_FLATE"),
           p, r.p)
  BY DEF U!UnzipMemory, U!At
<1>2. /\ items \in Archives /\ HasItems /\ U!number_entry # 0
      /\ index \in Nat /\ it.len \in Nat /\ len \in Nat
  <2>1. items \in Archives
    BY DEF ItemsInv
  <2>2. U!number_entry # 0
    <3>1. Len(items) \in Nat
      BY <2>1, ArchivesSized DEF Sized
    <3> QED BY <3>1 DEF U!Indices, U!number_entry
  <2>3. HasItems
    BY <2>1, <2>2 DEF HasItems
  <2>4. it.len \in 0..(DWord - 1) /\ DWord \in Nat /\ index \in Nat
    BY <2>3, ItemTypes, ItemsAssumption
  <2> QED BY <2>1, <2>2, <2>3, <2>4, ItemsAssumption
<1>3. CursorRight(uf) /\ OpenRight(uf, pfile, currentfile)
  BY <1>2 DEF ItemsInv
<1>4. /\ u \in U!Cursors /\ LastRight(u)
      /\ index = currentfile => u = uf
      /\ (u.num_file = index /\ ~u.hangs) \/ (index # currentfile /\ ~u.ok)
  <2>1. CASE index = currentfile
    BY <1>1, <1>2, <1>3, <2>1 DEF CursorRight, OpenRight
  <2>2. CASE index # currentfile
    <3>1. u = U!GoTo(uf, index)
      BY <2>2
    <3> HIDE DEF u
    <3>2. /\ u \in U!Cursors /\ LastRight(u)
          /\ (u.num_file = index /\ u.hangs = uf.hangs) \/ (u.hangs /\ ~u.ok)
      BY <1>2, <1>3, <3>1, GoToIs DEF CursorRight
    <3> QED BY <1>1, <2>2, <3>2
  <2> QED BY <2>1, <2>2
\* The item that is read, if there is one.
<1>5. \/ p = U!NULL /\ ~u.ok
      \/ /\ Open(p) /\ p \in U!OpenItems /\ u.num_file = index /\ ~u.hangs
         /\ u.pos = PlaceIn(items, u.num_file) /\ (u.cur = u.num_file \/ u.num_file = LastItem) =>
              p.item = index
         /\ p.at = 0 => p.rest = U!Item(p.item).len
  <2>1. CASE index = currentfile
    <3>1. p = pfile /\ u = uf /\ u.num_file = index /\ ~u.hangs
      BY <1>4, <2>1
    <3> HIDE DEF p, u
    <3>2. Open(p) /\ p.at > 0 /\ p \in U!OpenItems
      BY <1>2, <1>3, <2>1, <3>1 DEF OpenRight, Open
    <3>3. u.pos = PlaceIn(items, u.num_file) /\ (u.cur = u.num_file \/ u.num_file = LastItem) =>
            p.item = index
      BY <1>2, <1>3, <2>1, <3>1 DEF OpenRight
    <3> QED BY <3>1, <3>2, <3>3
  <2>2. CASE index # currentfile /\ ~u.ok
    <3>1. p = U!unzOpenCurrentFile(u)
      BY <2>2
    <3> HIDE DEF p, u
    <3> QED BY <1>2, <1>4, <2>2, <3>1, OpensIs
  <2>3. CASE index # currentfile /\ u.ok
    <3>1. p = U!unzOpenCurrentFile(u)
      BY <2>3
    <3> HIDE DEF p, u
    <3>2. Open(p) /\ p.item = u.cur /\ p.at = 0 /\ p.rest = U!Item(p.item).len
      BY <1>2, <1>4, <2>3, <3>1, OpensIs
    <3>3. p \in U!OpenItems
      BY <3>2 DEF Open
    <3>4. u.num_file = index /\ ~u.hangs
      BY <1>4, <2>3
    <3>5. u.pos = PlaceIn(items, u.num_file) /\ (u.cur = u.num_file \/ u.num_file = LastItem) =>
            p.item = index
      BY <1>4, <2>3, <3>2, <3>4 DEF LastRight
    <3> QED BY <3>2, <3>3, <3>4, <3>5
  <2> QED BY <1>4, <2>1, <2>2, <2>3
<1> HIDE DEF u, p
<1>6. /\ x \in U!Cursors /\ x.num_file = u.num_file /\ x.pos = u.pos /\ x.cur = u.cur
      /\ x.ok = u.ok /\ (x.hangs <=> u.hangs \/ r.hangs)
      /\ OnItem(x) = OnItem(u) /\ LastRight(x)
  <2> HIDE DEF r
  <2> QED BY <1>4, HangsIs
<1> HIDE DEF x
<1>7. CursorRight(uf')
  BY <1>1, <1>6 DEF CursorRight
<1>8. CASE p = U!NULL /\ ~u.ok
  <2>1. r.res = -1
    BY <1>8, ReadNull
  <2> HIDE DEF r
  <2>2. pfile' = U!NULL /\ currentfile' = -1
    BY <1>1, <2>1
  <2>3. OpenRight(uf', pfile', currentfile')
    BY <2>2 DEF OpenRight
  <2>4. ~OnItem(x)
    BY <1>6, <1>8 DEF OnItem
  <2>5. stale'
    BY <1>1, <1>2, <1>6, <2>4, StaleIs
  <2> QED BY <1>1, <1>2, <1>7, <2>3, <2>5, ItemsKept
<1>9. CASE /\ Open(p) /\ p \in U!OpenItems /\ u.num_file = index /\ ~u.hangs
           /\ u.pos = PlaceIn(items, u.num_file) /\ (u.cur = u.num_file \/ u.num_file = LastItem) =>
                p.item = index
           /\ p.at = 0 => p.rest = U!Item(p.item).len
  <2> DEFINE own == U!Item(p.item)
  <2>1. /\ r.res \in Int
        /\ r.res > 0 => r.p \in U!OpenItems /\ p.at < r.p.at /\ r.p.at <= own.len
        /\ r.p.item = p.item
        /\ r.res > 0 => Open(r.p) /\ r.p.encheadleft = 0
        /\ r.eof /\ ~own.encrypted => r.p.at = own.len
        /\ ~own.stored /\ Fills(p, len) /\ (r.eof \/ r.res > 0) => r.p.at = own.len
        /\ r.res > 0 /\ ~r.eof /\ ~own.encrypted => r.p.at < own.len
        /\ r.hangs => own.stored /\ own.encrypted
        /\ own.encrypted /\ ~passwordRight => r.p.at = 0 /\ r.res <= 0 /\ ~r.eof
    BY <1>2, <1>9, ReadIs
  <2>2. p.at \in Nat
    BY <1>9 DEF U!OpenItems
  <2>3. ASSUME r.res > 0 PROVE r.p.at \in Nat /\ r.p.at > 0
    <3> DEFINE q == r.p
    <3>1. q \in U!OpenItems /\ p.at < q.at
      BY <2>1, <2>3
    <3> HIDE DEF q
    <3>2. q.at \in Nat
      BY <3>1 DEF U!OpenItems
    <3>3. q.at \in Nat /\ q.at > 0
      BY <2>2, <3>1, <3>2
    <3> QED BY <3>3 DEF q
  <2> HIDE DEF r
  <2>4. OpenRight(uf', pfile', currentfile')
    <3>1. CASE r.res <= 0
      BY <1>1, <3>1 DEF OpenRight
    <3>2. CASE ~(r.res <= 0)
      <4>1. r.res > 0
        BY <2>1, <3>2
      <4>2. OpenRight(x, r.p, index)
        BY <1>6, <1>9, <2>1, <2>3, <4>1 DEF OpenRight
      <4> QED BY <1>1, <3>2, <4>2
    <3> QED BY <3>1, <3>2
  <2>5. ASSUME ~stale' PROVE Delivers(call')
    <3>1. OnItem(u)
      BY <1>1, <1>2, <1>6, <2>5, StaleIs
    <3>2. p.item = index /\ own = it
      BY <1>9, <3>1 DEF OnItem
    <3> DEFINE answer == IF r.eof THEN "ZR_OK" ELSE IF r.res > 0 THEN "ZR_MORE"
                         ELSE IF r.res = -2 THEN "ZR_PASSWORD" ELSE "ZR_FLATE"
               c == call'
    <3>3. p # U!NULL /\ r.p # U!NULL
      <4>1. U!NULL.item = -1
        BY DEF U!NULL
      <4> QED BY <1>2, <2>1, <3>2, <4>1
    <3>4. /\ c.name = "UnzipMemory" /\ c.index = index /\ c.len = len
          /\ c.result = (IF x.hangs THEN "hangs" ELSE answer)
          /\ c.item = index /\ c.from = p.at /\ c.n = r.p.at
      <4> HIDE DEF answer
      <4>1. U!Returns("UnzipMemory", index, len, IF x.hangs THEN "hangs" ELSE answer, p, r.p)
        BY <1>1 DEF U!Answer, answer
      <4>2. call' = [name |-> "UnzipMemory", index |-> index, len |-> len,
                     result |-> IF x.hangs THEN "hangs" ELSE answer,
                     item |-> r.p.item, from |-> p.at, n |-> r.p.at]
        BY <3>3, <4>1 DEF U!Returns, U!Delivered
      <4> QED BY <2>1, <3>2, <4>2
    <3> HIDE DEF c, own
    <3>5. /\ c.result = "ZR_OK" => r.eof
          /\ c.result = "ZR_MORE" => r.res > 0 /\ ~r.eof
          /\ c.result = "hangs" => r.hangs
      <4>1. x.hangs <=> r.hangs
        BY <1>6, <1>9
      <4> QED BY <3>4, <4>1
    <3>6. c.result = "ZR_OK" /\ (~it.encrypted \/ (~it.stored /\ c.from = 0 /\ c.len >= it.len)) =>
            c.item = c.index /\ c.n = it.len
      <4>1. c.from = 0 /\ c.len >= it.len => Fills(p, len)
        <5>1. c.from = 0 /\ c.len >= it.len => p.at = 0 /\ p.rest = it.len /\ it.len <= len
          BY <1>2, <1>9, <3>2, <3>4 DEF own
        <5> QED BY <3>2, <5>1 DEF Fills, own
      <4> QED BY <2>1, <3>2, <3>4, <3>5, <4>1
    <3>7. c.result = "ZR_MORE" /\ ~it.encrypted => c.item = c.index /\ c.n \in 1..(it.len - 1)
      <4> SUFFICES ASSUME c.result = "ZR_MORE", ~it.encrypted
                   PROVE  c.item = c.index /\ c.n \in 1..(it.len - 1)
        OBVIOUS
      <4>1. r.p.at \in Nat /\ r.p.at > 0 /\ r.p.at < it.len
        BY <2>1, <2>3, <3>2, <3>5
      <4> QED BY <1>2, <3>4, <4>1
    <3>8. c.result = "hangs" => it.encrypted /\ it.stored
      BY <2>1, <3>2, <3>5
    <3>9. it.encrypted /\ ~passwordRight => c.n = 0 /\ c.result # "ZR_MORE"
      BY <2>1, <3>2, <3>4, <3>5
    <3>10. Delivers(c)
      BY <3>4, <3>6, <3>7, <3>8, <3>9 DEF Delivers
    <3> QED BY <3>10 DEF c
  <2> QED BY <1>1, <1>2, <1>7, <2>4, <2>5, ItemsKept
<1> QED BY <1>5, <1>8, <1>9

LEMMA UnzipFileStep ==
  ASSUME ItemsInv, NEW index \in U!Indices, U!UnzipFile(index)
  PROVE  ItemsInv'
<1> DEFINE u == U!GoTo(uf, index)
           p == U!unzOpenCurrentFile(u)
           r == U!Copied(p)
           h == ~U!Item(index).dir /\ r.result = "hangs"
           x == [u EXCEPT !.hangs = @ \/ h]
           it == U!Item(index)
           c == call'
           n == U!Delivered(r.p)
<1>1. /\ ~uf.hangs /\ items' = items /\ passwordRight' = passwordRight
      /\ uf' = x /\ stale' = U!Stale(x) /\ pfile' = U!NULL /\ currentfile' = -1
      /\ \/ x.hangs /\ U!Returns("UnzipFile", index, BUFSIZE, "hangs", U!NULL, U!NULL)
         \/ it.dir /\ U!Returns("UnzipFile", index, BUFSIZE, "ZR_OK", U!NULL, U!NULL)
         \/ ~x.hangs /\ ~it.dir
              /\ \/ U!Returns("UnzipFile", index, BUFSIZE, r.result, U!NULL, r.p)
                 \/ U!Returns("UnzipFile", index, BUFSIZE, "ZR_NOFILE", U!NULL, U!NULL)
                 \/ U!Returns("UnzipFile", index, BUFSIZE, "ZR_WRITE", U!NULL, r.p)
  BY DEF U!UnzipFile, U!At
<1>2. /\ c.name = "UnzipFile" /\ c.index = index /\ c.len = BUFSIZE /\ c.from = 0
      /\ \/ x.hangs /\ c.result = "hangs" /\ c.n = 0
         \/ it.dir /\ c.result = "ZR_OK" /\ c.n = 0
         \/ ~x.hangs /\ ~it.dir /\ c.result = r.result /\ c.item = r.p.item /\ c.n = n
         \/ c.result = "ZR_NOFILE" /\ c.n = 0
         \/ c.result = "ZR_WRITE" /\ c.n = n
  <2> HIDE DEF x, it, r, u, p
  <2>1. U!Delivered(U!NULL) = 0
    BY DEF U!Delivered
  <2>2. ASSUME NEW answer, NEW o, U!Returns("UnzipFile", index, BUFSIZE, answer, U!NULL, o)
        PROVE  /\ c.name = "UnzipFile" /\ c.index = index /\ c.len = BUFSIZE /\ c.from = 0
               /\ c.result = answer /\ c.item = o.item /\ c.n = U!Delivered(o)
    <3>1. c = [name |-> "UnzipFile", index |-> index, len |-> BUFSIZE, result |-> answer,
               item |-> o.item, from |-> U!Delivered(U!NULL), n |-> U!Delivered(o)]
      BY <2>2 DEF U!Returns
    <3> HIDE DEF c
    <3> QED BY <2>1, <3>1
  <2> HIDE DEF c
  <2>3. CASE x.hangs /\ U!Returns("UnzipFile", index, BUFSIZE, "hangs", U!NULL, U!NULL)
    BY <2>1, <2>2, <2>3
  <2>4. CASE it.dir /\ U!Returns("UnzipFile", index, BUFSIZE, "ZR_OK", U!NULL, U!NULL)
    BY <2>1, <2>2, <2>4
  <2>5. CASE ~x.hangs /\ ~it.dir /\ U!Returns("UnzipFile", index, BUFSIZE, r.result, U!NULL, r.p)
    BY <2>2, <2>5
  <2>6. CASE U!Returns("UnzipFile", index, BUFSIZE, "ZR_NOFILE", U!NULL, U!NULL)
    BY <2>1, <2>2, <2>6
  <2>7. CASE U!Returns("UnzipFile", index, BUFSIZE, "ZR_WRITE", U!NULL, r.p)
    BY <2>2, <2>7
  <2> QED BY <1>1, <2>3, <2>4, <2>5, <2>6, <2>7
<1>3. /\ items \in Archives /\ HasItems /\ U!number_entry # 0
      /\ index \in Nat /\ it.len \in Nat /\ BUFSIZE \in Nat
  <2>1. items \in Archives
    BY DEF ItemsInv
  <2>2. U!number_entry # 0
    <3>1. Len(items) \in Nat
      BY <2>1, ArchivesSized DEF Sized
    <3> QED BY <3>1 DEF U!Indices, U!number_entry
  <2>3. HasItems
    BY <2>1, <2>2 DEF HasItems
  <2>4. it.len \in 0..(DWord - 1) /\ DWord \in Nat /\ index \in Nat
    BY <2>3, ItemTypes, ItemsAssumption
  <2> QED BY <2>1, <2>2, <2>3, <2>4, ItemsAssumption
<1>4. /\ u \in U!Cursors /\ LastRight(u)
      /\ (u.num_file = index /\ ~u.hangs) \/ ~u.ok
  <2>1. uf \in U!Cursors /\ LastRight(uf)
    BY <1>3 DEF ItemsInv, CursorRight
  <2>2. /\ u \in U!Cursors /\ LastRight(u)
        /\ (u.num_file = index /\ u.hangs = uf.hangs) \/ (u.hangs /\ ~u.ok)
    BY <1>3, <2>1, GoToIs
  <2> QED BY <1>1, <2>2
<1> HIDE DEF u, h
<1>5. /\ x \in U!Cursors /\ (x.hangs <=> u.hangs \/ h)
      /\ OnItem(x) = OnItem(u) /\ LastRight(x)
  BY <1>4, HangsIs
<1> HIDE DEF x, c
<1>6. CursorRight(uf') /\ OpenRight(uf', pfile', currentfile')
  BY <1>1, <1>5 DEF CursorRight, OpenRight
<1>7. ASSUME ~stale' PROVE Delivers(c)
  <2>1. OnItem(u)
    BY <1>1, <1>3, <1>5, <1>7, StaleIs
  <2>2. u.ok /\ u.cur = index /\ ~u.hangs
    BY <1>4, <2>1 DEF OnItem
  <2>3. Open(p) /\ p.item = index /\ p.at = 0 /\ p.rest = it.len /\ p \in U!OpenItems
    <3>1. Open(p) /\ p.item = u.cur /\ p.at = 0 /\ p.rest = U!Item(p.item).len
      BY <1>3, <1>4, <2>2, OpensIs
    <3> HIDE DEF p
    <3> QED BY <2>2, <3>1 DEF Open
  <2> HIDE DEF p
  <2>4. it.len <= BUFSIZE => Fills(p, BUFSIZE)
    BY <2>3 DEF Fills
  <2>5. Comes(p, r)
    BY <1>3, <2>3, CopiedIs
  <2> HIDE DEF r
  <2>6. /\ r.p.item = index
        /\ r.result \in {"hangs", "ZR_PASSWORD", "ZR_FLATE", "ZR_OK"}
        /\ r.result = "ZR_OK" /\ (~it.encrypted \/ (~it.stored /\ Fills(p, BUFSIZE))) =>
             r.p.at = it.len
        /\ r.result = "hangs" => it.stored /\ it.encrypted
        /\ it.encrypted /\ ~passwordRight => r.p.at = 0
    BY <2>3, <2>5 DEF Comes
  <2>7. n = r.p.at
    <3>1. U!NULL.item = -1
      BY DEF U!NULL
    <3>2. r.p # U!NULL
      BY <1>3, <2>6, <3>1
    <3> QED BY <3>2 DEF U!Delivered
  <2> HIDE DEF n, it
  <2>8. c.result = "ZR_OK" /\ (~it.encrypted \/ (~it.stored /\ c.from = 0 /\ c.len >= it.len)) =>
          (c.item = c.index /\ c.n = it.len) \/ it.dir
    <3>1. c.len >= it.len => it.len <= BUFSIZE
      BY <1>2, <1>3
    <3> QED BY <1>2, <2>4, <2>6, <2>7, <3>1
  <2>9. c.result # "ZR_MORE"
    BY <1>2, <2>6
  <2>10. c.result = "hangs" => it.encrypted /\ it.stored
    <3>1. h => r.result = "hangs"
      BY DEF h
    <3> QED BY <1>2, <1>5, <2>2, <2>6, <3>1
  <2>11. it.encrypted /\ ~passwordRight => c.n = 0
    BY <1>2, <2>6, <2>7
  <2> QED BY <1>2, <2>8, <2>9, <2>10, <2>11 DEF Delivers, it
<1> QED BY <1>1, <1>3, <1>6, <1>7, ItemsKept DEF c

LEMMA ItemsStep ==
  ASSUME ItemsInv, U!Next
  PROVE  ItemsInv'
<1>1. CASE \E index \in U!Indices \union {-1} : U!Get(index)
  BY <1>1, GetStep
<1>2. CASE \E name \in ItemNames : U!Find(name)
  BY <1>2, FindStep
<1>3. CASE \E index \in U!Indices, len \in Lens : U!UnzipMemory(index, len)
  BY <1>3, UnzipMemoryStep
<1>4. CASE \E index \in U!Indices : U!UnzipFile(index)
  BY <1>4, UnzipFileStep
<1>5. CASE U!Refuse
  BY <1>5, RefuseStep
<1> QED BY <1>1, <1>2, <1>3, <1>4, <1>5 DEF U!Next

LEMMA ItemsStay ==
  ASSUME ItemsInv, UNCHANGED itemsVars
  PROVE  ItemsInv'
<1>1. /\ items \in Archives /\ items' = items /\ passwordRight' = passwordRight /\ uf' = uf
      /\ pfile' = pfile /\ currentfile' = currentfile /\ call' = call /\ stale' = stale
  BY DEF ItemsInv, itemsVars
<1> QED BY <1>1, ItemsKept DEF ItemsInv

\* In whatever order the items of an archive are asked for, found and
\* unzipped, in pieces or at once, a name is found where it is first and what
\* is delivered is the item's, whole when the call says so, as long as the
\* cursor is about the item that it stands at: for every archive, every size
\* of the buffers and every length of the encryption header.
THEOREM Unzips == AllSpec => []ItemsDelivered
<1> DEFINE Inv == active = "items" => ItemsInv
<1>1. AllInit => Inv
  BY ItemsInit DEF AllInit
<1>2. Inv /\ [AllNext]_allVars => Inv'
  <2> SUFFICES ASSUME Inv, [AllNext]_allVars, active' = "items" PROVE ItemsInv'
    OBVIOUS
  <2>1. CASE ItemsNext
    <3>1. ItemsInv /\ U!Next
      BY <2>1 DEF ItemsNext
    <3> QED BY <3>1, ItemsStep
  <2>2. CASE active = "items" /\ UNCHANGED itemsVars
    BY <2>2, ItemsStay
  <2> QED BY <2>1, <2>2 DEF AllNext, allVars, Md5Next, ReaderNext, DeflateNext, InflateNext,
                            TreesNext, ArchiveNext, ItemsNext
<1>3. Inv => ItemsDelivered
  BY ItemsMeans DEF ItemsDelivered
<1> QED BY <1>1, <1>2, <1>3, PTL DEF AllSpec
=============================================================================
