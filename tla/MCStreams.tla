----------------------------- MODULE MCStreams -----------------------------
(***************************************************************************)
(* Md5, FileReader and the modules about zip archives side by side.  They  *)
(* share no state: a behaviour runs one of them and leaves the others as   *)
(* they begin.                                                             *)
(***************************************************************************)
EXTENDS Md5

CONSTANTS
  Letters, MaxSize, MaxRead,
  WSIZE, MIN_MATCH, MAX_MATCH, HASH_BITS, TOO_FAR, LIT_BUFSIZE, GUESS,
  good_match, max_lazy_match, nice_length, max_chain_length,
  Lengths, MaxPeriod, Strange,
  Size, MinMatch, MaxMatch, MaxText, MaxRoom,
  MAX_BITS, MAX_BL_BITS, MaxZeros, LookupBits,
  Capacities, MaxFile, MaxAdds, CHUNK,
  Archives, ItemNames, ENCHEAD, BUFSIZE, Lens, DWord

\* There are bytes, and a match has some; the window has room for one.
ASSUME InflateAssumption ==
  /\ Letters # {} /\ Size \in Nat \ {0}
  /\ MinMatch \in Nat \ {0} /\ MaxMatch \in Nat /\ MinMatch <= MaxMatch /\ MaxRoom \in Nat

\* The bounds of FileReader are numbers.
ASSUME ReaderAssumption == MaxSize \in Nat /\ MaxRead \in Nat

\* An entry of the central directory takes some bytes, the encryption adds a
\* header, and the lengths of items are double words.
ASSUME ItemsAssumption ==
  /\ ENCHEAD \in Nat \ {0} /\ BUFSIZE \in Nat \ {0} /\ Lens \subseteq Nat /\ DWord \in Nat \ {0}
  /\ \A archive \in Archives : \A k \in DOMAIN archive :
       archive[k].size \in Nat \ {0} /\ archive[k].len \in 0..(DWord - 1)
  /\ \A archive \in Archives : Len(archive) \in Nat /\ DOMAIN archive = 1..Len(archive)

VARIABLES
  data, st_size, StreamPos, fs, got, counted, trusted,
  input, ired, ds, hash_head, match_available, match_length, block, out, deflatePc,
  w, mode, last, pending, text, inflatePc,
  lfreq, dfreq, bits, ltree, dtree, bltree, max_blindex, bytes, symbols, treesPc,
  z, result, calls, added, torn,
  items, passwordRight, uf, pfile, currentfile, czei, call, stale,
  active   \* the component that runs

\* Files with a period, for long matches, and one strange byte in some place.
Periodic ==
  {[k \in 1..n |-> IF k = f THEN 2 ELSE word[((k - 1) % p) + 1]] :
     f \in Strange, n \in Lengths, p \in 1..MaxPeriod, word \in [1..MaxPeriod -> {0, 1}]}

\* All small tables of frequencies, runs of zeros, and tables with codes of
\* very different and of equal lengths.
LiteralFreqs ==
  [1..5 -> {0, 1, 3}]
    \union {<<x>> \o [j \in 1..k |-> 0] \o <<y>> : x \in {0, 1}, y \in {1, 2}, k \in 1..15}
    \union {[k \in 1..n |-> 1] : n \in {4, 7, 8}}
    \union {<<1, 1, 2, 3, 5, 8, 13>>, <<13, 8, 5, 3, 2, 1, 1>>, <<1, 1, 1, 3, 5, 8, 13>>,
            <<1, 8, 1, 13, 2, 3, 5>>, <<1, 1, 2, 3, 0, 0, 0, 5, 8, 13>>, <<4, 1, 2, 13, 7, 1, 1>>,
            <<1, 1, 1, 1, 8, 1, 1, 1, 1, 16, 32>>}
DistanceFreqs == {<<0, 0, 0>>, <<0, 2, 0>>, <<1, 1, 2, 3>>}

\* Archives of a plain item, an encrypted item or a folder, and a stored item
\* with the name of the first.
ItemNamed(name, len, stored, encrypted, tail, size) ==
  [name |-> name, len |-> len, stored |-> stored, encrypted |-> encrypted, dir |-> FALSE,
   tail |-> tail, size |-> size]
Folder ==
  [name |-> "d", len |-> 0, stored |-> TRUE, encrypted |-> FALSE, dir |-> TRUE, tail |-> "with", size |-> 1]
EncryptedItems ==
  {ItemNamed("a", len, FALSE, TRUE, tail, 1) : len \in {2, 5}, tail \in {"with", "later", "never"}}
    \union {ItemNamed("a", len, TRUE, TRUE, "with", 1) : len \in {4, 5}}
ZipFiles ==
  {<<x, y, ItemNamed("a", 4, TRUE, FALSE, "with", 1)>> :
     x \in {ItemNamed("a", 0, FALSE, FALSE, "later", 2), ItemNamed("b", 5, FALSE, FALSE, "later", 1)},
     y \in EncryptedItems \union {Folder}}

R == INSTANCE FileReader WITH Bytes <- Letters
D == INSTANCE Deflate WITH Inputs <- Periodic, pc <- deflatePc
I == INSTANCE Inflate WITH Bytes <- Letters, pc <- inflatePc
T == INSTANCE ZipTrees WITH LFreqs <- LiteralFreqs, DFreqs <- DistanceFreqs, got <- symbols, pc <- treesPc
A == INSTANCE ZipArchive WITH MaxText <- MaxFile, MaxCalls <- MaxAdds
U == INSTANCE ZipItems WITH Names <- ItemNames, Word <- DWord

readerVars == <<data, st_size, StreamPos, fs, got, counted, trusted>>
deflateVars == <<input, ired, ds, hash_head, match_available, match_length, block, out, deflatePc>>
inflateVars == <<w, mode, last, pending, text, inflatePc>>
treesVars == <<lfreq, dfreq, bits, ltree, dtree, bltree, max_blindex, bytes, symbols, treesPc>>
archiveVars == <<z, result, calls, added, torn>>
itemsVars == <<items, passwordRight, uf, pfile, currentfile, czei, call, stale>>

allVars == <<vars, readerVars, deflateVars, inflateVars, treesVars, archiveVars, itemsVars, active>>

AllInit ==
  /\ active \in {"md5", "reader", "deflate", "inflate", "trees", "archive", "items"}
  /\ Init /\ I!Init
  /\ R!Init /\ (active # "reader" => trusted /\ data = <<>>)
  /\ D!Init /\ (active # "deflate" => input = <<>> /\ ds.window[0] = 0)
  /\ T!Init /\ (active # "trees" => lfreq = <<1, 1, 1, 1>> /\ dfreq = <<0, 0, 0>>
                                    /\ bits = CHOOSE b \in LookupBits : TRUE)
  /\ A!Init /\ (active # "archive" => z.kind = "file" /\ z.pos = 0 /\ ~z.password /\ ~z.partial
                                      /\ z.capacity = CHOOSE c \in Capacities : TRUE)
  /\ U!Init /\ (active # "items" => passwordRight /\ items = CHOOSE a \in Archives : TRUE)

Md5Next ==
  /\ active = "md5" /\ Next
  /\ UNCHANGED <<readerVars, deflateVars, inflateVars, treesVars, archiveVars, itemsVars>>
ReaderNext ==
  /\ active = "reader" /\ R!Next
  /\ UNCHANGED <<vars, deflateVars, inflateVars, treesVars, archiveVars, itemsVars>>
DeflateNext ==
  /\ active = "deflate" /\ D!Next
  /\ UNCHANGED <<vars, readerVars, inflateVars, treesVars, archiveVars, itemsVars>>
InflateNext ==
  /\ active = "inflate" /\ I!Next
  /\ UNCHANGED <<vars, readerVars, deflateVars, treesVars, archiveVars, itemsVars>>
TreesNext ==
  /\ active = "trees" /\ T!Next
  /\ UNCHANGED <<vars, readerVars, deflateVars, inflateVars, archiveVars, itemsVars>>
ArchiveNext ==
  /\ active = "archive" /\ A!Next
  /\ UNCHANGED <<vars, readerVars, deflateVars, inflateVars, treesVars, itemsVars>>
ItemsNext ==
  /\ active = "items" /\ U!Next
  /\ UNCHANGED <<vars, readerVars, deflateVars, inflateVars, treesVars, archiveVars>>

AllNext ==
  /\ active' = active
  /\ \/ Md5Next \/ ReaderNext \/ DeflateNext \/ InflateNext
     \/ TreesNext \/ ArchiveNext \/ ItemsNext

AllSpec == AllInit /\ [][AllNext]_allVars

(***************************************************************************)
(* The properties of the components.                                       *)
(***************************************************************************)

\* FileReader: the chunks that Read delivers are the file, in order.
ChunksInOrder == R!ChunksInOrder

\* Deflate: the tokens of the blocks stand for the file.
DeflateExact == active = "deflate" => D!DeflateExact

\* Inflate: the caller gets the bytes that the symbols stand for.
InflateExact == active = "inflate" => I!InflateExact

\* ZipTrees: the block that is sent is read back with the same codes.
BlockExact == active = "trees" => T!BlockExact

\* ZipArchive: a closed archive holds the entries that Add accepted.
ArchiveComplete == active = "archive" => A!ArchiveComplete

\* ZipItems: what an UnzipItem delivers is the item's data.
ItemsDelivered == active = "items" => U!ItemsDelivered

\* ZipItems: an UnzipItem delivers data of the item that it was asked for.
RightItem == active = "items" => U!RightItem
=============================================================================
