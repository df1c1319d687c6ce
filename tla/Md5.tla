-------------------------------- MODULE Md5 --------------------------------
(***************************************************************************)
(* include/Md5.hpp: the streaming context of class MD5::MD5.               *)
(*                                                                         *)
(* The block size, the word width and the size of a byte are parameters    *)
(* (64, 32 and 8 in the code), so that TLC reaches block boundaries and    *)
(* the carry of the bit count with short messages.  transform() is         *)
(* symbolic: _state is the sequence of the bytes that were transformed, so *)
(* two digests are equal exactly when the same blocks went through it.     *)
(* The code never looks at the value of a message byte; the bytes of a     *)
(* message are symbols, all different and different from the padding.      *)
(***************************************************************************)
EXTENDS Integers, Sequences

CONSTANTS
  BlockSize,    \* 64: bytes of _buffer
  WordBits,     \* 32: bits of uint32
  ByteBits,     \* 8: bits of a byte
  BUFFER_SIZE,  \* 1024: bytes read from a file at a time
  MaxChunk,     \* bound on the length of one update
  MaxLength,    \* bound on the length of a message
  MaxRounds,    \* bound on the number of messages
  Uninit        \* an uninitialised byte of _buffer

Word == 2^WordBits

\* bits[8]: the bit count takes two words.
LengthSize == 2 * (WordBits \div ByteBits)

ASSUME Md5Assumption ==
  /\ {WordBits, ByteBits, BlockSize, Word} \subseteq Nat \ {0}
  /\ {MaxChunk, MaxLength} \subseteq Nat
  /\ WordBits % ByteBits = 0 /\ Word % ByteBits = 0
  /\ (Word \div ByteBits) % BlockSize = 0
  /\ LengthSize < BlockSize
  /\ BUFFER_SIZE \in 1..(Word - 1)
  /\ MaxChunk < Word      \* one update is shorter than 2^32 bytes

VARIABLES
  ctx,      \* the members _state, _count, _buffer, _digest, _finished
  round,    \* number of the message: successive messages share no byte
  msg,      \* history: the bytes passed to update() since the last reset()
  spoilt,   \* history: a final() since then has overwritten buffered bytes
  ret       \* what the last call returned, if it was digest()

vars == <<ctx, round, msg, spoilt, ret>>

None == [value |-> <<>>, ok |-> FALSE]

(***************************************************************************)
(* memcpy(&_buffer[at], data, n)                                           *)
(***************************************************************************)
Copy(buffer, at, data) ==
  [j \in 1..BlockSize |-> IF at < j /\ j <= at + Len(data) THEN data[j - at] ELSE buffer[j]]

Index(c) == (c.count[1] \div ByteBits) % BlockSize

\* transform(block), block after block.
Transform(state, blocks) == state \o blocks

\* encode(): the bytes of the words, low-order byte first.
Encode(words) ==
  LET n == WordBits \div ByteBits
  IN  [j \in 1..(n * Len(words)) |->
         (words[((j - 1) \div n) + 1] \div 2^(ByteBits * ((j - 1) % n))) % 2^ByteBits]

AddBits(count, length) ==
  LET add == (length * ByteBits) % Word
      low == (count[1] + add) % Word
      carry == IF low < add THEN 1 ELSE 0
  IN  << low, (count[2] + carry + (length % Word) \div (Word \div ByteBits)) % Word >>

(***************************************************************************)
(* update(const byte *input, size_t length).  i is where the loop over     *)
(* whole blocks stops.                                                     *)
(***************************************************************************)
Update(c, input) ==
  LET length == Len(input)
      index == Index(c)
      partLen == BlockSize - index
      i == partLen + BlockSize * ((length - partLen) \div BlockSize)
      full == Copy(c.buffer, index, SubSeq(input, 1, partLen))
      counted == [c EXCEPT !.finished = FALSE, !.count = AddBits(c.count, length)]
  IN  IF length >= partLen
      THEN [counted EXCEPT
              !.state = Transform(c.state, full \o SubSeq(input, partLen + 1, i)),
              !.buffer = Copy(full, 0, SubSeq(input, i + 1, length))]
      ELSE [counted EXCEPT !.buffer = Copy(c.buffer, index, input)]

\* Mutant: "index < 56" becomes "index <= 56".
PadLenOffByOne(index) ==
  IF index <= BlockSize - LengthSize THEN BlockSize - LengthSize - index
  ELSE 2 * BlockSize - LengthSize - index

PadLen(index) ==
  IF index < BlockSize - LengthSize THEN BlockSize - LengthSize - index
  ELSE 2 * BlockSize - LengthSize - index

\* PADDING: 0x80 and zeros.
Padding(n) == [j \in 1..n |-> IF j = 1 THEN 2^(ByteBits - 1) ELSE 0]

\* final(): pad, append the bit count, store the digest, and restore _state
\* and _count, but not _buffer.
Final(c) ==
  LET padded == Update(c, Padding(PadLen(Index(c))))
      ended == Update(padded, Encode(c.count))
  IN  [ended EXCEPT !.digest = ended.state, !.state = c.state, !.count = c.count]

Digest(c) ==
  IF c.finished THEN c ELSE Final([c EXCEPT !.finished = TRUE])

Reset(c) == [c EXCEPT !.finished = FALSE, !.count = <<0, 0>>, !.state = <<>>]

\* update(ifstream&), and the same loop in FileDigest(): the reads return
\* BUFFER_SIZE bytes each, the last one fewer.
Reads(data) ==
  [k \in 1..((Len(data) + BUFFER_SIZE - 1) \div BUFFER_SIZE) |->
     SubSeq(data, (k - 1) * BUFFER_SIZE + 1,
            IF k * BUFFER_SIZE < Len(data) THEN k * BUFFER_SIZE ELSE Len(data))]

UpdateFile(c, data) ==
  LET reads == Reads(data)
      f[k \in 0..Len(reads)] == IF k = 0 THEN c ELSE Update(f[k - 1], reads[k])
  IN  f[Len(reads)]

Fresh == [state |-> <<>>, count |-> <<0, 0>>, finished |-> FALSE, digest |-> <<>>,
          buffer |-> [j \in 1..BlockSize |-> Uninit]]

(***************************************************************************)
(* The calls that a user of the class makes.                               *)
(***************************************************************************)
\* The next n bytes of the current message.
Input(n) ==
  [j \in 1..n |-> 2^ByteBits + (round - 1) * MaxLength + Len(msg) + j]

Init ==
  /\ ctx = Fresh
  /\ round = 1
  /\ msg = <<>>
  /\ spoilt = FALSE
  /\ ret = None

CallReset ==
  /\ round < MaxRounds
  /\ ctx' = Reset(ctx)
  /\ round' = round + 1
  /\ msg' = <<>>
  /\ spoilt' = FALSE
  /\ ret' = None

CallUpdate(n) ==
  /\ Len(msg) + n <= MaxLength
  /\ ctx' = Update(ctx, Input(n))
  /\ msg' = msg \o Input(n)
  /\ ret' = None
  /\ UNCHANGED <<round, spoilt>>

CallUpdateFile(n) ==
  /\ Len(msg) + n <= MaxLength
  /\ ctx' = UpdateFile(ctx, Input(n))
  /\ msg' = msg \o Input(n)
  /\ ret' = None
  /\ UNCHANGED <<round, spoilt>>

\* digest(), which toString() calls and renders in hexadecimal.
CallDigest ==
  /\ ctx' = Digest(ctx)
  /\ ret' = [value |-> ctx'.digest, ok |-> ~spoilt]
  /\ spoilt' = (spoilt \/ Index(ctx) >= BlockSize - LengthSize)
  /\ UNCHANGED <<round, msg>>

Next ==
  \/ CallReset
  \/ \E n \in 0..MaxChunk : CallUpdate(n)
  \/ \E n \in 0..MaxLength : CallUpdateFile(n)
  \/ CallDigest

Spec == Init /\ [][Next]_vars

(***************************************************************************)
(* Properties.                                                             *)
(***************************************************************************)
Length(m) == <<(Len(m) * ByteBits) % Word, ((Len(m) * ByteBits) \div Word) % Word>>

\* The message that MD5 (RFC 1321) feeds to the compression function: one
\* bit, zeros up to the length field of a block, and the length in bits.
Padded(m) ==
  LET zeros == CHOOSE z \in 0..(BlockSize - 1) :
                 (Len(m) + 1 + z + LengthSize) % BlockSize = 0
  IN  m \o Padding(1 + zeros) \o Encode(Length(m))

\* However a message is cut into updates, the blocks transformed so far and
\* the buffered bytes are the message, and _count is its length in bits.
ContextIsMessage ==
  ~spoilt =>
    /\ ctx.state \o SubSeq(ctx.buffer, 1, Index(ctx)) = msg
    /\ ctx.count = Length(msg)

\* The context is the message however it is cut into updates, and digest()
\* returns the digest of the message, also when it was called before and the
\* message was extended since, as long as no earlier call had to pad into a
\* second block.
DigestOfMessage == ContextIsMessage /\ (ret.ok => ret.value = Padded(msg))

\* The claim of the comment "Return the message-digest": digest() returns the
\* digest of the message however often it is called.
DigestRepeatable == ret # None => ret.value = Padded(msg)
=============================================================================
