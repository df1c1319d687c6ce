\* Blocks of 8 bytes of 2 bits, words of 4 bits: the length field has 4 bytes
\* and the low-order word overflows after 8 bytes.
SPECIFICATION Spec
CONSTANTS
  BlockSize = 8
  WordBits = 4
  ByteBits = 2
  BUFFER_SIZE = 8
  MaxChunk = 9
  MaxLength = 18
  MaxRounds = 2
  Uninit = Uninit
INVARIANT
  DigestRepeatable
