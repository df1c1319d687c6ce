\* Md5: blocks of 8 bytes of 2 bits, words of 4 bits: the length field has 4
\* bytes and the low-order word overflows after 8 bytes.
SPECIFICATION AllSpec
CONSTANTS
  BlockSize = 8
  WordBits = 4
  ByteBits = 2
  BUFFER_SIZE = 8
  MaxChunk = 9
  MaxLength = 18
  MaxRounds = 2
  Uninit = Uninit
  Letters = {a, b}
  MaxSize = 4
  MaxRead = 3
  WSIZE = 16
  MIN_MATCH = 3
  MAX_MATCH = 4
  HASH_BITS = 3
  TOO_FAR = 6
  LIT_BUFSIZE = 7
  GUESS = 4
  good_match = 4
  max_lazy_match = 4
  nice_length = 4
  max_chain_length = 8
  Lengths = {0, 2, 12, 53}
  MaxPeriod = 5
  Strange = {0, 22, 33}
  Size = 4
  MinMatch = 2
  MaxMatch = 3
  MaxText = 7
  MaxRoom = 3
  MAX_BITS = 5
  MAX_BL_BITS = 3
  MaxZeros = 12
  LookupBits = {2, 3}
  Capacities = {7, 12, 30}
  MaxFile = 3
  MaxAdds = 2
  CHUNK = 2
  Archives <- ZipFiles
  ItemNames = {"a", "b", "c"}
  ENCHEAD = 2
  BUFSIZE = 3
  Lens = {0, 2, 5}
  DWord = 64
CHECK_DEADLOCK FALSE
INVARIANTS
  DigestOfMessage
  ChunksInOrder
  DeflateExact
  InflateExact
  BlockExact
  ArchiveComplete
  ItemsDelivered
