SPECIFICATION MCSpec
CONSTANTS
  Base = 5
  FE = 6
  FD = 5
  CrcLen = 2
  Crc <- MCCrc
  Streams <- MCStreams
  Sizes = {4, 9}
  Small = {s1}
  Large = {m1, m2}
  Chunks = 2
  Window = 2
  Resent = {m1}
INVARIANTS
  DecodedInOrder
  GivenOnce
PROPERTIES
  StreamDecoded
  MessagesGiven
