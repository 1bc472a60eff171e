SPECIFICATION FairSpec
CONSTANTS
  Base = 5
  FE = 6
  FD = 5
  CrcLen = 2
  Crc <- MCCrcUnlucky
  Streams <- MCStreams
  Sizes = {4, 9}
PROPERTIES
  EverythingDecoded
