\* Two downloads one after the other, over a module that answers late or never,
\* from a server that may stop or close at any point.
SPECIFICATION FairSpec
CONSTANTS
  Streams <- HttpStreams
  MaxPacket = 2
  MaxWire = 2
  Null = Null
  RESPONSE_BUFSZ = 2
INVARIANTS
  TypeOK
  StreamIntact
  WaiterNotified
  FileIsTheSong
  NothingLeftOpen
PROPERTY GetReturns
CHECK_DEADLOCK FALSE
