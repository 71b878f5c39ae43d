\* recv says that the connection is closed while data are in the list.
SPECIFICATION Spec
CONSTANTS
  Streams <- HttpStreams
  MaxPacket = 2
  MaxWire = 1
  Null = Null
  RESPONSE_BUFSZ = 2
PROPERTY ZeroMeansDrained
CHECK_DEADLOCK FALSE
