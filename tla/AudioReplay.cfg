\* Everything a thread and the DMA interrupt can do with up to 12 units.  After
\* the bound on units the thread may stop for ever with the device closed and
\* open it again, so there is no deadlock.
SPECIFICATION FairSpec
CONSTANTS
  BLOCK = 4
  POOL = 2
  QUEUE = 2
  FRAME = 2
  MaxUnits = 12
  WriteSizes <- SmallWrites
INVARIANTS
  TypeOK
  FillsIdleHalf
  BlocksConserved
PROPERTIES
  PlayedInOrder
  CallsReturn
