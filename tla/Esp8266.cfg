\* The bring-up and the notices of a module that fails and rejoins at will.
SPECIFICATION FairSpec
CONSTANTS
  INIT_RETRY = 2
  Addresses <- TwoAddresses
  MaxLine = 2
  MaxWorks = 2
INVARIANTS
  TypeOK
  AddressFresh
  StaysUp
PROPERTIES
  BringUpEnds
  AddressSettles
