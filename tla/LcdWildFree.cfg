SPECIFICATION Spec
CONSTANTS
    song = song
    Songs <- OneSong
    ServerLists <- SomeLists
    Messages <- SomeMessages
    RefreshTime <- Refresh
    MqCapacity = 1
    MaxPending = 1
    ItemMax = 6
    FdMax = 1
    VolumeMin = 55
    VolumeMax = 60
    VolumeDefault = 55
INVARIANT
    ReleasesWhatWasAllocated
CHECK_DEADLOCK FALSE
