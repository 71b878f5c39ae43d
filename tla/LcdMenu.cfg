SPECIFICATION FairSpec
CONSTANTS
    song = song
    Songs <- OneSong
    ServerLists <- SomeLists
    Messages <- SomeMessages
    RefreshTime <- Refresh
    MqCapacity = 1
    MaxPending = 2
    ItemMax = 6
    FdMax = 1
    VolumeMin = 55
    VolumeMax = 60
    VolumeDefault = 55
INVARIANTS
    TypeOK
    SteadyServerSafe
    SilentOffMusicPage
    FlagsTrue
PROPERTIES
    MusicKeysNotStarved
CHECK_DEADLOCK FALSE
