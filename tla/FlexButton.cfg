SPECIFICATION FairSpec
CONSTANTS
    Buttons = {key0, wkup}
    ClickTick = 5
    ShortTick = 7
    LongTick = 10
    HoldTick = 13
    CntMod = 16
INVARIANTS
    TypeOK
    EndFitsStart
    DoubleClickIsTwo
PROPERTIES
    StartsInOrder
    ReleaseReported
