SPECIFICATION FairSpec
CONSTANTS
    zero = zero
    d1 = d1
    BlockIds <- MCBlockIds
    SpecialIds <- MCSpecialIds
    NumIds = 3
    NumSlots = 2
    BadSlots <- NoBadSlots
    MaxCount = 2
    MayStop = TRUE
    StatusStores <- Nothing
    HighStores <- Nothing
    Data <- MCData
    Zero = zero
    Bad = bad
    Throw = throw
    NoFile = nofile
    Images <- ToolImages
    Faulty = TRUE
    Losing = FALSE
    MaxEnd = 3
INVARIANTS
    UnsavedOnlyAfterError
    MovedBlocksAgree
PROPERTIES
    
    StoreSpec
