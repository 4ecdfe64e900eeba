SPECIFICATION FairSpec
CONSTANTS
    zero = zero
    d1 = d1
    BlockIds <- MCBlockIds
    SpecialIds <- MCSpecialIds
    NumIds = 3
    NumSlots = 2
    BadSlots <- LastSlotBad
    MaxCount = 2
    MayStop = TRUE
    StatusStores <- AnyStatus
    HighStores <- AnyByte
    Data <- MCData
    Zero = zero
    Bad = bad
    Throw = throw
    NoFile = nofile
    Images <- ToolImages
    Faulty = TRUE
    Losing = TRUE
    MaxEnd = 2
INVARIANTS
    DeviceTypeOK
    DiskIndexSound
PROPERTIES
    
    OutcomeIsUnambiguous
    CommandEnds
