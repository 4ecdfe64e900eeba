SPECIFICATION HeapFairSpec
CONSTANTS
    WordBits = 9
    Base = 13
    Capacity = 60
    Sizes <- MCSizes
    Values = {9}
INVARIANTS HeapTypeOK LiveApart ListSound
PROPERTIES HandsOutOnce PayloadKept ReusesFreed OversizedRefused CallsReturn
