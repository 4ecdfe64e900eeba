SPECIFICATION HeapSpec
CONSTANTS
    WordBits = 9
    Base = 12
    Capacity = 60
    Sizes <- MCSizes
    Values = {9}
PROPERTIES ReusesFreed
