SPECIFICATION MemorySpec
CONSTANTS
    Top = 8
    Size = 6
    Bytes = {0, 1}
    Zero = 0
    Ranges <- MCRanges
    Values <- MCValues
    Segments <- MCSegments
    PageSize = 4
    NoPage = NoPage
INVARIANTS MemoryTypeOK
PROPERTIES IsFlat
