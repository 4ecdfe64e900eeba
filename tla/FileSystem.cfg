SPECIFICATION FileSystemSpec
CONSTANTS
    Bytes = {"a", "b"}
    Names <- MCNames
    Texts <- MCTexts
    NameLen = 2
    Capacity = 2
    FirstDisks <- MCDisks
    CommandsFail = TRUE
    MallocFails = TRUE
INVARIANTS FileSystemTypeOK ReadsBack NeverMixes
