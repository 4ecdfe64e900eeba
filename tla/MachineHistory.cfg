SPECIFICATION MachineSpec
CONSTANTS
    NumRam = 3
    TtyLen = 2
    Words <- MCWords
    Regs = {r0, r1}
    ResetRegs = r0
    Zero = "zero"
    Decode <- MCDecode
    Images <- MCImages
    DmaCells = {2}
    DmaWords = {"jump", "halt"}
    StoredWords = {"dma", "store"}
    MaxHistory = 3
    MaxInput = 2
INVARIANTS MachineTypeOK
PROPERTIES StepBackRestores NoInputLost
