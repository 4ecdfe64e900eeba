SPECIFICATION FairControllerSpec
CONSTANTS
    NumRam = 2
    TtyLen = 1
    Words <- MCWords
    Regs = {r0}
    ResetRegs = r0
    Zero = "zero"
    Decode <- MCDecode
    Images <- MCImages
    DmaCells = {0}
    DmaWords = {"zero"}
    StoredWords = {}
    MaxHistory = 1
    MaxInput = 1
    Commands <- AllCommands
    Speeds = {"step", "limited", "max"}
    MaxBurst = 2
    Unit = 2
    MaxArrival = 4
    Breakpoints = {1}
    HostFails = TRUE
    NoBinary = NoBinary
INVARIANTS ControllerTypeOK TimersMatchRunning ViewsFollowMachine BreakpointsStop
PROPERTIES ButtonsMatchRunning  InputResumes RunningExecutes ShutdownStops
