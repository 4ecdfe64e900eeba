SPECIFICATION Spec
CONSTANTS
    Letters = {a, newline}
    Newline = newline
    MaxLines = 2
    Offsets = {1, 2}
    Pixels <- MCPixels
    Black = 0
    Colours = {0, 1}
    Colour <- MCColour
    MaxSteps = 3
    a = a
    newline = newline
INVARIANTS ConsoleTypeOK BatchesSound ExitTells NothingLost
PROPERTIES WindowCatchesUp InterruptEnds
\* main ends, and with a window the bound on instructions is reached.
CHECK_DEADLOCK FALSE
