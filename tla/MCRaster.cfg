SPECIFICATION FairSpec
CONSTANTS
    Ratio = 2
    Byte = 8
    SyncMod = 2
    Registers = {"R4"}
    Other = "none"
    Values <- MCValues
    Mask <- MCMask
    Defaults <- MCDefaults
    MaxLines = 0
    Settling = 0
    Period = 5
    Threshold = 3
    Lines = 4
    Pens = {0}
    Border = 16
    Colours = {black}
    Modes = {0}
    Blank = blank
    Patience = 5
    FirstPen = 0
    FirstColour = black
    FirstMode = 0
    Longest = 2
    Word = 8
    Ops = {"other", "ei", "halt"}
    NmiWired = FALSE
INVARIANTS TypeOK
PROPERTIES GateArrayAsSpecified RequestsGoOn SteadyRate
