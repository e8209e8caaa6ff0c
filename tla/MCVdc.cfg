SPECIFICATION FairSpec
CONSTANTS
    Byte = 4
    SyncMod = 2
    Registers = {"R0", "R3", "R4", "R5", "R7", "R9"}
    Other = "none"
    Values <- MCValues
    Mask <- MCMask
    Defaults <- MCDefaults
    MaxLines = 6
    Settling = 3
INVARIANTS TypeOK
PROPERTIES FrameExact FramesGoOn
