SPECIFICATION MCSpec
CONSTANTS
    Bytes = {0, 1, 2}
    Zero = 0
    High = 1
    Registers = {0, 1, 2}
    Mixer = 0
    IoPortA = 1
    IoPortB = 2
    Outputs <- MCOutputs
    LineBits = {"line"}
    Bit0 = "line"
    Matrix <- MCMatrix
    DirsC = {{}, {"upper"}}
    RamValues = {0, 3, 8, 196}
    RomValues = {0, 8}
    Options = {7, 8}
    Top = 31
    EnvPeriods = {0, 2}
    Horizon = 130
    Periods = {0, 2, 3}
    Widest = 3
    Millisecond = 3
    Second = 48
    Rates = {3, 4}
    FrameTimes <- MCFrameTimes
    Speedups = {1, 10}
    Delays = {0, 1, 5, 17, 100}
INVARIANTS BoardTypeOK BusFollowsPorts ReadsWhatItWrites WindowsDisjoint
    EnvelopeAsPromised Paced PictureGoesOn
PROPERTIES ReadsSelectedLine RestoreKeepsPorts SnapshotGivesMap FlipsInTime
    VoicesTogether
