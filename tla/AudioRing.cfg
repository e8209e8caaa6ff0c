SPECIFICATION FairSpec
CONSTANTS
    Size = 4
    FrameTicks = 3
    Count = 2
    Channels = 4
    MaxSamples = 8
INVARIANTS TypeOK RingInv
PROPERTIES HeardInOrder RingIsFifo EverySampleHeard
