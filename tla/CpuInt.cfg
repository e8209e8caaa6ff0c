SPECIFICATION FairSpec
CONSTANTS
    Longest = 3
    Word = 8
    Ops = {"other", "ei", "di", "halt", "retn", "im0", "im0/1", "im1", "im2"}
    NmiWired = TRUE
INVARIANTS TypeOK NmiKeepsEnable
PROPERTIES EiShieldsOne HaltEnds
