SPECIFICATION Spec
CONSTANTS
    Longest = 3
    Word = 8
    Ops = {"other", "ei", "im0/1"}
    NmiWired = FALSE
INVARIANTS NeverStalls
