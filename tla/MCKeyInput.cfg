SPECIFICATION MCSpec
CONSTANTS
    Keys = {"shift", "equal", "up", "home"}
    Shift = "shift"
    Toggle = "home"
    Directions = {"up"}
    Modifiers = {"none", "altgr"}
    Nowhere = "none"
    Legend <- MCLegend
    ShiftAt = "SHIFT"
    JoyAt <- MCJoyAt
    RingSize = 3
INVARIANTS TypeOK NoKeyStuck
PROPERTIES PressSeen ReleaseArrives
