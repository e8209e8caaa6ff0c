SPECIFICATION DiligentHost
CONSTANTS
    Commands = {"specify", "sense drive", "read", "write", "scan", "read id", "recalibrate", "seek", "sense int", "unknown"}
    Units = {0}
    Images = {a, b}
    NoImage = none
    Block = 2
    Codes = {0, 1}
    Lengths = {1, 255}
    Unused = 255
    Counts = {1, 2}
    Tracks = {1}
    TrackLen = 2
    FollowsStatus = TRUE
    MotorStops = {"idle", "toHost", "toFdc"}
    Slack = 0
INVARIANTS TypeOK
PROPERTIES PhasesAsPromised HostGetsDone
