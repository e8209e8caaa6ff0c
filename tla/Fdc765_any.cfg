SPECIFICATION Spec
CONSTANTS
    Commands = {"sense drive", "read track", "write", "format", "scan", "sense int"}
    Units = {0, 1}
    Images = {a, b}
    NoImage = none
    Block = 1
    Codes = {0, 1}
    Lengths = {255}
    Unused = 255
    Counts = {1, 2}
    Tracks = {1}
    TrackLen = 2
    FollowsStatus = FALSE
    MotorStops = {"idle", "toHost", "toFdc"}
    Slack = 1
INVARIANTS TransferHasCommand WritesHitTarget
