SPECIFICATION Spec
CONSTANTS
    Commands = {"read", "write"}
    Units = {0}
    Images = {a}
    NoImage = none
    Block = 1
    Codes = {0, 1}
    Lengths = {255}
    Unused = 255
    Counts = {1, 2}
    Tracks = {1}
    TrackLen = 2
    FollowsStatus = TRUE
    MotorStops = {"idle", "command"}
    Slack = 0
INVARIANTS WritesHitTarget
