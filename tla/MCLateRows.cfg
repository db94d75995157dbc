SPECIFICATION SamplesSpec
CONSTANTS
    MaxHold = 2
    Slack = 1
    Ladder = {1, 2, 4}
    MaxPoints = 2
    BackToBack = TRUE
    Duration = 6
    MaxEntries = 1
    MaxBlocks = 2
    MaxFaults = 0
INVARIANT CountsAreFinal
CHECK_DEADLOCK FALSE
