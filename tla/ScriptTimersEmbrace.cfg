SPECIFICATION FairSpec
CONSTANTS
    Calls = {"handler"}
    Arguments = {"own"}
    Delays = {TRUE}
    Closing = FALSE
    MaxId = 2
    MaxBlocks = 2
PROPERTIES TimeoutRuns
CHECK_DEADLOCK FALSE
