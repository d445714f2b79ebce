SPECIFICATION LiveSpec
CONSTANTS
    Ids = {a}
    Net = net
    What = {a, net}
    Calls = {"idle", "load"}
    MaxNow = 1
    FrameInterval = 1
    WaitTime = 1
    Window = 1
    Delays = {1}
    MaxIterations = 2
    MaxRounds = 1
    MaxTransfers = 2
    MaxObserved = 0
PROPERTIES
    IdleMeansDone
    RunEnds
CHECK_DEADLOCK FALSE
