SPECIFICATION Spec
CONSTANTS
    Ids = {a, b}
    Net = net
    What = {a, b, net}
    Calls = {"idle"}
    MaxNow = 2
    FrameInterval = 1
    WaitTime = 1
    Window = 1
    Delays = {0, 1}
    MaxIterations = 2
    MaxRounds = 1
    MaxTransfers = 0
    MaxObserved = 0
SYMMETRY Symmetry
INVARIANTS
    CallbackIsBacked
    FramesBacked
PROPERTIES
    NoJobWaitsForATask
CHECK_DEADLOCK FALSE
