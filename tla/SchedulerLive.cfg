SPECIFICATION FairSpec
CONSTANTS
    Workers = {w1, w2}
    MaxFibers = 3
    MaxCallbacks = 2
    MaxYields = 1
    MaxSleeps = 0
PROPERTIES StopReturns EveryFiberStarts
