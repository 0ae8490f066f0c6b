SPECIFICATION Spec
CONSTANTS
    Workers = {w1, w2}
    MaxFibers = 1
    MaxCallbacks = 1
    MaxYields = 0
    MaxSleeps = 1
INVARIANT YieldFindsExec
