SPECIFICATION Spec
CONSTANTS
    Workers = {w1, w2}
    MaxFibers = 4
    MaxCallbacks = 2
    MaxYields = 1
    MaxSleeps = 2
SYMMETRY WorkerSymmetry
INVARIANTS TypeOK NothingLost CompleteAtStop CountersExact NoCrash SwapInFindsSuspended NoOvertaking
