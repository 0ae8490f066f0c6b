SPECIFICATION FairSpec
CONSTANTS
    Workers = {w1, w2}
    Fds = {f1}
    ClientOps = {"task", "read", "write", "cancel", "del", "timer", "retime"}
    MaxTasks = 1
    MaxChanges = 2
INVARIANTS TypeOK SomeWorkerRuns IdleExact
PROPERTIES ReadyIsServed TimerIsServed EventRunsTasks
CHECK_DEADLOCK FALSE
