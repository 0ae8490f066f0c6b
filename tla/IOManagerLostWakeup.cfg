SPECIFICATION FairSpec
CONSTANTS
    Workers = {w1, w2}
    Fds = {}
    ClientOps = {"task"}
    MaxTasks = 1
    MaxChanges = 0
PROPERTIES ScheduledRuns
CHECK_DEADLOCK FALSE
