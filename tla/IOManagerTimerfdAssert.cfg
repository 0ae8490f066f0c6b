SPECIFICATION Spec
CONSTANTS
    Workers = {w1, w2}
    Fds = {}
    ClientOps = {"timer"}
    MaxTasks = 0
    MaxChanges = 1
INVARIANTS ReadTimerfdSucceeds
CHECK_DEADLOCK FALSE
