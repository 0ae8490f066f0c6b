SPECIFICATION Spec
CONSTANTS
    Addrs = {1, 2}
    Intervals = {1, 2}
    MaxTimers = 3
    MaxTime = 4
INVARIANTS TypeOK SetsAgree ExpiredExist TimerfdArmed NoTimerLost CancelIsFinal NoLeak
PROPERTY IsTimerService
