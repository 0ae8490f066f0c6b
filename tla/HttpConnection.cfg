SPECIFICATION Spec
CONSTANTS
    Threads = {1, 2}
    Conns = {1, 2}
    BuffSize = 3
    Radix = 2
    MaxAliveTime = 1
    NowMs = 2
    MaxBody = 2
    MaxRequests = 2
INVARIANTS TypeOK ResponseMatches PooledAligned TotalExact OneOwner
PROPERTY CallsReturn
