CONSTANTS
    s = s
    t = t
    sync = sync
    row = row
    Own = Own
    Nobody = Nobody
    Threads = {s, t}
    MaxDepth <- Depths
    Clients <- DepthFrames
    Names = {sync}
    Contested = {row}
    Strict = TRUE
    PoolSize = 2
SPECIFICATION Spec
INVARIANTS TypeOK OnlyInsideHolds FailureIsSeen LateTasksAreJustified
PROPERTY ThreadsEnd
CHECK_DEADLOCK FALSE
CONSTRAINT OneFault
