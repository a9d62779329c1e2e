CONSTANTS
    s = s
    t = t
    sync = sync
    row = row
    Own = Own
    Nobody = Nobody
    Threads = {s}
    MaxDepth <- Depths
    Clients <- DepthFrames
    Names = {sync}
    Contested = {row}
    Strict = TRUE
    PoolSize = 2
SPECIFICATION Spec
INVARIANT TasksAreJustified
CHECK_DEADLOCK FALSE
