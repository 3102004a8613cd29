SPECIFICATION FairSpec
CONSTANTS
    state = state
    sync = sync
    NoTimer = NoTimer
    Types <- MCTypes
    Cap <- MCCap
    Limit = 2
    PrimedPast = {sync}
    Loops = {l1, l2}
    MaxEvents = 3
    MaxMs = 2
    MaxLoads = 2
INVARIANTS TypeOK NoStaleReplay LossExplained
PROPERTIES OnceInOrder WatermarkMoves
CHECK_DEADLOCK FALSE
