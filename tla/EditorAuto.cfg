\* With fs.watch the board may stay behind: BoardCatchesUp is violated.
SPECIFICATION EditorSpec
CONSTANTS
    Mode = "auto"
    Ops <- EveryOp
    None = None
    Failed = Failed
    Stale = Stale
    MaxOps = 1
    MaxAgent = 1
    MaxFaults = 0
    MaxLists = 2
CHECK_DEADLOCK FALSE
PROPERTY BoardCatchesUp
