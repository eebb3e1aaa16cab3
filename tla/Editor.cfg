\* The extension on a polled board: three operations of the user, an agent, a failing call.
SPECIFICATION EditorSpec
CONSTANTS
    Mode = "poll"
    Ops <- EveryOp
    None = None
    Failed = Failed
    Stale = Stale
    MaxOps = 3
    MaxAgent = 1
    MaxFaults = 1
    MaxLists = 1
PROPERTIES BoardCatchesUp DocCatchesUp DocSavesLoseNothing
