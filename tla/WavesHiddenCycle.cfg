\* A cycle one of whose tickets also waits for an outsider.
SPECIFICATION MCSpec
CONSTANTS
    Issue = {a, b, x}
    Inside = {a, b}
    Archivable = {}
    MaxWrites = 0
INVARIANT CycleIsReported
CHECK_DEADLOCK FALSE
