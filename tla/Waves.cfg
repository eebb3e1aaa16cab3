\* Three tickets, one of which may stay outside the milestone or be archived: all
\* edge sets, all statuses, and one write of another process between the SELECTs.
SPECIFICATION MCSpec
CONSTANTS
    Issue = {a, b, c}
    Inside = {a, b, c}
    Archivable = {c}
    MaxWrites = 1
INVARIANTS BlockersComeFirst GateHolds
CHECK_DEADLOCK FALSE
