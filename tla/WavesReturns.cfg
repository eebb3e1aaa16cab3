\* The boards of Waves.cfg: both loops of the function end.
SPECIFICATION MCFairSpec
CONSTANTS
    Issue = {a, b, c}
    Inside = {a, b, c}
    Archivable = {c}
    MaxWrites = 1
PROPERTY Returns
CHECK_DEADLOCK FALSE
