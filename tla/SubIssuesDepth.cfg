\* Three issues, nobody else around.
SPECIFICATION Spec
CONSTANTS
    Issue = {i1, i2, i3}
    Nil = Nil
    Writer = {}
INVARIANT DepthIsTwo
CHECK_DEADLOCK FALSE
