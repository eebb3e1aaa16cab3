\* Two commands at once, on one issue of the board and one of Linear.
SPECIFICATION Spec
CONSTANTS
    Session = {s1, s2}
    Ops <- EveryOp
    WriteSets <- DefaultsAndMirror
    inProgress = inProgress
    blocked = blocked
    done = done
    started = started
    completed = completed
    canceled = canceled
    Status <- BoardStatus
    State <- TeamState
    Open <- OpenState
    Canceled = canceled
    ToCliban <- FromLinear
    ToLinear <- IntoLinear
    FirstIssues = 1
    FirstRemotes = 2
    MaxCommands = 2
    MaxFaults = 1
    MaxEdits = 1
INVARIANTS NoDuplicates OneLivingComment LostOnlyWhileHeld SpecHasItsOwner SeenIsHeard
SYMMETRY Sessions
CHECK_DEADLOCK FALSE
