\* One person imports and syncs one issue, and an agent ticks a step of it once.
SPECIFICATION Spec
CONSTANTS
    Session = {s1}
    Ops <- Refreshes
    WriteSets <- Defaults
    inProgress = inProgress
    blocked = blocked
    done = done
    started = started
    completed = completed
    canceled = canceled
    Status <- BoardStatus
    State <- TeamState
    Open <- OpenState
    Canceled = canceled
    ToCliban <- FromLinear
    ToLinear <- IntoLinear
    FirstIssues = 1
    FirstRemotes = 1
    MaxCommands = 2
    MaxFaults = 0
    MaxEdits = 1
INVARIANT TicksSurvive
CHECK_DEADLOCK FALSE
