\* Two sessions of cliband on one store: everything the TUI does.
SPECIFICATION FairSpec
CONSTANTS
    Session = {s1, s2}
    Process = {p}
    Host <- OneProcess
    Tui = {s1, s2}
    Commands <- EveryTui
    Status = {backlog, done}
    Done = done
    FirstIssues = 2
    MaxCommands = 1
    MaxFaults = 1
INVARIANT TrailFollowsBoard
PROPERTY AtomicBoard
CHECK_DEADLOCK FALSE
