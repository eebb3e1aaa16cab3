\* An agent logs while another archives.
SPECIFICATION Spec
CONSTANTS
    Session = {s1, s2}
    Process = {s1, s2}
    Host <- OwnProcess
    Tui = {}
    Commands <- ArchiveAndLog
    Status = {backlog, done}
    Done = done
    FirstIssues = 1
    MaxCommands = 1
    MaxFaults = 0
INVARIANTS NoLostEntries
CHECK_DEADLOCK FALSE
