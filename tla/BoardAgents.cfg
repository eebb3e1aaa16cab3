\* Two agents, each command a process of its own, none of them a full-row writer.
SPECIFICATION FairSpec
CONSTANTS
    Session = {s1, s2}
    Process = {s1, s2}
    Host <- OwnProcess
    Tui = {}
    Commands <- Agents
    Status = {backlog, done}
    Done = done
    FirstIssues = 1
    MaxCommands = 2
    MaxFaults = 1
INVARIANT NoLostEntries
PROPERTIES AtomicBoard CasDropsNothing
CHECK_DEADLOCK FALSE
