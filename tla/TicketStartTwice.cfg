\* Three dispatchers: the third gets the winner's worktree.
SPECIFICATION Spec
CONSTANTS
    Session = {d1, d2, d3}
    Outsider = {}
    Actor = {d1, d2, d3}
    Name <- OwnName
    Nobody = Nobody
    Forcing = {}
    MaxClaims = 2
    MaxFaults = 0
INVARIANT OneActorPerWorktree
CHECK_DEADLOCK FALSE
