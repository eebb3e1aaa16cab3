\* Two tickets, one orchestrator that is killed once, one commit of a person to main.
SPECIFICATION Spec
CONSTANTS
    Ticket = {a, b}
    None = None
    MaxCommits = 5
    MaxMishaps = 2
INVARIANTS DoneAsGated RecoverySeesAll MainHoldsSettled
SYMMETRY Tickets
CHECK_DEADLOCK FALSE
