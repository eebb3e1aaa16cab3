\* Four commands of two processes, anything between their jobs, one of them killed.
SPECIFICATION Spec
CONSTANTS
    Process = {p, q}
    Commands <- AllCommands
    None = None
    FirstLabels = {"a"}
    FirstName = "m"
    FirstTags = {"a"}
    MaxCommands = 4
    MaxKills = 1
INVARIANTS TagsHaveLabels OneMilestonePerName
PROPERTIES StaleEditsChangeNothing RecordsStay
SYMMETRY Symmetry
CHECK_DEADLOCK FALSE
