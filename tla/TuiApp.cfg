\* One session, local or remote, of a board of two projects, and one write of somebody else.
SPECIFICATION TuiSpec
CONSTANTS
    Project = {"p", "q"}
    None = None
    Columns <- MCColumns
    Names <- MCNames
    FirstCards <- MCFirstCards
    FirstStones <- MCFirstStones
    MaxCards = 4
    UndoDepth = 2
    MaxWrites = 3
    MaxOthers = 1
INVARIANT UndoRestores
PROPERTIES CursorFollows ArchivesTheCardAsked
CHECK_DEADLOCK FALSE
