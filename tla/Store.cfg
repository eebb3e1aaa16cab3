\* Four issues and a full-row writer, in a file that two processes open at once while a
\* third of the old build adds a note.
SPECIFICATION StoreSpec
CONSTANTS
    Issue = {i1, i2, i3, i4}
    Nil = Nil
    Writer = {w}
    Process = {p, q}
    Note = {"n1", "n2", "n3"}
    Body <- Bodies
    Late = {"n3"}
    File <- Files
INVARIANTS NoParentCycle OldNotesAreKept
SYMMETRY Symmetry
CHECK_DEADLOCK FALSE
