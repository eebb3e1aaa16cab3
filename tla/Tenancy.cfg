\* Two connections on one server, ann and bob, an operator, and a server that may die.
SPECIFICATION Spec
CONSTANTS
    c1 = c1
    c2 = c2
    ann = ann
    bob = bob
    Key = {ann, bob}
    Conn = {c1, c2}
    Keys <- MCKeys
    Slug = {acme}
    None = None
    PerUser = 1
    Global = 1
    MaxTenants = 2
    MaxCodes = 1
    MaxWrites = 1
INVARIANTS DeletedStaysDeleted OnlyMembersGetIn OneStore ExportIsCurrent
PROPERTY BoardsCatchUp
CHECK_DEADLOCK FALSE
