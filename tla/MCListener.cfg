SPECIFICATION Spec
CONSTANTS
    Procs = {p1, p2, p3}
    Inodes = {i1, i2, i3, i4}
    Old = Old
    None = None
INVARIANTS
    TypeOK
    OneOwner
    ServesItsSocket
    NothingBroken
    NoLeftovers
PROPERTIES
    StartsOrGivesUp
\* All processes may have ended.
CHECK_DEADLOCK FALSE
