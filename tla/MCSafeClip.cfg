SPECIFICATION Spec
CONSTANTS
    outside = outside
    inA = inA
    alsoInA = alsoInA
    inB = inB
    inAB = inAB
    Clients <- MCClients
    Chars <- MCChars
    Line <- MCLine
    Names <- MCNames
    MaxBytes = 24
    Null = Null
    Dropped = Dropped
    Panic = Panic
    NameBound = 1
INVARIANTS
    TypeOK
    Clipboards
    OnlyOverlongEnds
\* Clients need not do anything.
CHECK_DEADLOCK FALSE
