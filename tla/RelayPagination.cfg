CONSTANTS
    Nodes = {n1, n2, n3, n4}
    MaxNodes = 4
    Initial <- MCInitial
    n1 = n1
    n2 = n2
    n3 = n3
    n4 = n4
    DefaultPageSize = 2
    Malformed = Malformed
    Omitted = Omitted
SPECIFICATION FairSpec
INVARIANTS TypeOK PagesAreExact WalkIsBounded
PROPERTIES WalkEnds
CHECK_DEADLOCK FALSE
