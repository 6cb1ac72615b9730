CONSTANTS
    d = d  x = x  y = y  z = z
    Paths <- TwoPaths
    Above <- TwoAbove
    Renames <- None
    NoPath = NoPath
    Troubles <- Drops
    MaxEdits = 2
SPECIFICATION Spec
PROPERTY FailedRunsAreRetried
