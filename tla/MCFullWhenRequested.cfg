CONSTANTS
    d = d  x = x  y = y  z = z
    Paths <- TwoPaths
    Above <- TwoAbove
    Renames <- None
    NoPath = NoPath
    Troubles <- None
    MaxEdits = 2
SPECIFICATION RequestSpec
PROPERTY FullWhenRequested
