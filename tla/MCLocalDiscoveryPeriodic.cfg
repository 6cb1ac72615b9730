CONSTANTS
    d = d  x = x  y = y  z = z
    Paths <- TwoPaths
    Above <- TwoAbove
    Renames <- None
    NoPath = NoPath
    Troubles <- All
    MaxEdits = 2
SPECIFICATION PeriodicSpec
PROPERTY EventuallySynced
