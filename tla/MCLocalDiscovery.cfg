CONSTANTS
    d = d  x = x  y = y  z = z
    Paths <- FourPaths
    Above <- FourAbove
    Renames <- Moves
    NoPath = NoPath
    Troubles <- None
    MaxEdits = 3
SPECIFICATION Spec
INVARIANTS
    NothingForgotten
    PartialRunLooks
    IInv
PROPERTY TrustIsEarned
