SPECIFICATION Spec
CONSTANTS
    Iter = {i, j}
    Strings <- MCStrings
    Given <- MCGiven
    Asked <- MCAsked
    MaxHosts = 3
    NULL = NULL
VIEW WithoutResult
SYMMETRY Symmetry
PROPERTIES
    NamesKept
    PlacesKept
CHECK_DEADLOCK FALSE
