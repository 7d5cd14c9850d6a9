SPECIFICATION Spec
CONSTANTS
    Iter = {"i"}
    Strings <- MCStrings
    Given <- MCGiven
    Asked <- MCAsked
    MaxHosts = 4
    NULL = NULL
VIEW WithoutResult
INVARIANTS
    Consistent
    FoundIsThere
    RoundTrip
    SortRight
PROPERTIES
    NameListSpec
CHECK_DEADLOCK FALSE
