SPECIFICATION Spec
CONSTANTS
    Iter = {}
    Strings <- MCPadded
    Given = {}
    Asked = {}
    MaxHosts = 5
    NULL = NULL
VIEW WithoutResult
INVARIANTS
    IntersectAsserts
CHECK_DEADLOCK FALSE
