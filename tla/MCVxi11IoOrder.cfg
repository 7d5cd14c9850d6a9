SPECIFICATION Spec
CONSTANTS
    MaxLen = 3
    MaxRecvSize = 2
    Timeout = 2
    Slack = 0
    Word = 4
    MaxSpent = 2
INVARIANTS
    BytesInOrder
