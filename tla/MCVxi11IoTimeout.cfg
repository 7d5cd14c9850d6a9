SPECIFICATION Spec
CONSTANTS
    MaxLen = 3
    MaxRecvSize = 2
    Timeout = 2
    Slack = 1
    Word = 4
    MaxSpent = 2
INVARIANTS
    TimesOut
