SPECIFICATION FairSpec
CONSTANTS
    NSlots = 2
    Card = {0, 44471, 44476, 44477}
    Config <- MCConfig
    Channel = {4, 9}
    Con = {"GPIB", "VXI11"}
    MaxCmds = 1
    MaxPress = 2
INVARIANTS
    ProbeIsRight
    ErrorsNotLost
    SelfTestHonest
    ProbeLeavesNoTrace
PROPERTIES
    StrictOutsideProbe
    OperationEnds
