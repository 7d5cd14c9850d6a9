SPECIFICATION IcsSpec
CONSTANTS
    alice = alice  bob = bob
    rack = rack  bench = bench
    Admin <- MCAdmin
    bigEndian <- MCBigEndian
    Ip <- MCIp
    Name <- MCName
    MaxRuns = 3
PROPERTIES
    ShownIsActive
    SuccessIsTrue
