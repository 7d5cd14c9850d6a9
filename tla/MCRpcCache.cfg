SPECIFICATION MCSpec
CONSTANTS
    s1 = s1  s2 = s2  s3 = s3  s4 = s4
    c1 = c1  c2 = c2  c3 = c3  c4 = c4
    scope = scope  gateway = gateway  port0 = port0  port1 = port1
    NoClient = NoClient
    Slot <- MCSlot
    Client <- MCClient
    HostKey <- MCHostKey
    AddrKey <- MCAddrKey
    Resolve <- MCResolve
SYMMETRY Symmetry
INVARIANTS
    TypeOK
    UseCountExact
    HeldIsLive
    NoLeak
    LeadsWhereAsked
    OneEntryPerHost
PROPERTIES
    PoolSpec
