SPECIFICATION Spec
CONSTANTS
    h1 = h1  h2 = h2
    gateway = gateway
    c1 = c1  c2 = c2
    l1 = l1  l2 = l2
    DfltTmo = DfltTmo
    NoClient = NoClient
    NOLID = NOLID
    NoHandle = NoHandle
    OtherLid = OtherLid
    Handle <- MCHandle
    Host <- MCHost
    Client <- TwoClients
    Lid <- MCLid
    Tmo <- OneTmo
    Policy = {TRUE, FALSE}
    ErrLid <- ErrAny
SYMMETRY Symmetry
INVARIANTS
    DestroyAsserts
    LinkIntegrity
    ConnectionsAccounted
    LockAgreement
PROPERTIES
    OthersLinksSurvive
