SPECIFICATION Spec
CONSTANTS
    PIPE_CAP = 1
    IP_ADDRESS_ANY = "any"
    MyIPAddr = "me"
    Remotes = {"peer"}
    NUM_PORTS = 3
    NUM_SOCKS = 2
    SEQ_MOD = 4
    Ends <- MCEnds
    Locals <- MCLocals
    HeaderLens = {0, 1}
    Garbage = {0, 3}
    MAX_REQUESTS = 4
INVARIANTS
    TcpTypeOK
    AcceptedInWindow
PROPERTIES
    FollowsDiagram
    OutstandingNeverGrows
CHECK_DEADLOCK FALSE
