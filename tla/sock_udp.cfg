SPECIFICATION Spec
CONSTANTS
    IP_ADDRESS_ANY = any
    MyIPAddr = me
    Remotes = {r1}
    NUM_PORTS = 3
    NUM_SOCKS = 3
    PIPE_CAP = 8
    BIN_SIZE = 3
    UDP_MAX_DATA = 1
    AppTransports = {"tcp", "udp"}
    AppCallTypes <- DatagramCalls
    RemotePorts = {1}
    DataSizes = {2}
    MAX_CALLS = 4
    TcpData = {1}
    PeerPorts = {1}
    MAX_TCP_WRITES = 1
    MAX_DATAGRAMS = 2
INVARIANTS
    TypeOK
    StatusFindsRequest
    RequestsInOrder
    NoStrayAnswer
    NoLostCall
    PortsNotShared
    NoOrphanForward
    OneForwardPerPort
PROPERTIES
    AckedDataKept
    UdpKeepsOrder
CHECK_DEADLOCK FALSE
