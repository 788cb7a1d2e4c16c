SPECIFICATION Spec
CONSTANTS
    IP_ADDRESS_ANY = any
    MyIPAddr = me
    Remotes = {r1}
    NUM_PORTS = 3
    NUM_SOCKS = 4
    PIPE_CAP = 8
    BIN_SIZE = 2
    UDP_MAX_DATA = 1
    AppTransports = {"tcp"}
    AppCallTypes <- StreamCalls
    RemotePorts = {1}
    DataSizes = {2}
    MAX_CALLS = 5
    TcpData = {1, 2}
    PeerPorts = {1}
    MAX_TCP_WRITES = 3
    MAX_DATAGRAMS = 0
INVARIANT
    ConnectionsDistinct
CHECK_DEADLOCK FALSE
