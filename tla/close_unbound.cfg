SPECIFICATION Spec
CONSTANTS
    IP_ADDRESS_ANY = any
    MyIPAddr = me
    Remotes = {r1}
    NUM_PORTS = 3
    NUM_SOCKS = 3
    PIPE_CAP = 8
    BIN_SIZE = 2
    UDP_MAX_DATA = 1
    AppTransports = {"udp"}
    AppCallTypes <- DatagramCalls
    RemotePorts = {1}
    DataSizes = {2}
    MAX_CALLS = 5
    TcpData = {}
    PeerPorts = {}
    MAX_TCP_WRITES = 0
    MAX_DATAGRAMS = 2
INVARIANT
    ForwardKept
CHECK_DEADLOCK FALSE
