SPECIFICATION FairSpec
CONSTANTS
    INPUT_QUEUE_SIZE = 3
    OUTPUT_QUEUE_SIZE = 3
    PIPE_CAP = 1
    SOCKET_CAP = 1
    MAX_ARRIVALS = 3
    MAX_DEPARTURES = 6
INVARIANTS
    DriverTypeOK
    OneSendAtATime
    OneLeftBehind
PROPERTIES
    InputIsQueue
    OutputIsQueue
    MuxHeard
CHECK_DEADLOCK FALSE
