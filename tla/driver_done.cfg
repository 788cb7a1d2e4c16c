SPECIFICATION FairSpec
CONSTANTS
    INPUT_QUEUE_SIZE = 2
    OUTPUT_QUEUE_SIZE = 2
    PIPE_CAP = 1
    SOCKET_CAP = 2
    MAX_ARRIVALS = 1
    MAX_DEPARTURES = 2
PROPERTIES
    DoneHeard
CHECK_DEADLOCK FALSE
