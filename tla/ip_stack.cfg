SPECIFICATION FairSpec
CONSTANTS
    PIPE_CAP = 1
    MyIPAddr = "me"
    IP_ADDRESS_BROADCAST = "all"
    Hosts <- MCHosts
    ArpHeard <- MCArpHeard
    IpHeard <- MCIpHeard
    OtherHeard = TRUE
    IpSent <- MCIpSent
    MAX_FRAMES = 2
    MAX_TRAFFIC = 4
INVARIANTS
    IpTypeOK
    AnswersMatchQuestions
PROPERTIES
    LeavesInOrder
    QuestionAnswered
    EchoAnswered
CHECK_DEADLOCK FALSE
