SPECIFICATION TcpSpec
CONSTANTS
    MaxMessages = 4
INVARIANTS
    TcpTypeOK
    TidyReadsLoseNothing
    NothingIsReplayed
PROPERTIES
    WholeMessagesAreHandled
CHECK_DEADLOCK FALSE
