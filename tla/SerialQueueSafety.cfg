SPECIFICATION Spec
CONSTANTS
    openDoor = openDoor
    closeDoor = closeDoor
    getData = getData
    Command <- AllCommands
    Address = {1}
    Function = {1, 2}
    DoorFunction = 1
    AddressOf <- MCAddressOf
    FunctionOf <- MCFunctionOf
    MaxAnswers = 2
\* An idle queue waits for a caller.
CHECK_DEADLOCK FALSE
INVARIANTS
    TypeOK
    QueueIsLedger
    DoorsFirst
    ThreeSendsBetweenDrops
    RetryBound
    OneOpenExchange
    CrashNeedsAnswer

PROPERTIES
    ImplementsLanes
    UnsentOnlyByMistake
