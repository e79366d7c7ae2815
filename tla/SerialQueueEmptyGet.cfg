SPECIFICATION Spec
CONSTANTS
    openDoor = openDoor
    closeDoor = closeDoor
    getData = getData
    Command <- DoorAndPoll
    Address = {1}
    Function = {1, 2}
    DoorFunction = 1
    AddressOf <- MCAddressOf
    FunctionOf <- MCFunctionOf
    MaxAnswers = 1
\* An idle queue waits for a caller.
CHECK_DEADLOCK FALSE
INVARIANT
    SenderHasData
