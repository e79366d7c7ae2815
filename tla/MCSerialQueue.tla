--------------------------- MODULE MCSerialQueue ---------------------------
(***************************************************************************)
(* One bin controller.  openDoor and closeDoor have the same address and   *)
(* function, the door function; getData polls the same controller.         *)
(***************************************************************************)
EXTENDS SerialQueue, TLC

CONSTANTS openDoor, closeDoor, getData

AllCommands  == {openDoor, closeDoor, getData}
DoorAndPoll  == {openDoor, getData}
MCAddressOf  == [c \in Command |-> 1]
MCFunctionOf == [c \in Command |-> IF c = getData THEN 2 ELSE 1]
=============================================================================
