SPECIFICATION Spec
CONSTANTS
    other = other
    kitchen = kitchen
    alice = alice
    bob = bob
    Door <- TwoDoors
    OtherDoor = other
    KitchenDoor = kitchen
    User <- TwoUsers
    MaxTouches = 1
    MaxLogins = 0
    MaxPosted = 1
\* A session that has ended stays ended.
CHECK_DEADLOCK FALSE
PROPERTY
    ExitClosesAllDoors
