SPECIFICATION FairSpec
CONSTANTS
    other = other
    kitchen = kitchen
    alice = alice
    bob = bob
    Door <- TwoDoors
    OtherDoor = other
    KitchenDoor = kitchen
    User <- OneUser
    MaxTouches = 2
    MaxLogins = 0
    MaxPosted = 1
\* A session that has ended stays ended.
CHECK_DEADLOCK FALSE
PROPERTY
    EverySessionEnds
