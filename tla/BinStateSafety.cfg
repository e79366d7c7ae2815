SPECIFICATION BinSpec
CONSTANTS
    Address = {1, 2, 3}
    Table <- TwoBins
    Base = 2
    MaxWeight = 2
    MaxSessions = 2
    MaxSettlements = 1
    MaxRecords = 1
CHECK_DEADLOCK FALSE
INVARIANTS
    BinTypeOK
    RowsKeepIdentity
    OnlyReadBinsAreCharged
    RecordsMeasureTheirBin
PROPERTY
    KeptBeansStay
