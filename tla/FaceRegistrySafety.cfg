SPECIFICATION FaceSpec
CONSTANTS
    u1 = u1
    u2 = u2
    User = {u1, u2}
    MaxTokens = 2
    MaxJobs = 2
SYMMETRY Users
INVARIANTS
    FaceTypeOK
    FaceLogsInItsOwner
PROPERTIES
    RowsNameTheOwner
    RowsGoForTheirUser
    RowsKeepTheirFace
CHECK_DEADLOCK FALSE
