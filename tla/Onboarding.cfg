CONSTANTS
    t1 = t1
    t2 = t2
    anna = anna
    qub = qub
    x = x
    y = y
    Thread <- MCThread
    Email <- MCEmail
    Account <- MCAccount
    Password <- MCPassword
    Upload <- MCUpload
    Predefined <- MCPredefined
    None = None
    MaxCodes = 2
    MaxFaults = 1
SPECIFICATION Spec
CHECK_DEADLOCK FALSE
SYMMETRY MCSymmetry
INVARIANTS
    LoginMatchesDatabase
    TranscriptsHaveOwners
    RowsWereMailed
PROPERTY FirstRegistrationStands
