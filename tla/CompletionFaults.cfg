CONSTANTS
    t1 = t1
    t2 = t2
    doc1 = doc1
    doc2 = doc2
    student = student
    registrar = registrar
    nobody = nobody
    Address <- MCAddress
    NoAddress = nobody
    Content <- MCContent
    WordSize = 1000000
    Week = 1000
    Thread <- MCOneThread
    User <- MCUser
    Unilog = registrar
    Account <- MCOneAccount
    DocOf <- MCOneDoc
    None = None
    MaxChain = 6
    MaxFaults = 2
    OneAtATime = TRUE
    AfterSync = TRUE
SPECIFICATION Spec
CHECK_DEADLOCK FALSE
INVARIANTS
    TokenIsGood
    OneTokenPerUser
    SuccessIsTrue
    FaultFreeCompletion
PROPERTIES
    TokenIsKept
    EveryRequestAnswered
