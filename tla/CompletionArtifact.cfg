CONSTANTS
    t1 = t1
    t2 = t2
    doc1 = doc1
    doc2 = doc2
    student = student
    registrar = registrar
    nobody = nobody
    Address <- MCAddress
    NoAddress = nobody
    Content <- MCContent
    WordSize = 1000000
    Week = 1000
    Thread <- MCThread
    User <- MCUser
    Unilog = registrar
    Account <- MCOneAccount
    DocOf <- MCDocs
    None = None
    MaxChain = 2
    MaxFaults = 0
    OneAtATime = FALSE
    AfterSync = TRUE
SPECIFICATION Spec
CHECK_DEADLOCK FALSE
INVARIANT ArtifactIdIsZero
