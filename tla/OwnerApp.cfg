CONSTANTS
    registrar = registrar
    student1 = student1
    student2 = student2
    doc1 = doc1
    doc2 = doc2
    nobody = nobody
    c1 = c1
    c2 = c2
    Address <- MCAddress
    NoAddress = nobody
    Content <- MCContent
    WordSize = 8
    Week = 1
    Unilog = registrar
    Deployed <- MCDeployed
    OwnerOf <- MCOwnerOf
    DocOf <- MCDocOf
    ValidFor = 1
    None = None
    MaxTime = 1
    MaxSubmissions = 2
    MaxVisits = 3
    MaxFaults = 1
    Account <- MCAccount
    MaxUses = 2
SPECIFICATION MCSpec
CONSTRAINT OneHalf
CHECK_DEADLOCK FALSE
INVARIANTS
    ShownIsGenuine
    PageIsCurrent
    RecordIsOfAccount
PROPERTY EditGoesToOpened
