CONSTANTS
    student = student
    stranger = stranger
    registrar = registrar
    nobody = nobody
    doc1 = doc1
    doc2 = doc2
    Address <- MCAddress
    NoAddress = nobody
    Content <- MCContent
    Unilog = registrar
    Validity <- MCValidity
    WordSize = 16
    Week = 2
    MaxArtifacts = 2
    MaxTime = 5
SPECIFICATION TwinSpec
INVARIANTS
    TypeOK
    UnilogNeverRemoves
    PeriodHonoured
    AgreeUnlessRemoved
PROPERTY AnswersOnlyDecay
