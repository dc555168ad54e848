CONSTANTS
    t1 = t1
    t2 = t2
    deploy = deploy
    addArtifact = addArtifact
    low = low
    high = high
    stranger = stranger
    Thread <- MCThread
    Payload <- MCPayload
    GasPrice <- MCOnePrice
    Foreign <- MCForeign
    NoTx = NoTx
    MaxPast = 1
    MaxNonce = 4
    OneAtATime = TRUE
    AfterSync = TRUE
SPECIFICATION Spec
CHECK_DEADLOCK FALSE
INVARIANTS
    ResultsAreDistinct
    NoNonceError
PROPERTIES
    EveryCallReturns
    ImplementsLedger
