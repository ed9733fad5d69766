SPECIFICATION FairSpec
CONSTANTS
    SMP = TRUE
    FifoErrors = FALSE
    HasSPDIF = TRUE
    Concurrent = {}
    Rates <- MCRates
    NoRate = NoRate
    LoopMod = 3
PROPERTIES
    StartDoesNotCount
