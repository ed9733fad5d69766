SPECIFICATION FairSpec
CONSTANTS
    SMP = FALSE
    FifoErrors = TRUE
    HasSPDIF = TRUE
    Concurrent = {}
    Rates <- MCRates
    NoRate = NoRate
    LoopMod = 3
INVARIANTS
    TypeOK
    IrqFollowsEngine
PROPERTIES
    CountsOnlyLoops
    CountsEveryLoop
    IrqLineFalls
