SPECIFICATION FairSpec
CONSTANTS
    SMP = TRUE
    FifoErrors = FALSE
    HasSPDIF = TRUE
    Concurrent = {"PDMA1"}
    Rates <- MCRates
    NoRate = NoRate
    LoopMod = 3
INVARIANTS
    DmaFollowsEngine
    IrqFollowsEngine
PROPERTIES
    IrqLineFalls
