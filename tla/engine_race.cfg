SPECIFICATION FairSpec
CONSTANTS
    SMP = TRUE
    FifoErrors = TRUE
    HasSPDIF = TRUE
    Concurrent = {}
    Rates <- MCRates
    NoRate = NoRate
    LoopMod = 3
INVARIANTS
    OnlyPlaybackIrqUnmasked
    DmaFollowsEngine
