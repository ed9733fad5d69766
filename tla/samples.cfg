SPECIFICATION Spec
CONSTANTS
    NumSampleFrames = 5
    NumChannels = {2, 6, 8}
    Low <- MCLow
    Scale = 32
    Round = 2
    Inputs <- MCInputs
    SampleOffset = 1
    EraseEvery = 2
INVARIANTS
    TypeOK
    UnplayedIsKept
    NothingSoundsTwice
    RingsLoopTogether
    SpdifErasedAlike
