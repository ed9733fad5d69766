SPECIFICATION Spec
CONSTANTS
    Cards <- SeparateRegisters
    Default = Default
    Offsets = {0}
INVARIANTS
    TypeOK
    VolumesReachTheCodec
    SeparateMutesReachTheCodec
