SPECIFICATION Spec
CONSTANTS
    Cards = {"Revo71"}
    Default = Default
    Offsets = {0}
INVARIANTS
    VolumesReachTheCodec
