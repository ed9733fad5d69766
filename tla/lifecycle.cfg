SPECIFICATION Spec
CONSTANTS
    Failures <- AllStages
    Kinds <- MCKinds
INVARIANTS
    TypeOK
    FaultsFollowHalfInit
    DmaIntoHeldBuffers
    FilterHasItsObjects
    NothingLeftBehind
CHECK_DEADLOCK FALSE
