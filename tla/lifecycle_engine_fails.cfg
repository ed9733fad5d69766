SPECIFICATION Spec
CONSTANTS
    Failures <- EngineStages
    Kinds <- MCKinds
INVARIANTS
    EngineFreesItsOwn
CHECK_DEADLOCK FALSE
