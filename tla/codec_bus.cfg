SPECIFICATION FairSpec
CONSTANTS
    Tables <- MCTables
    Targets <- MCTargets
    DataFor <- MCDataFor
    Eeprom <- MCEeprom
    MaxPolls = 2
    None = None
    Default = Default
INVARIANTS
    TypeOK
    MuteFollowsSetUp
    CardIsIdentified
PROPERTIES
    WritesReachTheCodecs
    CallsReturn
CHECK_DEADLOCK FALSE
