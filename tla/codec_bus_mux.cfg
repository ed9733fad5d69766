SPECIFICATION Spec
CONSTANTS
    Tables <- MCTables
    Targets <- MCTargets
    DataFor <- MCDataFor
    Eeprom <- MCEeprom
    MaxPolls = 2
    None = None
    Default = Default
INVARIANTS
    SpdifStaysSelected
CHECK_DEADLOCK FALSE
