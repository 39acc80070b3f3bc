SPECIFICATION Spec
CONSTANTS
    MaxRecorded = 3
    MaxEffects = 2
INVARIANTS
    RunDecodes
    InputsAreTheConsumedPrefix
    EffectsHaveACause
CHECK_DEADLOCK FALSE
