SPECIFICATION BuildsSpec
CONSTANT MaxChanges = 3
INVARIANTS
    OnlyTheComponentDiffers
CHECK_DEADLOCK FALSE
