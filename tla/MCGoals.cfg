SPECIFICATION GoalsSpec
CONSTANTS
    Client = {a, b}
    Id = {g1, g2, g3}
    Zero = Zero
    MaxRecorded = 3
    MaxReplayed = 3
SYMMETRY Sym
INVARIANTS
    ResponseReachesItsGoal
    AgreementIsRenaming
CHECK_DEADLOCK FALSE
