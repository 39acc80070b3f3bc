SPECIFICATION Spec
CONSTANTS
    Value = {"a", "b"}
    MaxRecorded = 4
    MaxEffects = 3
INVARIANTS
    VerifyCodeMeansAgreement
    PassRestsOnTheBaseline
CHECK_DEADLOCK FALSE
