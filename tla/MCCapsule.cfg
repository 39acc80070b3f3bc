SPECIFICATION Spec
CONSTANTS
    Recording = {"r1", "r2", "r3"}
    EffectsOf <- MCEffectsOf
    Params = {"p1", "p2"}
    AngleOf <- MCAngleOf
    Deliveries = {"d1", "d2"}
    Cell = {"c1", "c2"}
    Decides <- MCDecides
    Heartbeats = {"h1", "h2", "h3", "h4"}
    StreamOf <- MCStreamOf
    Payload = {"x", "y"}
    MaxEdits = 4
INVARIANTS
    ExpectedCommitsTheRun
    ProgramsAgree
CHECK_DEADLOCK FALSE
