SPECIFICATION FairSpec
CONSTANT
    Reason = {"ros_clock", "steady_clock", "future"}
INVARIANTS
    OneOwner
    ErrorIsTheOperations
PROPERTIES
    CallsReturn
    ImplementsCoroutine
