CONSTANTS
    MaxEvents = 3
    Actor <- MCActor
    Channel <- MCChannel
    Body <- MCBody
    Streams <- MCStreams
    Written <- Recordings
SPECIFICATION Spec
INVARIANTS
    TypeOK
    DecidesWellFormed
    NeverAShorterRecording
    TamperedIsRefused
    InterleavingCommitted
CHECK_DEADLOCK FALSE
