CONSTANTS
    MaxEvents = 3
    Actor <- MCActor
    Channel <- MCChannel
    Body <- MCBody
    Streams <- MCStreams
    Written <- Recordings
SPECIFICATION Spec
INVARIANTS MissingEventRefused
CHECK_DEADLOCK FALSE
