\* Two of: a user turn, another one, a text prompt, a cancel by the client.
CONSTANTS
    MaxTurns = 2
    MaxSnapshots = 0
    MaxPrompts = 1
    MaxCancels = 1
    MaxStimuli = 2
    MaxToolCalls = 0
    MaxChunks = 1
    MaxAudio = 1
    LiveTranscription = TRUE
    SttDiscards = TRUE
    Failures = FALSE
    Interrupt = TRUE
SPECIFICATION SessionLiveSpec
INVARIANTS
    SpokenInOrder
PROPERTIES
    EverythingDelivered
CHECK_DEADLOCK FALSE
