\* The comment in the FunctionCallEvent branch: a single turn, nothing cancelled.
CONSTANTS
    MaxTurns = 1
    MaxSnapshots = 0
    MaxPrompts = 0
    MaxCancels = 0
    MaxStimuli = 1
    MaxToolCalls = 0
    MaxChunks = 1
    MaxAudio = 1
    LiveTranscription = TRUE
    SttDiscards = TRUE
    Failures = FALSE
    Interrupt = TRUE
SPECIFICATION SessionLiveSpec
PROPERTIES
    ResponsesGetDone
CHECK_DEADLOCK FALSE
