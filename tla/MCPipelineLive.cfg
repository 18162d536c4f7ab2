\* Every model call returns something; the second turn may interrupt the first.
CONSTANTS
    MaxTurns = 2
    MaxSnapshots = 1
    MaxPrompts = 0
    MaxCancels = 0
    MaxStimuli = 2
    MaxToolCalls = 1
    MaxChunks = 1
    MaxAudio = 1
    LiveTranscription = TRUE
    SttDiscards = TRUE
    Failures = FALSE
SPECIFICATION PipelineLiveSpec
PROPERTIES
    LastTurnAnswered
CHECK_DEADLOCK FALSE
