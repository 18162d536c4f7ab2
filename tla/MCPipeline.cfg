\* Two turns, so that the second interrupts the first at any point.
CONSTANTS
    MaxTurns = 2
    MaxSnapshots = 1
    MaxPrompts = 1
    MaxCancels = 1
    MaxStimuli = 2
    MaxToolCalls = 1
    MaxChunks = 2
    MaxAudio = 2
    LiveTranscription = TRUE
    SttDiscards = FALSE
    Failures = TRUE
SPECIFICATION PipelineLiveSpec
INVARIANTS
    PipelineTypeOK
    CausalOrder
    CancelStopsSpeech
    ProcessorClean
PROPERTIES
    EventuallyQuiet
CHECK_DEADLOCK FALSE
