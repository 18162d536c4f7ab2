\* The comment in LMOutputProcessor.process about a turn cancelled by barge-in.
CONSTANTS
    MaxTurns = 2
    MaxSnapshots = 0
    MaxPrompts = 0
    MaxCancels = 0
    MaxStimuli = 2
    MaxToolCalls = 0
    MaxChunks = 1
    MaxAudio = 1
    LiveTranscription = TRUE
    SttDiscards = TRUE
    Failures = FALSE
SPECIFICATION PipelineSpec
INVARIANTS
    CancelledNotSpoken
CHECK_DEADLOCK FALSE
