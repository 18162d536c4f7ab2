\* The claim of the docstring of ResponseDone: one turn, one text prompt, one cancel.
CONSTANTS
    MaxTurns = 1
    MaxSnapshots = 0
    MaxPrompts = 1
    MaxCancels = 1
    MaxStimuli = 3
    MaxToolCalls = 0
    MaxChunks = 1
    MaxAudio = 1
    LiveTranscription = TRUE
    SttDiscards = TRUE
    Failures = FALSE
    Interrupt = TRUE
SPECIFICATION SessionSpec
INVARIANTS
    FinishesItsOwnTurn
CHECK_DEADLOCK FALSE
