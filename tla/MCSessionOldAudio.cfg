\* The claim of scripts/test_barge_in.py: two turns, the second interrupts.
CONSTANTS
    MaxTurns = 2
    MaxSnapshots = 0
    MaxPrompts = 0
    MaxCancels = 0
    MaxStimuli = 2
    MaxToolCalls = 0
    MaxChunks = 1
    MaxAudio = 1
    LiveTranscription = TRUE
    SttDiscards = TRUE
    Failures = FALSE
    Interrupt = TRUE
SPECIFICATION SessionSpec
INVARIANTS
    NoOldAudioAfterBargeIn
CHECK_DEADLOCK FALSE
