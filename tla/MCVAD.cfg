\* Two units to a frame, so that chunks and frames are out of step; an utterance
\* needs two frames of speech; a snapshot every second frame; the hangover is
\* none at all or two frames.
CONSTANTS
    FrameLen = 2
    FrameMs = 32
    MinSpeechMs = 64
    SilenceChoices = {0, 64}
    ProgressEvery = 2
    MaxItems = 8
SPECIFICATION Spec
INVARIANTS
    TypeOK
    BufferBelowFrame
    UtteranceIntact
    NoSharedAudio
    EventProtocol
    CommittedIsTranscribed
PROPERTIES
    ImplementsTurnSegmenter
\* The bound MaxItems ends every behaviour.
CHECK_DEADLOCK FALSE
