\* Two turn ids; messages are taken until five events are sent, which is a whole
\* response and the beginning of another.
CONSTANTS
    Turns = {1, 2}
    TextTypes = {"speech_started", "text", "call"}
    MaxSent = 5
    MaxCancels = 1
    MaxPrompts = 1
    Interrupt = TRUE
SPECIFICATION ServiceSpec
INVARIANTS
    ServiceTypeOK
    AudioOfItsTurn
    OneDeltaPerCancel
PROPERTIES
    ImplementsResponseProtocol
