\* Requests and sessions that come at most once each are interchangeable.
CONSTANTS
    Posts = {p1, p2}
    Builders = {b1}
    Bodies <- MCBodies
    Plain = {"tts", "stt"}
    EnvKey = FALSE
    Files <- MCFiles
    Flags <- MCFlags
    MaxCrashes = 1
    MaxErrors = 1
SYMMETRY Symmetry
SPECIFICATION ConfigSpec
INVARIANTS
    ConfigTypeOK
    SessionHasKey
    AcknowledgedSurvives
    RestartRefusedOnlyUnkeyed
    FileReadable
CHECK_DEADLOCK FALSE
