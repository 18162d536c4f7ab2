CONSTANTS
    Backends <- MCBackends
    MaxHistory = 3
    MaxPrompts = 2
    MaxCalls = 3
    MaxFaults = 1
SPECIFICATION DialogueSpec
INVARIANTS
    DialogueTypeOK
    OutputFollowsCall
    AnswersWithinLimit
    PromptsOnce
    CallsDistinct
PROPERTIES
    KnowledgeServed
CHECK_DEADLOCK FALSE
