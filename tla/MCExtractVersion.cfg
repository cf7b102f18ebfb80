SPECIFICATION TalkSpec
CONSTANTS
    TurnIds = {1, 2, 3, 4, 5}
    ExtractIds = {x1, x2}
    MaxMemories = 3
    SampleTexts = {s}
    MemoryOpIds = {1, 2}
    Handlers = {h1, h2}
    HatchRounds = 1
    ReadyRounds = 2
    ChatLimit = 5
PROPERTIES MemoriesHaveVersion
CHECK_DEADLOCK FALSE
