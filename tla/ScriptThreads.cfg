CONSTANTS
    NULL = NULL
    e1 = e1
    Entities <- MCEntities
    MaxThreads = 3
    Labels = {"a", "b"}
    LabelLists <- MCLabelLists
    TimeoutLabel = "1"
    Delays = {1}
    FrameTime = 2
    MaxCommands = 5
SPECIFICATION Spec
INVARIANTS
    NobodyForgotten
    ExecutionSound
