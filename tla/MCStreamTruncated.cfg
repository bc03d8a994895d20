SPECIFICATION Spec
CONSTANTS
    Requests = {q1}
    Limit = 1
    Wrap = 4
    Body = 2
    Window = 2
    QueueFills = FALSE
    ReadsBody = TRUE
    MayBreak = TRUE
INVARIANT CleanEndIsComplete
CHECK_DEADLOCK FALSE
