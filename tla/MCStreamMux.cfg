SPECIFICATION Spec
CONSTANTS
    Requests = {q1, q2}
    Limit = 1
    Wrap = 4
    Body = 0
    Window = 1
    QueueFills = TRUE
    ReadsBody = TRUE
    MayBreak = TRUE
SYMMETRY RequestSymmetry
INVARIANTS TypeOK StreamsCounted LimitHeld
CHECK_DEADLOCK FALSE
