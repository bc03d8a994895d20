SPECIFICATION FairSpec
CONSTANTS
    Requests = {q1}
    Limit = 1
    Wrap = 4
    Body = 3
    Window = 2
    QueueFills = FALSE
    ReadsBody = FALSE
    MayBreak = TRUE
INVARIANTS AnswersMove UploadWhole
PROPERTIES ImplementsPipe RequestAnswered StreamsReleased AgentTasksEnd TasksEndWithSession
CHECK_DEADLOCK FALSE
