SPECIFICATION FairSpec
CONSTANTS
    Agents = {a1}
    Lives = 2
    MaxRetries = 9
    AttemptMax = 12
    MaxFaults = 2
    MaxStarts = 1
INVARIANTS TypeOK BackoffSchedule RetriesHonoured ReadyIsRouted
PROPERTIES AgentStops DrainCompletes AgentReconnects
CHECK_DEADLOCK FALSE
