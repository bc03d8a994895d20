SPECIFICATION FairSpec
CONSTANTS
    Agents = {a1}
    Lives = 2
    MaxRetries = 0
    AttemptMax = 8
    MaxFaults = 1
    MaxStarts = 0
PROPERTY TunnelComesBack
CHECK_DEADLOCK FALSE
