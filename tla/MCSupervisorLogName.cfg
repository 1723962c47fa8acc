CONSTANTS
    c1 = c1
    c2 = c2
    Configs <- MCConfigs
    ExistingConfigs <- MCExistingConfigs
    MaxSessions = 2
    MaxLines = 3
    Threshold = 2
    PollLimit = 2
    Seconds = {0, 1}

SPECIFICATION Spec

INVARIANT LogsKept
