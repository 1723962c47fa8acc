CONSTANTS
    c1 = c1
    c2 = c2
    Configs <- MCConfigs
    ExistingConfigs <- MCExistingConfigs
    MaxSessions = 1
    MaxLines = 3
    Threshold = 2
    PollLimit = 2
    Seconds = {0}

SPECIFICATION Spec

INVARIANT NoSignalAfterReap
