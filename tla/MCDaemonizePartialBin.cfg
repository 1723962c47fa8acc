\* One CLI whose user types "daemonize" again after a timeout.
\* Faults = TRUE.
CONSTANTS
    u1 = u1
    u2 = u2
    Clis <- MCOneCli
    MaxAttempts = 2
    WaitLimit = 1
    Faults = TRUE
    Hosts <- MCSupportedHost
    Argvs <- MCDefaultArgv
    Numerals <- MCNumerals

SPECIFICATION Spec
CHECK_DEADLOCK FALSE

INVARIANT NoPartialBinaryExec
