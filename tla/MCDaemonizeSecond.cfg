\* One CLI whose user types "daemonize" again after a timeout; the first
\* daemon may still come up.
\* Faults = TRUE; the CLI runs with the default port or with -p 12345.
CONSTANTS
    u1 = u1
    u2 = u2
    Clis <- MCOneCli
    MaxAttempts = 2
    WaitLimit = 1
    Faults = TRUE
    Hosts <- MCSupportedHost
    Argvs <- MCAnyArgv
    Numerals <- MCNumerals

SPECIFICATION Spec
CHECK_DEADLOCK FALSE

INVARIANT AtMostOneSession
