\* Two CLIs, one attempt each: two daemons, with every fault enabled.
\* The system may really stop: both CLIs back at the prompt and every
\* daemon exited or failed.
CONSTANTS
    u1 = u1
    u2 = u2
    Clis <- MCTwoClis
    MaxAttempts = 1
    WaitLimit = 2
    Faults = TRUE
    Hosts <- MCAnyHost
    Argvs <- MCAnyArgv
    Numerals <- MCNumerals

SPECIFICATION Spec
CHECK_DEADLOCK FALSE

INVARIANT TypeOK


PROPERTY CmdDaemonizeReturns
