\* Two CLI invocations: a stop and any command.
\* The system may really stop: every CLI has returned and every worker
\* has exited.
CONSTANTS
    k1 = k1
    k2 = k2
    k3 = k3
    NoClient = NoClient
    Clients <- MCTwoClients
    ProbeTimeout = 4
    ReadTimeout = 10
    UpTicks = 1
    TermTicks = 10
    LogsArgMax = 14

SPECIFICATION Spec
CHECK_DEADLOCK FALSE

INVARIANT NoFalseNotRunning
