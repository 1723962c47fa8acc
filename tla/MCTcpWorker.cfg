CONSTANTS
    NLines = 3
    SendBuf = 2
SPECIFICATION Spec
PROPERTY WorkerExits
CHECK_DEADLOCK FALSE
