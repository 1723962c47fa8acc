CONSTANTS
    NLines = 3
    SendBuf = 2
SPECIFICATION Spec
INVARIANT RepliesMatchLines
CHECK_DEADLOCK FALSE
