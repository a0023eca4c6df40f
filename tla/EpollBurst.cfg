SPECIFICATION Spec
CONSTANTS
    Clients = {c1, c2}
    MaxStates = 2
    MaxObject = 3
    ResLen = 2
    Fds = {0, 4, 5, 6, 7}
    Unused = Unused
    Stdin = Stdin
    Listen = Listen
    Faults = {"burst"}
INVARIANT NoneForgotten
CHECK_DEADLOCK FALSE
