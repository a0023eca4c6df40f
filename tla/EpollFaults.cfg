SPECIFICATION Spec
CONSTANTS
    Clients = {c1, c2}
    MaxStates = 2
    MaxObject = 2
    ResLen = 2
    Fds = {0, 4, 5, 6}
    Unused = Unused
    Stdin = Stdin
    Listen = Listen
    Faults = {"burst", "slow", "refuse", "eof", "reset"}
SYMMETRY ClientSymmetry
INVARIANTS TypeOK AnswerIsOwn NoLostEdge
CHECK_DEADLOCK FALSE
