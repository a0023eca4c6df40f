CONSTANTS
    MaxJobs = 1
    Pids = {p1}
    NoPid = NoPid
    MaxJid = 1
SPECIFICATION Spec
INVARIANT StateMatchesProcess
CHECK_DEADLOCK FALSE
