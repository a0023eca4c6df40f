\* Four slots are the fewest with which the wrap of nextjid meets a job id
\* that is still in use.
CONSTANTS
    MaxJobs = 4
    Pids = {p1, p2, p3, p4}
    NoPid = NoPid
    MaxJid = 6
SPECIFICATION ListSpec
INVARIANT JidNamesOneJob
CHECK_DEADLOCK FALSE
