CONSTANTS
    MaxJobs = 1
    Pids = {p1}
    NoPid = NoPid
    MaxJid = 1
SPECIFICATION FairSpec
PROPERTY WaitfgEnds
CHECK_DEADLOCK FALSE
