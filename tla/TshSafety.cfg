CONSTANTS
    MaxJobs = 2
    Pids = {p1, p2, p3}
    NoPid = NoPid
    MaxJid = 2
SPECIFICATION Spec
SYMMETRY PidSymmetry
INVARIANTS TypeOK ListedJobsUnreaped NoLostChildSignal AtMostOneFg BackgroundUntouched
PROPERTY ImplementsJobControl
\* quit, SIGQUIT and the error exits end the shell.
CHECK_DEADLOCK FALSE
