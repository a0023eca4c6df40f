CONSTANTS
    MaxJobs = 1
    Pids = {p1, p2}
    NoPid = NoPid
    MaxJid = 1
SPECIFICATION FairSpec
PROPERTIES ChildrenReaped PromptComesBack
\* quit, SIGQUIT and the error exits end the shell.
CHECK_DEADLOCK FALSE
