SPECIFICATION FairSpec
CONSTANTS
    Main = main
    Workers = {w1, w2}
    Threads = {main, w1, w2}
    Fds = {4, 5, 6, 7}
    Failed = failed
    Items = {4, 5, 6, 7, failed}
    NoItem = none
    N = 2
    MaxAccepts = 5
INVARIANTS TypeOK OneHolder
PROPERTIES ImplementsFifo ConnectionsServed
CHECK_DEADLOCK FALSE
