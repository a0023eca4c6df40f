CONSTANTS
  RIO_BUFSIZE = 2
  MAXLINE = 3
  IsNewline <- Newline
  Clients <- Client12
  Script <- Script12
  NAgents = 2
  SBUFSIZE = 1
  Kinds = {"iterative", "process", "thread", "prethreaded"}
  None = None
SPECIFICATION FairSpec
INVARIANTS TypeOK LinesIntact EchoedInOrder CountIsSum ZombieSignalled
PROPERTY Echoed
CHECK_DEADLOCK FALSE
