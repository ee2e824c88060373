CONSTANTS
  None = None
  Env = {"sh", "right", "lcmd", "rcmd"}
  MAXFD = 5
  PIPE_SIZE = 2
  Bytes = 3
  Chunk = 2
  Scenario <- Tested
SPECIFICATION FairSpec
INVARIANTS TypeOK Apart NoFalseEof Fifo
PROPERTY AllFinish
