CONSTANTS
  None = None
  Env = {"sh", "right", "lcmd", "rcmd"}
  MAXFD = 5
  PIPE_SIZE = 2
  Bytes = 3
  Chunk = 2
  Scenario <- Tested
SPECIFICATION Spec
INVARIANT ReadsAll
