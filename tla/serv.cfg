CONSTANTS
  NBLOCK = 8
  NDIRECT = 2
  NINDIRECT = 3
  FILE2BLK = 2
  Names = {"a", "b", "c"}
  Client = {"p", "q"}
  MAXOPEN = 2
  MAXFD = 3
  Scripts <- MCScripts
SPECIFICATION FairSpec
INVARIANTS TypeOK MapsOwnFile  OneAnswer
PROPERTIES CloseSaves AllEnd
