CONSTANTS
  NBLOCK = 7
  NDIRECT = 1
  NINDIRECT = 3
  FILE2BLK = 1
  Names = {"a", "b", "d"}
  Images <- MCImages
  Paths <- MCPaths
  MaxSize = 2
SPECIFICATION Spec
INVARIANTS TypeOK NoSharedBlock BitmapExact BitmapOnDisk DirectoriesSound
PROPERTY Isolated
