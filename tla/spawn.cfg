CONSTANTS
  PAGE_SIZE = 32
  NPAGE = 8
  Segments <- MCSegments
  Args <- MCArgs
  Library = {0, 2}
SPECIFICATION Spec
INVARIANTS TypeOK ChildComplete StackFits NoLeak
