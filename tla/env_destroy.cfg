CONSTANTS
  e1 = e1
  e2 = e2
  e3 = e3
  e4 = e4
  NULL = NULL
  Head = Head
  Env = {e1, e2, e3, e4}
  Asid = {0, 1, 2}
  IDMOD = 8
  Boot = 2
  BootPri = {2}
SPECIFICATION SpawnSpec
SYMMETRY EnvSym
INVARIANT ListedIffRunnable
