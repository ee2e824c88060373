CONSTANTS
  e1 = e1
  e2 = e2
  a = a
  s = s
  u = u
  r1 = r1
  r2 = r2
  None = None
  Env = {e1, e2}
  Va = {a, s, u}
  Pinned = {s}
  Ucow = u
  Region = {r1}
  Pdx <- MCPdx1
  Pair <- MCPair
  Page = {p1, p2, p3, p4, p5}
  Block = {b1, b2}
  NSWAP = 1
  MAX_SWAPINFO = 4
  Data = {0}
  Zero = 0
SYMMETRY MCSym
SPECIFICATION LibSpec
INVARIANT AllReleased
