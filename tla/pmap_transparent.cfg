CONSTANTS
  e1 = e1
  e2 = e2
  a = a
  s = s
  u = u
  r1 = r1
  r2 = r2
  None = None
  Env = {e1}
  Va = {a, s, u}
  Pinned = {s}
  Ucow = u
  Region = {r1, r2}
  Pdx <- MCPdx
  Pair <- MCPair
  Page = {p1, p2, p3, p4}
  Block = {b1}
  NSWAP = 2
  MAX_SWAPINFO = 2
  Data = {0, 1}
  Zero = 0
SPECIFICATION FairSpec
INVARIANT IInv
PROPERTIES SwapTransparent HandlerEnds
