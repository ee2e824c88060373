CONSTANTS
  e1 = e1
  e2 = e2
  e3 = e3
  e4 = e4
  NULL = NULL
  Head = Head
  Env = {1, 2, 3, 4}
  Asid = {0, 1, 2}
  IDMOD = 5
  Boot = 3
  BootPri = {1, 2}
SPECIFICATION MCSpec
INVARIANTS TypeOK SchedListExact RecvBlocked SlotsExact NoPanic
PROPERTIES YieldSwitches NoStarvation
