\* Both connections of one user whose rows can deadlock.
CONSTANTS
  u1 = u1
  c1 = c1
  c2 = c2
  NoUser = NoUser
  NoConn = NoConn
  Users = {u1}
  Conns = {c1, c2}
  MaxEntries = 2
  PauseValues = {}
SPECIFICATION FairSpec
PROPERTIES
  EveryMethodReturns
