\* Any two transactions at a time, but a JoinQueue always alone.
CONSTANTS
  u1 = u1
  u2 = u2
  u3 = u3
  c1 = c1
  c2 = c2
  NoUser = NoUser
  NoConn = NoConn
  Users = {u1, u2, u3}
  Conns = {c1, c2}
  MaxEntries = 3
  PauseValues = {}
SPECIFICATION SerialJoinsSpec
SYMMETRY Symmetry
INVARIANTS
  ContiguousPositions
  OneEntryPerUser
  NoOvertaking
  FirstComeFirstCalled
PROPERTIES
  AtomicSpec
