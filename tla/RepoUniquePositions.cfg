\* Overlapping joins of one user: is a position given out once?
CONSTANTS
  u1 = u1
  c1 = c1
  c2 = c2
  NoUser = NoUser
  NoConn = NoConn
  Users = {u1}
  Conns = {c1, c2}
  MaxEntries = 2
  PauseValues = {}
SPECIFICATION Spec
SYMMETRY Symmetry
INVARIANTS
  ContiguousPositions
