\* Any two transactions at a time, overlapping joins included.
CONSTANTS
  u1 = u1
  u2 = u2
  c1 = c1
  c2 = c2
  NoUser = NoUser
  NoConn = NoConn
  Users = {u1, u2}
  Conns = {c1, c2}
  MaxEntries = 2
  PauseValues = {TRUE, FALSE}
SPECIFICATION Spec
SYMMETRY Symmetry
INVARIANTS
  TypeOK
  PositionsPositive
PROPERTIES
  OneTurnPerCall
  OneDeparturePerEntry
  LifecycleSpec
