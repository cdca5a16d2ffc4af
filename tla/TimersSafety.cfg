\* Two requests and every timer at once; failures and a restart.
CONSTANTS
  u1 = u1
  u2 = u2
  h1 = h1
  h2 = h2
  NoUser = NoUser
  Users = {u1, u2}
  Handlers = {h1, h2}
  MaxEntries = 2
  Faults = {"database", "restart", "panic"}
  MaxRestarts = 1
  PauseValues = {}
SPECIFICATION Spec
SYMMETRY Symmetry
INVARIANTS
  TypeOK
  EveryTurnIsTimed
PROPERTIES
  NoEarlyTimeout
  NextIsCalled
