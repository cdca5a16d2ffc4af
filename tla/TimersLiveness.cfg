\* A user who comes back, failures, a restart and pauses.
CONSTANTS
  u1 = u1
  h1 = h1
  NoUser = NoUser
  Users = {u1}
  Handlers = {h1}
  MaxEntries = 2
  Faults = {"database", "restart", "panic"}
  MaxRestarts = 1
  PauseValues = {TRUE, FALSE}
SPECIFICATION FairSpec
PROPERTIES
  EveryTurnEnds
  LifecycleSpec
