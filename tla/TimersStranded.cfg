\* No failure at all: does every turn end?
CONSTANTS
  u1 = u1
  h1 = h1
  NoUser = NoUser
  Users = {u1}
  Handlers = {h1}
  MaxEntries = 1
  Faults = {}
  MaxRestarts = 0
  PauseValues = {}
SPECIFICATION FairSpec
PROPERTIES
  NobodyKeepsTheTurn
