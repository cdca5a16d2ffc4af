\* Two registrations at a time, restarts, and the turns of a user.
CONSTANTS
  admin = admin
  user1 = user1
  n1 = n1
  e1 = e1
  e2 = e2
  h1 = h1
  h2 = h2
  NoEmail = NoEmail
  Names = {admin, user1, n1}
  AdminName = admin
  TestName = user1
  Emails = {e1, e2}
  Handlers = {h1, h2}
  Phones = {admin}
  Faults = {"database", "full", "panic", "restart"}
SPECIFICATION Spec
SYMMETRY Symmetry
INVARIANTS
  TypeOK
  AccountsDiffer
  AdminExists
  TurnIsAnnounced
  NoPushPanics
PROPERTIES
  AccountsAreKept
