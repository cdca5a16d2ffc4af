\* Two changes whose broadcasts overlap, with reconnections and failures.
CONSTANTS
  u1 = u1
  a1 = a1
  Users = {u1}
  Admins = {a1}
  MaxChanges = 2
  Faults = {"database", "full", "panic", "restart"}
SPECIFICATION FairSpec
INVARIANTS
  TypeOK
  EveryChangeSeen
  SettledIsCurrent
PROPERTIES
  EveryChangeArrives
