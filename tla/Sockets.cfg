\* A user who reconnects while old connections are still closing.
CONSTANTS
  u1 = u1
  k1 = k1
  k2 = k2
  k3 = k3
  s1 = s1
  NoClient = NoClient
  NoUser = NoUser
  Users = {u1}
  Clients = {k1, k2, k3}
  Admins = {u1}
  Senders = {s1}
  BufferSize = 1
SPECIFICATION FairSpec
INVARIANTS
  TypeOK
  MapHasOpenChannels
  LiveIsReachable
PROPERTIES
  EndedIsForgotten
  WritersEnd
