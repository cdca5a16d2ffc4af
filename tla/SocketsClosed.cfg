\* Is a message ever sent to a closed channel?
CONSTANTS
  u1 = u1
  k1 = k1
  k2 = k2
  s1 = s1
  NoClient = NoClient
  NoUser = NoUser
  Users = {u1}
  Clients = {k1, k2}
  Admins = {u1}
  Senders = {s1}
  BufferSize = 1
SPECIFICATION Spec
SYMMETRY Symmetry
PROPERTIES
  NoSendOnClosed
