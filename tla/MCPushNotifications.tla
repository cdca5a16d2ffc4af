------------------------ MODULE MCPushNotifications ------------------------
(* Model checking PushNotifications and Accounts on a few accounts.         *)
EXTENDS PushNotifications, TLC

(* Addresses are interchangeable, and so are handlers.                      *)
Symmetry == Permutations(Emails) \cup Permutations(Handlers)

=============================================================================
