------------------------ MODULE MCWebSocketManager ------------------------
(* Model checking WebSocketManager on small sets of connections.            *)
EXTENDS WebSocketManager, TLC

(* Connections are interchangeable.                                         *)
Symmetry == Permutations(Clients)

=============================================================================
