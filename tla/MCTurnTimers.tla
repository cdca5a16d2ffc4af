---------------------------- MODULE MCTurnTimers ----------------------------
(* Model checking TurnTimers on small sets of users and handlers.           *)
EXTENDS TurnTimers, TLC

(* Users are interchangeable, and so are handlers.                          *)
Symmetry == Permutations(Users) \cup Permutations(Handlers)

=============================================================================
