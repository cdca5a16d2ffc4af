------------------------- MODULE MCQueueRepository -------------------------
(* Model checking QueueRepository on small sets of users and connections.   *)
EXTENDS QueueRepository, TLC

(* Users are interchangeable, and so are connections.                       *)
Symmetry == Permutations(Users) \cup Permutations(Conns)

=============================================================================
