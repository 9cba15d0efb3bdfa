------------------------------ MODULE MCQueue ------------------------------
(* Instances of QueueManager for TLC. *)
EXTENDS QueueManager, TLC

CONSTANTS p1, p2, r1, r2

OnePlace == {<<p1, r1>>}
TwoPlaces == {<<p1, r1>>, <<p2, r2>>}

(* Users and items are interchangeable wherever no user is singled out. *)
Symmetric == Permutations(Users) \cup Permutations(Items)
ItemSymmetric == Permutations(Items)
============================================================================
