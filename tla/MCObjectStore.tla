--------------------------- MODULE MCObjectStore ---------------------------
(* ObjectStore with two processes. *)
EXTENDS ObjectStore, TLC

CONSTANTS p1, p2, o1, o2, token

\* Bounds on writings: an object is created with four writings.
OneUpdate   == [f \in Files |-> IF f = Token THEN 3 ELSE 5]
TwoAttempts == [f \in Files |-> IF f = Token THEN 5 ELSE 1]

Symmetry == Permutations({p1, p2})
=============================================================================
