----------------------------- MODULE MCTokenPin -----------------------------
(* TokenPin with the shortest retry counters, different for the two PINs. *)
EXTENDS TokenPin, TLC

CONSTANTS p1, p2

Symmetry == Permutations({p1, p2})
Short    == [u \in Users |-> 3]
Retries  == {Short, [u \in Users |-> IF u = "so" THEN 3 ELSE 4]}
=============================================================================
