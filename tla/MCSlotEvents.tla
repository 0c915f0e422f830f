---------------------------- MODULE MCSlotEvents ----------------------------
(* SlotEvents on three threads and two slots. *)
EXTENDS SlotEvents, TLC

CONSTANTS t1, t2, t3, s1, s2

Symmetry == Permutations({t1, t2, t3}) \union Permutations({s1, s2})
=============================================================================
