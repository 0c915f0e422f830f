----------------------------- MODULE MCDBStore -----------------------------
EXTENDS DBStore, TLC
CONSTANTS p1, p2, t1, t2, o1, o2

TwoProcesses == (t1 :> p1) @@ (t2 :> p2)
=============================================================================
