-------------------------- MODULE MCHandleManager --------------------------
(* HandleManager on two slots with one token object and two session objects. *)
EXTENDS HandleManager, TLC

CONSTANTS s1, s2, p1, t1, o1, o2

MCSlotOf == t1 :> s1 @@ o1 :> s1 @@ o2 :> s2
=============================================================================
