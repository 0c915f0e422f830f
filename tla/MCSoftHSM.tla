----------------------------- MODULE MCSoftHSM -----------------------------
(* SoftHSM on one slot, with one token object and one session object. *)
EXTENDS SoftHSM, TLC

CONSTANTS t1, t2, s1, tok, o1

Symmetry == Permutations({t1, t2})

OneSlot == tok :> s1 @@ o1 :> s1

\* Every function, from one thread.
OneCaller(t) ==
  [threads |-> {t},
   functions |-> {"C_OpenSession", "C_CloseSession", "C_CloseAllSessions", "C_Login", "C_SetPIN",
                  "C_Logout", "C_CreateObject", "C_CopyObject", "C_DestroyObject",
                  "C_FindObjectsInit", "C_FindObjects", "C_FindObjectsFinal", "C_Finalize"}]

\* Two threads, each with sessions of its own, that create and search.
TwoCallers ==
  [threads |-> {t1, t2},
   functions |-> {"C_OpenSession", "C_CloseSession", "C_CreateObject", "C_FindObjectsInit",
                  "C_FindObjects", "C_FindObjectsFinal"}]

MCWorkloads == {OneCaller(t1), OneCaller(t2), TwoCallers}

\* These applications are the ones that the proofs speak of.
ASSUME MCCareful == CarefulApplications
=============================================================================
