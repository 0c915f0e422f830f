---------------------------- MODULE HandleTable ----------------------------
(***************************************************************************)
(* What a PKCS#11 application is promised about handles, with no secondary *)
(* index and no counter: a table of live handles, a set of handles that    *)
(* have been issued, and cleanup rules stated by looking at every entry.   *)
(* HandleManager implements this specification with its indexes.           *)
(***************************************************************************)
EXTENDS Naturals

CONSTANTS Slots,      \* slot identifiers (CK_SLOT_ID)
          Sessions,   \* Session objects (pointers)
          Objects,    \* OSObject pointers
          MaxHandle   \* bound: handles are taken from 1..MaxHandle

VARIABLES table,      \* handle -> entry, NoEntry when the handle is dead
          issued      \* every handle that was ever given out

vars == <<table, issued>>

Handles  == 1..MaxHandle
Invalid  == 0         \* CK_INVALID_HANDLE
NoEntry  == [kind |-> "none"]

SessionEntry(slot, session) ==
  [kind |-> "session", slotID |-> slot, session |-> session]

\* owner is the session handle of a session object, Invalid for a token object.
ObjectEntry(slot, owner, private, object) ==
  [kind |-> "object", slotID |-> slot, hSession |-> owner,
   isPrivate |-> private, object |-> object]

IsSession(h) == table[h].kind = "session"
IsObject(h)  == table[h].kind = "object"

SessionsOf(slot) == {h \in Handles : IsSession(h) /\ table[h].slotID = slot}
HandlesOf(slot)  == {h \in Handles : table[h] # NoEntry /\ table[h].slotID = slot}
ObjectsOf(hs)    == {h \in Handles : IsObject(h) /\ table[h].hSession = hs}
PrivateOf(slot)  == {h \in HandlesOf(slot) : IsObject(h) /\ table[h].isPrivate}

Registered(object) == \E h \in Handles : IsObject(h) /\ table[h].object = object
-----------------------------------------------------------------------------
Init == table = [h \in Handles |-> NoEntry] /\ issued = {}

Issue(h, entry) ==
  /\ h \notin issued
  /\ issued' = issued \union {h}
  /\ table'  = [table EXCEPT ![h] = entry]

Forget(dead) ==
  /\ table'  = [h \in Handles |-> IF h \in dead THEN NoEntry ELSE table[h]]
  /\ issued' = issued

OpenSession ==
  \E h \in Handles, s \in Slots, p \in Sessions : Issue(h, SessionEntry(s, p))

\* An object has at most one live handle.
RegisterObject ==
  \E h \in Handles, s \in Slots, owner \in issued \union {Invalid},
     private \in BOOLEAN, o \in Objects :
       /\ ~ Registered(o)
       /\ Issue(h, ObjectEntry(s, owner, private, o))

DestroyObject == \E h \in Handles : IsObject(h) /\ Forget({h})

\* A session takes its session objects with it, and the last session of a
\* slot takes every handle of the slot.
CloseSession ==
  \E h \in Handles :
    /\ IsSession(h)
    /\ LET slot == table[h].slotID
       IN  Forget(IF SessionsOf(slot) = {h} THEN HandlesOf(slot)
                                            ELSE {h} \union ObjectsOf(h))

CloseAllSessions == \E s \in Slots : Forget(HandlesOf(s))

Logout == \E s \in Slots : Forget(PrivateOf(s))

Next == \/ OpenSession \/ RegisterObject \/ DestroyObject
        \/ CloseSession \/ CloseAllSessions \/ Logout

Spec == Init /\ [][Next]_vars
=============================================================================
