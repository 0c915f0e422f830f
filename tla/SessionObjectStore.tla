------------------------- MODULE SessionObjectStore -------------------------
(***************************************************************************)
(* src/lib/object_store/SessionObjectStore.cpp and SessionObject.cpp: the  *)
(* set of session objects of all sessions, and the reference count that    *)
(* decides when an object is freed.  Every operation changes the set under *)
(* storeMutex and releases what it removed after the unlock; the release   *)
(* touches only the count and is part of the action.                       *)
(*                                                                         *)
(* A pointer is allocated once: life goes from unused to valid to invalid. *)
(***************************************************************************)
EXTENDS Naturals

CONSTANTS Objects, SlotOf

VARIABLES
  stored,   \* SessionObjectStore::objects, and allObjects: always the same set
  mem,      \* the fields of each object and the two attributes access depends on
  refCount  \* OSObject::refCount

Unused == [life |-> "unused"]
Gone   == [life |-> "invalid"]
Valid(o) == mem[o].life = "valid"

StoreInit ==
  /\ stored   = {}
  /\ mem      = [o \in Objects |-> Unused]
  /\ refCount = [o \in Objects |-> 0]

\* new SessionObject, with the defaults that P11Object::init gives CKA_TOKEN
\* and CKA_PRIVATE (the latter depends on the class of the object).
createObject(o, hSession, isPrivate, default) ==
  /\ mem[o] = Unused
  /\ stored'   = stored \union {o}
  /\ refCount' = [refCount EXCEPT ![o] = 1]
  /\ mem'      = [mem EXCEPT ![o] = [life |-> "valid", hSession |-> hSession,
                                     isPrivate |-> isPrivate,
                                     CKA_TOKEN |-> FALSE, CKA_PRIVATE |-> default]]

\* Invalidate the objects, take them out of the store, release them.
Remove(dead) ==
  /\ stored'   = stored \ dead
  /\ mem'      = [o \in Objects |-> IF o \in dead THEN Gone ELSE mem[o]]
  /\ refCount' = [o \in Objects |-> IF o \in dead THEN refCount[o] - 1 ELSE refCount[o]]

deleteObject(o) == Remove({o} \intersect stored)

\* Mutant: the objects of a closed session stay.
sessionClosed_Kept(hSession) == Remove({})

\* Mutant: the objects of every session go.
sessionClosed_WholeStore(hSession) == Remove(stored)

sessionClosed(hSession) == Remove({o \in stored : mem[o].hSession = hSession})

allSessionsClosed(slot) == Remove({o \in stored : SlotOf[o] = slot})

\* Mutant: private session objects survive a logout.
tokenLoggedOut_Kept(slot) == Remove({})

tokenLoggedOut(slot) == Remove({o \in stored : SlotOf[o] = slot /\ mem[o].isPrivate})

\* getObjects: the objects of the slot, acquired while the lock is held.
ObjectsOf(slot) == {o \in stored : SlotOf[o] = slot}
AcquireAll(objs) ==
  refCount' = [o \in Objects |-> IF o \in objs THEN refCount[o] + 1 ELSE refCount[o]]
ReleaseAll(objs) ==
  refCount' = [o \in Objects |-> IF o \in objs THEN refCount[o] - 1 ELSE refCount[o]]
=============================================================================
