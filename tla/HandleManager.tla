--------------------------- MODULE HandleManager ---------------------------
(***************************************************************************)
(* src/lib/handle_mgr: the table that turns session and object handles     *)
(* into pointers, with its three secondary indexes.  Every operation runs  *)
(* under handlesMutex, so each one is a single action; the releases that   *)
(* the code performs after the unlock touch only the reference counts and  *)
(* are part of the action.                                                 *)
(*                                                                         *)
(* A std::map is a total function here: an absent key of handles is        *)
(* NoHandle, of objects Invalid, of a set-valued index {}, of the session  *)
(* counter 0.  The code never tells an absent set from an empty one.       *)
(***************************************************************************)
EXTENDS Naturals, FiniteSets

CONSTANTS
  Slots,         \* slot identifiers
  Sessions,      \* Session pointers
  Objects,       \* OSObject pointers
  TokenObjects,  \* those that are token objects; the others are session objects
  SlotOf,        \* the slot whose token or session store owns each object
  MaxHandle,     \* bound on handleCounter
  Racing         \* TRUE: a thread may register an object after another thread
                 \* closed the session it looked up (no lock spans both calls)

VARIABLES
  handles,               \* handle -> Handle
  objects,               \* OSObject* -> handle
  sessionObjectHandles,  \* session handle -> handles of its session objects
  slotHandles,           \* slot -> all handles of the slot
  slotSessionCount,      \* slot -> number of open sessions
  handleCounter,         \* last handle issued
  refCount               \* OSObject::refCount

indexes == <<objects, sessionObjectHandles, slotHandles, slotSessionCount>>
vars    == <<handles, indexes, handleCounter, refCount>>

Handles  == 1..MaxHandle
Invalid  == 0
NoHandle == [kind |-> "none"]

ASSUME ConstantsOK ==
  /\ MaxHandle \in Nat
  /\ TokenObjects \subseteq Objects
  /\ SlotOf \in [Objects -> Slots]
  /\ Racing \in BOOLEAN

SessionHandle == [kind : {"session"}, slotID : Slots, session : Sessions]
ObjectHandle  == [kind : {"object"}, slotID : Slots,
                  hSession : Handles \union {Invalid},
                  isPrivate : BOOLEAN, object : Objects]

Live(h)      == handles[h].kind # "none"
IsSession(h) == handles[h].kind = "session"
IsObject(h)  == handles[h].kind = "object"

\* The object of a handle is a session object: Handle.hSession != CK_INVALID_HANDLE.
OwnedBySession(h) == IsObject(h) /\ handles[h].hSession # Invalid

SessionsOn(slot) == {h \in Handles : IsSession(h) /\ handles[h].slotID = slot}
ObjectsIn(hs) == {handles[h].object : h \in {k \in hs : IsObject(k)}}
-----------------------------------------------------------------------------
TablesInit ==
  /\ handles              = [h \in Handles |-> NoHandle]
  /\ objects              = [o \in Objects |-> Invalid]
  /\ sessionObjectHandles = [h \in Handles |-> {}]
  /\ slotHandles          = [s \in Slots |-> {}]
  /\ slotSessionCount     = [s \in Slots |-> 0]
  /\ handleCounter        = 0

\* Every object starts with the reference of the store that created it.
Init == TablesInit /\ refCount = [o \in Objects |-> 1]

Acquire(o)    == refCount' = [refCount EXCEPT ![o] = @ + 1]
Release(objs) == refCount' = [o \in Objects |->
                                IF o \in objs THEN refCount[o] - 1 ELSE refCount[o]]

\* Mutant: the new handle is the number of live handles plus one.
NewHandle_Reuse(entry) ==
  LET h == Cardinality({k \in Handles : Live(k)}) + 1
  IN  /\ handleCounter < MaxHandle
      /\ handleCounter' = handleCounter + 1
      /\ handles'       = [handles EXCEPT ![h] = entry]
      /\ slotHandles'   = [slotHandles EXCEPT ![entry.slotID] = @ \union {h}]

\* handles[++handleCounter] = entry; slotHandles[slotID].insert(handleCounter)
NewHandle(entry) ==
  /\ handleCounter < MaxHandle
  /\ handleCounter' = handleCounter + 1
  /\ handles'       = [handles EXCEPT ![handleCounter + 1] = entry]
  /\ slotHandles'   = [slotHandles EXCEPT ![entry.slotID] = @ \union {handleCounter + 1}]

addSession(slot, session) ==
  /\ NewHandle([kind |-> "session", slotID |-> slot, session |-> session])
  /\ slotSessionCount' = [slotSessionCount EXCEPT ![slot] = @ + 1]
  /\ UNCHANGED <<objects, sessionObjectHandles, refCount>>

\* The object has a handle already: it is the result, unless the entry is
\* not an object handle of this slot; then the index entry is dropped and the
\* result is CK_INVALID_HANDLE.
AlreadyRegistered(slot, object) ==
  LET h == objects[object]
  IN  /\ h # Invalid
      /\ objects' = IF IsObject(h) /\ handles[h].slotID = slot
                      THEN objects
                      ELSE [objects EXCEPT ![object] = Invalid]
      /\ UNCHANGED <<handles, sessionObjectHandles, slotHandles, slotSessionCount,
                     handleCounter, refCount>>

NewObjectHandle(slot, hSession, isPrivate, object) ==
  /\ objects[object] = Invalid
  /\ NewHandle([kind |-> "object", slotID |-> slot, hSession |-> hSession,
                isPrivate |-> isPrivate, object |-> object])
  /\ objects' = [objects EXCEPT ![object] = handleCounter + 1]

\* Mutant: the per-session index is not updated.
addSessionObject_NotIndexed(slot, hSession, isPrivate, object) ==
  \/ AlreadyRegistered(slot, object)
  \/ /\ NewObjectHandle(slot, hSession, isPrivate, object)
     /\ Acquire(object)
     /\ UNCHANGED <<sessionObjectHandles, slotSessionCount>>

addSessionObject(slot, hSession, isPrivate, object) ==
  \/ AlreadyRegistered(slot, object)
  \/ /\ NewObjectHandle(slot, hSession, isPrivate, object)
     /\ sessionObjectHandles' =
          [sessionObjectHandles EXCEPT ![hSession] = @ \union {handleCounter + 1}]
     /\ Acquire(object)
     /\ UNCHANGED slotSessionCount

addTokenObject(slot, isPrivate, object) ==
  \/ AlreadyRegistered(slot, object)
  \/ /\ NewObjectHandle(slot, Invalid, isPrivate, object)
     /\ UNCHANGED <<sessionObjectHandles, slotSessionCount, refCount>>
-----------------------------------------------------------------------------
\* Mutant: the object index keeps its entries.
Erase_ObjectsKept(dead) ==
  /\ handles' = [h \in Handles |-> IF h \in dead THEN NoHandle ELSE handles[h]]
  /\ UNCHANGED <<objects, handleCounter>>

\* handles.erase of every handle in dead, and objects.erase of their objects.
Erase(dead) ==
  /\ handles' = [h \in Handles |-> IF h \in dead THEN NoHandle ELSE handles[h]]
  /\ objects' = [o \in Objects |-> IF o \in ObjectsIn(dead) THEN Invalid ELSE objects[o]]
  /\ UNCHANGED handleCounter

destroyObject(h) ==
  /\ IsObject(h)
  /\ Erase({h})
  /\ slotHandles' = [slotHandles EXCEPT ![handles[h].slotID] = @ \ {h}]
  /\ IF OwnedBySession(h)
       THEN /\ sessionObjectHandles' =
                 [sessionObjectHandles EXCEPT ![handles[h].hSession] = @ \ {h}]
            /\ Release({handles[h].object})
       ELSE UNCHANGED <<sessionObjectHandles, refCount>>
  /\ UNCHANGED slotSessionCount

\* The part of sessionClosed that every close performs, for session hs with
\* the live session-object handles own of its index entry.
ForgetSession(hs, own, slot) ==
  /\ Erase({hs} \union own)
  /\ slotHandles' = [slotHandles EXCEPT ![slot] = @ \ ({hs} \union own)]
  /\ sessionObjectHandles' = [sessionObjectHandles EXCEPT ![hs] = {}]
  /\ Release(ObjectsIn(own))
  /\ slotSessionCount' = [slotSessionCount EXCEPT ![slot] = IF @ > 0 THEN @ - 1 ELSE 0]

\* Mutant: the session counter of the slot is not erased.
ForgetSlot_CountKept(slot, own) ==
  LET indexed == {h \in slotHandles[slot] : Live(h)}
      dead    == indexed \union own
  IN  /\ Erase(dead)
      /\ Release(ObjectsIn({h \in indexed : OwnedBySession(h)} \union own))
      /\ sessionObjectHandles' =
           [h \in Handles |-> IF h \in dead /\ IsSession(h) THEN {}
                                                            ELSE sessionObjectHandles[h]]
      /\ slotHandles' = [slotHandles EXCEPT ![slot] = {}]
      /\ UNCHANGED slotSessionCount

\* allSessionsClosed(slot), together with the handles own that a sessionClosed
\* in progress has already taken out (none when called on its own).
ForgetSlot(slot, own) ==
  LET indexed == {h \in slotHandles[slot] : Live(h)}
      dead    == indexed \union own
  IN  /\ Erase(dead)
      /\ Release(ObjectsIn({h \in indexed : OwnedBySession(h)} \union own))
      /\ sessionObjectHandles' =
           [h \in Handles |-> IF h \in dead /\ IsSession(h) THEN {}
                                                            ELSE sessionObjectHandles[h]]
      /\ slotHandles'      = [slotHandles EXCEPT ![slot] = {}]
      /\ slotSessionCount' = [slotSessionCount EXCEPT ![slot] = 0]

\* Mutant: closing the last session of a slot is like closing any other.
sessionClosed_NeverLast(hs) ==
  /\ IsSession(hs)
  /\ LET slot == handles[hs].slotID
         own  == {h \in sessionObjectHandles[hs] : Live(h)}
     IN  ForgetSession(hs, own, slot)

sessionClosed(hs) ==
  /\ IsSession(hs)
  /\ LET slot == handles[hs].slotID
         own  == {h \in sessionObjectHandles[hs] : Live(h)}
     IN  IF slotSessionCount[slot] <= 1
           THEN ForgetSlot(slot, {hs} \union own)
           ELSE ForgetSession(hs, own, slot)

allSessionsClosed(slot) == ForgetSlot(slot, {})

\* Mutant: the references of the private session objects are kept.
tokenLoggedOut_NoRelease(slot) ==
  LET dead == {h \in slotHandles[slot] : IsObject(h) /\ handles[h].isPrivate}
  IN  /\ Erase(dead)
      /\ sessionObjectHandles' =
           [hs \in Handles |->
              sessionObjectHandles[hs] \ {h \in dead : handles[h].hSession = hs}]
      /\ slotHandles' = [slotHandles EXCEPT ![slot] = @ \ dead]
      /\ UNCHANGED <<slotSessionCount, refCount>>

tokenLoggedOut(slot) ==
  LET dead == {h \in slotHandles[slot] : IsObject(h) /\ handles[h].isPrivate}
  IN  /\ Erase(dead)
      /\ Release(ObjectsIn({h \in dead : OwnedBySession(h)}))
      /\ sessionObjectHandles' =
           [hs \in Handles |->
              sessionObjectHandles[hs] \ {h \in dead : handles[h].hSession = hs}]
      /\ slotHandles' = [slotHandles EXCEPT ![slot] = @ \ dead]
      /\ UNCHANGED slotSessionCount
-----------------------------------------------------------------------------
\* Callers.  SoftHSM.cpp looks the session up, then registers the object with
\* the slot of that session.  With threads the session may be closed between
\* the two calls: then hs is a dead handle.
MayOwn(hs, slot) ==
  /\ hs \in 1..handleCounter
  /\ IF Live(hs) THEN IsSession(hs) /\ handles[hs].slotID = slot ELSE Racing

HasSession(slot) == SessionsOn(slot) # {}

OpenSession      == \E s \in Slots, p \in Sessions : addSession(s, p)
\* C_FindObjectsInit goes by CKA_TOKEN, which a token object left behind by a
\* failed creation does not have: it is registered like a session object.
RegisterSessionObject ==
  \E o \in Objects, hs \in Handles, private \in BOOLEAN :
    MayOwn(hs, SlotOf[o]) /\ addSessionObject(SlotOf[o], hs, private, o)
RegisterTokenObject ==
  \E o \in TokenObjects, private \in BOOLEAN :
    /\ Racing \/ HasSession(SlotOf[o])
    /\ addTokenObject(SlotOf[o], private, o)
DestroyObject    == \E h \in Handles : destroyObject(h)
CloseSession     == \E h \in Handles : sessionClosed(h)
CloseAllSessions == \E s \in Slots : allSessionsClosed(s)
Logout           == \E s \in Slots : tokenLoggedOut(s)

Next == \/ OpenSession \/ RegisterSessionObject \/ RegisterTokenObject
        \/ DestroyObject \/ CloseSession \/ CloseAllSessions \/ Logout

Spec == Init /\ [][Next]_vars
-----------------------------------------------------------------------------
TableTypes ==
  /\ handles \in [Handles -> SessionHandle \union ObjectHandle \union {NoHandle}]
  /\ objects \in [Objects -> Handles \union {Invalid}]
  /\ sessionObjectHandles \in [Handles -> SUBSET Handles]
  /\ slotHandles \in [Slots -> SUBSET Handles]
  /\ slotSessionCount \in [Slots -> Nat]
  /\ handleCounter \in 0..MaxHandle

\* Types of the tables and of the reference counts.
TypeOK == TableTypes /\ refCount \in [Objects -> Nat]

\* slotHandles is exactly the index a scan of handles would compute, and the
\* object index is the inverse of the object pointers stored in handles: an
\* object never has two live handles, and no index entry outlives its handle
\* (the code cleans up through the indexes "instead of scanning the entire
\* handles map").
IndexesExact ==
  /\ \A s \in Slots, h \in Handles :
       h \in slotHandles[s] <=> Live(h) /\ handles[h].slotID = s
  /\ \A h \in Handles : IsObject(h) => objects[handles[h].object] = h
  /\ \A o \in Objects : objects[o] # Invalid =>
       IsObject(objects[o]) /\ handles[objects[o]].object = o

\* Every session object handle can be found from its session: closing the
\* session cannot leave it behind, whoever else destroyed, logged out or
\* reopened in between.  A session's objects live in the session's slot.
SessionIndexComplete ==
  \A h \in Handles : OwnedBySession(h) =>
    LET hs == handles[h].hSession
    IN  /\ h \in sessionObjectHandles[hs]
        /\ Live(hs) => IsSession(hs) /\ handles[hs].slotID = handles[h].slotID

\* The counter that decides whether a close was the last one of the slot is
\* the number of session handles of the slot.
SessionCountExact ==
  \A s \in Slots : slotSessionCount[s] = Cardinality(SessionsOn(s))

\* The manager holds exactly one reference on each session object that has a
\* live handle, none on any other object: nothing leaks and nothing is
\* released twice on any path that drops handles.
ReferencesExact ==
  \A o \in Objects :
    refCount[o] = IF \E h \in Handles : OwnedBySession(h) /\ handles[h].object = o
                    THEN 2 ELSE 1

\* "In that case remove all token object handles for the slot" (header of
\* sessionClosed): when no thread registers behind a close, a slot without
\* sessions has no handles at all.
NoSessionNoHandles ==
  ~ Racing => \A h \in Handles : Live(h) => HasSession(handles[h].slotID)

\* "never reuse a handle once it has been issued": a step makes live only
\* handles that were never issued, and a live handle never changes what it
\* stands for.
HandlesNeverReused ==
  [][\A h \in Handles :
       /\ ~ Live(h) /\ Live(h)' => h > handleCounter
       /\ Live(h) /\ Live(h)' => handles'[h] = handles[h]]_vars

\* Strengthening of the above to an inductive invariant: handles past the
\* counter are unused, the session index never lists a live handle of another
\* session, and an object's handle is on the object's slot.
FreshAboveCounter == \A h \in Handles : h > handleCounter => handles[h] = NoHandle

SessionIndexSound ==
  \A hs \in Handles : \A h \in sessionObjectHandles[hs] :
    /\ h <= handleCounter
    /\ Live(h) => IsObject(h) /\ handles[h].hSession = hs

OwnersIssued == \A h \in Handles : OwnedBySession(h) => handles[h].hSession <= handleCounter

ObjectsOnTheirSlot ==
  \A h \in Handles : IsObject(h) => handles[h].slotID = SlotOf[handles[h].object]

\* What holds of the tables whatever else counts references.
Tables == /\ TableTypes
          /\ IndexesExact
          /\ SessionIndexComplete
          /\ SessionIndexSound
          /\ SessionCountExact
          /\ FreshAboveCounter
          /\ OwnersIssued
          /\ ObjectsOnTheirSlot

Inv == Tables /\ TypeOK /\ ReferencesExact

Table == INSTANCE HandleTable WITH table <- handles, issued <- 1..handleCounter

\* The manager implements the table without indexes.
ImplementsTable == Table!Spec
=============================================================================
