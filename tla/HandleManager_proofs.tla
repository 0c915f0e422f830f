------------------------ MODULE HandleManager_proofs ------------------------
(***************************************************************************)
(* Proofs about HandleManager for any slots, objects and number of         *)
(* handles, racing or not: the indexes, the session counter and the        *)
(* reference counts stay exact, handles are never reused, and the manager  *)
(* implements HandleTable.                                                 *)
(***************************************************************************)
EXTENDS HandleManager, Integers, FiniteSetTheorems, TLAPS

\* What the type invariant says of one entry of handles.
LEMMA EntryTypes ==
  ASSUME TableTypes, NEW h \in Handles
  PROVE  /\ IsSession(h) => handles[h] \in SessionHandle
         /\ IsObject(h) => handles[h] \in ObjectHandle
         /\ Live(h) => IsSession(h) \/ IsObject(h)
         /\ ~ Live(h) => handles[h] = NoHandle
         /\ ~ (IsSession(h) /\ IsObject(h))
         /\ IsSession(h) \/ IsObject(h) => Live(h)
BY DEF TableTypes, IsSession, IsObject, Live, SessionHandle, ObjectHandle, NoHandle

\* The sessions of a slot are finitely many.
LEMMA SessionsFinite ==
  ASSUME NEW s PROVE IsFiniteSet(SessionsOn(s))
<1>1. IsFiniteSet(1..MaxHandle)
  BY FS_Interval, ConstantsOK
<1>2. SessionsOn(s) \in SUBSET (1..MaxHandle)
  BY DEF SessionsOn, Handles
<1> QED BY <1>1, <1>2, FS_Subset

\* The initial tables satisfy the invariant.
LEMMA InitTables == TablesInit => Tables
<1> SUFFICES ASSUME TablesInit PROVE Tables
  OBVIOUS
<1> USE DEF TablesInit
<1>1. TableTypes
  BY ConstantsOK DEF TableTypes, Invalid
<1>2. \A h \in Handles : handles[h].kind = "none"
  BY DEF NoHandle
<1>3. /\ IndexesExact /\ SessionIndexComplete /\ SessionIndexSound
      /\ FreshAboveCounter /\ OwnersIssued /\ ObjectsOnTheirSlot
  BY <1>2 DEF IndexesExact, SessionIndexComplete, SessionIndexSound,
     FreshAboveCounter, OwnersIssued, ObjectsOnTheirSlot, Live, IsSession, IsObject, OwnedBySession
<1>4. SessionCountExact
  <2> SUFFICES ASSUME NEW s \in Slots PROVE slotSessionCount[s] = Cardinality(SessionsOn(s))
    BY DEF SessionCountExact
  <2>1. SessionsOn(s) = {}
    BY <1>2 DEF SessionsOn, IsSession
  <2> QED BY <2>1, FS_EmptySet
<1> QED BY <1>1, <1>3, <1>4 DEF Tables

\* Tables that are emptied satisfy the invariant, whatever was issued before.
LEMMA EmptiedTables ==
  ASSUME handles' = [h \in Handles |-> NoHandle], objects' = [o \in Objects |-> Invalid],
         sessionObjectHandles' = [h \in Handles |-> {}], slotHandles' = [s \in Slots |-> {}],
         slotSessionCount' = [s \in Slots |-> 0], handleCounter' \in 0..MaxHandle
  PROVE  Tables'
<1>1. TableTypes'
  BY ConstantsOK DEF TableTypes, Invalid
<1>2. \A h \in Handles : handles'[h].kind = "none" /\ handles'[h] = NoHandle
  BY DEF NoHandle
<1>3. /\ IndexesExact' /\ SessionIndexComplete' /\ SessionIndexSound'
      /\ FreshAboveCounter' /\ OwnersIssued' /\ ObjectsOnTheirSlot'
  BY <1>2 DEF IndexesExact, SessionIndexComplete, SessionIndexSound,
     FreshAboveCounter, OwnersIssued, ObjectsOnTheirSlot, Live, IsSession, IsObject, OwnedBySession
<1>4. SessionCountExact'
  <2> SUFFICES ASSUME NEW s \in Slots PROVE slotSessionCount'[s] = Cardinality(SessionsOn(s)')
    BY DEF SessionCountExact
  <2>1. SessionsOn(s)' = {}
    BY <1>2 DEF SessionsOn, IsSession
  <2> QED BY <2>1, FS_EmptySet
<1> QED BY <1>1, <1>3, <1>4 DEF Tables

\* The manager holds a reference on the object.
Referenced(o) == \E h \in Handles : OwnedBySession(h) /\ handles[h].object = o

\* A step changes each count as it changes what the manager refers to.
ReferencesFollow ==
  \A o \in Objects : refCount'[o] =
    IF Referenced(o) <=> Referenced(o)' THEN refCount[o]
    ELSE IF Referenced(o)' THEN refCount[o] + 1 ELSE refCount[o] - 1

\* Exactness before such a step is exactness after it.
LEMMA ReferencesStep ==
  ASSUME ReferencesExact, ReferencesFollow PROVE ReferencesExact'
BY DEF ReferencesExact, ReferencesFollow, Referenced

\* What NewHandle does: the entry is written past the counter, everything that
\* was live is as before.
Added(entry, n) ==
  /\ n \in Handles /\ n \in Nat /\ n > handleCounter
  /\ handles[n] = NoHandle /\ ~ Live(n)
  /\ handles'[n] = entry
  /\ \A h \in Handles : h # n => handles'[h] = handles[h]
  /\ handles' \in [Handles -> SessionHandle \union ObjectHandle \union {NoHandle}]
  /\ handleCounter' = n /\ handleCounter' \in 0..MaxHandle
  /\ entry.slotID \in Slots
  /\ slotHandles' \in [Slots -> SUBSET Handles]
  /\ \A s \in Slots : slotHandles'[s] =
       IF s = entry.slotID THEN slotHandles[s] \union {n} ELSE slotHandles[s]

\* A new handle is a fresh one.
LEMMA NewEntry ==
  ASSUME Tables, NEW entry \in SessionHandle \union ObjectHandle, NewHandle(entry),
         NEW n, n = handleCounter + 1
  PROVE  Added(entry, n)
<1>1. n \in Handles /\ n \in Nat /\ n > handleCounter
  BY ConstantsOK DEF NewHandle, Tables, TableTypes, Handles
<1>2. handles[n] = NoHandle /\ ~ Live(n)
  BY <1>1 DEF Tables, FreshAboveCounter, Live, NoHandle
<1>3. entry.slotID \in Slots
  BY DEF SessionHandle, ObjectHandle
<1>4. /\ handles' \in [Handles -> SessionHandle \union ObjectHandle \union {NoHandle}]
      /\ handles'[n] = entry
      /\ \A h \in Handles : h # n => handles'[h] = handles[h]
  BY <1>1 DEF NewHandle, Tables, TableTypes
<1>5. handleCounter' = n /\ handleCounter' \in 0..MaxHandle
  BY <1>1 DEF NewHandle, Handles
<1>6. /\ slotHandles' \in [Slots -> SUBSET Handles]
      /\ \A s \in Slots : slotHandles'[s] =
           IF s = entry.slotID THEN slotHandles[s] \union {n} ELSE slotHandles[s]
  BY <1>1, <1>3 DEF NewHandle, Tables, TableTypes
<1> QED BY <1>1, <1>2, <1>3, <1>4, <1>5, <1>6 DEF Added

\* Opening a session keeps the tables and the references right.
LEMMA AddSessionInv ==
  ASSUME Tables, refCount \in [Objects -> Int], NEW s \in Slots, NEW p \in Sessions, addSession(s, p)
  PROVE  Tables' /\ ReferencesFollow /\ refCount' \in [Objects -> Int]
<1>1. PICK n : n = handleCounter + 1
  OBVIOUS
<1>2. PICK entry \in SessionHandle :
        /\ entry.kind = "session" /\ entry.slotID = s
        /\ NewHandle(entry)
  <2>1. [kind |-> "session", slotID |-> s, session |-> p] \in SessionHandle
    BY DEF SessionHandle
  <2> QED BY <2>1 DEF addSession
<1>3. /\ n \in Handles /\ n \in Nat /\ n > handleCounter
      /\ handles[n] = NoHandle /\ ~ Live(n)
      /\ handles'[n] = entry
      /\ \A h \in Handles : h # n => handles'[h] = handles[h]
      /\ handles' \in [Handles -> SessionHandle \union ObjectHandle \union {NoHandle}]
      /\ handleCounter' = n /\ handleCounter' \in 0..MaxHandle
      /\ slotHandles' \in [Slots -> SUBSET Handles]
      /\ \A t \in Slots : slotHandles'[t] =
           IF t = s THEN slotHandles[t] \union {n} ELSE slotHandles[t]
  <2>1. Added(entry, n)
    BY <1>1, <1>2, NewEntry
  <2> QED BY <2>1, <1>2 DEF Added
<1>4. UNCHANGED <<objects, sessionObjectHandles, refCount>>
  BY DEF addSession
<1>5. /\ IsSession(n)' /\ ~ IsObject(n)' /\ Live(n)' /\ ~ OwnedBySession(n)'
      /\ ~ IsSession(n) /\ ~ IsObject(n) /\ ~ OwnedBySession(n)
  BY <1>2, <1>3 DEF IsSession, IsObject, Live, OwnedBySession, NoHandle
<1>6. \A h \in Handles : h # n =>
           /\ IsSession(h)' <=> IsSession(h)
           /\ IsObject(h)' <=> IsObject(h)
           /\ Live(h)' <=> Live(h)
           /\ OwnedBySession(h)' <=> OwnedBySession(h)
  BY <1>3 DEF IsSession, IsObject, Live, OwnedBySession
<1>7. slotSessionCount' \in [Slots -> Nat]
  BY DEF addSession, Tables, TableTypes
<1>8. TableTypes'
  BY <1>3, <1>4, <1>7 DEF Tables, TableTypes
<1>9. IndexesExact'
  <2>1. \A t \in Slots, h \in Handles :
          h \in slotHandles'[t] <=> Live(h)' /\ handles'[h].slotID = t
    <3> SUFFICES ASSUME NEW t \in Slots, NEW h \in Handles
                 PROVE  h \in slotHandles'[t] <=> Live(h)' /\ handles'[h].slotID = t
      OBVIOUS
    <3>1. h \in slotHandles[t] <=> Live(h) /\ handles[h].slotID = t
      BY DEF Tables, IndexesExact
    <3>2. CASE h = n
      BY <1>2, <1>3, <1>5, <3>1, <3>2
    <3>3. CASE h # n
      BY <1>3, <1>6, <3>1, <3>3
    <3> QED BY <3>2, <3>3
  <2>2. \A h \in Handles : IsObject(h)' => objects'[handles'[h].object] = h
    BY <1>3, <1>4, <1>5, <1>6 DEF Tables, IndexesExact
  <2>3. \A o \in Objects : objects'[o] # Invalid =>
           IsObject(objects[o])' /\ handles'[objects'[o]].object = o
    <3> SUFFICES ASSUME NEW o \in Objects, objects[o] # Invalid
                 PROVE  IsObject(objects[o])' /\ handles'[objects[o]].object = o
      BY <1>4
    <3>1. objects[o] \in Handles /\ IsObject(objects[o]) /\ handles[objects[o]].object = o
      BY DEF Tables, IndexesExact, TableTypes
    <3> QED BY <1>3, <1>4, <1>5, <3>1 DEF IsObject
  <2> QED BY <2>1, <2>2, <2>3 DEF IndexesExact
<1>10. SessionIndexComplete'
  <2> SUFFICES ASSUME NEW h \in Handles, OwnedBySession(h)', NEW hs, hs = handles'[h].hSession
               PROVE  /\ h \in sessionObjectHandles'[hs]
                      /\ Live(hs)' => IsSession(hs)' /\ handles'[hs].slotID = handles'[h].slotID
    BY DEF SessionIndexComplete
  <2>1. OwnedBySession(h) /\ hs = handles[h].hSession /\ handles'[h] = handles[h]
    BY <1>3, <1>5, <1>6
  <2>2. hs \in Handles /\ hs # n
    BY <2>1, <1>3, EntryTypes DEF Tables, OwnersIssued, TableTypes, OwnedBySession, ObjectHandle, Invalid
  <2> QED BY <2>1, <2>2, <1>3, <1>4, <1>6 DEF Tables, SessionIndexComplete
<1>11. SessionIndexSound'
  BY <1>2, <1>3, <1>4, <1>5, <1>6 DEF Tables, SessionIndexSound, TableTypes
<1>12. OwnersIssued' /\ ObjectsOnTheirSlot' /\ FreshAboveCounter'
  <2>1. OwnersIssued'
    <3> SUFFICES ASSUME NEW h \in Handles, OwnedBySession(h)' PROVE handles'[h].hSession <= handleCounter'
      BY DEF OwnersIssued
    <3>1. OwnedBySession(h) /\ handles'[h] = handles[h]
      BY <1>3, <1>5, <1>6
    <3>2. handles[h].hSession \in Nat /\ handles[h].hSession <= handleCounter
      BY <3>1, EntryTypes DEF Tables, OwnersIssued, TableTypes, OwnedBySession, ObjectHandle, Invalid, Handles
    <3> QED BY <3>1, <3>2, <1>3 DEF Tables, TableTypes
  <2>2. ObjectsOnTheirSlot'
    BY <1>3, <1>5, <1>6 DEF Tables, ObjectsOnTheirSlot
  <2>3. FreshAboveCounter'
    BY <1>3 DEF Tables, FreshAboveCounter, TableTypes, Handles
  <2> QED BY <2>1, <2>2, <2>3
<1>13. ReferencesFollow /\ refCount' \in [Objects -> Int]
  <2>1. ASSUME NEW o \in Objects, NEW h \in Handles
        PROVE  (OwnedBySession(h) /\ handles[h].object = o)' <=>
               OwnedBySession(h) /\ handles[h].object = o
    BY <1>3, <1>5, <1>6
  <2>2. \A o \in Objects : Referenced(o)' <=> Referenced(o)
    BY <2>1 DEF Referenced
  <2> QED BY <2>2, <1>4 DEF ReferencesFollow
<1>14. SessionCountExact'
  <2> SUFFICES ASSUME NEW t \in Slots PROVE slotSessionCount'[t] = Cardinality(SessionsOn(t)')
    BY DEF SessionCountExact
  <2>1. SessionsOn(t)' = IF t = s THEN SessionsOn(t) \union {n} ELSE SessionsOn(t)
    <3>1. ASSUME NEW h \in Handles
          PROVE  (IsSession(h) /\ handles[h].slotID = t)' <=>
                 (IsSession(h) /\ handles[h].slotID = t) \/ (h = n /\ t = s)
      BY <1>2, <1>3, <1>5, <1>6
    <3> QED BY <1>3, <3>1 DEF SessionsOn
  <2>2. n \notin SessionsOn(t) /\ IsFiniteSet(SessionsOn(t))
    BY <1>5, SessionsFinite DEF SessionsOn
  <2>3. Cardinality(SessionsOn(t) \union {n}) = Cardinality(SessionsOn(t)) + 1
    BY <2>2, FS_AddElement
  <2> QED BY <2>1, <2>3 DEF addSession, Tables, TableTypes, SessionCountExact
<1>15. Tables'
  BY <1>8, <1>9, <1>10, <1>11, <1>12, <1>14 DEF Tables
<1> QED BY <1>13, <1>15

\* Registering an object under a new handle keeps the invariant: a session
\* object (owner hs, referenced) or a token object (no owner, no reference).
LEMMA NewObjectInv ==
  ASSUME Tables, refCount \in [Objects -> Int], NEW o \in Objects, NEW private \in BOOLEAN,
         NEW hs \in Handles \union {Invalid},
         NewObjectHandle(SlotOf[o], hs, private, o),
         UNCHANGED slotSessionCount,
         hs = Invalid => UNCHANGED <<sessionObjectHandles, refCount>>,
         hs # Invalid => /\ MayOwn(hs, SlotOf[o])
                         /\ sessionObjectHandles' =
                              [sessionObjectHandles EXCEPT ![hs] = @ \union {handleCounter + 1}]
                         /\ Acquire(o)
  PROVE  Tables' /\ ReferencesFollow /\ refCount' \in [Objects -> Int]
<1>1. PICK n : n = handleCounter + 1
  OBVIOUS
<1>0. PICK s \in Slots : s = SlotOf[o]
  BY ConstantsOK
<1>2. PICK entry \in ObjectHandle :
        /\ entry.kind = "object" /\ entry.slotID = s /\ entry.hSession = hs
        /\ entry.object = o
        /\ NewHandle(entry)
  <2>1. [kind |-> "object", slotID |-> s, hSession |-> hs,
         isPrivate |-> private, object |-> o] \in ObjectHandle
    BY DEF ObjectHandle
  <2> QED BY <2>1, <1>0 DEF NewObjectHandle
<1>3. /\ n \in Handles /\ n \in Nat /\ n > handleCounter
      /\ handles[n] = NoHandle /\ ~ Live(n)
      /\ handles'[n] = entry
      /\ \A h \in Handles : h # n => handles'[h] = handles[h]
      /\ handles' \in [Handles -> SessionHandle \union ObjectHandle \union {NoHandle}]
      /\ handleCounter' = n /\ handleCounter' \in 0..MaxHandle
      /\ slotHandles' \in [Slots -> SUBSET Handles]
      /\ \A t \in Slots : slotHandles'[t] =
           IF t = s THEN slotHandles[t] \union {n} ELSE slotHandles[t]
  <2>1. Added(entry, n)
    BY <1>1, <1>2, NewEntry
  <2> QED BY <2>1, <1>2 DEF Added
<1>4. /\ objects[o] = Invalid /\ objects'[o] = n
      /\ objects' \in [Objects -> Handles \union {Invalid}]
      /\ \A q \in Objects : q # o => objects'[q] = objects[q]
  <2>1. objects \in [Objects -> Handles \union {Invalid}] /\ n \in Handles
    BY <1>3 DEF Tables, TableTypes
  <2>2. objects[o] = Invalid /\ objects' = [objects EXCEPT ![o] = n]
    BY <1>1 DEF NewObjectHandle
  <2> QED BY <2>1, <2>2
<1>5. /\ ~ IsSession(n)' /\ IsObject(n)' /\ Live(n)' /\ (OwnedBySession(n)' <=> hs # Invalid)
      /\ ~ IsSession(n) /\ ~ IsObject(n) /\ ~ OwnedBySession(n)
  BY <1>2, <1>3 DEF IsSession, IsObject, Live, OwnedBySession, NoHandle
<1>6. \A h \in Handles : h # n =>
           /\ IsSession(h)' <=> IsSession(h)
           /\ IsObject(h)' <=> IsObject(h)
           /\ Live(h)' <=> Live(h)
           /\ OwnedBySession(h)' <=> OwnedBySession(h)
  BY <1>3 DEF IsSession, IsObject, Live, OwnedBySession
<1>7. /\ sessionObjectHandles' \in [Handles -> SUBSET Handles]
      /\ \A k \in Handles : sessionObjectHandles'[k] =
           IF k = hs THEN sessionObjectHandles[k] \union {n} ELSE sessionObjectHandles[k]
  <2>1. CASE hs = Invalid
    BY <2>1 DEF Tables, TableTypes, Invalid, Handles
  <2>2. CASE hs # Invalid
    BY <2>2, <1>1, <1>3 DEF Tables, TableTypes
  <2> QED BY <2>1, <2>2
<1>8. /\ refCount' \in [Objects -> Int]
      /\ \A q \in Objects : refCount'[q] =
           IF q = o /\ hs # Invalid THEN refCount[q] + 1 ELSE refCount[q]
  <2>1. CASE hs = Invalid
    BY <2>1
  <2>2. CASE hs # Invalid
    BY <2>2 DEF Acquire
  <2> QED BY <2>1, <2>2
<1>9. TableTypes'
  BY <1>3, <1>4, <1>7 DEF Tables, TableTypes
<1>10. IndexesExact'
  <2>1. \A t \in Slots, h \in Handles :
          h \in slotHandles'[t] <=> Live(h)' /\ handles'[h].slotID = t
    <3> SUFFICES ASSUME NEW t \in Slots, NEW h \in Handles
                 PROVE  h \in slotHandles'[t] <=> Live(h)' /\ handles'[h].slotID = t
      OBVIOUS
    <3>1. h \in slotHandles[t] <=> Live(h) /\ handles[h].slotID = t
      BY DEF Tables, IndexesExact
    <3>2. CASE h = n
      BY <1>2, <1>3, <1>5, <3>1, <3>2
    <3>3. CASE h # n
      BY <1>3, <1>6, <3>1, <3>3
    <3> QED BY <3>2, <3>3
  <2>2. ASSUME NEW h \in Handles, IsObject(h)' PROVE objects'[handles'[h].object] = h
    <3>1. CASE h = n
      BY <3>1, <1>2, <1>3, <1>4
    <3>2. CASE h # n
      <4>1. IsObject(h) /\ handles'[h] = handles[h] /\ handles[h].object \in Objects
        BY <3>2, <2>2, <1>3, <1>6, EntryTypes DEF Tables, ObjectHandle
      <4>2. objects[handles[h].object] = h /\ h # Invalid
        BY <4>1 DEF Tables, IndexesExact, Handles, Invalid
      <4> QED BY <4>1, <4>2, <1>4
    <3> QED BY <3>1, <3>2
  <2>3. ASSUME NEW q \in Objects, objects'[q] # Invalid
        PROVE  IsObject(objects[q])' /\ handles'[objects'[q]].object = q
    <3>1. CASE q = o
      BY <3>1, <1>2, <1>3, <1>4, <1>5 DEF IsObject
    <3>2. CASE q # o
      <4>1. objects'[q] = objects[q] /\ objects[q] \in Handles /\ IsObject(objects[q])
            /\ handles[objects[q]].object = q
        BY <3>2, <2>3, <1>4 DEF Tables, IndexesExact, TableTypes
      <4> QED BY <4>1, <1>3, <1>5 DEF IsObject
    <3> QED BY <3>1, <3>2
  <2> QED BY <2>1, <2>2, <2>3 DEF IndexesExact
<1>11. SessionIndexComplete'
  <2> SUFFICES ASSUME NEW h \in Handles, OwnedBySession(h)', NEW k, k = handles'[h].hSession
               PROVE  /\ h \in sessionObjectHandles'[k]
                      /\ Live(k)' => IsSession(k)' /\ handles'[k].slotID = handles'[h].slotID
    BY DEF SessionIndexComplete
  <2>1. CASE h = n
    <3>1. k = hs /\ hs \in Handles /\ hs # n /\ handles'[h].slotID = s /\ hs # Invalid
      BY <2>1, <1>2, <1>3, <1>5 DEF MayOwn, Invalid, Tables, TableTypes
    <3>2. Live(hs) => IsSession(hs) /\ handles[hs].slotID = s
      BY <3>1, <1>0 DEF MayOwn
    <3> QED BY <3>1, <3>2, <2>1, <1>3, <1>6, <1>7
  <2>2. CASE h # n
    <3>1. OwnedBySession(h) /\ k = handles[h].hSession /\ handles'[h] = handles[h]
      BY <2>2, <1>3, <1>5, <1>6
    <3>2. k \in Handles /\ k # n
      BY <3>1, <1>3, EntryTypes DEF Tables, OwnersIssued, TableTypes, OwnedBySession, ObjectHandle, Invalid
    <3>3. /\ h \in sessionObjectHandles[k]
          /\ Live(k) => IsSession(k) /\ handles[k].slotID = handles[h].slotID
      BY <3>1 DEF Tables, SessionIndexComplete
    <3> QED BY <3>1, <3>2, <3>3, <1>3, <1>6, <1>7
  <2> QED BY <2>1, <2>2
<1>12. SessionIndexSound'
  <2> SUFFICES ASSUME NEW k \in Handles, NEW h \in sessionObjectHandles'[k]
               PROVE  /\ h <= handleCounter'
                      /\ Live(h)' => IsObject(h)' /\ handles'[h].hSession = k
    BY DEF SessionIndexSound
  <2>1. CASE h = n
    <3>1. n \notin sessionObjectHandles[k]
      BY <1>3 DEF Tables, SessionIndexSound, TableTypes
    <3>2. k = hs
      BY <3>1, <2>1, <1>7
    <3> QED BY <2>1, <3>2, <1>2, <1>3, <1>5
  <2>2. CASE h # n
    <3>1. h \in sessionObjectHandles[k] /\ h \in Handles
      BY <2>2, <1>7 DEF Tables, TableTypes
    <3>2. h <= handleCounter /\ (Live(h) => IsObject(h) /\ handles[h].hSession = k)
      BY <3>1 DEF Tables, SessionIndexSound
    <3>3. h <= n
      BY <3>1, <3>2, <1>3 DEF Handles, Tables, TableTypes
    <3> QED BY <3>1, <3>2, <3>3, <2>2, <1>3, <1>6
  <2> QED BY <2>1, <2>2
<1>13. OwnersIssued' /\ ObjectsOnTheirSlot' /\ FreshAboveCounter'
  <2>1. OwnersIssued'
    <3> SUFFICES ASSUME NEW h \in Handles, OwnedBySession(h)' PROVE handles'[h].hSession <= handleCounter'
      BY DEF OwnersIssued
    <3>1. CASE h = n
      <4>1. hs # Invalid /\ handles'[h].hSession = hs
        BY <3>1, <1>2, <1>3, <1>5
      <4> QED BY <4>1, <1>3 DEF MayOwn, Tables, TableTypes
    <3>2. CASE h # n
      <4>1. OwnedBySession(h) /\ handles'[h] = handles[h]
        BY <3>2, <1>3, <1>6
      <4>2. handles[h].hSession \in Nat /\ handles[h].hSession <= handleCounter
        BY <4>1, EntryTypes DEF Tables, OwnersIssued, TableTypes, OwnedBySession, ObjectHandle, Invalid, Handles
      <4> QED BY <4>1, <4>2, <1>3 DEF Tables, TableTypes
    <3> QED BY <3>1, <3>2
  <2>2. ObjectsOnTheirSlot'
    BY <1>0, <1>2, <1>3, <1>5, <1>6 DEF Tables, ObjectsOnTheirSlot
  <2>3. FreshAboveCounter'
    BY <1>3 DEF Tables, FreshAboveCounter, TableTypes, Handles
  <2> QED BY <2>1, <2>2, <2>3
<1>14. ReferencesFollow
  <2> SUFFICES ASSUME NEW q \in Objects
               PROVE  refCount'[q] = IF Referenced(q) <=> Referenced(q)' THEN refCount[q]
                                     ELSE IF Referenced(q)' THEN refCount[q] + 1 ELSE refCount[q] - 1
    BY DEF ReferencesFollow
  <2>1. CASE q = o
    <3>1. ~ Referenced(q)
      BY <2>1, <1>4 DEF Tables, IndexesExact, OwnedBySession, Invalid, Handles, Referenced
    <3>2. Referenced(q)' <=> hs # Invalid
      BY <2>1, <3>1, <1>2, <1>3, <1>5, <1>6 DEF Referenced
    <3> QED BY <2>1, <3>1, <3>2, <1>8
  <2>2. CASE q # o
    <3>1. Referenced(q)' <=> Referenced(q)
      BY <2>2, <1>2, <1>3, <1>5, <1>6 DEF Referenced
    <3> QED BY <2>2, <3>1, <1>8
  <2> QED BY <2>1, <2>2
<1>15. SessionCountExact'
  <2> SUFFICES ASSUME NEW t \in Slots PROVE slotSessionCount'[t] = Cardinality(SessionsOn(t)')
    BY DEF SessionCountExact
  <2>1. SessionsOn(t)' = SessionsOn(t)
    BY <1>3, <1>5, <1>6 DEF SessionsOn
  <2> QED BY <2>1 DEF Tables, SessionCountExact
<1>16. Tables'
  BY <1>9, <1>10, <1>11, <1>12, <1>13, <1>15 DEF Tables
<1> QED BY <1>8, <1>14, <1>16

\* An object that is registered keeps its handle: the branch that would drop
\* the index entry needs an entry of another slot, which the invariant excludes.
LEMMA RegisteredUnchanged ==
  ASSUME Tables, NEW o \in Objects, AlreadyRegistered(SlotOf[o], o)
  PROVE  UNCHANGED vars
<1>1. /\ objects[o] \in Handles /\ IsObject(objects[o])
      /\ handles[objects[o]].slotID = SlotOf[o]
  BY DEF AlreadyRegistered, Tables, IndexesExact, TableTypes, ObjectsOnTheirSlot
<1> QED BY <1>1 DEF AlreadyRegistered, vars, indexes

\* The tables stay right when nothing of them changes.
LEMMA StutterTables ==
  ASSUME Tables, UNCHANGED <<handles, indexes, handleCounter>> PROVE Tables'
BY DEF Tables, indexes, TableTypes, IndexesExact, SessionIndexComplete, SessionIndexSound,
   SessionCountExact, FreshAboveCounter, OwnersIssued, ObjectsOnTheirSlot,
   Live, IsSession, IsObject, OwnedBySession, SessionsOn

\* And so do the counts.
LEMMA StutterInv ==
  ASSUME Tables, refCount \in [Objects -> Int], UNCHANGED vars
  PROVE  Tables' /\ ReferencesFollow /\ refCount' \in [Objects -> Int]
<1>1. UNCHANGED <<handles, indexes, handleCounter>>
  BY DEF vars
<1>2. Tables'
  BY <1>1, StutterTables
<1>3. \A o \in Objects : Referenced(o)' <=> Referenced(o)
  BY DEF vars, Referenced, OwnedBySession, IsObject
<1> QED BY <1>2, <1>3 DEF vars, ReferencesFollow

\* Dropping a set of live handles keeps the invariant, provided the slot index
\* and the references follow exactly, the session index loses no surviving
\* handle, and the counters are right.
LEMMA EraseInv ==
  ASSUME Tables, refCount \in [Objects -> Int], NEW dead \in SUBSET Handles,
         \A h \in dead : Live(h),
         Erase(dead),
         Release(ObjectsIn({h \in dead : OwnedBySession(h)})),
         slotHandles' \in [Slots -> SUBSET Handles],
         \A s \in Slots : slotHandles'[s] = slotHandles[s] \ dead,
         sessionObjectHandles' \in [Handles -> SUBSET Handles],
         \A hs \in Handles : sessionObjectHandles'[hs] \subseteq sessionObjectHandles[hs],
         \A hs \in Handles : \A h \in sessionObjectHandles[hs] :
            Live(h) /\ h \notin dead => h \in sessionObjectHandles'[hs],
         slotSessionCount' \in [Slots -> Nat],
         \A s \in Slots : slotSessionCount'[s] = Cardinality(SessionsOn(s) \ dead)
  PROVE  Tables' /\ ReferencesFollow /\ refCount' \in [Objects -> Int]
<1>1. /\ handles' \in [Handles -> SessionHandle \union ObjectHandle \union {NoHandle}]
      /\ \A h \in Handles \ dead : handles'[h] = handles[h]
      /\ \A h \in dead : handles'[h] = NoHandle
      /\ handleCounter' = handleCounter
  BY DEF Erase, Tables, TableTypes
<1>2. \A h \in dead : ~ IsSession(h)' /\ ~ IsObject(h)' /\ ~ Live(h)' /\ ~ OwnedBySession(h)'
  BY <1>1 DEF IsSession, IsObject, Live, OwnedBySession, NoHandle
<1>3. \A h \in Handles \ dead :
           /\ IsSession(h)' <=> IsSession(h)
           /\ IsObject(h)' <=> IsObject(h)
           /\ Live(h)' <=> Live(h)
           /\ OwnedBySession(h)' <=> OwnedBySession(h)
  BY <1>1 DEF IsSession, IsObject, Live, OwnedBySession
<1>4. /\ objects' \in [Objects -> Handles \union {Invalid}]
      /\ \A o \in Objects : objects'[o] =
           IF \E h \in dead : IsObject(h) /\ handles[h].object = o THEN Invalid ELSE objects[o]
  <2>1. \A o : o \in ObjectsIn(dead) <=> \E h \in dead : IsObject(h) /\ handles[h].object = o
    BY DEF ObjectsIn
  <2> QED BY <2>1 DEF Erase, Tables, TableTypes
<1>5. ASSUME NEW o \in Objects
      PROVE  refCount'[o] = IF \E h \in dead : OwnedBySession(h) /\ handles[h].object = o
                              THEN refCount[o] - 1 ELSE refCount[o]
  <2>1. o \in ObjectsIn({h \in dead : OwnedBySession(h)})
          <=> \E h \in dead : OwnedBySession(h) /\ handles[h].object = o
    BY DEF ObjectsIn, OwnedBySession
  <2> QED BY <2>1 DEF Release
<1>6. ASSUME NEW h \in Handles, IsObject(h)
      PROVE  handles[h].object \in Objects /\ objects[handles[h].object] = h
  BY <1>6, EntryTypes DEF Tables, IndexesExact, ObjectHandle
<1>7. refCount' \in [Objects -> Int]
  BY DEF Release
<1>8. TableTypes'
  BY <1>1, <1>4 DEF Tables, TableTypes
<1>9. IndexesExact'
  <2>1. ASSUME NEW s \in Slots, NEW h \in Handles
        PROVE  h \in slotHandles'[s] <=> Live(h)' /\ handles'[h].slotID = s
    BY <1>1, <1>2, <1>3 DEF Tables, IndexesExact
  <2>2. ASSUME NEW h \in Handles, IsObject(h)' PROVE objects'[handles'[h].object] = h
    <3>1. h \notin dead /\ IsObject(h) /\ handles'[h] = handles[h]
      BY <2>2, <1>1, <1>2, <1>3
    <3>2. ~ \E k \in dead : IsObject(k) /\ handles[k].object = handles[h].object
      BY <3>1, <1>6
    <3> QED BY <3>1, <3>2, <1>4, <1>6
  <2>3. ASSUME NEW o \in Objects, objects'[o] # Invalid
        PROVE  IsObject(objects[o])' /\ handles'[objects'[o]].object = o
    <3>1. /\ objects'[o] = objects[o] /\ objects[o] \in Handles /\ IsObject(objects[o])
          /\ handles[objects[o]].object = o
      BY <2>3, <1>4 DEF Tables, IndexesExact, TableTypes
    <3>2. objects[o] \notin dead
      BY <3>1, <2>3, <1>4
    <3> QED BY <3>1, <3>2, <1>1 DEF IsObject
  <2> QED BY <2>1, <2>2, <2>3 DEF IndexesExact
<1>10. SessionIndexComplete'
  <2> SUFFICES ASSUME NEW h \in Handles, OwnedBySession(h)', NEW k, k = handles'[h].hSession
               PROVE  /\ h \in sessionObjectHandles'[k]
                      /\ Live(k)' => IsSession(k)' /\ handles'[k].slotID = handles'[h].slotID
    BY DEF SessionIndexComplete
  <2>1. /\ OwnedBySession(h) /\ k = handles[h].hSession /\ handles'[h] = handles[h]
        /\ h \notin dead /\ Live(h)
    BY <1>1, <1>2, <1>3, EntryTypes DEF OwnedBySession, Tables
  <2>2. k \in Handles
    BY <2>1, EntryTypes DEF Tables, OwnedBySession, ObjectHandle
  <2>3. /\ h \in sessionObjectHandles[k]
        /\ Live(k) => IsSession(k) /\ handles[k].slotID = handles[h].slotID
    BY <2>1 DEF Tables, SessionIndexComplete
  <2> QED BY <2>1, <2>2, <2>3, <1>1, <1>2, <1>3
<1>11. SessionIndexSound'
  BY <1>1, <1>2, <1>3 DEF Tables, SessionIndexSound, TableTypes
<1>12. OwnersIssued' /\ ObjectsOnTheirSlot' /\ FreshAboveCounter'
  BY <1>1, <1>2, <1>3 DEF Tables, OwnersIssued, ObjectsOnTheirSlot, FreshAboveCounter
<1>13. ReferencesFollow
  <2> SUFFICES ASSUME NEW o \in Objects
               PROVE  refCount'[o] = IF Referenced(o) <=> Referenced(o)' THEN refCount[o]
                                     ELSE IF Referenced(o)' THEN refCount[o] + 1 ELSE refCount[o] - 1
    BY DEF ReferencesFollow
  <2>1. CASE \E h \in dead : OwnedBySession(h) /\ handles[h].object = o
    <3>1. PICK d \in dead : OwnedBySession(d) /\ handles[d].object = o
      BY <2>1
    <3>2. \A h \in Handles : OwnedBySession(h) /\ handles[h].object = o => h = d
      BY <3>1, <1>6 DEF OwnedBySession
    <3>3. Referenced(o) /\ ~ Referenced(o)'
      BY <3>1, <3>2, <1>1, <1>2, <1>3 DEF Referenced
    <3> QED BY <2>1, <3>3, <1>5
  <2>2. CASE ~ \E h \in dead : OwnedBySession(h) /\ handles[h].object = o
    <3>1. Referenced(o)' <=> Referenced(o)
      BY <2>2, <1>1, <1>2, <1>3 DEF Referenced
    <3> QED BY <2>2, <3>1, <1>5
  <2> QED BY <2>1, <2>2
<1>14. SessionCountExact'
  <2> SUFFICES ASSUME NEW s \in Slots PROVE slotSessionCount'[s] = Cardinality(SessionsOn(s)')
    BY DEF SessionCountExact
  <2>1. SessionsOn(s)' = SessionsOn(s) \ dead
    BY <1>1, <1>2, <1>3 DEF SessionsOn
  <2> QED BY <2>1
<1>15. Tables'
  BY <1>8, <1>9, <1>10, <1>11, <1>12, <1>14 DEF Tables
<1> QED BY <1>7, <1>13, <1>15

\* Erasing handles that are not sessions leaves every session counter right.
LEMMA CountsWithoutSessions ==
  ASSUME Tables, NEW dead \in SUBSET Handles, \A h \in dead : ~ IsSession(h),
         UNCHANGED slotSessionCount
  PROVE  /\ slotSessionCount' \in [Slots -> Nat]
         /\ \A s \in Slots : slotSessionCount'[s] = Cardinality(SessionsOn(s) \ dead)
<1>1. \A s \in Slots : SessionsOn(s) \ dead = SessionsOn(s)
  BY DEF SessionsOn
<1> QED BY <1>1 DEF Tables, TableTypes, SessionCountExact

\* Destroying an object handle keeps the invariant.
LEMMA DestroyObjectInv ==
  ASSUME Tables, refCount \in [Objects -> Int], NEW h \in Handles, destroyObject(h)
  PROVE  Tables' /\ ReferencesFollow /\ refCount' \in [Objects -> Int]
<1> DEFINE dead == {h}
<1>1. IsObject(h) /\ Live(h) /\ ~ IsSession(h) /\ handles[h] \in ObjectHandle
  BY EntryTypes DEF destroyObject, Tables
<1>2. /\ slotHandles' \in [Slots -> SUBSET Handles]
      /\ \A s \in Slots : slotHandles'[s] = slotHandles[s] \ dead
  BY <1>1 DEF destroyObject, Tables, TableTypes, IndexesExact, ObjectHandle
<1>3. /\ sessionObjectHandles' \in [Handles -> SUBSET Handles]
      /\ \A k \in Handles : sessionObjectHandles'[k] \subseteq sessionObjectHandles[k]
      /\ \A k \in Handles : \A g \in sessionObjectHandles[k] :
           Live(g) /\ g \notin dead => g \in sessionObjectHandles'[k]
  <2>1. CASE OwnedBySession(h)
    BY <2>1, <1>1 DEF destroyObject, Tables, TableTypes, OwnedBySession, ObjectHandle
  <2>2. CASE ~ OwnedBySession(h)
    BY <2>2 DEF destroyObject, Tables, TableTypes
  <2> QED BY <2>1, <2>2
<1>4. Release(ObjectsIn({g \in dead : OwnedBySession(g)}))
  <2>1. CASE OwnedBySession(h)
    <3>1. ObjectsIn({g \in dead : OwnedBySession(g)}) = {handles[h].object}
      BY <2>1, <1>1 DEF ObjectsIn
    <3> QED BY <3>1, <2>1 DEF destroyObject
  <2>2. CASE ~ OwnedBySession(h)
    <3>1. ObjectsIn({g \in dead : OwnedBySession(g)}) = {}
      BY <2>2 DEF ObjectsIn
    <3> QED BY <3>1, <2>2 DEF destroyObject, Release
  <2> QED BY <2>1, <2>2
<1>5. /\ slotSessionCount' \in [Slots -> Nat]
      /\ \A s \in Slots : slotSessionCount'[s] = Cardinality(SessionsOn(s) \ dead)
  BY <1>1, CountsWithoutSessions DEF destroyObject
<1>6. Erase(dead)
  BY DEF destroyObject
<1> QED BY <1>1, <1>2, <1>3, <1>4, <1>5, <1>6, EraseInv

\* Logging out keeps the invariant.
LEMMA TokenLoggedOutInv ==
  ASSUME Tables, refCount \in [Objects -> Int], NEW s \in Slots, tokenLoggedOut(s)
  PROVE  Tables' /\ ReferencesFollow /\ refCount' \in [Objects -> Int]
<1>1. PICK dead \in SUBSET Handles :
        dead = {h \in slotHandles[s] : IsObject(h) /\ handles[h].isPrivate}
  BY DEF Tables, TableTypes
<1>2. /\ Erase(dead)
      /\ Release(ObjectsIn({h \in dead : OwnedBySession(h)}))
      /\ sessionObjectHandles' =
           [hs \in Handles |-> sessionObjectHandles[hs] \ {h \in dead : handles[h].hSession = hs}]
      /\ slotHandles' = [slotHandles EXCEPT ![s] = @ \ dead]
      /\ UNCHANGED slotSessionCount
  BY <1>1 DEF tokenLoggedOut
<1>3. \A h \in dead : IsObject(h) /\ Live(h) /\ ~ IsSession(h) /\ handles[h].slotID = s
  BY <1>1, EntryTypes DEF Tables, IndexesExact
<1>4. /\ slotHandles' \in [Slots -> SUBSET Handles]
      /\ \A t \in Slots : slotHandles'[t] = slotHandles[t] \ dead
  BY <1>2, <1>3 DEF Tables, TableTypes, IndexesExact
<1>5. /\ sessionObjectHandles' \in [Handles -> SUBSET Handles]
      /\ \A k \in Handles : sessionObjectHandles'[k] \subseteq sessionObjectHandles[k]
      /\ \A k \in Handles : \A g \in sessionObjectHandles[k] :
           Live(g) /\ g \notin dead => g \in sessionObjectHandles'[k]
  BY <1>2 DEF Tables, TableTypes
<1>6. /\ slotSessionCount' \in [Slots -> Nat]
      /\ \A t \in Slots : slotSessionCount'[t] = Cardinality(SessionsOn(t) \ dead)
  BY <1>2, <1>3, CountsWithoutSessions
<1> QED BY <1>2, <1>3, <1>4, <1>5, <1>6, EraseInv

\* allSessionsClosed, alone or at the end of a sessionClosed that already took
\* out own: exactly the handles of the slot go, and the invariant is kept.
LEMMA ForgetSlotInv ==
  ASSUME Tables, refCount \in [Objects -> Int],
         NEW s \in Slots, NEW own \in SUBSET Handles, own \subseteq slotHandles[s],
         \A h \in own : IsObject(h) => OwnedBySession(h),
         ForgetSlot(s, own)
  PROVE  Tables' /\ ReferencesFollow /\ refCount' \in [Objects -> Int] /\ Erase(slotHandles[s])
<1>1. PICK dead \in SUBSET Handles : dead = slotHandles[s]
  BY DEF Tables, TableTypes
<1>2. \A h \in dead : Live(h) /\ handles[h].slotID = s
  BY <1>1 DEF Tables, IndexesExact
<1>3. {h \in slotHandles[s] : Live(h)} = dead /\ dead \union own = dead
  BY <1>1, <1>2
<1>4. ObjectsIn({h \in dead : OwnedBySession(h)} \union own)
        = ObjectsIn({h \in dead : OwnedBySession(h)})
  BY <1>1 DEF ObjectsIn
<1>5. /\ Erase(dead)
      /\ Release(ObjectsIn({h \in dead : OwnedBySession(h)}))
      /\ sessionObjectHandles' =
           [h \in Handles |-> IF h \in dead /\ IsSession(h) THEN {} ELSE sessionObjectHandles[h]]
      /\ slotHandles' = [slotHandles EXCEPT ![s] = {}]
      /\ slotSessionCount' = [slotSessionCount EXCEPT ![s] = 0]
  BY <1>3, <1>4 DEF ForgetSlot
<1>6. /\ slotHandles' \in [Slots -> SUBSET Handles]
      /\ \A t \in Slots : slotHandles'[t] = slotHandles[t] \ dead
  BY <1>1, <1>2, <1>5 DEF Tables, TableTypes, IndexesExact
<1>7. /\ sessionObjectHandles' \in [Handles -> SUBSET Handles]
      /\ \A k \in Handles : sessionObjectHandles'[k] \subseteq sessionObjectHandles[k]
  BY <1>5 DEF Tables, TableTypes
<1>8. ASSUME NEW k \in Handles, NEW g \in sessionObjectHandles[k], Live(g), g \notin dead
      PROVE  g \in sessionObjectHandles'[k]
  <2>1. g \in Handles /\ IsObject(g) /\ handles[g].hSession = k /\ OwnedBySession(g)
    BY <1>8 DEF Tables, TableTypes, SessionIndexSound, OwnedBySession, Handles, Invalid
  <2>2. k \in dead => handles[g].slotID = s
    BY <2>1, <1>2 DEF Tables, SessionIndexComplete
  <2>3. k \notin dead
    BY <2>1, <2>2, <1>1, <1>8 DEF Tables, IndexesExact
  <2> QED BY <2>3, <1>5
<1>9. /\ slotSessionCount' \in [Slots -> Nat]
      /\ \A t \in Slots : slotSessionCount'[t] = Cardinality(SessionsOn(t) \ dead)
  <2>1. SessionsOn(s) \ dead = {}
    BY <1>1, EntryTypes DEF SessionsOn, Tables, IndexesExact
  <2>2. \A t \in Slots \ {s} : SessionsOn(t) \ dead = SessionsOn(t)
    BY <1>2 DEF SessionsOn
  <2> QED BY <2>1, <2>2, <1>5, FS_EmptySet DEF Tables, TableTypes, SessionCountExact
<1>10. Tables' /\ ReferencesFollow /\ refCount' \in [Objects -> Int]
  BY <1>2, <1>5, <1>6, <1>7, <1>8, <1>9, EraseInv
<1> QED BY <1>1, <1>5, <1>10

\* Closing a session that is not the last of its slot.
LEMMA ForgetSessionInv ==
  ASSUME Tables, refCount \in [Objects -> Int], NEW hs \in Handles, IsSession(hs), NEW s \in Slots, s = handles[hs].slotID,
         NEW own \in SUBSET Handles, own = {h \in sessionObjectHandles[hs] : Live(h)},
         ForgetSession(hs, own, s)
  PROVE  Tables' /\ ReferencesFollow /\ refCount' \in [Objects -> Int]
<1>1. PICK dead \in SUBSET Handles : dead = {hs} \union own
  OBVIOUS
<1>2. Live(hs) /\ ~ IsObject(hs)
  BY EntryTypes DEF Tables
<1>3. \A h \in own : IsObject(h) /\ Live(h) /\ handles[h].hSession = hs /\ OwnedBySession(h)
                     /\ ~ IsSession(h) /\ handles[h].slotID = s
  <2> SUFFICES ASSUME NEW h \in own
               PROVE IsObject(h) /\ Live(h) /\ handles[h].hSession = hs /\ OwnedBySession(h)
                     /\ ~ IsSession(h) /\ handles[h].slotID = s
    OBVIOUS
  <2>1. IsObject(h) /\ Live(h) /\ handles[h].hSession = hs
    BY DEF Tables, SessionIndexSound
  <2>2. OwnedBySession(h) /\ ~ IsSession(h)
    BY <2>1, EntryTypes DEF OwnedBySession, Tables, Handles, Invalid
  <2> QED BY <2>1, <2>2, <1>2 DEF Tables, SessionIndexComplete
<1>4. ObjectsIn(own) = ObjectsIn({h \in dead : OwnedBySession(h)})
  BY <1>1, <1>2, <1>3 DEF ObjectsIn, OwnedBySession
<1>5. /\ Erase(dead)
      /\ Release(ObjectsIn({h \in dead : OwnedBySession(h)}))
      /\ slotHandles' = [slotHandles EXCEPT ![s] = @ \ dead]
      /\ sessionObjectHandles' = [sessionObjectHandles EXCEPT ![hs] = {}]
      /\ slotSessionCount' = [slotSessionCount EXCEPT ![s] = IF @ > 0 THEN @ - 1 ELSE 0]
  BY <1>1, <1>4 DEF ForgetSession
<1>6. /\ slotHandles' \in [Slots -> SUBSET Handles]
      /\ \A t \in Slots : slotHandles'[t] = slotHandles[t] \ dead
  BY <1>1, <1>3, <1>5 DEF Tables, TableTypes, IndexesExact
<1>7. /\ sessionObjectHandles' \in [Handles -> SUBSET Handles]
      /\ \A k \in Handles : sessionObjectHandles'[k] \subseteq sessionObjectHandles[k]
      /\ \A k \in Handles : \A g \in sessionObjectHandles[k] :
           Live(g) /\ g \notin dead => g \in sessionObjectHandles'[k]
  BY <1>1, <1>5 DEF Tables, TableTypes
<1>8. /\ slotSessionCount' \in [Slots -> Nat]
      /\ \A t \in Slots : slotSessionCount'[t] = Cardinality(SessionsOn(t) \ dead)
  <2>1. SessionsOn(s) \ dead = SessionsOn(s) \ {hs} /\ hs \in SessionsOn(s)
    BY <1>1, <1>3 DEF SessionsOn
  <2>2. \A t \in Slots \ {s} : SessionsOn(t) \ dead = SessionsOn(t)
    BY <1>1, <1>3 DEF SessionsOn
  <2>3. /\ Cardinality(SessionsOn(s) \ {hs}) = Cardinality(SessionsOn(s)) - 1
        /\ Cardinality(SessionsOn(s) \ {hs}) \in Nat
    BY <2>1, SessionsFinite, FS_RemoveElement, FS_CardinalityType
  <2>4. slotSessionCount[s] = Cardinality(SessionsOn(s)) /\ slotSessionCount[s] \in Nat
    BY DEF Tables, SessionCountExact, TableTypes
  <2>5. Cardinality(SessionsOn(s) \ dead) = Cardinality(SessionsOn(s) \ {hs})
    BY <2>1, Zenon
  <2> DEFINE c == slotSessionCount[s]
             d == Cardinality(SessionsOn(s) \ dead)
  <2>6. c \in Nat /\ d \in Nat /\ d = c - 1
    BY <2>3, <2>4, <2>5
  <2> HIDE DEF d
  <2>7. slotSessionCount'[s] = d /\ slotSessionCount' \in [Slots -> Nat]
    BY <2>6, <1>5 DEF Tables, TableTypes
  <2>8. \A t \in Slots \ {s} : slotSessionCount'[t] = Cardinality(SessionsOn(t) \ dead)
    BY <2>2, <1>5 DEF Tables, TableTypes, SessionCountExact
  <2> QED BY <2>7, <2>8 DEF d
<1>9. \A h \in dead : Live(h)
  BY <1>1, <1>2, <1>3
<1> QED BY <1>5, <1>6, <1>7, <1>8, <1>9, EraseInv

\* The session objects that sessionClosed takes from the session index are the
\* live handles the session owns, all on the session's slot.
LEMMA OwnHandles ==
  ASSUME Tables, NEW hs \in Handles, IsSession(hs),
         NEW own, own = {h \in sessionObjectHandles[hs] : Live(h)}
  PROVE  /\ own = {h \in Handles : IsObject(h) /\ handles[h].hSession = hs}
         /\ \A h \in own : OwnedBySession(h) /\ h \in slotHandles[handles[hs].slotID]
         /\ hs \in slotHandles[handles[hs].slotID] /\ handles[hs].slotID \in Slots
<1>1. Live(hs) /\ ~ IsObject(hs) /\ handles[hs] \in SessionHandle
  BY EntryTypes DEF Tables
<1>2. handles[hs].slotID \in Slots
  BY <1>1 DEF SessionHandle
<1>3. ASSUME NEW h \in own
      PROVE  /\ h \in Handles /\ IsObject(h) /\ handles[h].hSession = hs /\ OwnedBySession(h)
             /\ h \in slotHandles[handles[hs].slotID]
  <2>1. h \in Handles /\ IsObject(h) /\ handles[h].hSession = hs /\ Live(h)
    BY DEF Tables, SessionIndexSound, TableTypes
  <2>2. OwnedBySession(h)
    BY <2>1 DEF OwnedBySession, Handles, Invalid
  <2>3. handles[h].slotID = handles[hs].slotID
    BY <2>1, <2>2, <1>1 DEF Tables, SessionIndexComplete
  <2> QED BY <2>1, <2>2, <2>3, <1>2 DEF Tables, IndexesExact
<1>4. ASSUME NEW h \in Handles, IsObject(h), handles[h].hSession = hs PROVE h \in own
  <2>1. OwnedBySession(h) /\ Live(h)
    BY <1>4, EntryTypes DEF OwnedBySession, Handles, Invalid, Tables
  <2> QED BY <2>1, <1>4 DEF Tables, SessionIndexComplete
<1>5. hs \in slotHandles[handles[hs].slotID]
  BY <1>1, <1>2 DEF Tables, IndexesExact
<1>6. own = {h \in Handles : IsObject(h) /\ handles[h].hSession = hs}
  BY <1>3, <1>4
<1> QED BY <1>2, <1>3, <1>5, <1>6

\* The counter says "last session" exactly when a scan would.
LEMMA LastSession ==
  ASSUME Tables, NEW hs \in Handles, IsSession(hs)
  PROVE  slotSessionCount[handles[hs].slotID] <= 1 <=> SessionsOn(handles[hs].slotID) = {hs}
<1>1. PICK s \in Slots : s = handles[hs].slotID
  BY EntryTypes DEF Tables, SessionHandle
<1>2. hs \in SessionsOn(s) /\ IsFiniteSet(SessionsOn(s)) /\ IsFiniteSet(SessionsOn(s) \ {hs})
  <2>1. hs \in SessionsOn(s)
    BY <1>1 DEF SessionsOn
  <2>2. IsFiniteSet(SessionsOn(s))
    BY SessionsFinite
  <2>3. IsFiniteSet(SessionsOn(s) \ {hs})
    BY <2>2, FS_RemoveElement
  <2> QED BY <2>1, <2>2, <2>3
<1>3. Cardinality(SessionsOn(s) \ {hs}) = Cardinality(SessionsOn(s)) - 1
  BY <1>2, FS_RemoveElement
<1>4. Cardinality(SessionsOn(s) \ {hs}) \in Nat
  BY <1>2, FS_CardinalityType
<1>5. Cardinality(SessionsOn(s) \ {hs}) = 0 <=> SessionsOn(s) \ {hs} = {}
  BY <1>2, FS_EmptySet
<1>6. slotSessionCount[s] = Cardinality(SessionsOn(s)) /\ slotSessionCount[s] \in Nat
  BY DEF Tables, SessionCountExact, TableTypes
<1>7. slotSessionCount[s] <= 1 <=> Cardinality(SessionsOn(s) \ {hs}) = 0
  BY <1>3, <1>4, <1>6
<1>8. SessionsOn(s) \ {hs} = {} <=> SessionsOn(s) = {hs}
  BY <1>2
<1> QED BY <1>1, <1>5, <1>7, <1>8

\* Closing a session keeps the invariant and drops exactly the handles that a
\* scan of the whole table would drop.
LEMMA SessionClosedInv ==
  ASSUME Tables, refCount \in [Objects -> Int], NEW hs \in Handles, sessionClosed(hs)
  PROVE  /\ Tables' /\ ReferencesFollow /\ refCount' \in [Objects -> Int]
         /\ IsSession(hs)
         /\ Erase(IF SessionsOn(handles[hs].slotID) = {hs}
                    THEN slotHandles[handles[hs].slotID]
                    ELSE {hs} \union {h \in Handles : IsObject(h) /\ handles[h].hSession = hs})
<1>1. IsSession(hs)
  BY DEF sessionClosed
<1>2. PICK s : s = handles[hs].slotID
  OBVIOUS
<1>3. PICK own : own = {h \in sessionObjectHandles[hs] : Live(h)}
  OBVIOUS
<1>4. /\ own = {h \in Handles : IsObject(h) /\ handles[h].hSession = hs}
      /\ \A h \in own : OwnedBySession(h) /\ h \in slotHandles[s]
      /\ hs \in slotHandles[s] /\ s \in Slots
  BY <1>1, <1>2, <1>3, OwnHandles
<1>5. own \in SUBSET Handles /\ {hs} \union own \in SUBSET Handles
  BY <1>4
<1>6. CASE slotSessionCount[s] <= 1
  <2>1. ForgetSlot(s, {hs} \union own)
    BY <1>2, <1>3, <1>6 DEF sessionClosed
  <2>2. ~ IsObject(hs)
    BY <1>1, EntryTypes DEF Tables
  <2>3. Tables' /\ ReferencesFollow /\ refCount' \in [Objects -> Int] /\ Erase(slotHandles[s])
    BY <1>4, <1>5, <2>1, <2>2, ForgetSlotInv
  <2>4. SessionsOn(s) = {hs}
    BY <1>1, <1>2, <1>6, LastSession
  <2> QED BY <1>1, <1>2, <2>3, <2>4
<1>7. CASE ~ slotSessionCount[s] <= 1
  <2>1. ForgetSession(hs, own, s)
    BY <1>2, <1>3, <1>7 DEF sessionClosed
  <2>2. Tables' /\ ReferencesFollow /\ refCount' \in [Objects -> Int]
    BY <1>1, <1>2, <1>3, <1>4, <1>5, <2>1, ForgetSessionInv
  <2>3. SessionsOn(s) # {hs}
    BY <1>1, <1>2, <1>7, LastSession
  <2>4. Erase({hs} \union own)
    BY <2>1 DEF ForgetSession
  <2> QED BY <1>1, <1>2, <1>4, <2>2, <2>3, <2>4
<1> QED BY <1>6, <1>7

\* Registering an object, as a session or as a token object.
LEMMA RegisterInv ==
  ASSUME Tables, refCount \in [Objects -> Int], RegisterSessionObject \/ RegisterTokenObject
  PROVE  Tables' /\ ReferencesFollow /\ refCount' \in [Objects -> Int]
<1>1. CASE RegisterSessionObject
  <2>1. PICK o \in Objects, hs \in Handles, private \in BOOLEAN :
          MayOwn(hs, SlotOf[o]) /\ addSessionObject(SlotOf[o], hs, private, o)
    BY <1>1 DEF RegisterSessionObject
  <2>2. CASE AlreadyRegistered(SlotOf[o], o)
    BY <2>2, RegisteredUnchanged, StutterInv
  <2>3. CASE ~ AlreadyRegistered(SlotOf[o], o)
    <3>1. hs # Invalid
      BY DEF Handles, Invalid
    <3> QED BY <2>1, <2>3, <3>1, NewObjectInv DEF addSessionObject
  <2> QED BY <2>2, <2>3
<1>2. CASE RegisterTokenObject
  <2>1. PICK o \in TokenObjects, private \in BOOLEAN : addTokenObject(SlotOf[o], private, o)
    BY <1>2 DEF RegisterTokenObject
  <2>2. o \in Objects
    BY ConstantsOK
  <2>3. CASE AlreadyRegistered(SlotOf[o], o)
    BY <2>2, <2>3, RegisteredUnchanged, StutterInv
  <2>4. CASE ~ AlreadyRegistered(SlotOf[o], o)
    BY <2>1, <2>2, <2>4, NewObjectInv DEF addTokenObject
  <2> QED BY <2>3, <2>4
<1> QED BY <1>1, <1>2

\* Every step keeps the tables and the references right.
LEMMA NextTables ==
  ASSUME Tables, refCount \in [Objects -> Int], [Next]_vars
  PROVE  Tables' /\ ReferencesFollow /\ refCount' \in [Objects -> Int]
<1>1. CASE OpenSession
  BY <1>1, AddSessionInv DEF OpenSession
<1>2. CASE RegisterSessionObject \/ RegisterTokenObject
  BY <1>2, RegisterInv
<1>3. CASE DestroyObject
  BY <1>3, DestroyObjectInv DEF DestroyObject
<1>4. CASE CloseSession
  BY <1>4, SessionClosedInv DEF CloseSession
<1>5. CASE CloseAllSessions
  <2>1. PICK s \in Slots : ForgetSlot(s, {})
    BY <1>5 DEF CloseAllSessions, allSessionsClosed
  <2> QED BY <2>1, ForgetSlotInv
<1>6. CASE Logout
  BY <1>6, TokenLoggedOutInv DEF Logout
<1>7. CASE UNCHANGED vars
  BY <1>7, StutterInv
<1> QED BY <1>1, <1>2, <1>3, <1>4, <1>5, <1>6, <1>7 DEF Next

\* The counts that are exact are natural numbers.
LEMMA ExactTypes ==
  ASSUME Tables, refCount \in [Objects -> Int], ReferencesExact PROVE Inv
<1>1. \A o \in Objects : refCount[o] \in Nat
  BY DEF ReferencesExact
<1> QED BY <1>1 DEF Inv, Tables, TypeOK

\* The initial state satisfies the invariant.
LEMMA InitInv == Init => Inv
<1> SUFFICES ASSUME Init PROVE Inv
  OBVIOUS
<1>1. Tables /\ refCount \in [Objects -> Int]
  BY InitTables DEF Init
<1>2. \A h \in Handles : ~ OwnedBySession(h)
  BY DEF Init, TablesInit, OwnedBySession, IsObject, NoHandle
<1>3. ReferencesExact
  BY <1>2 DEF Init, ReferencesExact
<1> QED BY <1>1, <1>3, ExactTypes

\* Every step keeps the invariant.
LEMMA NextInv == Inv /\ [Next]_vars => Inv'
<1> SUFFICES ASSUME Inv, [Next]_vars PROVE Inv'
  OBVIOUS
<1>1. Tables /\ refCount \in [Objects -> Int] /\ ReferencesExact
  BY DEF Inv, TypeOK
<1>2. Tables' /\ ReferencesFollow /\ refCount' \in [Objects -> Int]
  BY <1>1, NextTables
<1>3. ReferencesExact'
  BY <1>1, <1>2, ReferencesStep
<1>4. \A o \in Objects : refCount'[o] \in Nat
  BY <1>3 DEF ReferencesExact
<1>5. TypeOK'
  BY <1>2, <1>4 DEF Tables, TypeOK
<1> QED BY <1>2, <1>3, <1>5 DEF Inv

\* The invariant holds in every reachable state, for all constants.
THEOREM InvariantHolds == Spec => []Inv
BY InitInv, NextInv, PTL DEF Spec

\* The tables have their types.
THEOREM TypeCorrect == Spec => []TypeOK
<1>1. Inv => TypeOK
  BY DEF Inv
<1> QED BY <1>1, InvariantHolds, PTL

\* The slot and object indexes are what a scan of the handle map would give.
THEOREM IndexesStayExact == Spec => []IndexesExact
<1>1. Inv => IndexesExact
  BY DEF Inv, Tables
<1> QED BY <1>1, InvariantHolds, PTL

\* Every session object handle is reachable from its session.
THEOREM SessionIndexStaysComplete == Spec => []SessionIndexComplete
<1>1. Inv => SessionIndexComplete
  BY DEF Inv, Tables
<1> QED BY <1>1, InvariantHolds, PTL

\* The session counters are exact.
THEOREM SessionCountStaysExact == Spec => []SessionCountExact
<1>1. Inv => SessionCountExact
  BY DEF Inv, Tables
<1> QED BY <1>1, InvariantHolds, PTL

\* No reference is leaked or released twice.
THEOREM ReferencesStayExact == Spec => []ReferencesExact
<1>1. Inv => ReferencesExact
  BY DEF Inv, Tables
<1> QED BY <1>1, InvariantHolds, PTL

\* What the lemmas about the steps need of the invariant.
LEMMA InvTables == Inv => Tables /\ refCount \in [Objects -> Int]
BY DEF Inv, TypeOK

\* A step that erases handles neither revives nor changes a handle.
LEMMA EraseNeverReuses ==
  ASSUME TableTypes, NEW dead, Erase(dead), NEW h \in Handles
  PROVE  /\ ~ Live(h) /\ Live(h)' => h > handleCounter
         /\ Live(h) /\ Live(h)' => handles'[h] = handles[h]
BY DEF Erase, Live, NoHandle, TableTypes

\* Nor does a step that issues one.
LEMMA IssueNeverReuses ==
  ASSUME Tables, NEW entry \in SessionHandle \union ObjectHandle, NewHandle(entry),
         NEW h \in Handles
  PROVE  /\ ~ Live(h) /\ Live(h)' => h > handleCounter
         /\ Live(h) /\ Live(h)' => handles'[h] = handles[h]
<1>1. PICK n : n = handleCounter + 1
  OBVIOUS
<1>2. /\ n > handleCounter /\ ~ Live(n)
      /\ \A g \in Handles : g # n => handles'[g] = handles[g]
  <2>1. Added(entry, n)
    BY <1>1, NewEntry
  <2> QED BY <2>1 DEF Added
<1> QED BY <1>2 DEF Live

\* Every step that changes handles issues one entry or erases some.
LEMMA StepShapes ==
  ASSUME Tables, refCount \in [Objects -> Int], Next
  PROVE  \/ \E entry \in SessionHandle \union ObjectHandle : NewHandle(entry)
         \/ \E dead : Erase(dead)
         \/ UNCHANGED vars
<1>1. CASE OpenSession
  <2>1. PICK s \in Slots, p \in Sessions : addSession(s, p)
    BY <1>1 DEF OpenSession
  <2>2. [kind |-> "session", slotID |-> s, session |-> p] \in SessionHandle
    BY DEF SessionHandle
  <2> QED BY <2>1, <2>2 DEF addSession
<1>2. CASE RegisterSessionObject
  <2>1. PICK o \in Objects, hs \in Handles, private \in BOOLEAN :
          addSessionObject(SlotOf[o], hs, private, o)
    BY <1>2 DEF RegisterSessionObject
  <2>2. [kind |-> "object", slotID |-> SlotOf[o], hSession |-> hs, isPrivate |-> private,
         object |-> o] \in ObjectHandle
    BY ConstantsOK DEF ObjectHandle
  <2> QED BY <2>1, <2>2, RegisteredUnchanged DEF addSessionObject, NewObjectHandle
<1>3. CASE RegisterTokenObject
  <2>1. PICK o \in TokenObjects, private \in BOOLEAN : addTokenObject(SlotOf[o], private, o)
    BY <1>3 DEF RegisterTokenObject
  <2>2. o \in Objects /\ Invalid \in Handles \union {Invalid}
    BY ConstantsOK
  <2>3. [kind |-> "object", slotID |-> SlotOf[o], hSession |-> Invalid, isPrivate |-> private,
         object |-> o] \in ObjectHandle
    BY <2>2, ConstantsOK DEF ObjectHandle
  <2> QED BY <2>1, <2>2, <2>3, RegisteredUnchanged DEF addTokenObject, NewObjectHandle
<1>4. CASE DestroyObject
  BY <1>4 DEF DestroyObject, destroyObject
<1>5. CASE CloseSession
  <2>1. PICK hs \in Handles : sessionClosed(hs)
    BY <1>5 DEF CloseSession
  <2> QED BY <2>1, SessionClosedInv
<1>6. CASE CloseAllSessions
  <2>1. PICK s \in Slots : ForgetSlot(s, {})
    BY <1>6 DEF CloseAllSessions, allSessionsClosed
  <2> QED BY <2>1, ForgetSlotInv
<1>7. CASE Logout
  <2>1. PICK s \in Slots : tokenLoggedOut(s)
    BY <1>7 DEF Logout
  <2> QED BY <2>1 DEF tokenLoggedOut
<1> QED BY <1>1, <1>2, <1>3, <1>4, <1>5, <1>6, <1>7 DEF Next

\* A handle once issued is never issued again, and a live handle never changes
\* what it denotes.
THEOREM NeverReused == Spec => HandlesNeverReused
<1>1. ASSUME Inv, [Next]_vars
      PROVE  [\A h \in Handles :
                 /\ ~ Live(h) /\ Live(h)' => h > handleCounter
                 /\ Live(h) /\ Live(h)' => handles'[h] = handles[h]]_vars
  <2> SUFFICES ASSUME Next, NEW h \in Handles
               PROVE  \/ /\ ~ Live(h) /\ Live(h)' => h > handleCounter
                         /\ Live(h) /\ Live(h)' => handles'[h] = handles[h]
                      \/ UNCHANGED vars
    BY <1>1
  <2> QED BY <1>1, InvTables, StepShapes, IssueNeverReuses, EraseNeverReuses DEF Tables
<1> QED BY <1>1, InvariantHolds, PTL DEF Spec, HandlesNeverReused

\* Under the refinement mapping an erasing step forgets the same handles.
LEMMA EraseForgets ==
  ASSUME NEW dead, Erase(dead) PROVE Table!Forget(dead)
BY DEF Erase, Table!Forget, Table!NoEntry, NoHandle, Table!Handles, Handles

\* And a new handle is one that the abstract table never issued.
LEMMA NewHandleIssues ==
  ASSUME Tables, NEW entry \in SessionHandle \union ObjectHandle, NewHandle(entry),
         NEW n, n = handleCounter + 1
  PROVE  n \in Table!Handles /\ Table!Issue(n, entry)
<1>1. n \in Handles /\ n \in Nat /\ n > handleCounter /\ handleCounter \in Nat
  <2>1. Added(entry, n)
    BY NewEntry
  <2> QED BY <2>1 DEF Added, Tables, TableTypes
<1>2. n \notin 1..handleCounter
  BY <1>1
<1>3. 1..handleCounter' = (1..handleCounter) \union {n}
  BY <1>1 DEF NewHandle
<1>4. handles' = [handles EXCEPT ![n] = entry]
  BY DEF NewHandle
<1> QED BY <1>1, <1>2, <1>3, <1>4 DEF Table!Issue, Table!Handles, Handles

\* A registration under a new handle is a registration of the abstract table.
LEMMA RegisterRefines ==
  ASSUME Tables, NEW o \in Objects, NEW private \in BOOLEAN,
         NEW hs \in Handles \union {Invalid}, hs # Invalid => hs <= handleCounter,
         NewObjectHandle(SlotOf[o], hs, private, o)
  PROVE  Table!RegisterObject
<1>1. PICK n : n = handleCounter + 1
  OBVIOUS
<1>2. PICK entry : entry = [kind |-> "object", slotID |-> SlotOf[o], hSession |-> hs,
                            isPrivate |-> private, object |-> o]
  OBVIOUS
<1>3. entry \in ObjectHandle /\ NewHandle(entry)
  BY <1>2, ConstantsOK DEF ObjectHandle, NewObjectHandle
<1>4. n \in Table!Handles /\ Table!Issue(n, entry)
  BY <1>1, <1>3, NewHandleIssues
<1>5. ~ Table!Registered(o)
  BY DEF NewObjectHandle, Tables, IndexesExact, Table!Registered, Table!IsObject, IsObject,
     Table!Handles, Handles, Invalid
<1>6. hs \in 1..handleCounter \union {Table!Invalid}
  BY DEF Tables, TableTypes, Table!Invalid, Invalid, Handles
<1>7. entry = Table!ObjectEntry(SlotOf[o], hs, private, o)
  BY <1>2 DEF Table!ObjectEntry
<1> QED BY <1>4, <1>5, <1>6, <1>7, ConstantsOK DEF Table!RegisterObject

\* Every step of the manager is a step of the table without indexes.
LEMMA StepRefines ==
  ASSUME Tables, refCount \in [Objects -> Int], Next
  PROVE  Table!Next \/ UNCHANGED vars
<1>1. CASE OpenSession
  <2>1. PICK s \in Slots, p \in Sessions : addSession(s, p)
    BY <1>1 DEF OpenSession
  <2>2. PICK entry : entry = [kind |-> "session", slotID |-> s, session |-> p]
    OBVIOUS
  <2>3. entry \in SessionHandle /\ NewHandle(entry)
    BY <2>1, <2>2 DEF SessionHandle, addSession
  <2>4. PICK n : n = handleCounter + 1
    OBVIOUS
  <2>5. n \in Table!Handles /\ Table!Issue(n, entry)
    BY <2>3, <2>4, NewHandleIssues
  <2>6. entry = Table!SessionEntry(s, p)
    BY <2>2 DEF Table!SessionEntry
  <2> QED BY <2>5, <2>6 DEF Table!OpenSession, Table!Next
<1>2. CASE RegisterSessionObject
  <2>1. PICK o \in Objects, hs \in Handles, private \in BOOLEAN :
          MayOwn(hs, SlotOf[o]) /\ addSessionObject(SlotOf[o], hs, private, o)
    BY <1>2 DEF RegisterSessionObject
  <2>2. CASE AlreadyRegistered(SlotOf[o], o)
    BY <2>2, RegisteredUnchanged
  <2>3. CASE ~ AlreadyRegistered(SlotOf[o], o)
    <3>1. NewObjectHandle(SlotOf[o], hs, private, o) /\ hs <= handleCounter
      BY <2>1, <2>3 DEF addSessionObject, MayOwn
    <3> QED BY <3>1, RegisterRefines DEF Table!Next
  <2> QED BY <2>2, <2>3
<1>3. CASE RegisterTokenObject
  <2>1. PICK o \in TokenObjects, private \in BOOLEAN : addTokenObject(SlotOf[o], private, o)
    BY <1>3 DEF RegisterTokenObject
  <2>2. o \in Objects
    BY ConstantsOK
  <2>3. CASE AlreadyRegistered(SlotOf[o], o)
    BY <2>2, <2>3, RegisteredUnchanged
  <2>4. CASE ~ AlreadyRegistered(SlotOf[o], o)
    <3>1. NewObjectHandle(SlotOf[o], Invalid, private, o)
      BY <2>1, <2>4 DEF addTokenObject
    <3> QED BY <2>2, <3>1, RegisterRefines DEF Table!Next
  <2> QED BY <2>3, <2>4
<1>4. CASE DestroyObject
  <2>1. PICK h \in Handles : destroyObject(h)
    BY <1>4 DEF DestroyObject
  <2>2. Table!Forget({h})
    BY <2>1, EraseForgets DEF destroyObject
  <2> QED BY <2>1, <2>2 DEF destroyObject, Table!DestroyObject, Table!Next, Table!IsObject,
             IsObject, Table!Handles, Handles
<1>5. CASE CloseSession
  <2>1. PICK hs \in Handles : sessionClosed(hs)
    BY <1>5 DEF CloseSession
  <2>2. PICK s : s = handles[hs].slotID
    OBVIOUS
  <2>3. /\ IsSession(hs)
        /\ Erase(IF SessionsOn(s) = {hs}
                   THEN slotHandles[s]
                   ELSE {hs} \union {h \in Handles : IsObject(h) /\ handles[h].hSession = hs})
    BY <2>1, <2>2, SessionClosedInv
  <2>4. s \in Slots
    BY <2>2, <2>3, EntryTypes DEF Tables, SessionHandle
  <2>5. slotHandles[s] = Table!HandlesOf(s)
    <3>1. \A h \in Handles : Live(h) <=> handles[h] # Table!NoEntry
      BY EntryTypes DEF Tables, Live, NoHandle, Table!NoEntry
    <3> QED BY <2>4, <3>1 DEF Tables, IndexesExact, TableTypes, Table!HandlesOf, Table!Handles, Handles
  <2>6. /\ SessionsOn(s) = Table!SessionsOf(s)
        /\ {h \in Handles : IsObject(h) /\ handles[h].hSession = hs} = Table!ObjectsOf(hs)
    BY DEF SessionsOn, Table!SessionsOf, Table!ObjectsOf, IsSession, IsObject, Table!IsSession,
       Table!IsObject, Handles, Table!Handles
  <2>7. Table!Forget(IF Table!SessionsOf(s) = {hs} THEN Table!HandlesOf(s)
                                                   ELSE {hs} \union Table!ObjectsOf(hs))
    BY <2>3, <2>5, <2>6, EraseForgets
  <2> QED BY <2>2, <2>3, <2>7 DEF Table!CloseSession, Table!Next, Table!IsSession, IsSession,
             Table!Handles, Handles
<1>6. CASE CloseAllSessions
  <2>1. PICK s \in Slots : ForgetSlot(s, {})
    BY <1>6 DEF CloseAllSessions, allSessionsClosed
  <2>2. Erase(slotHandles[s])
    BY <2>1, ForgetSlotInv
  <2>3. slotHandles[s] = Table!HandlesOf(s)
    <3>1. \A h \in Handles : Live(h) <=> handles[h] # Table!NoEntry
      BY EntryTypes DEF Tables, Live, NoHandle, Table!NoEntry
    <3> QED BY <3>1 DEF Tables, IndexesExact, TableTypes, Table!HandlesOf, Table!Handles, Handles
  <2>4. Table!Forget(Table!HandlesOf(s))
    BY <2>2, <2>3, EraseForgets
  <2> QED BY <2>4 DEF Table!CloseAllSessions, Table!Next
<1>7. CASE Logout
  <2>1. PICK s \in Slots : tokenLoggedOut(s)
    BY <1>7 DEF Logout
  <2>2. PICK dead : dead = {h \in slotHandles[s] : IsObject(h) /\ handles[h].isPrivate}
    OBVIOUS
  <2>3. Erase(dead)
    BY <2>1, <2>2 DEF tokenLoggedOut
  <2>4. dead = Table!PrivateOf(s)
    <3>1. \A h \in Handles : Live(h) <=> handles[h] # Table!NoEntry
      BY EntryTypes DEF Tables, Live, NoHandle, Table!NoEntry
    <3>2. slotHandles[s] = Table!HandlesOf(s)
      BY <3>1 DEF Tables, IndexesExact, TableTypes, Table!HandlesOf, Table!Handles, Handles
    <3> QED BY <2>2, <3>2 DEF Table!PrivateOf, Table!IsObject, IsObject
  <2>5. Table!Forget(Table!PrivateOf(s))
    BY <2>3, <2>4, EraseForgets
  <2> QED BY <2>5 DEF Table!Logout, Table!Next
<1> QED BY <1>1, <1>2, <1>3, <1>4, <1>5, <1>6, <1>7 DEF Next

\* HandleManager implements HandleTable: cleanup through the indexes and the
\* session counter drops exactly the handles a scan of the map would drop, and
\* every handle given out is new.
THEOREM RefinesTable == Spec => ImplementsTable
<1>1. Init => Table!Init
  BY DEF Init, TablesInit, Table!Init, Table!NoEntry, NoHandle, Table!Handles, Handles
<1>2. ASSUME Inv, [Next]_vars PROVE [Table!Next]_(Table!vars)
  <2>1. UNCHANGED vars => UNCHANGED Table!vars
    BY DEF vars, Table!vars
  <2> QED BY <1>2, <2>1, InvTables, StepRefines
<1> QED BY <1>1, <1>2, InvariantHolds, PTL DEF Spec, ImplementsTable, Table!Spec

\* Erasing handles strands nobody when every slot that keeps a handle keeps a
\* session.
LEMMA EraseNoOrphans ==
  ASSUME Tables, NoSessionNoHandles, NEW dead, Erase(dead),
         \A h \in Handles \ dead : Live(h) /\ HasSession(handles[h].slotID)
             => \E k \in SessionsOn(handles[h].slotID) : k \notin dead
  PROVE  NoSessionNoHandles'
<1> SUFFICES ASSUME ~ Racing, NEW h \in Handles, Live(h)'
             PROVE  HasSession(handles[h].slotID)'
  BY DEF NoSessionNoHandles
<1>1. \A g \in Handles : handles'[g] = IF g \in dead THEN NoHandle ELSE handles[g]
  BY DEF Erase
<1>2. h \notin dead /\ handles'[h] = handles[h] /\ Live(h)
  BY <1>1 DEF Live, NoHandle
<1>3. PICK k \in SessionsOn(handles[h].slotID) : k \notin dead
  BY <1>2 DEF NoSessionNoHandles
<1>4. k \in Handles /\ handles'[k] = handles[k] /\ IsSession(k) /\ handles[k].slotID = handles[h].slotID
  BY <1>1, <1>3 DEF SessionsOn
<1> QED BY <1>2, <1>4 DEF HasSession, SessionsOn, IsSession

\* Nor does issuing a handle on a slot that has, or now gets, a session.
LEMMA IssueNoOrphans ==
  ASSUME Tables, NoSessionNoHandles, NEW entry \in SessionHandle \union ObjectHandle,
         NewHandle(entry),
         entry.kind = "session" \/ Racing \/ HasSession(entry.slotID)
  PROVE  NoSessionNoHandles'
<1> SUFFICES ASSUME ~ Racing, NEW h \in Handles, Live(h)'
             PROVE  HasSession(handles[h].slotID)'
  BY DEF NoSessionNoHandles
<1>1. PICK n : n = handleCounter + 1
  OBVIOUS
<1>2. /\ n \in Handles /\ ~ Live(n) /\ handles'[n] = entry /\ handles[n] = NoHandle
      /\ \A g \in Handles : g # n => handles'[g] = handles[g]
  <2>1. Added(entry, n)
    BY <1>1, NewEntry
  <2> QED BY <2>1 DEF Added
<1>3. ASSUME NEW s, HasSession(s) PROVE HasSession(s)'
  <2>1. PICK k \in Handles : IsSession(k) /\ handles[k].slotID = s
    BY <1>3 DEF HasSession, SessionsOn
  <2>2. k # n /\ handles'[k] = handles[k]
    BY <2>1, <1>2 DEF IsSession, NoHandle
  <2> QED BY <2>1, <2>2 DEF HasSession, SessionsOn, IsSession
<1>4. CASE h # n
  <2>1. Live(h) /\ handles'[h] = handles[h]
    BY <1>2, <1>4 DEF Live
  <2>2. HasSession(handles[h].slotID)
    BY <2>1 DEF NoSessionNoHandles
  <2>3. PICK s : s = handles[h].slotID
    OBVIOUS
  <2>4. HasSession(s)'
    BY <2>2, <2>3, <1>3
  <2> QED BY <2>1, <2>3, <2>4 DEF HasSession, SessionsOn
<1>5. CASE h = n
  <2>1. handles'[h] = entry
    BY <1>2, <1>5
  <2>2. CASE entry.kind = "session"
    BY <2>1, <2>2 DEF HasSession, SessionsOn, IsSession
  <2>3. CASE HasSession(entry.slotID)
    <3>1. HasSession(entry.slotID)'
      BY <2>3, <1>3
    <3> QED BY <2>1, <3>1 DEF HasSession, SessionsOn
  <2> QED BY <2>2, <2>3
<1> QED BY <1>4, <1>5

\* Each step leaves no handle on a slot without sessions, if no thread
\* registers behind a close.
LEMMA NoOrphansStep ==
  ASSUME Tables, refCount \in [Objects -> Int], NoSessionNoHandles, Next PROVE NoSessionNoHandles'
<1>1. CASE OpenSession
  <2>1. PICK s \in Slots, p \in Sessions : addSession(s, p)
    BY <1>1 DEF OpenSession
  <2>2. PICK entry \in SessionHandle : NewHandle(entry) /\ entry.kind = "session"
    <3>1. [kind |-> "session", slotID |-> s, session |-> p] \in SessionHandle
      BY DEF SessionHandle
    <3> QED BY <2>1, <3>1 DEF addSession
  <2> QED BY <2>2, IssueNoOrphans
<1>2. CASE RegisterSessionObject
  <2>1. PICK o \in Objects, hs \in Handles, private \in BOOLEAN :
          MayOwn(hs, SlotOf[o]) /\ addSessionObject(SlotOf[o], hs, private, o)
    BY <1>2 DEF RegisterSessionObject
  <2>2. CASE AlreadyRegistered(SlotOf[o], o)
    BY <2>2, RegisteredUnchanged DEF vars, indexes, NoSessionNoHandles, Live, HasSession,
       SessionsOn, IsSession
  <2>3. CASE ~ AlreadyRegistered(SlotOf[o], o)
    <3>1. PICK entry \in ObjectHandle : NewHandle(entry) /\ entry.slotID = SlotOf[o]
      <4>1. [kind |-> "object", slotID |-> SlotOf[o], hSession |-> hs, isPrivate |-> private,
             object |-> o] \in ObjectHandle
        BY ConstantsOK DEF ObjectHandle
      <4> QED BY <2>1, <2>3, <4>1 DEF addSessionObject, NewObjectHandle
    <3>2. Racing \/ HasSession(SlotOf[o])
      BY <2>1 DEF MayOwn, HasSession, SessionsOn
    <3> QED BY <3>1, <3>2, IssueNoOrphans
  <2> QED BY <2>2, <2>3
<1>3. CASE RegisterTokenObject
  <2>1. PICK o \in TokenObjects, private \in BOOLEAN :
          (Racing \/ HasSession(SlotOf[o])) /\ addTokenObject(SlotOf[o], private, o)
    BY <1>3 DEF RegisterTokenObject
  <2>2. o \in Objects
    BY ConstantsOK
  <2>3. CASE AlreadyRegistered(SlotOf[o], o)
    BY <2>2, <2>3, RegisteredUnchanged DEF vars, indexes, NoSessionNoHandles, Live, HasSession,
       SessionsOn, IsSession
  <2>4. CASE ~ AlreadyRegistered(SlotOf[o], o)
    <3>1. PICK entry \in ObjectHandle : NewHandle(entry) /\ entry.slotID = SlotOf[o]
      <4>1. [kind |-> "object", slotID |-> SlotOf[o], hSession |-> Invalid, isPrivate |-> private,
             object |-> o] \in ObjectHandle
        BY <2>2, ConstantsOK DEF ObjectHandle
      <4> QED BY <2>1, <2>4, <4>1 DEF addTokenObject, NewObjectHandle
    <3> QED BY <2>1, <3>1, IssueNoOrphans
  <2> QED BY <2>3, <2>4
<1>4. CASE DestroyObject
  <2>1. PICK h \in Handles : IsObject(h) /\ Erase({h})
    BY <1>4 DEF DestroyObject, destroyObject
  <2>2. \A s : \A k \in SessionsOn(s) : k \notin {h}
    BY <2>1 DEF SessionsOn, IsSession, IsObject
  <2> QED BY <2>1, <2>2, EraseNoOrphans DEF HasSession
<1>5. CASE CloseSession
  <2>1. PICK hs \in Handles : sessionClosed(hs)
    BY <1>5 DEF CloseSession
  <2>2. PICK s : s = handles[hs].slotID
    OBVIOUS
  <2>3. PICK dead : /\ Erase(dead)
                    /\ dead = IF SessionsOn(s) = {hs}
                                THEN slotHandles[s]
                                ELSE {hs} \union {h \in Handles : IsObject(h) /\ handles[h].hSession = hs}
    BY <2>1, <2>2, SessionClosedInv
  <2>4. IsSession(hs) /\ hs \in SessionsOn(s) /\ s \in Slots
    BY <2>1, <2>2, EntryTypes DEF sessionClosed, SessionsOn, Tables, SessionHandle
  <2>5. ASSUME NEW h \in Handles \ dead, Live(h), HasSession(handles[h].slotID)
        PROVE  \E k \in SessionsOn(handles[h].slotID) : k \notin dead
    <3>1. PICK k \in SessionsOn(handles[h].slotID) : TRUE
      BY <2>5 DEF HasSession
    <3>2. \A g \in Handles : IsSession(g) => ~ IsObject(g)
      BY DEF IsSession, IsObject
    <3>3. CASE SessionsOn(s) = {hs}
      <4>1. handles[h].slotID # s
        BY <2>3, <2>4, <2>5, <3>3 DEF Tables, IndexesExact
      <4> QED BY <2>3, <2>4, <3>1, <3>3, <4>1 DEF Tables, IndexesExact, SessionsOn
    <3>4. CASE SessionsOn(s) # {hs} /\ handles[h].slotID = s
      BY <2>3, <2>4, <3>2, <3>4 DEF SessionsOn
    <3>5. CASE SessionsOn(s) # {hs} /\ handles[h].slotID # s
      BY <2>2, <2>3, <3>1, <3>2, <3>5 DEF SessionsOn
    <3> QED BY <3>3, <3>4, <3>5
  <2> QED BY <2>3, <2>5, EraseNoOrphans
<1>6. CASE CloseAllSessions
  <2>1. PICK s \in Slots : ForgetSlot(s, {})
    BY <1>6 DEF CloseAllSessions, allSessionsClosed
  <2>2. Erase(slotHandles[s])
    BY <2>1, ForgetSlotInv
  <2>3. ASSUME NEW h \in Handles \ slotHandles[s], Live(h), HasSession(handles[h].slotID)
        PROVE  \E k \in SessionsOn(handles[h].slotID) : k \notin slotHandles[s]
    BY <2>3 DEF HasSession, SessionsOn, Tables, IndexesExact
  <2> QED BY <2>2, <2>3, EraseNoOrphans
<1>7. CASE Logout
  <2>1. PICK s \in Slots : tokenLoggedOut(s)
    BY <1>7 DEF Logout
  <2>2. PICK dead : /\ Erase(dead)
                    /\ dead = {h \in slotHandles[s] : IsObject(h) /\ handles[h].isPrivate}
    BY <2>1 DEF tokenLoggedOut
  <2>3. \A t : \A k \in SessionsOn(t) : k \notin dead
    BY <2>2 DEF SessionsOn, IsSession, IsObject
  <2> QED BY <2>2, <2>3, EraseNoOrphans DEF HasSession
<1> QED BY <1>1, <1>2, <1>3, <1>4, <1>5, <1>6, <1>7 DEF Next

\* Without registrations behind a close, a slot that has no session has no
\* handle: the last close really removes everything.
THEOREM LastCloseRemovesAll == Spec => []NoSessionNoHandles
<1>1. Init => NoSessionNoHandles
  BY DEF Init, TablesInit, NoSessionNoHandles, Live, NoHandle
<1>2. ASSUME Inv, NoSessionNoHandles, [Next]_vars PROVE NoSessionNoHandles'
  <2>1. CASE UNCHANGED vars
    BY <1>2, <2>1 DEF vars, indexes, NoSessionNoHandles, Live, HasSession, SessionsOn, IsSession
  <2> QED BY <1>2, <2>1, InvTables, NoOrphansStep
<1> QED BY <1>1, <1>2, InvariantHolds, PTL DEF Spec
=============================================================================
