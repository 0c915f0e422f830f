--------------------------- MODULE SoftHSM_proofs ---------------------------
(***************************************************************************)
(* Proofs about SoftHSM for any slots, objects, threads and numbers of     *)
(* sessions and handles.  The handle manager's part of the invariant comes *)
(* from HandleManager_proofs, instantiated as SoftHSM instantiates the     *)
(* manager.                                                                *)
(***************************************************************************)
EXTENDS SoftHSM, SequenceTheorems, FiniteSetTheorems, TLAPS

HMP == INSTANCE HandleManager_proofs WITH Sessions <- 1..MaxSessions, Racing <- FALSE

(***************************************************************************)
(* The inductive invariant, in four layers: the sessions and their         *)
(* handles, the objects and their references, private objects, searches.   *)
(* It holds for careful applications (SoftHSM!CarefulApplications).        *)
(***************************************************************************)

Alone == \E t \in Threads : workload.threads = {t}

\* What a thread carries at each point of a function.
CallType ==
  {Idle}
    \union [at : {"open.get"}, h : {0}, slot : Slots, i : 1..MaxSessions]
    \union [at : {"open.add"}, h : {0}, slot : Slots, p : 1..MaxSessions]
    \union [at : {"close.objects", "close.session"}, h : Handles, slot : Slots,
            p : 1..MaxSessions]
    \union [at : {"closeAll.objects", "closeAll.sessions"}, h : {0}, slot : Slots]
    \union [at : {"login.so", "logout.handles", "logout.objects"}, h : Handles, slot : Slots]
    \union [at : {"create.new"}, h : Handles, slot : Slots, onToken : BOOLEAN,
            private : BOOLEAN, copy : BOOLEAN]
    \union [at : {"create.save", "create.add"}, h : Handles, slot : Slots, onToken : BOOLEAN,
            private : BOOLEAN, copy : BOOLEAN, o : Objects]
    \union [at : {"destroy.forget", "destroy.delete"}, h : Handles, slot : Slots, o : Objects,
            hObject : Handles]
    \union [at : {"find.match"}, h : Handles, slot : Slots, p : 1..MaxSessions,
            public : BOOLEAN, held : SUBSET Objects, todo : SUBSET Objects,
            found : SUBSET Handles]

\* Threads stay within the workload and within their records; the functions
\* that disrupt others run alone.
CallsOK ==
  /\ workload \in Workloads
  /\ call \in [Threads -> CallType]
  /\ \A t \in Threads : t \notin workload.threads \/ ~ initialised => call[t] = Idle
  /\ \A t \in Threads :
       call[t].at \in {"closeAll.objects", "closeAll.sessions", "logout.handles", "logout.objects",
                       "destroy.forget", "destroy.delete"} => Alone

SessionType == [live : {TRUE}, slot : Slots, rw : BOOLEAN]

\* The session manager's vector and the sessions that are not freed: each is in
\* exactly one spot.
VectorExact ==
  /\ sessions \in Seq(0..MaxSessions)
  /\ heap \in Seq(SessionType \union {SM!Freed}) /\ Len(heap) <= MaxSessions
  /\ login \in [Slots -> SM!Users]
  /\ \A i \in DOMAIN sessions : sessions[i] # SM!NULL =>
       sessions[i] \in DOMAIN heap /\ heap[sessions[i]].live
  /\ \A i, j \in DOMAIN sessions : sessions[i] # SM!NULL /\ sessions[i] = sessions[j] => i = j
  /\ \A p \in DOMAIN heap : heap[p].live => \E i \in DOMAIN sessions : sessions[i] = p

Closing(t) == call[t].at \in {"close.objects", "close.session"}
OnSlot(p, slot) == p \in DOMAIN heap /\ heap[p].live /\ heap[p].slot = slot

\* Thread t is opening or closing session p: no handle leads to it.
Holds(t, p) ==
  \/ At(t, "open.get") /\ p = sessions[call[t].i]
  \/ (At(t, "open.add") \/ Closing(t)) /\ p = call[t].p

\* The session of a handle, or of a thread that opens or closes it, is not
\* freed, is on the slot the handle or the thread says, and is nobody else's.
PointersExact ==
  /\ \A h \in Handles : HM!IsSession(h) => OnSlot(Pointer(h), handles[h].slotID)
  /\ \A h, k \in Handles : HM!IsSession(h) /\ HM!IsSession(k) /\ Pointer(h) = Pointer(k) => h = k
  /\ \A t \in Threads : At(t, "open.get") => call[t].i \in DOMAIN sessions
  /\ \A t \in Threads, p \in 0..MaxSessions : Holds(t, p) =>
       /\ OnSlot(p, call[t].slot)
       /\ \A h \in Handles : HM!IsSession(h) => Pointer(h) # p
       /\ \A u \in Threads : Holds(u, p) => u = t

\* A thread works on an open session of its own, until it closes it.
CallersOwnSessions ==
  \A t \in Threads : call[t].h # 0 =>
    /\ \A u \in Threads : call[u].h = call[t].h => u = t
    /\ call[t].h <= handleCounter
    /\ IF Closing(t) THEN ~ HM!Live(call[t].h)
                     ELSE HM!IsSession(call[t].h) /\ handles[call[t].h].slotID = call[t].slot

\* A slot without session handles has no handles, and while all its sessions
\* are being closed it has none.
NoSessionNoHandles ==
  /\ \A h \in Handles : HM!Live(h) =>
       \E k \in Handles : HM!IsSession(k) /\ handles[k].slotID = handles[h].slotID
  /\ \A t \in Threads : call[t].at \in {"closeAll.objects", "closeAll.sessions"} =>
       \A h \in Handles : HM!Live(h) => handles[h].slotID # call[t].slot

MemType == [life : {"valid"}, hSession : 0..MaxHandle, isPrivate : BOOLEAN,
            CKA_TOKEN : BOOLEAN, CKA_PRIVATE : BOOLEAN]

StoreTypes ==
  /\ stored \subseteq Objects \ TokenObjects
  /\ tokenStore \subseteq TokenObjects
  /\ mem \in [Objects -> MemType \union {SOS!Unused, SOS!Gone}]
  /\ lockedOut \subseteq Slots
  /\ initialised \in BOOLEAN

SessionsInv ==
  /\ CallsOK /\ StoreTypes
  /\ HMP!Tables
  /\ VectorExact
  /\ PointersExact
  /\ CallersOwnSessions
  /\ NoSessionNoHandles

Used(o) == mem[o] # SOS!Unused

\* A pointer that was never allocated is nowhere.
NowhereBeforeUse ==
  /\ \A o \in Objects : ~ Used(o) => o \notin stored \union tokenStore /\ refCount[o] = 0
  /\ \A h \in Handles : HM!IsObject(h) => Used(handles[h].object)
  /\ \A t \in Threads : At(t, "find.match") => \A o \in call[t].held \union call[t].todo : Used(o)

\* The session objects that are valid are the stored ones, and each belongs to
\* a session of its slot or to one whose close has yet to remove it.
StoredExact ==
  /\ \A o \in Objects \ TokenObjects : o \in stored <=> SOS!Valid(o)
  /\ \A o \in stored :
       /\ mem[o].hSession \in Handles
       /\ \/ HM!IsSession(mem[o].hSession) /\ handles[mem[o].hSession].slotID = SlotOf[o]
          \/ \E t \in Threads :
               /\ call[t].slot = SlotOf[o]
               /\ \/ At(t, "close.objects") /\ call[t].h = mem[o].hSession
                  \/ At(t, "closeAll.objects")

\* A function's own object is not freed and is on its slot.
CallersOwnObjects ==
  \A t \in Threads :
    /\ call[t].at \in {"create.save", "create.add", "destroy.forget", "destroy.delete"} =>
         call[t].o \in stored \union TokenObjects /\ Used(call[t].o)
    /\ call[t].at \in {"create.save", "create.add"} =>
         /\ SlotOf[call[t].o] = call[t].slot
         /\ call[t].onToken <=> call[t].o \in TokenObjects
         /\ ~ call[t].onToken => mem[call[t].o].hSession = call[t].h
    /\ At(t, "find.match") => \A o \in call[t].todo : SlotOf[o] = call[t].slot

ObjectsInv ==
  /\ refCount \in [Objects -> Int]
  /\ NowhereBeforeUse
  /\ StoredExact
  /\ CallersOwnObjects
  /\ ReferencesExact
  /\ FinalizeFreesAll

Logged(s) == login[s] = "user" \/ s \in lockedOut

\* Whoever deals with something private has, or had until a lock-out, the user
\* logged in; a logout has yet to remove the rest.
PrivacyInv ==
  /\ \A h \in Handles : HM!IsObject(h) /\ handles[h].isPrivate =>
       \/ Logged(handles[h].slotID)
       \/ \E t \in Threads : At(t, "logout.handles") /\ call[t].slot = handles[h].slotID
  /\ \A o \in stored : mem[o].isPrivate =>
       \/ Logged(SlotOf[o])
       \/ \E t \in Threads : call[t].at \in {"logout.handles", "logout.objects"}
                               /\ call[t].slot = SlotOf[o]
  /\ \A t \in Threads :
       /\ call[t].at \in {"create.new", "create.save", "create.add"} /\ call[t].private
            => Logged(call[t].slot)
       /\ At(t, "find.match") /\ ~ call[t].public => Logged(call[t].slot)
       /\ At(t, "logout.objects") =>
            \A h \in Handles : HM!IsObject(h) /\ handles[h].slotID = call[t].slot
                                 => ~ handles[h].isPrivate

\* Handles that are dead or lead to objects of the slot.
Reportable(hs, slot) ==
  \A k \in hs : /\ k \in Handles /\ k <= handleCounter
                /\ HM!Live(k) => HM!IsObject(k) /\ handles[k].slotID = slot

FindType == {NoSearch} \union [active : {TRUE}, ok : BOOLEAN, found : SUBSET Handles]

SearchInv ==
  /\ find \in [1..MaxSessions -> FindType]
  /\ \A p \in 1..MaxSessions : p \notin DOMAIN heap => ~ find[p].active
  /\ \A p \in DOMAIN heap : heap[p].live /\ find[p].active => Reportable(find[p].found, heap[p].slot)
  /\ \A t \in Threads : At(t, "find.match") =>
       Reportable(call[t].found, call[t].slot) /\ call[t].p = Pointer(call[t].h)

IInv == SessionsInv /\ ObjectsInv /\ PrivacyInv /\ SearchInv
-----------------------------------------------------------------------------
(* The handle manager as its callers see it. *)

\* A step that issues handle n with the given entry.
Issues(n, entry) ==
  /\ n \in Handles /\ n \in Nat /\ n > handleCounter /\ handleCounter' = n
  /\ handles[n] = HM!NoHandle /\ handles'[n] = entry
  /\ \A h \in Handles : h # n => handles'[h] = handles[h]

\* A step that forgets the handles of a set.
Drops(dead) ==
  /\ handleCounter' = handleCounter
  /\ \A h \in Handles : handles'[h] = IF h \in dead THEN HM!NoHandle ELSE handles[h]

\* The object has a handle of a session.
Referenced(o) == \E h \in Handles : HM!OwnedBySession(h) /\ handles[h].object = o

\* The counts change as the handle manager's references do.
Follows ==
  /\ refCount' \in [Objects -> Int]
  /\ \A o \in Objects : refCount'[o] =
       IF Referenced(o) <=> Referenced(o)' THEN refCount[o]
       ELSE IF Referenced(o)' THEN refCount[o] + 1 ELSE refCount[o] - 1

\* The constants are the handle manager's.
LEMMA ManagerConstants == HMP!ConstantsOK
BY ConstantsOK DEF HMP!ConstantsOK

\* Both instances of the handle manager say the same of the references.
LEMMA SameFollows ==
  ASSUME HMP!ReferencesFollow, refCount' \in [Objects -> Int] PROVE Follows
BY DEF HMP!ReferencesFollow, HMP!Referenced, Follows, Referenced, HM!OwnedBySession,
   HMP!OwnedBySession, HM!IsObject, HMP!IsObject, HMP!Handles, Handles, HM!Invalid, HMP!Invalid

\* What the type of the tables says of one entry.
LEMMA EntryTypes ==
  ASSUME HMP!Tables, NEW h \in Handles
  PROVE  /\ HM!IsSession(h) => /\ handles[h].slotID \in Slots
                               /\ handles[h].session \in 1..MaxSessions
         /\ HM!IsObject(h) => /\ handles[h].slotID \in Slots /\ handles[h].isPrivate \in BOOLEAN
                              /\ handles[h].object \in Objects
                              /\ handles[h].hSession \in Handles \union {0}
                              /\ handles[h].slotID = SlotOf[handles[h].object]
         /\ HM!Live(h) <=> HM!IsSession(h) \/ HM!IsObject(h)
         /\ ~ HM!Live(h) <=> handles[h] = HM!NoHandle
         /\ ~ (HM!IsSession(h) /\ HM!IsObject(h))
         /\ HM!Live(h) => h <= handleCounter
<1>1. HMP!TableTypes /\ HMP!ObjectsOnTheirSlot /\ HMP!FreshAboveCounter /\ h \in HMP!Handles
  BY DEF HMP!Tables, HMP!Handles, Handles
<1>2. handles[h] \in HMP!SessionHandle \union HMP!ObjectHandle \union {HMP!NoHandle}
  BY <1>1 DEF HMP!TableTypes
<1>3. HM!IsObject(h) => handles[h].slotID = SlotOf[handles[h].object]
  BY <1>1 DEF HMP!ObjectsOnTheirSlot, HM!IsObject, HMP!IsObject
<1>4. HM!Live(h) => h <= handleCounter
  BY <1>1 DEF HMP!FreshAboveCounter, HM!Live, HMP!NoHandle, HMP!TableTypes, HMP!Handles
<1> QED BY <1>2, <1>3, <1>4 DEF HMP!SessionHandle, HMP!ObjectHandle, HMP!NoHandle, HM!NoHandle,
           HM!IsSession, HM!IsObject, HM!Live, HMP!Handles, Handles, HMP!Invalid

\* Opening a session issues a handle for it.
LEMMA AddSession ==
  ASSUME HMP!Tables, refCount \in [Objects -> Int], NEW s \in Slots, NEW p \in 1..MaxSessions,
         HM!addSession(s, p)
  PROVE  /\ HMP!Tables' /\ Follows
         /\ \E n \in Handles : Issues(n, [kind |-> "session", slotID |-> s, session |-> p])
<1>1. HMP!addSession(s, p)
  BY DEF HM!addSession, HMP!addSession, HM!NewHandle, HMP!NewHandle
<1>2. HMP!Tables' /\ HMP!ReferencesFollow /\ refCount' \in [Objects -> Int]
  BY <1>1, ManagerConstants, HMP!AddSessionInv
<1>3. PICK entry : entry = [kind |-> "session", slotID |-> s, session |-> p]
  OBVIOUS
<1>4. PICK n : n = handleCounter + 1
  OBVIOUS
<1>5. entry \in HMP!SessionHandle /\ HMP!NewHandle(entry)
  BY <1>1, <1>3 DEF HMP!addSession, HMP!SessionHandle
<1>6. HMP!Added(entry, n)
  BY <1>4, <1>5, ManagerConstants, HMP!NewEntry
<1>7. Issues(n, entry)
  BY <1>6 DEF HMP!Added, Issues, Handles, HMP!Handles, HM!NoHandle, HMP!NoHandle
<1> QED BY <1>2, <1>3, <1>7, SameFollows DEF Issues

\* Registering an object changes nothing if it has a handle, else it issues one.
LEMMA AddObject ==
  ASSUME HMP!Tables, refCount \in [Objects -> Int], NEW o \in Objects, NEW private \in BOOLEAN,
         NEW hs \in Handles, HM!IsSession(hs), handles[hs].slotID = SlotOf[o],
         HM!addSessionObject(SlotOf[o], hs, private, o) \/ HM!addTokenObject(SlotOf[o], private, o)
  PROVE  /\ HMP!Tables' /\ Follows
         /\ objects'[o] \in Handles /\ handles'[objects'[o]].kind = "object"
         /\ handles'[objects'[o]].object = o
         /\ \/ UNCHANGED <<handles, handleCounter>>
            \/ \E n \in Handles, owner \in {hs, 0} :
                 Issues(n, [kind |-> "object", slotID |-> SlotOf[o], hSession |-> owner,
                            isPrivate |-> private, object |-> o])
<1>1. CASE HM!AlreadyRegistered(SlotOf[o], o)
  <2>1. HMP!AlreadyRegistered(SlotOf[o], o)
    BY <1>1 DEF HM!AlreadyRegistered, HMP!AlreadyRegistered, HM!IsObject, HMP!IsObject, HM!Invalid,
       HMP!Invalid
  <2>2. UNCHANGED HMP!vars
    BY <2>1, ManagerConstants, HMP!RegisteredUnchanged
  <2>3. HMP!Tables' /\ HMP!ReferencesFollow /\ refCount' \in [Objects -> Int]
    BY <2>2, ManagerConstants, HMP!StutterInv
  <2>4. UNCHANGED <<handles, handleCounter>> /\ UNCHANGED objects
    BY <2>2 DEF HMP!vars, HMP!indexes
  <2>5. /\ objects[o] \in Handles
        /\ handles[objects[o]].kind = "object" /\ handles[objects[o]].object = o
    BY <2>1 DEF HMP!AlreadyRegistered, HMP!Tables, HMP!IndexesExact, HM!IsObject, HMP!IsObject,
       HMP!TableTypes, Handles, HMP!Handles
  <2> QED BY <2>3, <2>4, <2>5, SameFollows
<1>2. CASE ~ HM!AlreadyRegistered(SlotOf[o], o)
  <2>1. PICK owner \in {hs, 0} :
          /\ HM!NewObjectHandle(SlotOf[o], owner, private, o)
          /\ UNCHANGED slotSessionCount
          /\ owner = 0 => UNCHANGED <<sessionObjectHandles, refCount>>
          /\ owner # 0 => /\ owner = hs
                          /\ sessionObjectHandles' =
                              [sessionObjectHandles EXCEPT ![hs] = @ \union {handleCounter + 1}]
                          /\ HM!Acquire(o)
    BY <1>2 DEF HM!addSessionObject, HM!addTokenObject, HM!Invalid, Handles
  <2>2. HMP!NewObjectHandle(SlotOf[o], owner, private, o)
    BY <2>1 DEF HM!NewObjectHandle, HMP!NewObjectHandle, HM!NewHandle, HMP!NewHandle, HM!Invalid,
       HMP!Invalid
  <2>3. owner # 0 => HMP!MayOwn(owner, SlotOf[o]) /\ HMP!Acquire(o)
    BY <2>1, EntryTypes DEF HMP!MayOwn, HMP!Acquire, HM!Acquire, HMP!Live, HMP!IsSession,
       HM!IsSession, HM!Live, Handles, HMP!Tables, HMP!TableTypes
  <2>4. owner \in HMP!Handles \union {HMP!Invalid}
    BY DEF HMP!Handles, Handles, HMP!Invalid
  <2>5. HMP!Tables' /\ HMP!ReferencesFollow /\ refCount' \in [Objects -> Int]
    BY <2>1, <2>2, <2>3, <2>4, ManagerConstants, HMP!NewObjectInv DEF HMP!Invalid
  <2>6. PICK entry : entry = [kind |-> "object", slotID |-> SlotOf[o], hSession |-> owner,
                              isPrivate |-> private, object |-> o]
    OBVIOUS
  <2>7. PICK n : n = handleCounter + 1
    OBVIOUS
  <2>8. entry \in HMP!ObjectHandle /\ HMP!NewHandle(entry)
    BY <2>2, <2>4, <2>6, ConstantsOK DEF HMP!NewObjectHandle, HMP!ObjectHandle
  <2>9. HMP!Added(entry, n)
    BY <2>7, <2>8, ManagerConstants, HMP!NewEntry
  <2>10. Issues(n, entry)
    BY <2>9 DEF HMP!Added, Issues, Handles, HMP!Handles, HM!NoHandle, HMP!NoHandle
  <2>11. objects'[o] = n
    BY <2>2, <2>7 DEF HMP!NewObjectHandle, HMP!Tables, HMP!TableTypes
  <2>12. handles'[n].kind = "object" /\ handles'[n].object = o /\ n \in Handles
    BY <2>6, <2>10 DEF Issues
  <2>13. Follows
    BY <2>5, SameFollows
  <2> QED BY <2>5, <2>6, <2>10, <2>11, <2>12, <2>13
<1> QED BY <1>1, <1>2

\* An erasing step of the manager drops the handles of the set.
LEMMA EraseDrops ==
  ASSUME NEW dead, HMP!Erase(dead) PROVE Drops(dead)
BY DEF HMP!Erase, Drops, Handles, HMP!Handles, HM!NoHandle, HMP!NoHandle

\* The index of a slot lists the live handles of the slot.
LEMMA SlotIndex ==
  ASSUME HMP!Tables, NEW s \in Slots
  PROVE  slotHandles[s] = {h \in Handles : HM!Live(h) /\ handles[h].slotID = s}
BY DEF HMP!Tables, HMP!TableTypes, HMP!IndexesExact, HMP!Handles, Handles, HM!Live, HMP!Live

\* The handles that go with session hs: all of the slot if it is the last one.
GoneWith(hs) ==
  IF \A k \in Handles : HM!IsSession(k) /\ handles[k].slotID = handles[hs].slotID => k = hs
    THEN {h \in Handles : HM!Live(h) /\ handles[h].slotID = handles[hs].slotID}
    ELSE {hs} \union {h \in Handles : HM!IsObject(h) /\ handles[h].hSession = hs}

\* Closing a session.
LEMMA SessionClosed ==
  ASSUME HMP!Tables, refCount \in [Objects -> Int], NEW hs \in Handles, HM!sessionClosed(hs)
  PROVE  HMP!Tables' /\ Follows /\ Drops(GoneWith(hs))
<1>1. HMP!sessionClosed(hs)
  BY DEF HM!sessionClosed, HMP!sessionClosed, HM!ForgetSlot, HMP!ForgetSlot, HM!ForgetSession,
     HMP!ForgetSession, HM!Erase, HMP!Erase, HM!Release, HMP!Release, HM!ObjectsIn, HMP!ObjectsIn,
     HM!IsSession, HMP!IsSession, HM!IsObject, HMP!IsObject, HM!Live, HMP!Live,
     HM!OwnedBySession, HMP!OwnedBySession, HM!NoHandle, HMP!NoHandle, HM!Invalid, HMP!Invalid,
     HM!Handles, HMP!Handles
<1>2. hs \in HMP!Handles
  BY DEF HMP!Handles, Handles
<1>3. /\ HMP!Tables' /\ HMP!ReferencesFollow /\ refCount' \in [Objects -> Int]
      /\ HMP!IsSession(hs)
      /\ HMP!Erase(IF HMP!SessionsOn(handles[hs].slotID) = {hs}
                     THEN slotHandles[handles[hs].slotID]
                     ELSE {hs} \union {h \in HMP!Handles : HMP!IsObject(h) /\ handles[h].hSession = hs})
  BY <1>1, <1>2, ManagerConstants, HMP!SessionClosedInv
<1>4. PICK s \in Slots : s = handles[hs].slotID
  BY <1>3, EntryTypes DEF HM!IsSession, HMP!IsSession
<1>5. HMP!SessionsOn(s) = {hs}
        <=> \A k \in Handles : HM!IsSession(k) /\ handles[k].slotID = handles[hs].slotID => k = hs
  BY <1>3, <1>4 DEF HMP!SessionsOn, HMP!Handles, Handles, HM!IsSession, HMP!IsSession
<1>6. /\ slotHandles[s] = {h \in Handles : HM!Live(h) /\ handles[h].slotID = handles[hs].slotID}
      /\ {h \in HMP!Handles : HMP!IsObject(h) /\ handles[h].hSession = hs}
            = {h \in Handles : HM!IsObject(h) /\ handles[h].hSession = hs}
  BY <1>4, SlotIndex DEF HM!IsObject, HMP!IsObject, HMP!Handles, Handles
<1>7. HMP!Erase(GoneWith(hs))
  BY <1>3, <1>4, <1>5, <1>6 DEF GoneWith
<1> QED BY <1>3, <1>7, EraseDrops, SameFollows

\* Closing all sessions of a slot.
LEMMA AllSessionsClosed ==
  ASSUME HMP!Tables, refCount \in [Objects -> Int], NEW s \in Slots, HM!allSessionsClosed(s)
  PROVE  /\ HMP!Tables' /\ Follows
         /\ Drops({h \in Handles : HM!Live(h) /\ handles[h].slotID = s})
<1>0. PICK own : own = {}
  OBVIOUS
<1>1. HMP!ForgetSlot(s, own)
  BY <1>0 DEF HM!allSessionsClosed, HM!ForgetSlot, HMP!ForgetSlot,
     HM!Erase, HMP!Erase, HM!Release, HMP!Release, HM!ObjectsIn, HMP!ObjectsIn,
     HM!IsSession, HMP!IsSession, HM!IsObject, HMP!IsObject, HM!Live, HMP!Live,
     HM!OwnedBySession, HMP!OwnedBySession, HM!NoHandle, HMP!NoHandle, HM!Invalid, HMP!Invalid,
     HM!Handles, HMP!Handles
<1>2. /\ HMP!Tables' /\ HMP!ReferencesFollow /\ refCount' \in [Objects -> Int]
      /\ HMP!Erase(slotHandles[s])
  BY <1>0, <1>1, ManagerConstants, HMP!ForgetSlotInv
<1>3. Drops(slotHandles[s])
  BY <1>2, EraseDrops
<1> QED BY <1>2, <1>3, SlotIndex, SameFollows

\* Logging out.
LEMMA TokenLoggedOut ==
  ASSUME HMP!Tables, refCount \in [Objects -> Int], NEW s \in Slots, HM!tokenLoggedOut(s)
  PROVE  /\ HMP!Tables' /\ Follows
         /\ Drops({h \in Handles : HM!IsObject(h) /\ handles[h].slotID = s /\ handles[h].isPrivate})
<1>1. HMP!tokenLoggedOut(s)
  BY DEF HM!tokenLoggedOut, HMP!tokenLoggedOut,
     HM!Erase, HMP!Erase, HM!Release, HMP!Release, HM!ObjectsIn, HMP!ObjectsIn,
     HM!IsObject, HMP!IsObject,
     HM!OwnedBySession, HMP!OwnedBySession, HM!NoHandle, HMP!NoHandle, HM!Invalid, HMP!Invalid,
     HM!Handles, HMP!Handles
<1>2. HMP!Tables' /\ HMP!ReferencesFollow /\ refCount' \in [Objects -> Int]
  BY <1>1, ManagerConstants, HMP!TokenLoggedOutInv
<1>3. HMP!Erase({h \in slotHandles[s] : HMP!IsObject(h) /\ handles[h].isPrivate})
  BY <1>1 DEF HMP!tokenLoggedOut
<1>4. {h \in slotHandles[s] : HMP!IsObject(h) /\ handles[h].isPrivate}
        = {h \in Handles : HM!IsObject(h) /\ handles[h].slotID = s /\ handles[h].isPrivate}
  BY SlotIndex DEF HM!IsObject, HMP!IsObject, HM!Live
<1>5. HMP!Erase({h \in Handles : HM!IsObject(h) /\ handles[h].slotID = s /\ handles[h].isPrivate})
  BY <1>3, <1>4
<1> QED BY <1>2, <1>5, EraseDrops, SameFollows

\* Destroying an object's handle.
LEMMA ObjectDestroyed ==
  ASSUME HMP!Tables, refCount \in [Objects -> Int], NEW h \in Handles, HM!destroyObject(h)
  PROVE  HMP!Tables' /\ Follows /\ Drops({h}) /\ HM!IsObject(h)
<1>1. HMP!destroyObject(h)
  BY DEF HM!destroyObject, HMP!destroyObject,
     HM!Erase, HMP!Erase, HM!Release, HMP!Release, HM!ObjectsIn, HMP!ObjectsIn,
     HM!IsObject, HMP!IsObject,
     HM!OwnedBySession, HMP!OwnedBySession, HM!NoHandle, HMP!NoHandle, HM!Invalid, HMP!Invalid,
     HM!Handles, HMP!Handles
<1>2. HMP!Tables' /\ HMP!ReferencesFollow /\ refCount' \in [Objects -> Int]
  BY <1>1, ManagerConstants, HMP!DestroyObjectInv DEF Handles, HMP!Handles
<1>3. HMP!Erase({h}) /\ HM!IsObject(h)
  BY <1>1 DEF HMP!destroyObject, HM!IsObject, HMP!IsObject
<1> QED BY <1>2, <1>3, EraseDrops, SameFollows

\* The tables stay right when nothing of them changes.
LEMMA TablesKept ==
  ASSUME HMP!Tables, UNCHANGED handleVars PROVE HMP!Tables'
<1>1. UNCHANGED <<handles, HMP!indexes, handleCounter>>
  BY DEF handleVars, HMP!indexes
<1> QED BY <1>1, ManagerConstants, HMP!StutterTables
-----------------------------------------------------------------------------
(* Threads *)

Working == {"login.so", "logout.handles", "logout.objects", "create.new", "create.save",
            "create.add", "destroy.forget", "destroy.delete", "find.match"}
ClosingAll == {"closeAll.objects", "closeAll.sessions"}
RunAlone == ClosingAll \union {"logout.handles", "logout.objects", "destroy.forget",
                               "destroy.delete"}

\* What a record says at each point.
LEMMA CallShape ==
  ASSUME NEW c \in CallType
  PROVE  /\ c.h \in Handles \union {0}
         /\ c.at = "idle" => c = Idle
         /\ c = Idle => c.at = "idle" /\ c.h = 0
         /\ c.at \in {"open.get", "open.add"} \union ClosingAll => c.h = 0
         /\ c.at \in Working \union {"close.objects", "close.session"} => c.h \in Handles
         /\ c.h \in Handles => c.at \in Working \union {"close.objects", "close.session"}
         /\ c.at # "idle" => c.slot \in Slots
         /\ c.at = "open.get" => c.i \in 1..MaxSessions
         /\ c.at \in {"open.add", "close.objects", "close.session", "find.match"}
              => c.p \in 1..MaxSessions
<1>1. 0 \notin Handles
  BY DEF Handles
<1> QED BY <1>1 DEF CallType, Idle, Working, ClosingAll

\* Thread t is the one that moves.
Moves(t, c) == c \in CallType /\ call' = [call EXCEPT ![t] = c]

\* Only the record of that thread changes.
LEMMA Moved ==
  ASSUME CallsOK, NEW t \in Threads, NEW c, Moves(t, c)
  PROVE  /\ call' \in [Threads -> CallType] /\ call'[t] = c
         /\ \A u \in Threads : u # t => call'[u] = call[u]
BY DEF CallsOK, Moves

\* A call that ends where it began: the record was Idle and still is.
LEMMA StaysIdle ==
  ASSUME CallsOK, NEW t \in Threads, At(t, "idle"), UNCHANGED call
  PROVE  Moves(t, Idle)
<1>1. call[t] = Idle /\ call \in [Threads -> CallType]
  BY CallShape DEF CallsOK, At
<1> QED BY <1>1 DEF Moves

\* When an application has one thread, no other thread is in a function.
LEMMA OthersIdle ==
  ASSUME CallsOK, Alone, NEW t \in workload.threads, NEW u \in Threads, u # t
  PROVE  call[u] = Idle /\ call[u].at = "idle" /\ call[u].h = 0
BY DEF CallsOK, Alone, Idle

\* A thread that takes a step is one of the application, before C_Finalize.
LEMMA Stepping ==
  ASSUME CallsOK, NEW t \in workload.threads
  PROVE  t \in Threads /\ (call[t].at # "idle" => initialised)
<1>1. t \in Threads
  BY WorkloadAssumption DEF CallsOK
<1> QED BY <1>1 DEF CallsOK, Idle

\* The records stay within their types and the workload.
LEMMA CallsStep ==
  ASSUME CallsOK, NEW t \in workload.threads, NEW c, Moves(t, c), initialised,
         UNCHANGED workload, UNCHANGED initialised, c.at \in RunAlone => Alone
  PROVE  CallsOK'
<1>1. t \in Threads
  BY Stepping
<1>2. /\ call' \in [Threads -> CallType] /\ call'[t] = c
      /\ \A u \in Threads : u # t => call'[u] = call[u]
  BY <1>1, Moved
<1>3. Alone' <=> Alone
  BY DEF Alone
<1> QED BY <1>1, <1>2, <1>3 DEF CallsOK, RunAlone, ClosingAll

\* Functions that disrupt others are called by applications with one thread.
LEMMA DisruptiveAlone ==
  ASSUME CarefulApplications, CallsOK, NEW f \in Disruptive, f \in workload.functions
  PROVE  Alone
BY DEF CarefulApplications, CallsOK, Alone

Ends(c) == c = Idle

Begins(t, c) ==
  /\ call[t].at = "idle" /\ c.at \in Working
  /\ c.h \in Handles /\ HM!IsSession(c.h) /\ handles[c.h].slotID = c.slot
  /\ \A u \in Threads : call[u].h # c.h

GoesOn(t, c) ==
  /\ c.h = call[t].h /\ c.slot = call[t].slot
  /\ \/ At(t, "open.get") /\ c.at = "open.add" /\ c.p = sessions[call[t].i]
     \/ At(t, "close.objects") /\ c.at = "close.session" /\ c.p = call[t].p
     \/ call[t].at \in ClosingAll /\ c.at \in ClosingAll
     \/ call[t].at \in Working /\ c.at \in Working

\* A move that neither allocates nor frees a session nor changes its handles.
Mild(t, c) == Ends(c) \/ Begins(t, c) \/ GoesOn(t, c)

\* A step of the handle manager that concerns object handles only.
SessionsKept ==
  /\ handleCounter' \in Nat /\ handleCounter <= handleCounter'
  /\ \A h \in Handles : HM!IsSession(h)' <=> HM!IsSession(h)
  /\ \A h \in Handles : HM!IsSession(h) => handles'[h] = handles[h]
  /\ \A h \in Handles : h <= handleCounter /\ ~ HM!Live(h) => ~ HM!Live(h)'
  /\ \A h \in Handles : HM!Live(h)' =>
       \/ HM!Live(h) /\ handles'[h].slotID = handles[h].slotID
       \/ \E k \in Handles : HM!IsSession(k) /\ handles[k].slotID = handles'[h].slotID

\* Nothing changes.
LEMMA KeptUnchanged ==
  ASSUME HMP!Tables, UNCHANGED <<handles, handleCounter>> PROVE SessionsKept
BY DEF SessionsKept, HMP!Tables, HMP!TableTypes, HM!IsSession, HM!Live

\* The handle of an object is issued, on a slot with a session.
LEMMA KeptIssued ==
  ASSUME HMP!Tables, NEW n, NEW entry, Issues(n, entry), entry.kind = "object",
         \E k \in Handles : HM!IsSession(k) /\ handles[k].slotID = entry.slotID
  PROVE  SessionsKept
<1>1. handleCounter \in Nat
  BY DEF HMP!Tables, HMP!TableTypes
<1> QED BY <1>1 DEF SessionsKept, Issues, HM!IsSession, HM!Live, HM!NoHandle, Handles

\* Handles go, none of them a session's.
LEMMA KeptDropped ==
  ASSUME HMP!Tables, NEW dead, Drops(dead), \A h \in dead : ~ HM!IsSession(h)
  PROVE  SessionsKept
<1>1. handleCounter \in Nat
  BY DEF HMP!Tables, HMP!TableTypes
<1> QED BY <1>1 DEF SessionsKept, Drops, HM!IsSession, HM!Live, HM!NoHandle, Handles

\* What a mild move means for the sessions that threads hold and work on.
LEMMA MildFacts ==
  ASSUME CallsOK, NEW t \in Threads, NEW c, Moves(t, c), Mild(t, c), UNCHANGED sessions
  PROVE  /\ \A u \in Threads : \A p : Holds(u, p)' => Holds(u, p) /\ call'[u].slot = call[u].slot
         /\ \A u \in Threads : ~ At(u, "open.get")' \/ (At(u, "open.get") /\ call'[u] = call[u])
         /\ \A u \in Threads : call'[u].at \in ClosingAll =>
              call[u].at \in ClosingAll /\ call'[u].slot = call[u].slot
         /\ \A u \in Threads : call'[u].h # 0 =>
              \/ call'[u].h = call[u].h /\ call'[u].slot = call[u].slot /\ (Closing(u)' <=> Closing(u))
              \/ Begins(u, call'[u]) /\ ~ Closing(u)' /\ u = t
<1>1. /\ call' \in [Threads -> CallType] /\ call'[t] = c
      /\ \A u \in Threads : u # t => call'[u] = call[u]
  BY Moved
<1>2. call[t] \in CallType /\ c \in CallType
  BY DEF CallsOK, Moves
<1>3. CASE Ends(c)
  BY <1>1, <1>3 DEF Ends, Idle, Holds, At, Closing, ClosingAll
<1>4. CASE Begins(t, c)
  BY <1>1, <1>2, <1>4, CallShape DEF Begins, Holds, At, Closing, ClosingAll, Working
<1>5. CASE GoesOn(t, c)
  BY <1>1, <1>2, <1>5, CallShape DEF GoesOn, Holds, At, Closing, ClosingAll, Working
<1> QED BY <1>3, <1>4, <1>5 DEF Mild

\* A mild move keeps what the invariant says of sessions, if the session
\* handles and the sessions stay.
LEMMA MildStep ==
  ASSUME SessionsInv, NEW t \in Threads, NEW c, Moves(t, c), Mild(t, c), SessionsKept,
         UNCHANGED <<sessions, heap>>
  PROVE  PointersExact' /\ CallersOwnSessions' /\ NoSessionNoHandles'
<1>0. CallsOK /\ PointersExact /\ CallersOwnSessions /\ NoSessionNoHandles /\ HMP!Tables
  BY DEF SessionsInv
<1>1. /\ \A u \in Threads : \A p : Holds(u, p)' => Holds(u, p) /\ call'[u].slot = call[u].slot
      /\ \A u \in Threads : ~ At(u, "open.get")' \/ (At(u, "open.get") /\ call'[u] = call[u])
      /\ \A u \in Threads : call'[u].at \in ClosingAll =>
           call[u].at \in ClosingAll /\ call'[u].slot = call[u].slot
      /\ \A u \in Threads : call'[u].h # 0 =>
           \/ call'[u].h = call[u].h /\ call'[u].slot = call[u].slot /\ (Closing(u)' <=> Closing(u))
           \/ Begins(u, call'[u]) /\ ~ Closing(u)' /\ u = t
  BY <1>0, MildFacts
<1>2. /\ \A h \in Handles : HM!IsSession(h)' <=> HM!IsSession(h)
      /\ \A h \in Handles : HM!IsSession(h) => handles'[h] = handles[h] /\ Pointer(h)' = Pointer(h)
  BY DEF SessionsKept, Pointer
<1>3. \A p, s : OnSlot(p, s)' <=> OnSlot(p, s)
  BY DEF OnSlot
<1>4. PointersExact'
  <2>1. \A h \in Handles : HM!IsSession(h)' => OnSlot(Pointer(h), handles[h].slotID)'
    BY <1>0, <1>2, <1>3 DEF PointersExact, OnSlot
  <2>2. \A h, k \in Handles : HM!IsSession(h)' /\ HM!IsSession(k)' /\ Pointer(h)' = Pointer(k)' => h = k
    BY <1>0, <1>2 DEF PointersExact
  <2>3. \A u \in Threads : At(u, "open.get")' => call'[u].i \in DOMAIN sessions'
    BY <1>0, <1>1 DEF PointersExact
  <2>4. ASSUME NEW u \in Threads, NEW p \in 0..MaxSessions, Holds(u, p)'
        PROVE  /\ OnSlot(p, call[u].slot)'
               /\ \A h \in Handles : HM!IsSession(h)' => Pointer(h)' # p
               /\ \A v \in Threads : Holds(v, p)' => v = u
    <3>1. Holds(u, p) /\ call'[u].slot = call[u].slot
      BY <1>1, <2>4
    <3>2. /\ OnSlot(p, call[u].slot)
          /\ \A h \in Handles : HM!IsSession(h) => Pointer(h) # p
          /\ \A v \in Threads : Holds(v, p) => v = u
      BY <1>0, <3>1 DEF PointersExact
    <3>3. OnSlot(p, call[u].slot)'
      BY <3>1, <3>2 DEF OnSlot
    <3>4. \A h \in Handles : HM!IsSession(h)' => Pointer(h)' # p
      BY <3>2, <1>2
    <3>5. \A v \in Threads : Holds(v, p)' => v = u
      BY <3>2, <1>1
    <3> QED BY <3>3, <3>4, <3>5
  <2> QED BY <2>1, <2>2, <2>3, <2>4 DEF PointersExact
<1>5. CallersOwnSessions'
  <2> SUFFICES ASSUME NEW u \in Threads, call'[u].h # 0
               PROVE  /\ \A v \in Threads : call'[v].h = call'[u].h => v = u
                      /\ call'[u].h <= handleCounter'
                      /\ IF Closing(u)' THEN ~ HM!Live(call[u].h)'
                         ELSE HM!IsSession(call[u].h)' /\ handles'[call'[u].h].slotID = call'[u].slot
    BY DEF CallersOwnSessions
  <2>1. call'[u].h \in Handles /\ handleCounter \in Nat /\ handleCounter' \in Nat
        /\ handleCounter <= handleCounter'
    <3>1. call' \in [Threads -> CallType]
      BY <1>0, Moved
    <3>2. call'[u].h \in Handles
      BY <3>1, CallShape
    <3> QED BY <3>2, <1>0 DEF HMP!Tables, HMP!TableTypes, SessionsKept
  <2>2. CASE call'[u].h = call[u].h /\ call'[u].slot = call[u].slot /\ (Closing(u)' <=> Closing(u))
    <3>1. /\ \A v \in Threads : call[v].h = call[u].h => v = u
          /\ call[u].h <= handleCounter
          /\ IF Closing(u) THEN ~ HM!Live(call[u].h)
             ELSE HM!IsSession(call[u].h) /\ handles[call[u].h].slotID = call[u].slot
      BY <1>0, <2>2 DEF CallersOwnSessions
    <3>2. PICK k \in Handles : k = call[u].h /\ k = call'[u].h
      BY <2>1, <2>2
    <3>3. \A v \in Threads : call'[v].h = k => v = u
      <4> SUFFICES ASSUME NEW v \in Threads, call'[v].h = k PROVE v = u
        OBVIOUS
      <4>1. call'[v].h # 0
        BY <3>2, <2>2
      <4>2. call[v].h = k \/ Begins(v, call'[v])
        BY <4>1, <1>1
      <4>3. ~ Begins(v, call'[v])
        BY <3>2 DEF Begins
      <4> QED BY <4>2, <4>3, <3>1, <3>2
    <3>4. k <= handleCounter'
      BY <3>1, <3>2, <2>1 DEF Handles
    <3>5. ~ HM!Live(k) => ~ HM!Live(k)'
      BY <3>1, <3>2 DEF SessionsKept
    <3>6. ~ HM!Live(k)' => ~ HM!Live(call[u].h)'
      BY <3>2 DEF HM!Live
    <3>7. HM!IsSession(k) => HM!IsSession(call[u].h)' /\ handles'[call'[u].h] = handles[k]
      BY <1>2, <3>2 DEF HM!IsSession
    <3> QED BY <3>1, <3>2, <3>3, <3>4, <3>5, <3>6, <3>7, <2>2
  <2>3. CASE Begins(u, call'[u]) /\ ~ Closing(u)' /\ u = t
    <3>1. PICK k \in Handles : k = call'[u].h
      BY <2>1
    <3>2. HM!IsSession(k) /\ handles[k].slotID = call'[u].slot /\ \A v \in Threads : call[v].h # k
      BY <2>3, <3>1 DEF Begins
    <3>3. k <= handleCounter'
      BY <3>2, <2>1, <1>0, EntryTypes DEF Handles
    <3>4. HM!IsSession(call[u].h)' /\ handles'[k] = handles[k]
      BY <3>1, <3>2, <1>2 DEF HM!IsSession
    <3>5. \A v \in Threads : call'[v].h = k => v = u
      <4> SUFFICES ASSUME NEW v \in Threads, call'[v].h = k, v # u PROVE FALSE
        OBVIOUS
      <4>1. call'[v] = call[v]
        BY <1>0, <2>3, Moved
      <4> QED BY <4>1, <3>2
    <3> QED BY <2>3, <3>1, <3>2, <3>3, <3>4, <3>5
  <2> QED BY <1>1, <2>2, <2>3
<1>6. NoSessionNoHandles'
  <2>1. ASSUME NEW h \in Handles, HM!Live(h)'
        PROVE  \E k \in Handles : HM!IsSession(k) /\ handles[k].slotID = handles'[h].slotID
    <3>1. CASE HM!Live(h) /\ handles'[h].slotID = handles[h].slotID
      BY <3>1, <1>0 DEF NoSessionNoHandles
    <3> QED BY <2>1, <3>1 DEF SessionsKept
  <2>2. ASSUME NEW h \in Handles, HM!Live(h)'
        PROVE  \E k \in Handles : HM!IsSession(k)' /\ handles'[k].slotID = handles'[h].slotID
    <3>1. PICK k \in Handles : HM!IsSession(k) /\ handles[k].slotID = handles'[h].slotID
      BY <2>1, <2>2
    <3> QED BY <3>1, <1>2
  <2>3. ASSUME NEW u \in Threads, call'[u].at \in ClosingAll, NEW h \in Handles, HM!Live(h)'
        PROVE  handles'[h].slotID # call'[u].slot
    <3>1. PICK k \in Handles : HM!IsSession(k) /\ handles[k].slotID = handles'[h].slotID
      BY <2>1, <2>3
    <3>2. HM!Live(k)
      BY <3>1 DEF HM!IsSession, HM!Live
    <3>3. call[u].at \in ClosingAll /\ call'[u].slot = call[u].slot
      BY <2>3, <1>1
    <3> QED BY <3>1, <3>2, <3>3, <1>0 DEF NoSessionNoHandles, ClosingAll
  <2> QED BY <2>2, <2>3 DEF NoSessionNoHandles, ClosingAll
<1> QED BY <1>4, <1>5, <1>6
-----------------------------------------------------------------------------
(* The session manager as its callers see it. *)

\* A function on an initial segment is a sequence.
LEMMA FunctionIsSeq ==
  ASSUME NEW S, NEW n \in Nat, NEW f \in [1..n -> S] PROVE f \in Seq(S)
<1>1. [1..n -> S] \in {[1..k -> S] : k \in Nat}
  BY Zenon
<1>2. f \in UNION {[1..k -> S] : k \in Nat}
  BY <1>1, Zenon
<1> QED BY <1>2, SeqDef, Zenon

\* The vector and the sessions are sequences, and freed sessions are not live.
LEMMA VectorTypes ==
  ASSUME VectorExact
  PROVE  /\ Len(sessions) \in Nat /\ DOMAIN sessions = 1..Len(sessions)
         /\ Len(heap) \in Nat /\ DOMAIN heap = 1..Len(heap) /\ DOMAIN heap \subseteq 1..MaxSessions
         /\ \A i \in DOMAIN sessions : sessions[i] \in 0..MaxSessions
         /\ \A p \in DOMAIN heap : heap[p] \in SessionType \union {SM!Freed}
         /\ \A p \in DOMAIN heap : heap[p].live \in BOOLEAN
         /\ \A p \in DOMAIN heap : heap[p].live <=> heap[p] \in SessionType
<1>1. sessions \in Seq(0..MaxSessions) /\ heap \in Seq(SessionType \union {SM!Freed})
  BY DEF VectorExact
<1>2. /\ Len(sessions) \in Nat /\ DOMAIN sessions = 1..Len(sessions)
      /\ Len(heap) \in Nat /\ DOMAIN heap = 1..Len(heap)
      /\ \A i \in DOMAIN sessions : sessions[i] \in 0..MaxSessions
      /\ \A p \in DOMAIN heap : heap[p] \in SessionType \union {SM!Freed}
  <2>1. Len(sessions) \in Nat /\ DOMAIN sessions = 1..Len(sessions)
        /\ sessions \in [1..Len(sessions) -> 0..MaxSessions]
    BY <1>1, LenProperties
  <2>2. Len(heap) \in Nat /\ DOMAIN heap = 1..Len(heap)
        /\ heap \in [1..Len(heap) -> SessionType \union {SM!Freed}]
    BY <1>1, LenProperties
  <2> QED BY <2>1, <2>2
<1>3. ASSUME NEW p \in DOMAIN heap
      PROVE  heap[p].live \in BOOLEAN /\ (heap[p].live <=> heap[p] \in SessionType)
  <2>1. CASE heap[p] \in SessionType
    <3>1. heap[p].live = TRUE
      BY <2>1 DEF SessionType
    <3> QED BY <2>1, <3>1
  <2>2. CASE heap[p] = SM!Freed
    <3>1. heap[p].live = FALSE
      BY <2>2 DEF SM!Freed
    <3>2. heap[p] \in SessionType => heap[p].live = TRUE
      BY DEF SessionType
    <3> QED BY <3>1, <3>2
  <2> QED BY <1>2, <2>1, <2>2
<1>4. DOMAIN heap \subseteq 1..MaxSessions
  <2>1. Len(heap) <= MaxSessions
    BY DEF VectorExact
  <2> QED BY <1>2, <2>1, ConstantsOK
<1> QED BY <1>2, <1>3, <1>4

\* The vector does not depend on who is logged in.
LEMMA VectorKept ==
  ASSUME VectorExact, UNCHANGED <<sessions, heap>>, login' \in [Slots -> SM!Users]
  PROVE  VectorExact'
BY DEF VectorExact

\* A new session p is in spot i and nothing else changes.
Opened(p, slot, i) ==
  /\ p \notin DOMAIN heap /\ p \in 1..MaxSessions
  /\ DOMAIN heap' = DOMAIN heap \union {p}
  /\ \A q \in DOMAIN heap : heap'[q] = heap[q]
  /\ heap'[p].live = TRUE /\ heap'[p].slot = slot
  /\ i \in DOMAIN sessions' /\ sessions'[i] = p
  /\ i \notin DOMAIN sessions \/ sessions[i] = 0
  /\ \A j \in DOMAIN sessions : j # i => j \in DOMAIN sessions' /\ sessions'[j] = sessions[j]

\* Opening a session.
LEMMA OpenedSession ==
  ASSUME VectorExact, NEW slot \in Slots, NEW rw \in BOOLEAN, NEW i \in 1..MaxSessions,
         SM!openSession(slot, rw, i)
  PROVE  VectorExact' /\ UNCHANGED login /\ Opened(Len(heap) + 1, slot, i)
<1> PICK p : p = Len(heap) + 1
  OBVIOUS
<1>0. PICK new : new = [live |-> TRUE, slot |-> slot, rw |-> rw]
  OBVIOUS
<1>1. /\ sessions \in Seq(0..MaxSessions) /\ heap \in Seq(SessionType \union {SM!Freed})
      /\ Len(sessions) \in Nat /\ DOMAIN sessions = 1..Len(sessions)
      /\ Len(heap) \in Nat /\ DOMAIN heap = 1..Len(heap)
      /\ \A j \in DOMAIN sessions : sessions[j] \in 0..MaxSessions
  BY VectorTypes DEF VectorExact
<1>2. /\ i \in 1..Len(sessions) + 1 /\ Len(heap) < MaxSessions
      /\ i <= Len(sessions) => sessions[i] = 0
      /\ heap' = Append(heap, new)
      /\ sessions' = [j \in 1..Len(sessions) \union {i} |-> IF j = i THEN p ELSE sessions[j]]
      /\ UNCHANGED login
  BY <1>0 DEF SM!openSession, SM!FirstEmptySpot, SM!NULL
<1>3. new \in SessionType \union {SM!Freed} /\ new.live = TRUE /\ new.slot = slot
  BY <1>0 DEF SessionType
<1>4. /\ heap' \in Seq(SessionType \union {SM!Freed}) /\ Len(heap') = p /\ heap'[p] = new
      /\ \A q \in 1..Len(heap) : heap'[q] = heap[q]
  BY <1>1, <1>2, <1>3, AppendProperties
<1>5. p \in 1..MaxSessions /\ p \notin DOMAIN heap /\ DOMAIN heap' = DOMAIN heap \union {p}
  BY <1>1, <1>2, <1>4, ConstantsOK
<1>6. PICK m \in Nat : 1..Len(sessions) \union {i} = 1..m
  <2>1. CASE i <= Len(sessions)
    BY <1>1, <1>2, <2>1
  <2>2. CASE ~ i <= Len(sessions)
    <3>1. i = Len(sessions) + 1 /\ i \in Nat
      BY <1>1, <1>2, <2>2
    <3>2. 1..Len(sessions) \union {i} = 1..i
      BY <1>1, <3>1
    <3> QED BY <3>1, <3>2
  <2> QED BY <2>1, <2>2
<1>7. sessions' \in [1..m -> 0..MaxSessions]
  BY <1>1, <1>2, <1>5, <1>6
<1>8. sessions' \in Seq(0..MaxSessions) /\ DOMAIN sessions' = DOMAIN sessions \union {i}
  <2>1. sessions' \in Seq(0..MaxSessions)
    BY <1>7, FunctionIsSeq
  <2> QED BY <2>1, <1>1, <1>6, <1>7
<1>9. /\ i \in DOMAIN sessions' /\ sessions'[i] = p
      /\ i \notin DOMAIN sessions \/ sessions[i] = 0
      /\ \A j \in DOMAIN sessions : j # i => j \in DOMAIN sessions' /\ sessions'[j] = sessions[j]
  BY <1>1, <1>2, <1>8
<1>10. ASSUME NEW j \in DOMAIN sessions', sessions'[j] # 0
       PROVE  sessions'[j] \in DOMAIN heap' /\ heap'[sessions'[j]].live
  <2>1. CASE j = i
    BY <2>1, <1>3, <1>4, <1>5, <1>9
  <2>2. CASE j # i
    <3>1. j \in DOMAIN sessions /\ sessions'[j] = sessions[j]
      BY <2>2, <1>8, <1>9
    <3>2. sessions[j] \in DOMAIN heap /\ heap[sessions[j]].live
      BY <3>1, <1>10 DEF VectorExact, SM!NULL
    <3> QED BY <3>1, <3>2, <1>1, <1>4, <1>5
  <2> QED BY <2>1, <2>2
<1>11. ASSUME NEW j \in DOMAIN sessions', NEW k \in DOMAIN sessions',
              sessions'[j] # 0, sessions'[j] = sessions'[k]
       PROVE  j = k
  <2>1. ASSUME NEW l \in DOMAIN sessions, l # i, sessions'[l] = p PROVE FALSE
    BY <2>1, <1>1, <1>5, <1>9 DEF VectorExact, SM!NULL
  <2>2. CASE j # i /\ k # i
    <3>1. /\ j \in DOMAIN sessions /\ sessions'[j] = sessions[j]
          /\ k \in DOMAIN sessions /\ sessions'[k] = sessions[k]
      BY <2>2, <1>8, <1>9
    <3> QED BY <3>1, <1>11 DEF VectorExact, SM!NULL
  <2> QED BY <2>1, <2>2, <1>8, <1>9, <1>11
<1>12. ASSUME NEW q \in DOMAIN heap', heap'[q].live
       PROVE  \E j \in DOMAIN sessions' : sessions'[j] = q
  <2>1. CASE q = p
    BY <2>1, <1>9
  <2>2. CASE q # p
    <3>1. q \in DOMAIN heap /\ heap[q].live
      BY <2>2, <1>1, <1>4, <1>5, <1>12
    <3>2. PICK j \in DOMAIN sessions : sessions[j] = q
      BY <3>1 DEF VectorExact
    <3>3. j # i
      BY <3>1, <3>2, <1>1, <1>9
    <3> QED BY <3>2, <3>3, <1>9
  <2> QED BY <2>1, <2>2
<1>13. login' \in [Slots -> SM!Users] /\ Len(heap') <= MaxSessions
  BY <1>2, <1>4, <1>5, ConstantsOK DEF VectorExact
<1>14. VectorExact'
  BY <1>4, <1>8, <1>10, <1>11, <1>12, <1>13 DEF VectorExact, SM!NULL
<1>15. Opened(p, slot, i)
  BY <1>1, <1>2, <1>3, <1>4, <1>5, <1>9 DEF Opened
<1> QED BY <1>2, <1>14, <1>15

\* Deleting sessions empties their spots and frees them.
LEMMA DeletedSessions ==
  ASSUME VectorExact, NEW spots, spots \subseteq {i \in DOMAIN sessions : sessions[i] # 0},
         SM!Delete(spots), login' \in [Slots -> SM!Users]
  PROVE  /\ VectorExact'
         /\ DOMAIN sessions' = DOMAIN sessions /\ DOMAIN heap' = DOMAIN heap
         /\ \A i \in DOMAIN sessions : sessions'[i] = IF i \in spots THEN 0 ELSE sessions[i]
         /\ \A p \in DOMAIN heap :
              heap'[p] = IF \E i \in spots : sessions[i] = p THEN SM!Freed ELSE heap[p]
<1>1. /\ sessions \in Seq(0..MaxSessions) /\ heap \in Seq(SessionType \union {SM!Freed})
      /\ Len(sessions) \in Nat /\ DOMAIN sessions = 1..Len(sessions)
      /\ Len(heap) \in Nat /\ DOMAIN heap = 1..Len(heap)
      /\ \A j \in DOMAIN sessions : sessions[j] \in 0..MaxSessions
      /\ \A p \in DOMAIN heap : heap[p] \in SessionType \union {SM!Freed}
  BY VectorTypes DEF VectorExact
<1>2. /\ DOMAIN sessions' = DOMAIN sessions /\ DOMAIN heap' = DOMAIN heap
      /\ \A i \in DOMAIN sessions : sessions'[i] = IF i \in spots THEN 0 ELSE sessions[i]
      /\ \A p \in DOMAIN heap :
           heap'[p] = IF \E i \in spots : sessions[i] = p THEN SM!Freed ELSE heap[p]
  BY DEF SM!Delete, SM!NULL
<1>3. /\ sessions' \in [1..Len(sessions) -> 0..MaxSessions]
      /\ heap' \in [1..Len(heap) -> SessionType \union {SM!Freed}]
  BY <1>1, ConstantsOK DEF SM!Delete, SM!NULL
<1>4. sessions' \in Seq(0..MaxSessions) /\ heap' \in Seq(SessionType \union {SM!Freed})
  BY <1>1, <1>3, FunctionIsSeq
<1>5. Len(heap') <= MaxSessions
  <2>1. Len(heap) <= MaxSessions /\ Len(heap') \in Nat /\ DOMAIN heap' = 1..Len(heap')
    BY <1>4, LenProperties DEF VectorExact
  <2> QED BY <1>1, <1>2, <2>1, ConstantsOK
<1>6. ASSUME NEW i \in DOMAIN sessions, i \notin spots, sessions[i] # 0
      PROVE  ~ \E j \in spots : sessions[j] = sessions[i]
  BY <1>6 DEF VectorExact, SM!NULL
<1>7. \A i \in DOMAIN sessions' : sessions'[i] # 0 =>
        sessions'[i] \in DOMAIN heap' /\ heap'[sessions'[i]].live
  BY <1>2, <1>6 DEF VectorExact, SM!NULL
<1>8. \A i, j \in DOMAIN sessions' : sessions'[i] # 0 /\ sessions'[i] = sessions'[j] => i = j
  BY <1>2 DEF VectorExact, SM!NULL
<1>9. ASSUME NEW p \in DOMAIN heap', heap'[p].live
      PROVE  \E i \in DOMAIN sessions' : sessions'[i] = p
  <2>1. heap'[p] # SM!Freed
    BY <1>9 DEF SM!Freed
  <2>2. heap[p].live /\ ~ \E i \in spots : sessions[i] = p
    BY <1>2, <1>9, <2>1
  <2>3. PICK i \in DOMAIN sessions : sessions[i] = p
    BY <1>2, <2>2 DEF VectorExact
  <2> QED BY <1>2, <2>2, <2>3
<1>10. VectorExact'
  BY <1>4, <1>5, <1>7, <1>8, <1>9 DEF VectorExact, SM!NULL
<1> QED BY <1>2, <1>10

\* C_OpenSession: the new session is held by the thread that opens it.
LEMMA OpenStep ==
  ASSUME SessionsInv, NEW t \in Threads, NEW slot \in Slots, NEW rw \in BOOLEAN,
         NEW i \in 1..MaxSessions, SM!openSession(slot, rw, i), UNCHANGED <<handles, handleCounter>>,
         NEW c, Moves(t, c), c.at = "open.get", c.i = i, c.slot = slot
  PROVE  VectorExact' /\ PointersExact' /\ CallersOwnSessions' /\ NoSessionNoHandles'
<1>0. CallsOK /\ VectorExact /\ PointersExact /\ CallersOwnSessions /\ NoSessionNoHandles
  BY DEF SessionsInv
<1>1. PICK p : p = Len(heap) + 1
  OBVIOUS
<1>2. /\ VectorExact' /\ UNCHANGED login
      /\ p \notin DOMAIN heap /\ p \in 1..MaxSessions
      /\ DOMAIN heap' = DOMAIN heap \union {p}
      /\ \A q \in DOMAIN heap : heap'[q] = heap[q]
      /\ heap'[p].live = TRUE /\ heap'[p].slot = slot
      /\ i \in DOMAIN sessions' /\ sessions'[i] = p
      /\ i \notin DOMAIN sessions \/ sessions[i] = 0
      /\ \A j \in DOMAIN sessions : j # i => j \in DOMAIN sessions' /\ sessions'[j] = sessions[j]
  <2>1. VectorExact' /\ UNCHANGED login /\ Opened(p, slot, i)
    BY <1>0, <1>1, OpenedSession
  <2> QED BY <2>1 DEF Opened
<1>3. /\ call'[t] = c
      /\ \A u \in Threads : u # t => call'[u] = call[u]
  BY <1>0, Moved
<1>4. c.h = 0
  BY CallShape DEF Moves
<1>5. \A q, s : OnSlot(q, s) => OnSlot(q, s)' /\ q # p
  BY <1>2 DEF OnSlot
<1>6. \A h \in Handles : HM!IsSession(h)' => HM!IsSession(h) /\ Pointer(h)' = Pointer(h) /\ Pointer(h) # p
                                             /\ OnSlot(Pointer(h), handles[h].slotID)
  <2>1. \A h \in Handles : (HM!IsSession(h)' <=> HM!IsSession(h)) /\ Pointer(h)' = Pointer(h)
    BY DEF HM!IsSession, Pointer
  <2>2. \A h \in Handles : HM!IsSession(h) => OnSlot(Pointer(h), handles[h].slotID)
    BY <1>0 DEF PointersExact
  <2> QED BY <1>5, <2>1, <2>2
<1>7. ASSUME NEW u \in Threads, u # t, NEW q \in 0..MaxSessions, Holds(u, q)'
      PROVE  Holds(u, q) /\ q # p /\ OnSlot(q, call[u].slot)
  <2>1. CASE At(u, "open.get")
    <3>1. call[u].i \in DOMAIN sessions /\ sessions[call[u].i] \in 0..MaxSessions
      BY <1>0, <2>1, VectorTypes DEF PointersExact
    <3>2. Holds(u, sessions[call[u].i])
      BY <2>1 DEF Holds
    <3>3. OnSlot(sessions[call[u].i], call[u].slot)
      BY <1>0, <3>1, <3>2 DEF PointersExact
    <3>4. sessions[call[u].i] # 0 /\ sessions[call[u].i] # p
      BY <3>3, <1>0, <1>5, VectorTypes DEF OnSlot
    <3>5. call[u].i # i
      BY <3>1, <3>4, <1>2
    <3>6. q = sessions[call[u].i]
      BY <1>3, <1>7, <2>1, <3>1, <3>5, <1>2 DEF Holds, At, Closing
    <3> QED BY <3>2, <3>3, <3>4, <3>6
  <2>2. CASE ~ At(u, "open.get")
    <3>1. Holds(u, q)
      BY <1>3, <1>7, <2>2 DEF Holds, At, Closing
    <3>2. OnSlot(q, call[u].slot)
      BY <1>0, <3>1 DEF PointersExact
    <3> QED BY <3>1, <3>2, <1>5
  <2> QED BY <2>1, <2>2
<1>8. ASSUME NEW q, Holds(t, q)' PROVE q = p
  BY <1>2, <1>3, <1>8 DEF Holds, At, Closing
<1>9. PointersExact'
  <2>1. \A h \in Handles : HM!IsSession(h)' => OnSlot(Pointer(h), handles[h].slotID)'
    BY <1>5, <1>6 DEF OnSlot, Pointer
  <2>2. \A h, k \in Handles : HM!IsSession(h)' /\ HM!IsSession(k)' /\ Pointer(h)' = Pointer(k)' => h = k
    BY <1>0, <1>6 DEF PointersExact
  <2>3. ASSUME NEW u \in Threads, At(u, "open.get")' PROVE call'[u].i \in DOMAIN sessions'
    <3>1. CASE u = t
      BY <3>1, <1>2, <1>3
    <3>2. CASE u # t
      <4>1. call'[u] = call[u] /\ call[u].i \in DOMAIN sessions
        BY <3>2, <2>3, <1>0, <1>3 DEF PointersExact, At
      <4> QED BY <4>1, <1>2
    <3> QED BY <3>1, <3>2
  <2>4. ASSUME NEW u \in Threads, NEW q \in 0..MaxSessions, Holds(u, q)'
        PROVE  /\ OnSlot(q, call[u].slot)'
               /\ \A h \in Handles : HM!IsSession(h)' => Pointer(h)' # q
               /\ \A v \in Threads : Holds(v, q)' => v = u
    <3>1. CASE u = t
      <4>1. q = p
        BY <2>4, <3>1, <1>8
      <4>2. OnSlot(q, call[u].slot)'
        BY <3>1, <4>1, <1>2, <1>3 DEF OnSlot
      <4> QED BY <3>1, <4>1, <4>2, <1>6, <1>7
    <3>2. CASE u # t
      <4>1. Holds(u, q) /\ q # p /\ OnSlot(q, call[u].slot)
        BY <2>4, <3>2, <1>7
      <4>2. OnSlot(q, call[u].slot)'
        BY <3>2, <4>1, <1>3, <1>5 DEF OnSlot
      <4>3. \A h \in Handles : HM!IsSession(h)' => Pointer(h)' # q
        BY <4>1, <1>0, <1>6 DEF PointersExact
      <4>4. \A v \in Threads : Holds(v, q)' => v = u
        BY <4>1, <1>0, <1>7, <1>8 DEF PointersExact
      <4> QED BY <4>2, <4>3, <4>4
    <3> QED BY <3>1, <3>2
  <2> QED BY <2>1, <2>2, <2>3, <2>4 DEF PointersExact
<1>10. CallersOwnSessions'
  BY <1>0, <1>3, <1>4 DEF CallersOwnSessions, HM!Live, HM!IsSession, Closing
<1>11. NoSessionNoHandles'
  BY <1>0, <1>3 DEF NoSessionNoHandles, HM!Live, HM!IsSession
<1> QED BY <1>2, <1>9, <1>10, <1>11

\* OpenAdd: the session gets a handle and the thread lets go of it.
LEMMA RegisterStep ==
  ASSUME SessionsInv, NEW t \in workload.threads, At(t, "open.add"), Moves(t, Idle),
         UNCHANGED <<sessions, heap>>, NEW n,
         Issues(n, [kind |-> "session", slotID |-> call[t].slot, session |-> call[t].p])
  PROVE  PointersExact' /\ CallersOwnSessions' /\ NoSessionNoHandles'
<1>0. /\ CallsOK /\ VectorExact /\ PointersExact /\ CallersOwnSessions /\ NoSessionNoHandles
      /\ HMP!Tables /\ t \in Threads
  BY Stepping DEF SessionsInv
<1>1. PICK entry : entry = [kind |-> "session", slotID |-> call[t].slot, session |-> call[t].p]
  OBVIOUS
<1>2. /\ n \in Handles /\ n \in Nat /\ n > handleCounter /\ handleCounter' = n
      /\ handles[n] = HM!NoHandle /\ handles'[n] = entry
      /\ \A h \in Handles : h # n => handles'[h] = handles[h]
  BY <1>1 DEF Issues
<1>3. call'[t] = Idle /\ \A u \in Threads : u # t => call'[u] = call[u]
  BY <1>0, Moved
<1>4. PICK p \in 1..MaxSessions : p = call[t].p /\ Holds(t, p)
  BY <1>0, CallShape DEF CallsOK, At, Holds
<1>5. /\ OnSlot(p, call[t].slot)
      /\ \A h \in Handles : HM!IsSession(h) => Pointer(h) # p
      /\ \A u \in Threads : Holds(u, p) => u = t
  BY <1>0, <1>4 DEF PointersExact
<1>6. /\ HM!IsSession(n)' /\ HM!Live(n)' /\ Pointer(n)' = p /\ handles'[n].slotID = call[t].slot
      /\ ~ HM!IsSession(n) /\ ~ HM!Live(n)
  BY <1>1, <1>2, <1>4 DEF HM!IsSession, HM!Live, Pointer, HM!NoHandle
<1>7. \A h \in Handles : h # n => /\ HM!IsSession(h)' <=> HM!IsSession(h)
                                  /\ HM!Live(h)' <=> HM!Live(h)
                                  /\ Pointer(h)' = Pointer(h)
  BY <1>2 DEF HM!IsSession, HM!Live, Pointer
<1>8. \A q, s : OnSlot(q, s)' <=> OnSlot(q, s)
  BY DEF OnSlot
<1>9. \A u \in Threads : \A q : Holds(u, q)' => u # t /\ Holds(u, q)
  BY <1>3 DEF Holds, At, Closing, Idle
<1>10. PointersExact'
  <2>1. \A h \in Handles : HM!IsSession(h)' => OnSlot(Pointer(h), handles[h].slotID)'
    <3>1. OnSlot(Pointer(n), handles[n].slotID)'
      BY <1>5, <1>6 DEF OnSlot
    <3>2. \A h \in Handles : h # n /\ HM!IsSession(h) => OnSlot(Pointer(h), handles[h].slotID)'
      BY <1>0, <1>2, <1>7 DEF OnSlot, PointersExact
    <3> QED BY <3>1, <3>2, <1>7
  <2>2. \A h, k \in Handles : HM!IsSession(h)' /\ HM!IsSession(k)' /\ Pointer(h)' = Pointer(k)' => h = k
    BY <1>0, <1>5, <1>6, <1>7 DEF PointersExact
  <2>3. \A u \in Threads : At(u, "open.get")' => call'[u].i \in DOMAIN sessions'
    BY <1>0, <1>3 DEF PointersExact, At, Idle
  <2>4. ASSUME NEW u \in Threads, NEW q \in 0..MaxSessions, Holds(u, q)'
        PROVE  /\ OnSlot(q, call[u].slot)'
               /\ \A h \in Handles : HM!IsSession(h)' => Pointer(h)' # q
               /\ \A v \in Threads : Holds(v, q)' => v = u
    <3>1. u # t /\ Holds(u, q) /\ q # p /\ call'[u] = call[u]
      BY <2>4, <1>3, <1>5, <1>9
    <3>2. /\ OnSlot(q, call[u].slot)
          /\ \A h \in Handles : HM!IsSession(h) => Pointer(h) # q
          /\ \A v \in Threads : Holds(v, q) => v = u
      BY <1>0, <3>1 DEF PointersExact
    <3>3. OnSlot(q, call[u].slot)'
      BY <3>1, <3>2 DEF OnSlot
    <3> QED BY <3>1, <3>2, <3>3, <1>6, <1>7, <1>9
  <2> QED BY <2>1, <2>2, <2>3, <2>4 DEF PointersExact
<1>11. CallersOwnSessions'
  <2> SUFFICES ASSUME NEW u \in Threads, call'[u].h # 0
               PROVE  /\ \A v \in Threads : call'[v].h = call'[u].h => v = u
                      /\ call'[u].h <= handleCounter'
                      /\ IF Closing(u)' THEN ~ HM!Live(call[u].h)'
                         ELSE HM!IsSession(call[u].h)' /\ handles'[call'[u].h].slotID = call'[u].slot
    BY DEF CallersOwnSessions
  <2>1. u # t /\ call'[u] = call[u]
    BY <1>3 DEF Idle
  <2>2. PICK k \in Handles : k = call[u].h
    BY <2>1, <1>0, CallShape DEF CallsOK
  <2>3. /\ \A v \in Threads : call[v].h = k => v = u
        /\ k <= handleCounter
        /\ IF Closing(u) THEN ~ HM!Live(k) ELSE HM!IsSession(k) /\ handles[k].slotID = call[u].slot
    BY <2>1, <2>2, <1>0 DEF CallersOwnSessions
  <2>4. k # n /\ handles'[k] = handles[k] /\ handleCounter \in Nat /\ k <= handleCounter'
    BY <2>2, <2>3, <1>0, <1>2 DEF HMP!Tables, HMP!TableTypes, Handles
  <2>5. \A v \in Threads : call'[v].h = k => v = u
    BY <2>2, <2>3, <1>3 DEF Idle, Handles
  <2>6. Closing(u)' <=> Closing(u)
    BY <2>1 DEF Closing
  <2>7. /\ HM!Live(call[u].h)' <=> HM!Live(k)
        /\ HM!IsSession(call[u].h)' <=> HM!IsSession(k)
    BY <2>1, <2>2, <2>4 DEF HM!Live, HM!IsSession
  <2> QED BY <2>1, <2>2, <2>3, <2>4, <2>5, <2>6, <2>7
<1>12. NoSessionNoHandles'
  <2>1. ASSUME NEW h \in Handles, HM!Live(h)'
        PROVE  \E k \in Handles : HM!IsSession(k)' /\ handles'[k].slotID = handles'[h].slotID
    <3>1. CASE h = n
      BY <3>1, <1>2, <1>6
    <3>2. CASE h # n
      <4>1. PICK k \in Handles : HM!IsSession(k) /\ handles[k].slotID = handles[h].slotID
        BY <2>1, <3>2, <1>0, <1>7 DEF NoSessionNoHandles
      <4> QED BY <4>1, <3>2, <1>2, <1>6, <1>7
    <3> QED BY <3>1, <3>2
  <2>2. ASSUME NEW u \in Threads, call'[u].at \in ClosingAll PROVE FALSE
    <3>1. u # t /\ call[u].at \in ClosingAll
      BY <2>2, <1>3 DEF Idle, ClosingAll
    <3>2. Alone
      BY <3>1, <1>0 DEF CallsOK, ClosingAll
    <3> QED BY <3>1, <3>2, <1>0, OthersIdle DEF ClosingAll
  <2> QED BY <2>1, <2>2 DEF NoSessionNoHandles, ClosingAll
<1> QED BY <1>10, <1>11, <1>12

\* Closing starts: some session handles go with all that depends on them, and
\* the thread holds the session it closes, or all of the slot's are gone.
LEMMA DropStep ==
  ASSUME SessionsInv, NEW t \in Threads, At(t, "idle"), NEW c, Moves(t, c),
         UNCHANGED <<sessions, heap>>, NEW dead, Drops(dead),
         \A x \in Handles : HM!Live(x) /\ x \notin dead =>
           \E k \in Handles : k \notin dead /\ HM!IsSession(k) /\ handles[k].slotID = handles[x].slotID,
         \A u \in Threads : u # t /\ call[u].h \in dead => ~ HM!IsSession(call[u].h),
         \/ /\ c.at = "close.objects" /\ c.h \in Handles /\ c.h \in dead /\ HM!IsSession(c.h)
            /\ c.slot = handles[c.h].slotID /\ c.p = Pointer(c.h)
            /\ \A u \in Threads : call[u].h # c.h
         \/ /\ c.at = "closeAll.objects"
            /\ \A x \in Handles : HM!Live(x) /\ handles[x].slotID = c.slot => x \in dead
  PROVE  PointersExact' /\ CallersOwnSessions' /\ NoSessionNoHandles'
<1>0. /\ CallsOK /\ VectorExact /\ PointersExact /\ CallersOwnSessions /\ NoSessionNoHandles
      /\ HMP!Tables
  BY DEF SessionsInv
<1>1. /\ call' \in [Threads -> CallType] /\ call'[t] = c
      /\ \A u \in Threads : u # t => call'[u] = call[u]
  BY <1>0, Moved
<1>2. handleCounter' = handleCounter /\ handleCounter \in Nat
  BY <1>0 DEF Drops, HMP!Tables, HMP!TableTypes
<1>3. \A h \in Handles : h \in dead => ~ HM!IsSession(h)' /\ ~ HM!Live(h)'
  BY DEF Drops, HM!IsSession, HM!Live, HM!NoHandle
<1>4. \A h \in Handles : h \notin dead => /\ HM!IsSession(h)' <=> HM!IsSession(h)
                                          /\ HM!Live(h)' <=> HM!Live(h)
                                          /\ handles'[h] = handles[h] /\ Pointer(h)' = Pointer(h)
  BY DEF Drops, HM!IsSession, HM!Live, Pointer
<1>5. \A q, s : OnSlot(q, s)' <=> OnSlot(q, s)
  BY DEF OnSlot
<1>6. ASSUME NEW q, Holds(t, q)'
      PROVE  /\ c.at = "close.objects" /\ c.h \in Handles /\ c.h \in dead /\ HM!IsSession(c.h)
             /\ c.slot = handles[c.h].slotID /\ q = Pointer(c.h)
  BY <1>1, <1>6 DEF Holds, At, Closing
<1>7. \A u \in Threads : u # t => \A q : Holds(u, q)' <=> Holds(u, q)
  BY <1>1 DEF Holds, At, Closing
<1>8. PointersExact'
  <2>1. \A h \in Handles : HM!IsSession(h)' => OnSlot(Pointer(h), handles[h].slotID)'
    BY <1>0, <1>3, <1>4 DEF PointersExact, OnSlot
  <2>2. \A h, k \in Handles : HM!IsSession(h)' /\ HM!IsSession(k)' /\ Pointer(h)' = Pointer(k)' => h = k
    BY <1>0, <1>3, <1>4 DEF PointersExact
  <2>3. \A u \in Threads : At(u, "open.get")' => call'[u].i \in DOMAIN sessions'
    BY <1>0, <1>1 DEF PointersExact, At
  <2>4. ASSUME NEW u \in Threads, NEW q \in 0..MaxSessions, Holds(u, q)'
        PROVE  /\ OnSlot(q, call[u].slot)'
               /\ \A h \in Handles : HM!IsSession(h)' => Pointer(h)' # q
               /\ \A v \in Threads : Holds(v, q)' => v = u
    <3>1. CASE u = t
      <4>1. PICK k \in Handles : k \in dead /\ HM!IsSession(k) /\ c.slot = handles[k].slotID
                                 /\ q = Pointer(k)
        BY <2>4, <3>1, <1>6
      <4>2. OnSlot(q, c.slot)
        BY <1>0, <4>1 DEF PointersExact
      <4>3. OnSlot(q, call[u].slot)'
        BY <3>1, <4>2, <1>1 DEF OnSlot
      <4>4. \A h \in Handles : HM!IsSession(h)' => Pointer(h)' # q
        BY <4>1, <1>0, <1>3, <1>4 DEF PointersExact
      <4>5. \A v \in Threads : v # t => ~ Holds(v, q)
        BY <4>1, <1>0 DEF PointersExact
      <4> QED BY <3>1, <4>3, <4>4, <4>5, <1>7
    <3>2. CASE u # t
      <4>1. Holds(u, q) /\ call'[u] = call[u]
        BY <2>4, <3>2, <1>1, <1>7
      <4>2. /\ OnSlot(q, call[u].slot)
            /\ \A h \in Handles : HM!IsSession(h) => Pointer(h) # q
            /\ \A v \in Threads : Holds(v, q) => v = u
        BY <1>0, <4>1 DEF PointersExact
      <4>3. OnSlot(q, call[u].slot)'
        BY <4>1, <4>2 DEF OnSlot
      <4>4. \A h \in Handles : HM!IsSession(h)' => Pointer(h)' # q
        BY <4>2, <1>3, <1>4
      <4>5. ~ Holds(t, q)'
        BY <4>2, <1>6
      <4> QED BY <4>2, <4>3, <4>4, <4>5, <1>7
    <3> QED BY <3>1, <3>2
  <2> QED BY <2>1, <2>2, <2>3, <2>4 DEF PointersExact
<1>9. CallersOwnSessions'
  <2> SUFFICES ASSUME NEW u \in Threads, call'[u].h # 0
               PROVE  /\ \A v \in Threads : call'[v].h = call'[u].h => v = u
                      /\ call'[u].h <= handleCounter'
                      /\ IF Closing(u)' THEN ~ HM!Live(call[u].h)'
                         ELSE HM!IsSession(call[u].h)' /\ handles'[call'[u].h].slotID = call'[u].slot
    BY DEF CallersOwnSessions
  <2>1. CASE u = t
    <3>1. c \in CallType /\ c.h # 0
      BY <2>1, <1>1
    <3>2. PICK k \in Handles : k = c.h /\ k \in dead /\ HM!IsSession(k) /\ c.at = "close.objects"
      BY <3>1, CallShape DEF ClosingAll
    <3>3. \A v \in Threads : call'[v].h = k => v = u
      BY <2>1, <3>2, <1>1
    <3>4. k <= handleCounter'
      BY <3>2, <1>0, <1>2, EntryTypes DEF HM!IsSession, HM!Live
    <3>5. ~ HM!Live(call[u].h)' /\ Closing(u)'
      BY <2>1, <3>2, <1>1, <1>3 DEF HM!Live, Closing
    <3> QED BY <2>1, <3>2, <3>3, <3>4, <3>5, <1>1
  <2>2. CASE u # t
    <3>1. call'[u] = call[u]
      BY <2>2, <1>1
    <3>2. PICK k \in Handles : k = call[u].h
      BY <3>1, <1>0, CallShape DEF CallsOK
    <3>3. /\ \A v \in Threads : call[v].h = k => v = u
          /\ k <= handleCounter
          /\ IF Closing(u) THEN ~ HM!Live(k) ELSE HM!IsSession(k) /\ handles[k].slotID = call[u].slot
      BY <3>1, <3>2, <1>0 DEF CallersOwnSessions
    <3>4. \A v \in Threads : call'[v].h = k => v = u
      <4>1. call'[t].h # k
        <5>1. k # 0
          BY DEF Handles
        <5>2. c \in CallType
          BY DEF Moves
        <5> QED BY <1>1, <2>2, <3>2, <5>1, <5>2, CallShape DEF ClosingAll
      <4> QED BY <3>3, <4>1, <1>1
    <3>5. Closing(u)' <=> Closing(u)
      BY <3>1 DEF Closing
    <3>6. Closing(u) => ~ HM!Live(k)'
      BY <3>3, <1>3, <1>4
    <3>7. ~ Closing(u) => k \notin dead
      BY <3>2, <3>3, <2>2
    <3>8. ~ Closing(u) => HM!IsSession(k)' /\ handles'[k] = handles[k]
      BY <3>3, <3>7, <1>4
    <3>9. /\ HM!Live(call[u].h)' <=> HM!Live(k)'
          /\ HM!IsSession(call[u].h)' <=> HM!IsSession(k)'
      BY <3>1, <3>2 DEF HM!Live, HM!IsSession
    <3> QED BY <3>1, <3>2, <3>3, <3>4, <3>5, <3>6, <3>8, <3>9, <1>2
  <2> QED BY <2>1, <2>2
<1>10. NoSessionNoHandles'
  <2>1. ASSUME NEW h \in Handles, HM!Live(h)'
        PROVE  \E k \in Handles : HM!IsSession(k)' /\ handles'[k].slotID = handles'[h].slotID
    <3>1. h \notin dead /\ HM!Live(h) /\ handles'[h] = handles[h]
      BY <2>1, <1>3, <1>4
    <3>2. PICK k \in Handles : k \notin dead /\ HM!IsSession(k) /\ handles[k].slotID = handles[h].slotID
      BY <3>1
    <3> QED BY <3>1, <3>2, <1>4
  <2>2. ASSUME NEW u \in Threads, call'[u].at \in ClosingAll, NEW h \in Handles, HM!Live(h)'
        PROVE  handles'[h].slotID # call'[u].slot
    <3>1. h \notin dead /\ HM!Live(h) /\ handles'[h] = handles[h]
      BY <2>2, <1>3, <1>4
    <3>2. CASE u = t
      BY <3>1, <3>2, <2>2, <1>1 DEF ClosingAll
    <3>3. CASE u # t
      BY <3>1, <3>3, <2>2, <1>0, <1>1 DEF ClosingAll, NoSessionNoHandles
    <3> QED BY <3>2, <3>3
  <2> QED BY <2>1, <2>2 DEF NoSessionNoHandles, ClosingAll
<1> QED BY <1>8, <1>9, <1>10

\* Closing ends: sessions that no handle leads to and nobody else holds are
\* freed.
LEMMA DeleteStep ==
  ASSUME SessionsInv, NEW t \in Threads, Moves(t, Idle), UNCHANGED <<handles, handleCounter>>,
         NEW spots, spots \subseteq {i \in DOMAIN sessions : sessions[i] # 0},
         SM!Delete(spots), login' \in [Slots -> SM!Users],
         \A i \in spots, h \in Handles : HM!IsSession(h) => Pointer(h) # sessions[i],
         \A i \in spots, u \in Threads : u # t => ~ Holds(u, sessions[i])
  PROVE  VectorExact' /\ PointersExact' /\ CallersOwnSessions' /\ NoSessionNoHandles'
<1>0. /\ CallsOK /\ VectorExact /\ PointersExact /\ CallersOwnSessions /\ NoSessionNoHandles
  BY DEF SessionsInv
<1>1. /\ call'[t] = Idle /\ call' \in [Threads -> CallType]
      /\ \A u \in Threads : u # t => call'[u] = call[u]
  BY <1>0, Moved
<1>2. /\ VectorExact'
      /\ DOMAIN sessions' = DOMAIN sessions /\ DOMAIN heap' = DOMAIN heap
      /\ \A i \in DOMAIN sessions : sessions'[i] = IF i \in spots THEN 0 ELSE sessions[i]
      /\ \A p \in DOMAIN heap :
           heap'[p] = IF \E i \in spots : sessions[i] = p THEN SM!Freed ELSE heap[p]
  BY <1>0, DeletedSessions
<1>3. \A h \in Handles : /\ HM!IsSession(h)' <=> HM!IsSession(h)
                         /\ HM!Live(h)' <=> HM!Live(h)
                         /\ Pointer(h)' = Pointer(h)
  BY DEF HM!IsSession, HM!Live, Pointer
<1>4. ASSUME NEW q, NEW s, OnSlot(q, s), \A i \in spots : sessions[i] # q PROVE OnSlot(q, s)'
  BY <1>2, <1>4 DEF OnSlot
<1>5. ASSUME NEW u \in Threads, NEW q \in 0..MaxSessions, Holds(u, q)'
      PROVE  u # t /\ Holds(u, q) /\ call'[u] = call[u]
  <2>1. u # t /\ call'[u] = call[u]
    BY <1>1, <1>5 DEF Holds, At, Closing, Idle
  <2>2. CASE At(u, "open.get")
    <3>1. call[u].i \in DOMAIN sessions
      BY <2>2, <1>0 DEF PointersExact
    <3>2. Holds(u, sessions[call[u].i])
      BY <2>2 DEF Holds
    <3>3. call[u].i \notin spots
      BY <3>2, <2>1
    <3> QED BY <2>1, <2>2, <3>1, <3>2, <3>3, <1>2, <1>5 DEF Holds, At, Closing
  <2>3. CASE ~ At(u, "open.get")
    BY <2>1, <2>3, <1>5 DEF Holds, At, Closing
  <2> QED BY <2>1, <2>2, <2>3
<1>6. PointersExact'
  <2>1. ASSUME NEW h \in Handles, HM!IsSession(h)' PROVE OnSlot(Pointer(h), handles[h].slotID)'
    <3>1. HM!IsSession(h) /\ OnSlot(Pointer(h), handles[h].slotID)
      BY <2>1, <1>0, <1>3 DEF PointersExact
    <3>2. \A i \in spots : sessions[i] # Pointer(h)
      BY <3>1
    <3>3. PICK q, s : q = Pointer(h) /\ s = handles[h].slotID
      OBVIOUS
    <3>4. OnSlot(q, s)'
      BY <3>1, <3>2, <3>3, <1>4
    <3> QED BY <3>3, <3>4, <1>3 DEF OnSlot
  <2>2. \A h, k \in Handles : HM!IsSession(h)' /\ HM!IsSession(k)' /\ Pointer(h)' = Pointer(k)' => h = k
    BY <1>0, <1>3 DEF PointersExact
  <2>3. \A u \in Threads : At(u, "open.get")' => call'[u].i \in DOMAIN sessions'
    BY <1>0, <1>1, <1>2 DEF PointersExact, At, Idle
  <2>4. ASSUME NEW u \in Threads, NEW q \in 0..MaxSessions, Holds(u, q)'
        PROVE  /\ OnSlot(q, call[u].slot)'
               /\ \A h \in Handles : HM!IsSession(h)' => Pointer(h)' # q
               /\ \A v \in Threads : Holds(v, q)' => v = u
    <3>1. u # t /\ Holds(u, q) /\ call'[u] = call[u]
      BY <2>4, <1>5
    <3>2. /\ OnSlot(q, call[u].slot)
          /\ \A h \in Handles : HM!IsSession(h) => Pointer(h) # q
          /\ \A v \in Threads : Holds(v, q) => v = u
      BY <1>0, <3>1 DEF PointersExact
    <3>3. \A i \in spots : sessions[i] # q
      BY <3>1
    <3>4. PICK s : s = call[u].slot
      OBVIOUS
    <3>5. OnSlot(q, s)'
      BY <3>2, <3>3, <3>4, <1>4
    <3>6. OnSlot(q, call[u].slot)'
      BY <3>1, <3>4, <3>5 DEF OnSlot
    <3>7. \A v \in Threads : Holds(v, q)' => v = u
      BY <3>2, <1>5
    <3> QED BY <3>2, <3>6, <3>7, <1>3
  <2> QED BY <2>1, <2>2, <2>3, <2>4 DEF PointersExact
<1>7. CallersOwnSessions'
  BY <1>0, <1>1 DEF CallersOwnSessions, HM!Live, HM!IsSession, Closing, Idle
<1>8. NoSessionNoHandles'
  BY <1>0, <1>1 DEF NoSessionNoHandles, HM!Live, HM!IsSession, Idle
<1> QED BY <1>2, <1>6, <1>7, <1>8

\* A mild step of a function keeps the session part of the invariant.
LEMMA SessionsMild ==
  ASSUME SessionsInv, NEW t \in workload.threads, NEW c, Moves(t, c), Mild(t, c), SessionsKept,
         HMP!Tables', UNCHANGED <<sessions, heap>>, login' \in [Slots -> SM!Users], StoreTypes',
         initialised, UNCHANGED initialised, UNCHANGED workload, c.at \in RunAlone => Alone
  PROVE  SessionsInv'
<1>1. CallsOK /\ VectorExact /\ t \in Threads
  BY Stepping DEF SessionsInv
<1>2. CallsOK'
  BY <1>1, CallsStep
<1>3. VectorExact'
  BY <1>1, VectorKept
<1>4. PointersExact' /\ CallersOwnSessions' /\ NoSessionNoHandles'
  BY <1>1, MildStep
<1> QED BY <1>2, <1>3, <1>4 DEF SessionsInv
-----------------------------------------------------------------------------
(* References *)

\* The references that there should be on an object.
Owned(o) == IF o \in stored \union TokenObjects THEN 1 ELSE 0
Named(o) == IF Referenced(o) THEN 1 ELSE 0
Refs(o)  == Owned(o) + Named(o) + Cardinality(Searching(o))

\* Sets of threads are finite.
LEMMA SubThreads ==
  ASSUME NEW S, S \subseteq Threads PROVE IsFiniteSet(S) /\ Cardinality(S) \in Nat
BY ConstantsOK, FS_Subset, FS_CardinalityType

\* An object has at most one handle.
LEMMA OneHandle ==
  ASSUME HMP!Tables, NEW o \in Objects PROVE Cardinality(SessionObjectHandles(o)) = Named(o)
<1>1. ASSUME NEW h \in SessionObjectHandles(o), NEW k \in SessionObjectHandles(o) PROVE h = k
  BY <1>1 DEF SessionObjectHandles, HM!OwnedBySession, HM!IsObject, HMP!Tables, HMP!IndexesExact,
     HMP!IsObject, Handles, HMP!Handles
<1>2. CASE Referenced(o)
  <2>1. PICK h \in Handles : h \in SessionObjectHandles(o)
    BY <1>2 DEF Referenced, SessionObjectHandles
  <2>2. SessionObjectHandles(o) = {h}
    BY <1>1, <2>1
  <2> QED BY <1>2, <2>2, FS_Singleton DEF Named
<1>3. CASE ~ Referenced(o)
  <2>1. SessionObjectHandles(o) = {}
    BY <1>3 DEF Referenced, SessionObjectHandles
  <2> QED BY <1>3, <2>1, FS_EmptySet DEF Named
<1> QED BY <1>2, <1>3

\* The same after a step.
LEMMA OneHandleNext ==
  ASSUME HMP!Tables', NEW o \in Objects PROVE Cardinality(SessionObjectHandles(o)') = Named(o)'
<1>1. ASSUME NEW h \in SessionObjectHandles(o)', NEW k \in SessionObjectHandles(o)' PROVE h = k
  BY <1>1 DEF SessionObjectHandles, HM!OwnedBySession, HM!IsObject, HMP!Tables, HMP!IndexesExact,
     HMP!IsObject, Handles, HMP!Handles
<1>2. CASE Referenced(o)'
  <2>1. PICK h \in Handles : h \in SessionObjectHandles(o)'
    BY <1>2 DEF Referenced, SessionObjectHandles
  <2>2. SessionObjectHandles(o)' = {h}
    BY <1>1, <2>1
  <2> QED BY <1>2, <2>2, FS_Singleton DEF Named
<1>3. CASE ~ Referenced(o)'
  <2>1. SessionObjectHandles(o)' = {}
    BY <1>3 DEF Referenced, SessionObjectHandles
  <2> QED BY <1>3, <2>1, FS_EmptySet DEF Named
<1> QED BY <1>2, <1>3

\* An object is in the store or it is not.
LEMMA OwnedCount ==
  ASSUME NEW S, NEW o PROVE Cardinality({x \in {o} : x \in S}) = IF o \in S THEN 1 ELSE 0
<1>1. CASE o \in S
  <2>1. {x \in {o} : x \in S} = {o}
    BY <1>1
  <2> QED BY <1>1, <2>1, FS_Singleton
<1>2. CASE o \notin S
  <2>1. {x \in {o} : x \in S} = {}
    BY <1>2
  <2> QED BY <1>2, <2>1, FS_EmptySet
<1> QED BY <1>1, <1>2

\* What ReferencesExact says, without sets of handles.
LEMMA ExactRefs ==
  ASSUME HMP!Tables, ReferencesExact, initialised, NEW o \in Objects, Used(o)
  PROVE  refCount[o] = Refs(o)
<1>1. refCount[o] = Cardinality({x \in {o} : x \in stored \union TokenObjects})
                    + Cardinality(SessionObjectHandles(o)) + Cardinality(Searching(o))
  BY DEF ReferencesExact, Used
<1>2. Cardinality(SessionObjectHandles(o)) = Named(o)
  BY OneHandle
<1>3. Cardinality({x \in {o} : x \in stored \union TokenObjects}) = Owned(o)
  BY OwnedCount DEF Owned
<1> QED BY <1>1, <1>2, <1>3 DEF Refs

\* And what it takes for it to hold after a step.
LEMMA ExactRefsNext ==
  ASSUME HMP!Tables', \A o \in Objects : Used(o)' => refCount'[o] = Refs(o)'
  PROVE  ReferencesExact'
<1> SUFFICES ASSUME NEW o \in Objects, mem'[o] # SOS!Unused
             PROVE  refCount'[o] = Cardinality({x \in {o} : x \in stored' \union TokenObjects})
                      + Cardinality(SessionObjectHandles(o)') + Cardinality(Searching(o)')
  BY DEF ReferencesExact
<1>1. refCount'[o] = Refs(o)'
  BY DEF Used
<1>2. Cardinality(SessionObjectHandles(o)') = Named(o)'
  BY OneHandleNext
<1>3. Cardinality({x \in {o} : x \in stored' \union TokenObjects}) = Owned(o)'
  <2>1. PICK S : S = stored' \union TokenObjects
    OBVIOUS
  <2> QED BY <2>1, OwnedCount DEF Owned
<1> QED BY <1>1, <1>2, <1>3 DEF Refs

\* The numbers are numbers.
LEMMA RefsTypes ==
  ASSUME NEW o
  PROVE  /\ Owned(o) \in Nat /\ Named(o) \in Nat /\ Cardinality(Searching(o)) \in Nat /\ Refs(o) \in Nat
         /\ Owned(o)' \in Nat /\ Named(o)' \in Nat /\ Cardinality(Searching(o)') \in Nat
         /\ Refs(o)' \in Nat
<1>1. Owned(o) \in Nat /\ Named(o) \in Nat /\ Owned(o)' \in Nat /\ Named(o)' \in Nat
  BY DEF Owned, Named
<1>2. Cardinality(Searching(o)) \in Nat
  BY SubThreads DEF Searching
<1>3. Cardinality(Searching(o)') \in Nat
  <2>1. Searching(o)' \subseteq Threads
    BY DEF Searching
  <2> QED BY <2>1, SubThreads
<1> QED BY <1>1, <1>2, <1>3 DEF Refs

\* Each count changes as the number of references there should be.
CountsFollow ==
  /\ refCount' \in [Objects -> Int]
  /\ \A o \in Objects : IF Used(o) THEN refCount'[o] + Refs(o) = refCount[o] + Refs(o)'
                                   ELSE refCount'[o] = refCount[o]

\* A search holds the same objects before and after.
SameSearches == \A o \in Objects : Searching(o)' = Searching(o)

\* Steps of the handle manager: an object that is not used has no handle.
LEMMA ManagerCounts ==
  ASSUME refCount \in [Objects -> Int], Follows, UNCHANGED stored, SameSearches,
         \A o \in Objects : ~ Used(o) => (Referenced(o) <=> Referenced(o)')
  PROVE  CountsFollow
<1> SUFFICES ASSUME NEW o \in Objects
             PROVE  IF Used(o) THEN refCount'[o] + Refs(o) = refCount[o] + Refs(o)'
                               ELSE refCount'[o] = refCount[o]
  BY DEF CountsFollow, Follows
<1>1. refCount'[o] = IF Referenced(o) <=> Referenced(o)' THEN refCount[o]
                     ELSE IF Referenced(o)' THEN refCount[o] + 1 ELSE refCount[o] - 1
  BY DEF Follows
<1>2. Owned(o)' = Owned(o) /\ Cardinality(Searching(o)') = Cardinality(Searching(o))
  BY DEF Owned, SameSearches
<1>3. refCount[o] \in Int
  OBVIOUS
<1>4. Refs(o) = Owned(o) + Named(o) + Cardinality(Searching(o))
  BY DEF Refs
<1>5. Refs(o)' = Owned(o) + Named(o)' + Cardinality(Searching(o))
  BY <1>2 DEF Refs
<1>6. CASE Used(o)
  BY <1>1, <1>3, <1>4, <1>5, <1>6, RefsTypes DEF Named
<1>7. CASE ~ Used(o)
  BY <1>1, <1>7
<1> QED BY <1>6, <1>7

\* Steps that touch neither handles nor counts nor searches.
LEMMA NoCounts ==
  ASSUME refCount \in [Objects -> Int], UNCHANGED <<handles, refCount, stored>>, SameSearches
  PROVE  CountsFollow
<1>1. \A o \in Objects : Referenced(o)' <=> Referenced(o)
  BY DEF Referenced, HM!OwnedBySession, HM!IsObject
<1>2. Follows
  BY <1>1 DEF Follows
<1> QED BY <1>1, <1>2, ManagerCounts

\* Steps of the session object store that remove objects.
LEMMA RemoveCounts ==
  ASSUME refCount \in [Objects -> Int], StoreTypes, NEW dead, dead \subseteq stored, SOS!Remove(dead),
         \A o \in stored : Used(o), UNCHANGED handles, SameSearches
  PROVE  CountsFollow
<1>1. refCount' \in [Objects -> Int]
  BY DEF SOS!Remove
<1> SUFFICES ASSUME NEW o \in Objects
             PROVE  IF Used(o) THEN refCount'[o] + Refs(o) = refCount[o] + Refs(o)'
                               ELSE refCount'[o] = refCount[o]
  BY <1>1 DEF CountsFollow
<1>2. refCount'[o] = (IF o \in dead THEN refCount[o] - 1 ELSE refCount[o]) /\ refCount[o] \in Int
  BY DEF SOS!Remove
<1>3. Owned(o)' = IF o \in dead THEN Owned(o) - 1 ELSE Owned(o)
  BY DEF Owned, SOS!Remove, StoreTypes
<1>4. Named(o)' = Named(o) /\ Cardinality(Searching(o)') = Cardinality(Searching(o))
  BY DEF Named, Referenced, HM!OwnedBySession, HM!IsObject, SameSearches
<1>5. Refs(o) = Owned(o) + Named(o) + Cardinality(Searching(o))
  BY DEF Refs
<1>6. Refs(o)' = Owned(o)' + Named(o) + Cardinality(Searching(o))
  BY <1>4 DEF Refs
<1>7. o \in dead => Used(o)
  OBVIOUS
<1>8. CASE o \in dead
  BY <1>2, <1>3, <1>5, <1>6, <1>7, <1>8, RefsTypes
<1>9. CASE o \notin dead
  BY <1>2, <1>3, <1>5, <1>6, <1>9, RefsTypes
<1> QED BY <1>8, <1>9

\* A search that begins holds the objects it acquires.
LEMMA AcquireCounts ==
  ASSUME refCount \in [Objects -> Int], NEW objs, SOS!AcquireAll(objs), UNCHANGED <<handles, stored>>,
         NEW t \in Threads, \A o \in objs : Used(o),
         \A o \in Objects : /\ t \notin Searching(o)
                            /\ Searching(o)' = IF o \in objs THEN Searching(o) \union {t} ELSE Searching(o)
  PROVE  CountsFollow
<1>1. refCount' \in [Objects -> Int]
  BY DEF SOS!AcquireAll
<1> SUFFICES ASSUME NEW o \in Objects
             PROVE  IF Used(o) THEN refCount'[o] + Refs(o) = refCount[o] + Refs(o)'
                               ELSE refCount'[o] = refCount[o]
  BY <1>1 DEF CountsFollow
<1>2. refCount'[o] = (IF o \in objs THEN refCount[o] + 1 ELSE refCount[o]) /\ refCount[o] \in Int
  BY DEF SOS!AcquireAll
<1>3. IsFiniteSet(Searching(o))
  BY SubThreads DEF Searching
<1>4. Cardinality(Searching(o) \union {t}) = Cardinality(Searching(o)) + 1
  BY <1>3, FS_AddElement
<1>5. Cardinality(Searching(o)') = IF o \in objs THEN Cardinality(Searching(o)) + 1
                                                 ELSE Cardinality(Searching(o))
  BY <1>4
<1>6. Named(o)' = Named(o) /\ Owned(o)' = Owned(o)
  BY DEF Named, Owned, Referenced, HM!OwnedBySession, HM!IsObject
<1>7. Refs(o) = Owned(o) + Named(o) + Cardinality(Searching(o))
  BY DEF Refs
<1>8. Refs(o)' = Owned(o) + Named(o) + Cardinality(Searching(o)')
  BY <1>6 DEF Refs
<1> QED BY <1>2, <1>5, <1>7, <1>8, RefsTypes

\* A search that ends releases the objects it held.
LEMMA ReleaseCounts ==
  ASSUME refCount \in [Objects -> Int], NEW objs, SOS!ReleaseAll(objs), UNCHANGED <<handles, stored>>,
         NEW t \in Threads, \A o \in objs : Used(o),
         \A o \in Objects : /\ o \in objs => t \in Searching(o)
                            /\ Searching(o)' = IF o \in objs THEN Searching(o) \ {t} ELSE Searching(o)
  PROVE  CountsFollow
<1>1. refCount' \in [Objects -> Int]
  BY DEF SOS!ReleaseAll
<1> SUFFICES ASSUME NEW o \in Objects
             PROVE  IF Used(o) THEN refCount'[o] + Refs(o) = refCount[o] + Refs(o)'
                               ELSE refCount'[o] = refCount[o]
  BY <1>1 DEF CountsFollow
<1>2. refCount'[o] = (IF o \in objs THEN refCount[o] - 1 ELSE refCount[o]) /\ refCount[o] \in Int
  BY DEF SOS!ReleaseAll
<1>3. IsFiniteSet(Searching(o))
  BY SubThreads DEF Searching
<1>4. t \in Searching(o) => Cardinality(Searching(o) \ {t}) = Cardinality(Searching(o)) - 1
  BY <1>3, FS_RemoveElement
<1>5. Cardinality(Searching(o)') = IF o \in objs THEN Cardinality(Searching(o)) - 1
                                                 ELSE Cardinality(Searching(o))
  BY <1>4
<1>6. Named(o)' = Named(o) /\ Owned(o)' = Owned(o)
  BY DEF Named, Owned, Referenced, HM!OwnedBySession, HM!IsObject
<1>7. Refs(o) = Owned(o) + Named(o) + Cardinality(Searching(o))
  BY DEF Refs
<1>8. Refs(o)' = Owned(o) + Named(o) + Cardinality(Searching(o)')
  BY <1>6 DEF Refs
<1> QED BY <1>2, <1>5, <1>7, <1>8, RefsTypes
-----------------------------------------------------------------------------
(* Objects *)

OwnPoints == {"create.save", "create.add", "destroy.forget", "destroy.delete"}

\* What a record says of the objects in it.
Carries(c) ==
  /\ c.at \in OwnPoints => c.o \in stored \union TokenObjects /\ Used(c.o)
  /\ c.at \in {"create.save", "create.add"} =>
       /\ SlotOf[c.o] = c.slot
       /\ c.onToken <=> c.o \in TokenObjects
       /\ ~ c.onToken => mem[c.o].hSession = c.h
  /\ c.at = "find.match" => /\ \A o \in c.todo : SlotOf[o] = c.slot
                            /\ \A o \in c.held \union c.todo : Used(o)

\* A session object belongs to an open session of its slot or a thread is about
\* to remove it.
ToRemove(o, c) ==
  /\ c.slot = SlotOf[o]
  /\ (c.at = "close.objects" /\ c.h = mem[o].hSession) \/ c.at = "closeAll.objects"

Belongs(o) ==
  /\ mem[o].hSession \in Handles
  /\ \/ HM!IsSession(mem[o].hSession) /\ handles[mem[o].hSession].slotID = SlotOf[o]
     \/ \E t \in Threads : ToRemove(o, call[t])

\* The invariant in these terms.
LEMMA ObjectsMean ==
  ASSUME ObjectsInv
  PROVE  /\ refCount \in [Objects -> Int] /\ ReferencesExact /\ FinalizeFreesAll
         /\ \A o \in Objects : ~ Used(o) => o \notin stored \union tokenStore /\ refCount[o] = 0
         /\ \A h \in Handles : HM!IsObject(h) => Used(handles[h].object)
         /\ \A o \in Objects \ TokenObjects : o \in stored <=> SOS!Valid(o)
         /\ \A o \in stored : Belongs(o)
         /\ \A t \in Threads : Carries(call[t])
<1>1. \A o \in stored : Belongs(o)
  BY DEF ObjectsInv, StoredExact, Belongs, ToRemove, At
<1>2. \A t \in Threads : Carries(call[t])
  BY DEF ObjectsInv, CallersOwnObjects, NowhereBeforeUse, Carries, OwnPoints, At
<1> QED BY <1>1, <1>2 DEF ObjectsInv, NowhereBeforeUse, StoredExact

\* And after a step.
LEMMA ObjectsMeanNext ==
  ASSUME refCount' \in [Objects -> Int], ReferencesExact', FinalizeFreesAll',
         \A o \in Objects : ~ Used(o)' => o \notin stored' \union tokenStore' /\ refCount'[o] = 0,
         \A h \in Handles : HM!IsObject(h)' => Used(handles[h].object)',
         \A o \in Objects \ TokenObjects : o \in stored' <=> SOS!Valid(o)',
         \A o \in stored' : Belongs(o)',
         \A t \in Threads : Carries(call[t])'
  PROVE  ObjectsInv'
<1>1. StoredExact'
  BY DEF StoredExact, Belongs, ToRemove, At
<1>2. CallersOwnObjects'
  BY DEF CallersOwnObjects, Carries, OwnPoints, At
<1>3. NowhereBeforeUse'
  BY DEF NowhereBeforeUse, Carries, At
<1> QED BY <1>1, <1>2, <1>3 DEF ObjectsInv

\* The objects are what they were, as far as references and ownership go.
MemSimilar ==
  /\ \A o \in Objects : Used(o)' <=> Used(o)
  /\ \A o \in Objects \ TokenObjects : SOS!Valid(o)' <=> SOS!Valid(o)
  /\ \A o \in stored : mem'[o].hSession = mem[o].hSession /\ mem'[o].isPrivate = mem[o].isPrivate

\* A step keeps the object part of the invariant if the session store stays
\* and the handles it drops are those of the sessions being closed.
LEMMA ObjectsKept ==
  ASSUME SessionsInv, ObjectsInv, HMP!Tables', NEW t \in Threads, NEW c, Moves(t, c),
         initialised, UNCHANGED initialised, UNCHANGED stored, tokenStore' \subseteq tokenStore,
         MemSimilar, CountsFollow,
         call[t].at \notin {"close.objects", "closeAll.objects"},
         \A h \in Handles : HM!IsSession(h) =>
           \/ HM!IsSession(h)' /\ handles'[h].slotID = handles[h].slotID
           \/ c.slot = handles[h].slotID /\ ((c.at = "close.objects" /\ c.h = h) \/ c.at = "closeAll.objects"),
         \A h \in Handles : HM!IsObject(h)' => Used(handles'[h].object) /\ handles'[h].object \in Objects,
         Carries(c)
  PROVE  ObjectsInv'
<1>1. /\ refCount \in [Objects -> Int] /\ ReferencesExact /\ FinalizeFreesAll
      /\ \A o \in Objects : ~ Used(o) => o \notin stored \union tokenStore /\ refCount[o] = 0
      /\ \A o \in Objects \ TokenObjects : o \in stored <=> SOS!Valid(o)
      /\ \A o \in stored : Belongs(o)
      /\ \A u \in Threads : Carries(call[u])
  BY ObjectsMean
<1>2. CallsOK /\ StoreTypes /\ HMP!Tables
  BY DEF SessionsInv
<1>3. /\ call'[t] = c /\ \A u \in Threads : u # t => call'[u] = call[u]
  BY <1>2, Moved
<1>4. refCount' \in [Objects -> Int] /\ FinalizeFreesAll'
  BY DEF CountsFollow, FinalizeFreesAll
<1>5. ReferencesExact'
  <2>1. ASSUME NEW o \in Objects, Used(o)' PROVE refCount'[o] = Refs(o)'
    <3>1. Used(o)
      BY <2>1 DEF MemSimilar
    <3>2. refCount[o] = Refs(o) /\ refCount'[o] + Refs(o) = refCount[o] + Refs(o)'
      BY <3>1, <1>1, <1>2, ExactRefs DEF CountsFollow
    <3>3. refCount'[o] \in Int
      BY <1>4
    <3> QED BY <3>2, <3>3, RefsTypes
  <2> QED BY <2>1, ExactRefsNext
<1>6. \A o \in Objects : ~ Used(o)' => o \notin stored' \union tokenStore' /\ refCount'[o] = 0
  BY <1>1 DEF MemSimilar, CountsFollow
<1>7. \A h \in Handles : HM!IsObject(h)' => Used(handles[h].object)'
  BY DEF MemSimilar, Used
<1>8. \A o \in Objects \ TokenObjects : o \in stored' <=> SOS!Valid(o)'
  BY <1>1 DEF MemSimilar
<1>9. ASSUME NEW o \in stored' PROVE Belongs(o)'
  <2>1. o \in stored /\ Belongs(o) /\ mem'[o].hSession = mem[o].hSession /\ o \in Objects
    BY <1>1, <1>2, <1>9 DEF MemSimilar, StoreTypes
  <2>2. PICK hs \in Handles : hs = mem[o].hSession /\ hs = mem'[o].hSession
    BY <2>1 DEF Belongs
  <2>3. CASE HM!IsSession(mem[o].hSession) /\ handles[mem[o].hSession].slotID = SlotOf[o]
    <3>1. HM!IsSession(hs) /\ handles[hs].slotID = SlotOf[o]
      BY <2>2, <2>3 DEF HM!IsSession
    <3>2. CASE HM!IsSession(hs)' /\ handles'[hs].slotID = handles[hs].slotID
      BY <2>2, <3>1, <3>2 DEF Belongs, HM!IsSession
    <3>3. CASE c.slot = handles[hs].slotID
               /\ ((c.at = "close.objects" /\ c.h = hs) \/ c.at = "closeAll.objects")
      <4>1. ToRemove(o, call[t])'
        BY <1>3, <2>2, <3>1, <3>3 DEF ToRemove
      <4> QED BY <2>2, <4>1 DEF Belongs
    <3> QED BY <3>1, <3>2, <3>3
  <2>4. CASE \E u \in Threads : ToRemove(o, call[u])
    <3>1. PICK u \in Threads : ToRemove(o, call[u])
      BY <2>4
    <3>2. u # t
      BY <3>1 DEF ToRemove
    <3>3. ToRemove(o, call[u])'
      BY <1>3, <2>2, <3>1, <3>2 DEF ToRemove
    <3> QED BY <2>2, <3>3 DEF Belongs
  <2> QED BY <2>1, <2>3, <2>4 DEF Belongs
<1>10. ASSUME NEW r, Carries(r), r \in CallType PROVE Carries(r)'
  <2>1. r.at \in OwnPoints => r.o \in Objects
    BY <1>10 DEF CallType, OwnPoints, Idle
  <2>2. r.at = "find.match" => r.held \union r.todo \subseteq Objects
    BY <1>10 DEF CallType, Idle
  <2> QED BY <1>10, <2>1, <2>2 DEF Carries, MemSimilar, OwnPoints
<1>11. \A u \in Threads : Carries(call[u])'
  <2> SUFFICES ASSUME NEW u \in Threads PROVE Carries(call[u])'
    OBVIOUS
  <2>1. PICK r : r = call'[u]
    OBVIOUS
  <2>2. r \in CallType /\ Carries(r)
    BY <1>1, <1>2, <1>3, <2>1 DEF CallsOK, Moves
  <2>3. Carries(r)'
    BY <1>10, <2>2
  <2> QED BY <2>1, <2>3 DEF Carries
<1> QED BY <1>4, <1>5, <1>6, <1>7, <1>8, <1>9, <1>11, ObjectsMeanNext

\* The session store may remove objects that no other thread owns, and must
\* remove those the thread came to remove.
LEMMA ObjectsRemoved ==
  ASSUME SessionsInv, ObjectsInv, HMP!Tables', NEW t \in Threads, NEW c, Moves(t, c),
         initialised, UNCHANGED initialised, UNCHANGED tokenStore, UNCHANGED handles,
         NEW dead, dead \subseteq stored, SOS!Remove(dead), SameSearches,
         c.at \in {"idle", "close.session", "closeAll.sessions"},
         \A u \in Threads : u # t /\ call[u].at \in OwnPoints => call[u].o \notin dead,
         \A o \in stored : ToRemove(o, call[t]) => o \in dead
  PROVE  ObjectsInv'
<1>1. /\ refCount \in [Objects -> Int] /\ ReferencesExact
      /\ \A o \in Objects : ~ Used(o) => o \notin stored \union tokenStore /\ refCount[o] = 0
      /\ \A h \in Handles : HM!IsObject(h) => Used(handles[h].object)
      /\ \A o \in Objects \ TokenObjects : o \in stored <=> SOS!Valid(o)
      /\ \A o \in stored : Belongs(o)
      /\ \A u \in Threads : Carries(call[u])
  BY ObjectsMean
<1>2. CallsOK /\ StoreTypes /\ HMP!Tables
  BY DEF SessionsInv
<1>3. /\ call'[t] = c /\ \A u \in Threads : u # t => call'[u] = call[u]
  BY <1>2, Moved
<1>4. /\ stored' = stored \ dead
      /\ \A o \in Objects : mem'[o] = IF o \in dead THEN SOS!Gone ELSE mem[o]
      /\ stored \subseteq Objects /\ stored \intersect TokenObjects = {}
      /\ \A o \in stored : Used(o)
  BY <1>1, <1>2 DEF SOS!Remove, StoreTypes
<1>5. \A o \in Objects : Used(o)' <=> Used(o)
  BY <1>4 DEF Used, SOS!Gone, SOS!Unused
<1>6. CountsFollow
  BY <1>1, <1>2, <1>4, RemoveCounts
<1>7. refCount' \in [Objects -> Int] /\ FinalizeFreesAll'
  BY <1>6 DEF CountsFollow, FinalizeFreesAll
<1>8. ReferencesExact'
  <2>1. ASSUME NEW o \in Objects, Used(o)' PROVE refCount'[o] = Refs(o)'
    <3>1. Used(o)
      BY <2>1, <1>5
    <3>2. refCount[o] = Refs(o) /\ refCount'[o] + Refs(o) = refCount[o] + Refs(o)'
      BY <3>1, <1>1, <1>2, <1>6, ExactRefs DEF CountsFollow
    <3>3. refCount'[o] \in Int
      BY <1>7
    <3> QED BY <3>2, <3>3, RefsTypes
  <2> QED BY <2>1, ExactRefsNext
<1>9. \A o \in Objects : ~ Used(o)' => o \notin stored' \union tokenStore' /\ refCount'[o] = 0
  BY <1>1, <1>4, <1>5, <1>6 DEF CountsFollow
<1>10. \A h \in Handles : HM!IsObject(h)' => Used(handles[h].object)'
  <2> SUFFICES ASSUME NEW h \in Handles, HM!IsObject(h)' PROVE Used(handles[h].object)'
    OBVIOUS
  <2>1. HM!IsObject(h) /\ handles[h].object \in Objects /\ Used(handles[h].object)
    BY <1>1, <1>2, EntryTypes DEF HM!IsObject
  <2> QED BY <2>1, <1>5 DEF Used
<1>11. \A o \in Objects \ TokenObjects : o \in stored' <=> SOS!Valid(o)'
  BY <1>1, <1>4 DEF SOS!Valid, SOS!Gone
<1>12. ASSUME NEW o \in stored' PROVE Belongs(o)'
  <2>1. o \in stored /\ Belongs(o) /\ mem'[o] = mem[o] /\ ~ ToRemove(o, call[t])
    BY <1>1, <1>4, <1>12
  <2>2. CASE HM!IsSession(mem[o].hSession) /\ handles[mem[o].hSession].slotID = SlotOf[o]
    BY <2>1, <2>2 DEF Belongs, HM!IsSession
  <2>3. CASE \E u \in Threads : ToRemove(o, call[u])
    <3>1. PICK u \in Threads : ToRemove(o, call[u])
      BY <2>3
    <3>2. u # t
      BY <3>1, <2>1
    <3>3. ToRemove(o, call[u])'
      BY <1>3, <2>1, <3>1, <3>2 DEF ToRemove
    <3> QED BY <2>1, <3>3 DEF Belongs
  <2> QED BY <2>1, <2>2, <2>3 DEF Belongs
<1>13. ASSUME NEW u \in Threads PROVE Carries(call[u])'
  <2>1. CASE u = t
    BY <1>3, <2>1 DEF Carries, OwnPoints
  <2>2. CASE u # t
    <3>1. PICK r \in CallType : r = call'[u] /\ r = call[u]
      BY <1>2, <1>3, <2>2 DEF CallsOK
    <3>2. Carries(r) /\ (r.at \in OwnPoints => r.o \notin dead)
      BY <1>1, <2>2, <3>1
    <3>3. r.at \in OwnPoints => r.o \in Objects
      BY DEF CallType, OwnPoints, Idle
    <3>4. r.at = "find.match" => r.held \union r.todo \subseteq Objects
      BY DEF CallType, Idle
    <3>5. Carries(r)'
      BY <3>2, <3>3, <3>4, <1>4, <1>5 DEF Carries, OwnPoints
    <3> QED BY <3>1, <3>5 DEF Carries
  <2> QED BY <2>1, <2>2
<1> QED BY <1>7, <1>8, <1>9, <1>10, <1>11, <1>12, <1>13, ObjectsMeanNext

\* A new object has the reference of the store or token that made it, and the
\* thread that had it made carries it.
LEMMA ObjectCreated ==
  ASSUME SessionsInv, ObjectsInv, HMP!Tables', NEW t \in Threads, NEW c, Moves(t, c),
         initialised, UNCHANGED initialised, UNCHANGED handles, At(t, "create.new"), c.at = "create.save",
         c.h = call[t].h, c.slot = call[t].slot, c.o \in Objects, ~ Used(c.o), SlotOf[c.o] = c.slot,
         c.onToken <=> c.o \in TokenObjects,
         refCount' = [refCount EXCEPT ![c.o] = 1],
         \A o \in Objects : o # c.o => mem'[o] = mem[o],
         mem'[c.o].life = "valid", c.o \notin TokenObjects => mem'[c.o].hSession = c.h,
         stored' = IF c.o \in TokenObjects THEN stored ELSE stored \union {c.o},
         tokenStore' \subseteq tokenStore \union {c.o}
  PROVE  ObjectsInv'
<1>1. /\ refCount \in [Objects -> Int] /\ ReferencesExact
      /\ \A o \in Objects : ~ Used(o) => o \notin stored \union tokenStore /\ refCount[o] = 0
      /\ \A h \in Handles : HM!IsObject(h) => Used(handles[h].object)
      /\ \A o \in Objects \ TokenObjects : o \in stored <=> SOS!Valid(o)
      /\ \A o \in stored : Belongs(o)
      /\ \A u \in Threads : Carries(call[u])
  BY ObjectsMean
<1>2. CallsOK /\ StoreTypes /\ HMP!Tables /\ CallersOwnSessions
  BY DEF SessionsInv
<1>3. /\ call'[t] = c /\ \A u \in Threads : u # t => call'[u] = call[u]
  BY <1>2, Moved
<1>4. PICK new \in Objects : new = c.o
  OBVIOUS
<1>5. /\ ~ Used(new) /\ Used(new)' /\ SOS!Valid(new)'
      /\ \A o \in Objects : o # new => (Used(o)' <=> Used(o)) /\ (SOS!Valid(o)' <=> SOS!Valid(o))
  BY <1>4 DEF Used, SOS!Valid, SOS!Unused
<1>6. \A o \in Objects : o # new => refCount'[o] = refCount[o] /\ Owned(o)' = Owned(o)
  BY <1>1, <1>4 DEF Owned
<1>7. refCount' \in [Objects -> Int] /\ refCount'[new] = 1 /\ FinalizeFreesAll'
  BY <1>1, <1>4 DEF FinalizeFreesAll
<1>8. \A o \in Objects : Named(o)' = Named(o) /\ Searching(o)' = Searching(o)
  <2>1. \A o \in Objects : Named(o)' = Named(o)
    BY DEF Named, Referenced, HM!OwnedBySession, HM!IsObject
  <2>2. \A u \in Threads : ((call'[u].at = "find.match") <=> (call[u].at = "find.match"))
                           /\ (call[u].at = "find.match" => call'[u] = call[u])
    BY <1>3 DEF At
  <2> QED BY <2>1, <2>2 DEF Searching, At
<1>9. Named(new) = 0 /\ Searching(new) = {}
  <2>1. ~ Referenced(new)
    BY <1>1, <1>5 DEF Referenced, HM!OwnedBySession
  <2>2. Searching(new) = {}
    BY <1>1, <1>5 DEF Searching, Carries, At
  <2> QED BY <2>1, <2>2 DEF Named
<1>10. Owned(new)' = 1
  BY <1>4 DEF Owned
<1>11. Refs(new)' = 1
  <2>1. Searching(new)' = {} /\ Named(new)' = 0
    BY <1>8, <1>9
  <2>2. Cardinality(Searching(new)') = 0
    BY <2>1, FS_EmptySet
  <2> QED BY <2>1, <2>2, <1>10 DEF Refs
<1>12. ReferencesExact'
  <2>1. ASSUME NEW o \in Objects, Used(o)', o # new PROVE refCount'[o] = Refs(o)'
    <3>1. refCount[o] = Refs(o)
      BY <2>1, <1>1, <1>2, <1>5, ExactRefs
    <3>2. Refs(o)' = Refs(o)
      BY <2>1, <1>6, <1>8 DEF Refs
    <3> QED BY <2>1, <3>1, <3>2, <1>6
  <2> QED BY <2>1, <1>7, <1>11, ExactRefsNext
<1>13. \A o \in Objects : ~ Used(o)' => o \notin stored' \union tokenStore' /\ refCount'[o] = 0
  BY <1>1, <1>4, <1>5, <1>6
<1>14. \A h \in Handles : HM!IsObject(h)' => Used(handles[h].object)'
  <2> SUFFICES ASSUME NEW h \in Handles, HM!IsObject(h)' PROVE Used(handles[h].object)'
    OBVIOUS
  <2>1. HM!IsObject(h) /\ handles[h].object \in Objects /\ Used(handles[h].object)
    BY <1>1, <1>2, EntryTypes DEF HM!IsObject
  <2> QED BY <2>1, <1>5 DEF Used
<1>15. \A o \in Objects \ TokenObjects : o \in stored' <=> SOS!Valid(o)'
  <2> SUFFICES ASSUME NEW o \in Objects \ TokenObjects PROVE o \in stored' <=> SOS!Valid(o)'
    OBVIOUS
  <2>1. CASE o = new
    BY <2>1, <1>4, <1>5
  <2>2. CASE o # new
    <3>1. o \in stored' <=> o \in stored
      BY <2>2, <1>4
    <3>2. SOS!Valid(o)' <=> SOS!Valid(o)
      BY <2>2, <1>5
    <3> QED BY <3>1, <3>2, <1>1
  <2> QED BY <2>1, <2>2
<1>16. ASSUME NEW o \in stored' PROVE Belongs(o)'
  <2>1. CASE o = new
    <3>1. new \notin TokenObjects
      BY <1>1, <1>4, <1>5, <1>16, <2>1
    <3>2. PICK hs \in Handles : hs = c.h /\ hs = mem'[new].hSession
      <4>1. call[t].h \in Handles
        BY <1>2, CallShape DEF CallsOK, At, Working
      <4> QED BY <4>1, <3>1, <1>4
    <3>3. HM!IsSession(hs) /\ handles[hs].slotID = c.slot
      <4>1. hs # 0 /\ hs = call[t].h
        BY <3>2 DEF Handles
      <4>2. ~ Closing(t)
        BY DEF Closing, At
      <4> QED BY <4>1, <4>2, <1>2 DEF CallersOwnSessions, HM!IsSession
    <3> QED BY <2>1, <3>2, <3>3, <1>4 DEF Belongs, HM!IsSession
  <2>2. CASE o # new
    <3>1. o \in stored /\ Belongs(o) /\ mem'[o] = mem[o] /\ o \in Objects
      BY <1>1, <1>2, <1>4, <1>16, <2>2 DEF StoreTypes
    <3>2. CASE HM!IsSession(mem[o].hSession) /\ handles[mem[o].hSession].slotID = SlotOf[o]
      BY <3>1, <3>2 DEF Belongs, HM!IsSession
    <3>3. CASE \E u \in Threads : ToRemove(o, call[u])
      <4>1. PICK u \in Threads : ToRemove(o, call[u])
        BY <3>3
      <4>2. u # t
        BY <4>1 DEF ToRemove, At
      <4>3. ToRemove(o, call[u])'
        BY <1>3, <3>1, <4>1, <4>2 DEF ToRemove
      <4> QED BY <3>1, <4>3 DEF Belongs
    <3> QED BY <3>1, <3>2, <3>3 DEF Belongs
  <2> QED BY <2>1, <2>2
<1>17. ASSUME NEW u \in Threads PROVE Carries(call[u])'
  <2>1. CASE u = t
    <3>1. Carries(c)'
      BY <1>4, <1>5 DEF Carries, OwnPoints
    <3> QED BY <2>1, <3>1, <1>3 DEF Carries
  <2>2. CASE u # t
    <3>1. PICK r \in CallType : r = call'[u] /\ r = call[u]
      BY <1>2, <1>3, <2>2 DEF CallsOK
    <3>2. Carries(r)
      BY <1>1, <3>1
    <3>3. r.at \in OwnPoints => r.o \in Objects /\ r.o # new
      BY <3>2, <1>5 DEF CallType, OwnPoints, Idle, Carries
    <3>4. r.at = "find.match" => r.held \union r.todo \subseteq Objects
      BY DEF CallType, Idle
    <3>5. Carries(r)'
      BY <3>2, <3>3, <3>4, <1>4, <1>5 DEF Carries, OwnPoints
    <3> QED BY <3>1, <3>5 DEF Carries
  <2> QED BY <2>1, <2>2
<1> QED BY <1>7, <1>12, <1>13, <1>14, <1>15, <1>16, <1>17, ObjectsMeanNext
-----------------------------------------------------------------------------
(* Private objects *)

\* Whoever creates or searches private objects has the user logged in.
Entitled(c) ==
  /\ c.at \in {"create.new", "create.save", "create.add"} /\ c.private => Logged(c.slot)
  /\ c.at = "find.match" /\ ~ c.public => Logged(c.slot)

\* Something on the slot, other than of thread t, depends on its login.
Inhabited(t, s) ==
  \/ \E h \in Handles : HM!IsObject(h) /\ handles[h].slotID = s
  \/ \E o \in stored : SlotOf[o] = s
  \/ \E u \in Threads : u # t /\ call[u].at \in Working /\ call[u].slot = s

\* Nobody else is logging out while a thread takes a step.
LEMMA NoLogout ==
  ASSUME CallsOK, NEW t \in workload.threads, NEW u \in Threads, u # t
  PROVE  call[u].at \notin {"logout.handles", "logout.objects"} /\ call[u].at \notin RunAlone
<1>1. call[u].at \in RunAlone => Alone
  BY DEF CallsOK, RunAlone, ClosingAll
<1>2. "idle" \notin RunAlone
  BY DEF RunAlone, ClosingAll
<1> QED BY <1>1, <1>2, OthersIdle DEF RunAlone

\* A step other than those of a logout keeps private things to the user, if
\* slots on which there is something stay logged in.
LEMMA PrivacyKept ==
  ASSUME SessionsInv, PrivacyInv, NEW t \in workload.threads, NEW c, Moves(t, c),
         call[t].at \notin {"logout.handles", "logout.objects"},
         c.at \notin {"logout.handles", "logout.objects"},
         \A s \in Slots : Logged(s) /\ Inhabited(t, s) => Logged(s)',
         \A h \in Handles : HM!IsObject(h)' /\ handles'[h].isPrivate =>
           (HM!IsObject(h) /\ handles'[h] = handles[h]) \/ Logged(handles[h].slotID)',
         \A o \in stored' : mem'[o].isPrivate => (o \in stored /\ mem[o].isPrivate) \/ Logged(SlotOf[o])',
         Entitled(c)'
  PROVE  PrivacyInv'
<1>1. CallsOK /\ HMP!Tables /\ StoreTypes /\ t \in Threads
  BY Stepping DEF SessionsInv
<1>2. /\ call'[t] = c /\ \A u \in Threads : u # t => call'[u] = call[u]
  BY <1>1, Moved
<1>3. \A u \in Threads : /\ call[u].at \notin {"logout.handles", "logout.objects"}
                         /\ call'[u].at \notin {"logout.handles", "logout.objects"}
  BY <1>1, <1>2, NoLogout
<1>4. ASSUME NEW h \in Handles, HM!IsObject(h)', handles'[h].isPrivate
      PROVE  Logged(handles[h].slotID)'
  <2>1. CASE HM!IsObject(h) /\ handles'[h] = handles[h]
    <3>1. PICK s \in Slots : s = handles[h].slotID
      BY <1>1, <2>1, EntryTypes
    <3>2. Logged(s) /\ Inhabited(t, s)
      BY <1>3, <1>4, <2>1, <3>1 DEF PrivacyInv, Inhabited, At
    <3>3. Logged(s)'
      BY <3>2
    <3> QED BY <2>1, <3>1, <3>3 DEF Logged
  <2> QED BY <1>4, <2>1
<1>5. ASSUME NEW o \in stored', mem'[o].isPrivate PROVE Logged(SlotOf[o])'
  <2>1. CASE o \in stored /\ mem[o].isPrivate
    <3>1. PICK s \in Slots : s = SlotOf[o]
      BY <1>1, <2>1, ConstantsOK DEF StoreTypes
    <3>2. Logged(s) /\ Inhabited(t, s)
      BY <1>3, <2>1, <3>1 DEF PrivacyInv, Inhabited
    <3> QED BY <3>1, <3>2
  <2> QED BY <1>5, <2>1
<1>6. ASSUME NEW u \in Threads PROVE Entitled(call[u])'
  <2>1. CASE u = t
    BY <1>2, <2>1 DEF Entitled, Logged
  <2>2. CASE u # t
    <3>1. PICK r \in CallType : r = call'[u] /\ r = call[u]
      BY <1>1, <1>2, <2>2 DEF CallsOK
    <3>2. Entitled(r)
      BY <3>1 DEF PrivacyInv, Entitled, At
    <3>3. r.at \in Working => r.slot \in Slots /\ Inhabited(t, r.slot)
      BY <2>2, <3>1, CallShape DEF Inhabited, Working
    <3>4. r.at \in Working /\ Logged(r.slot) => Logged(r.slot)'
      BY <3>3
    <3>5. Entitled(r)'
      BY <3>2, <3>4 DEF Entitled, Working
    <3> QED BY <3>1, <3>5 DEF Entitled, Logged
  <2> QED BY <2>1, <2>2
<1> QED BY <1>3, <1>4, <1>5, <1>6 DEF PrivacyInv, Entitled, At
-----------------------------------------------------------------------------
(* Searches *)

\* Handles that were issued are never reused.
Monotone ==
  /\ handleCounter \in Nat /\ handleCounter' \in Nat /\ handleCounter <= handleCounter'
  /\ \A h \in Handles : h <= handleCounter /\ HM!Live(h)' => handles'[h] = handles[h]

\* Nor is there any reuse when nothing changes, a handle is issued or some go.
LEMMA MonotoneSteps ==
  ASSUME HMP!Tables,
         \/ UNCHANGED <<handles, handleCounter>>
         \/ \E n, entry : Issues(n, entry)
         \/ \E dead : Drops(dead)
  PROVE  Monotone
<1>1. handleCounter \in Nat
  BY DEF HMP!Tables, HMP!TableTypes
<1>2. CASE UNCHANGED <<handles, handleCounter>>
  BY <1>1, <1>2 DEF Monotone
<1>3. CASE \E n, entry : Issues(n, entry)
  BY <1>1, <1>3 DEF Monotone, Issues, Handles
<1>4. CASE \E dead : Drops(dead)
  BY <1>1, <1>4 DEF Monotone, Drops, HM!Live, HM!NoHandle
<1> QED BY <1>2, <1>3, <1>4

\* So what may be reported stays so.
LEMMA ReportableKept ==
  ASSUME Monotone, NEW hs, NEW s, Reportable(hs, s) PROVE Reportable(hs, s)'
<1> SUFFICES ASSUME NEW k \in hs
             PROVE  /\ k \in Handles /\ k <= handleCounter'
                    /\ HM!Live(k)' => HM!IsObject(k)' /\ handles'[k].slotID = s
  BY DEF Reportable
<1>1. k \in Handles /\ k <= handleCounter /\ (HM!Live(k) => HM!IsObject(k) /\ handles[k].slotID = s)
  BY DEF Reportable
<1>2. HM!Live(k)' => handles'[k] = handles[k]
  BY <1>1 DEF Monotone
<1>3. k <= handleCounter'
  BY <1>1 DEF Monotone, Handles
<1> QED BY <1>1, <1>2, <1>3 DEF HM!Live, HM!IsObject

\* What a searching thread has found so far.
FoundBy(c) == c.at = "find.match" => Reportable(c.found, c.slot) /\ c.p = Pointer(c.h)

\* A step keeps the searches right if each search after it reports what it
\* reported before or what may be reported.
LEMMA SearchKept ==
  ASSUME SessionsInv, SessionsInv', SearchInv, NEW t \in Threads, NEW c, Moves(t, c), Monotone,
         find' \in [1..MaxSessions -> FindType],
         \A p \in 1..MaxSessions : find'[p].active =>
           /\ p \in DOMAIN heap'
           /\ heap'[p].live =>
                \/ /\ p \in DOMAIN heap /\ heap[p].live /\ find[p].active
                   /\ heap'[p] = heap[p] /\ find'[p].found \subseteq find[p].found
                \/ Reportable(find[p].found, heap[p].slot)',
         FoundBy(c)'
  PROVE  SearchInv'
<1>1. CallsOK /\ HMP!Tables /\ VectorExact /\ CallersOwnSessions
  BY DEF SessionsInv
<1>2. VectorExact' /\ CallersOwnSessions'
  BY DEF SessionsInv
<1>3. /\ call'[t] = c /\ \A u \in Threads : u # t => call'[u] = call[u]
  BY <1>1, Moved
<1>4. ASSUME NEW p \in DOMAIN heap', heap'[p].live, find'[p].active
      PROVE  Reportable(find[p].found, heap[p].slot)'
  <2>1. p \in 1..MaxSessions
    <3>1. heap' \in Seq(SessionType \union {SM!Freed}) /\ Len(heap') <= MaxSessions
      BY <1>2 DEF VectorExact
    <3>2. Len(heap') \in Nat /\ DOMAIN heap' = 1..Len(heap')
      BY <3>1, LenProperties
    <3> QED BY <3>1, <3>2, ConstantsOK
  <2>2. CASE /\ p \in DOMAIN heap /\ heap[p].live /\ find[p].active
             /\ heap'[p] = heap[p] /\ find'[p].found \subseteq find[p].found
    <3>1. PICK hs, s : hs = find[p].found /\ s = heap[p].slot
      OBVIOUS
    <3>2. Reportable(hs, s)
      BY <2>2, <3>1 DEF SearchInv
    <3>3. Reportable(hs, s)'
      BY <3>2, ReportableKept
    <3> QED BY <2>2, <3>1, <3>3 DEF Reportable
  <2> QED BY <1>4, <2>1, <2>2
<1>5. ASSUME NEW u \in Threads PROVE FoundBy(call[u])'
  <2>1. CASE u = t
    BY <1>3, <2>1 DEF FoundBy, Reportable, Pointer
  <2>2. CASE u # t
    <3>0. SUFFICES ASSUME call'[u].at = "find.match" PROVE FoundBy(call[u])'
      BY DEF FoundBy
    <3>1. PICK r \in CallType : r = call'[u] /\ r = call[u]
      BY <1>1, <1>3, <2>2 DEF CallsOK
    <3>2. FoundBy(r)
      BY <3>1 DEF SearchInv, FoundBy, At
    <3>3. Reportable(r.found, r.slot)'
      BY <3>0, <3>1, <3>2, ReportableKept DEF FoundBy
    <3>4. r.h \in Handles /\ r.h # 0 /\ ~ Closing(u)' /\ ~ Closing(u)
      BY <3>0, <3>1, CallShape DEF Closing, Working, Handles
    <3>5. r.h <= handleCounter /\ HM!Live(r.h)'
      BY <1>1, <1>2, <3>1, <3>4 DEF CallersOwnSessions, HM!Live, HM!IsSession
    <3>6. Pointer(r.h)' = Pointer(r.h)
      BY <3>4, <3>5 DEF Monotone, Pointer
    <3>7. FoundBy(r)'
      BY <3>2, <3>3, <3>6 DEF FoundBy
    <3> QED BY <3>1, <3>7 DEF FoundBy, Reportable, Pointer
  <2> QED BY <2>1, <2>2
<1>6. \A p \in 1..MaxSessions : p \notin DOMAIN heap' => ~ find'[p].active
  OBVIOUS
<1> QED BY <1>4, <1>5, <1>6 DEF SearchInv, FoundBy, At
-----------------------------------------------------------------------------
(* Steps that change only who is logged in, what is searched for and what  *)
(* the thread carries.                                                     *)

Calm(t, c) ==
  /\ Moves(t, c) /\ Mild(t, c) /\ Carries(c)
  /\ c.at \in RunAlone => Alone
  /\ call[t].at \notin {"close.objects", "closeAll.objects"}
  /\ c.at = "find.match" \/ call[t].at = "find.match" => c.at = call[t].at /\ c.held = call[t].held
  /\ UNCHANGED handleVars /\ UNCHANGED <<sessions, heap, stored, mem, refCount, tokenStore>>
  /\ initialised /\ UNCHANGED initialised /\ UNCHANGED workload
  /\ login' \in [Slots -> SM!Users] /\ lockedOut' \subseteq Slots

\* Searches are the same when the thread's own is.
LEMMA SameSearchesOf ==
  ASSUME CallsOK, NEW t \in Threads, NEW c, Moves(t, c),
         c.at = "find.match" \/ call[t].at = "find.match" => c.at = call[t].at /\ c.held = call[t].held
  PROVE  SameSearches
<1>1. /\ call'[t] = c /\ \A u \in Threads : u # t => call'[u] = call[u]
  BY Moved
<1>2. ASSUME NEW o \in Objects, NEW u \in Threads
      PROVE  At(u, "find.match")' /\ o \in call'[u].held <=> At(u, "find.match") /\ o \in call[u].held
  <2>1. CASE u = t
    BY <1>1, <2>1 DEF At
  <2>2. CASE u # t
    BY <1>1, <2>2 DEF At
  <2> QED BY <2>1, <2>2
<1> QED BY <1>2 DEF SameSearches, Searching

\* A calm step keeps the sessions and the objects.
LEMMA CalmCore ==
  ASSUME SessionsInv, ObjectsInv, NEW t \in workload.threads, NEW c, Calm(t, c)
  PROVE  SessionsInv' /\ ObjectsInv' /\ Monotone
<1>1. CallsOK /\ HMP!Tables /\ StoreTypes /\ t \in Threads
  BY Stepping DEF SessionsInv
<1>2. /\ Moves(t, c) /\ Mild(t, c) /\ Carries(c) /\ UNCHANGED handleVars
      /\ UNCHANGED <<sessions, heap>> /\ UNCHANGED <<stored, mem, refCount, tokenStore>>
      /\ initialised /\ UNCHANGED initialised /\ UNCHANGED workload
  BY DEF Calm
<1>3. UNCHANGED <<handles, handleCounter>> /\ HMP!Tables'
  BY <1>1, <1>2, TablesKept DEF handleVars
<1>4. SessionsKept /\ Monotone
  BY <1>1, <1>3, KeptUnchanged, MonotoneSteps
<1>5. StoreTypes'
  BY <1>1, <1>2 DEF StoreTypes, Calm
<1>6. SessionsInv'
  BY <1>2, <1>3, <1>4, <1>5, SessionsMild DEF Calm
<1>7. SameSearches
  BY <1>1, <1>2, SameSearchesOf DEF Calm
<1>8. CountsFollow
  <2>1. refCount \in [Objects -> Int]
    BY DEF ObjectsInv
  <2> QED BY <1>2, <1>3, <1>7, <2>1, NoCounts
<1>9. MemSimilar
  BY <1>2 DEF MemSimilar, Used, SOS!Valid
<1>10. \A h \in Handles : HM!IsObject(h)' => Used(handles'[h].object) /\ handles'[h].object \in Objects
  BY <1>1, <1>3, EntryTypes DEF HM!IsObject, ObjectsInv, NowhereBeforeUse
<1>11. \A h \in Handles : HM!IsSession(h) => HM!IsSession(h)' /\ handles'[h].slotID = handles[h].slotID
  BY <1>3 DEF HM!IsSession
<1>12. ObjectsInv'
  BY <1>1, <1>2, <1>3, <1>8, <1>9, <1>10, <1>11, ObjectsKept DEF Calm
<1> QED BY <1>4, <1>6, <1>12

\* And the searches, if it starts none.
LEMMA CalmSearch ==
  ASSUME SessionsInv, ObjectsInv, SearchInv, NEW t \in workload.threads, NEW c, Calm(t, c),
         find' \in [1..MaxSessions -> FindType],
         \A p \in 1..MaxSessions : find'[p].active => find[p].active /\ find'[p].found \subseteq find[p].found,
         c.at = "find.match" => c.found = call[t].found /\ c.slot = call[t].slot
                                /\ c.p = call[t].p /\ c.h = call[t].h
  PROVE  SearchInv'
<1>1. SessionsInv' /\ Monotone
  BY CalmCore
<1>2. Moves(t, c) /\ UNCHANGED heap /\ UNCHANGED handles /\ t \in Threads
  BY Stepping DEF Calm, SessionsInv, handleVars
<1>3. FoundBy(c)'
  <2> SUFFICES ASSUME c.at = "find.match" PROVE Reportable(c.found, c.slot)' /\ c.p = Pointer(c.h)'
    BY DEF FoundBy
  <2>1. At(t, "find.match")
    BY DEF Calm, At
  <2>2. Reportable(c.found, c.slot) /\ c.p = Pointer(c.h)
    BY <1>2, <2>1 DEF SearchInv
  <2>3. Reportable(c.found, c.slot)'
    BY <1>1, <2>2, ReportableKept
  <2> QED BY <1>2, <2>2, <2>3 DEF Pointer
<1>4. ASSUME NEW p \in 1..MaxSessions, find'[p].active
      PROVE  /\ p \in DOMAIN heap'
             /\ heap'[p].live =>
                  \/ /\ p \in DOMAIN heap /\ heap[p].live /\ find[p].active
                     /\ heap'[p] = heap[p] /\ find'[p].found \subseteq find[p].found
                  \/ Reportable(find[p].found, heap[p].slot)'
  <2>1. find[p].active /\ find'[p].found \subseteq find[p].found
    BY <1>4
  <2>2. p \in DOMAIN heap
    BY <2>1 DEF SearchInv
  <2> QED BY <1>2, <2>1, <2>2
<1> QED BY <1>1, <1>2, <1>3, <1>4, SearchKept

\* And private things, if no slot is logged out.
LEMMA CalmPrivacy ==
  ASSUME SessionsInv, PrivacyInv, NEW t \in workload.threads, NEW c, Calm(t, c),
         call[t].at \notin {"logout.handles", "logout.objects"},
         c.at \notin {"logout.handles", "logout.objects"},
         \A s \in Slots : Logged(s) => Logged(s)',
         Entitled(c)
  PROVE  PrivacyInv'
<1>1. Moves(t, c) /\ UNCHANGED <<handles, stored, mem>>
  BY DEF Calm, handleVars
<1>2. \A h \in Handles : HM!IsObject(h)' /\ handles'[h].isPrivate =>
        (HM!IsObject(h) /\ handles'[h] = handles[h]) \/ Logged(handles[h].slotID)'
  BY <1>1 DEF HM!IsObject
<1>3. \A o \in stored' : mem'[o].isPrivate => (o \in stored /\ mem[o].isPrivate) \/ Logged(SlotOf[o])'
  BY <1>1
<1>4. Entitled(c)'
  <2>1. c.at # "idle" => c.slot \in Slots
    BY <1>1, CallShape DEF Moves
  <2> QED BY <2>1 DEF Entitled
<1> QED BY <1>1, <1>2, <1>3, <1>4, PrivacyKept

\* A calm step that leaves logins and searches alone.
LEMMA CalmStep ==
  ASSUME IInv, NEW t \in workload.threads, NEW c, Calm(t, c), UNCHANGED <<login, lockedOut, find>>,
         call[t].at \notin {"logout.handles", "logout.objects"},
         c.at \notin {"logout.handles", "logout.objects"}, Entitled(c),
         c.at = "find.match" => c.found = call[t].found /\ c.slot = call[t].slot
                                /\ c.p = call[t].p /\ c.h = call[t].h
  PROVE  IInv'
<1>1. SessionsInv /\ ObjectsInv /\ PrivacyInv /\ SearchInv
  BY DEF IInv
<1>2. SessionsInv' /\ ObjectsInv'
  BY <1>1, CalmCore
<1>3. \A s \in Slots : Logged(s) => Logged(s)'
  BY DEF Logged
<1>4. PrivacyInv'
  BY <1>1, <1>3, CalmPrivacy
<1>5. find' \in [1..MaxSessions -> FindType] /\ find' = find
  BY <1>1 DEF SearchInv
<1>6. SearchInv'
  BY <1>1, <1>5, CalmSearch
<1> QED BY <1>2, <1>4, <1>6 DEF IInv
-----------------------------------------------------------------------------
(* One lemma per step of a function. *)

\* What a thread knows that has looked a session up.
LEMMA Entered ==
  ASSUME SessionsInv, NEW t \in workload.threads, NEW f, NEW h \in Handles, Enter(t, f, h)
  PROVE  /\ t \in Threads /\ initialised /\ call[t] = Idle /\ call[t].at = "idle"
         /\ f \in workload.functions
         /\ HM!IsSession(h) /\ h # 0 /\ \A u \in Threads : call[u].h # h
         /\ SlotOfSession(h) = handles[h].slotID /\ SlotOfSession(h) \in Slots
         /\ OnSlot(Pointer(h), SlotOfSession(h)) /\ Pointer(h) \in 1..MaxSessions
<1>1. CallsOK /\ HMP!Tables /\ PointersExact /\ VectorExact /\ t \in Threads
  BY Stepping DEF SessionsInv
<1>2. call[t] = Idle /\ call[t].at = "idle"
  BY <1>1, CallShape DEF CallsOK, Enter, At
<1>3. HM!IsSession(h) /\ OnSlot(Pointer(h), handles[h].slotID) /\ handles[h].slotID \in Slots
      /\ Pointer(h) \in 1..MaxSessions
  BY <1>1, EntryTypes DEF Enter, PointersExact, Pointer
<1>4. SlotOfSession(h) = handles[h].slotID
  BY <1>3 DEF OnSlot, SlotOfSession
<1> QED BY <1>1, <1>2, <1>3, <1>4 DEF Enter, Handles

\* What a thread knows in the middle of a function.
LEMMA InFunction ==
  ASSUME SessionsInv, NEW t \in workload.threads, call[t].at # "idle"
  PROVE  /\ t \in Threads /\ initialised /\ call[t] \in CallType /\ call[t].slot \in Slots
         /\ call[t].at \in Working =>
              /\ call[t].h \in Handles /\ HM!IsSession(call[t].h)
              /\ handles[call[t].h].slotID = call[t].slot
<1>1. CallsOK /\ CallersOwnSessions /\ t \in Threads /\ initialised
  BY Stepping DEF SessionsInv
<1>2. call[t] \in CallType /\ call[t].slot \in Slots
  BY <1>1, CallShape DEF CallsOK
<1>3. ASSUME call[t].at \in Working
      PROVE  /\ call[t].h \in Handles /\ HM!IsSession(call[t].h)
             /\ handles[call[t].h].slotID = call[t].slot
  <2>1. call[t].h \in Handles /\ call[t].h # 0
    BY <1>2, <1>3, CallShape DEF Handles
  <2>2. ~ Closing(t)
    BY <1>3 DEF Closing, Working
  <2> QED BY <1>1, <2>1, <2>2 DEF CallersOwnSessions
<1> QED BY <1>1, <1>2, <1>3

\* OpenGet finds the session that it is opening.
LEMMA OpenGetStep ==
  ASSUME IInv, NEW t \in workload.threads, OpenGet(t), UNCHANGED workload PROVE IInv'
<1>1. SessionsInv /\ CallsOK /\ PointersExact /\ VectorExact
  BY DEF IInv, SessionsInv
<1>2. t \in Threads /\ initialised /\ call[t] \in CallType /\ call[t].slot \in Slots /\ At(t, "open.get")
  BY <1>1, InFunction DEF OpenGet, At
<1>3. PICK p : p = sessions[call[t].i]
  OBVIOUS
<1>4. OnSlot(p, call[t].slot) /\ p \in 1..MaxSessions
  <2>1. p \in 0..MaxSessions /\ Holds(t, p)
    BY <1>1, <1>2, <1>3, VectorTypes DEF PointersExact, Holds
  <2>2. OnSlot(p, call[t].slot)
    BY <1>1, <1>2, <2>1 DEF PointersExact
  <2> QED BY <1>1, <2>2, VectorTypes DEF OnSlot
<1>5. PICK c : c = [at |-> "open.add", h |-> 0, slot |-> call[t].slot, p |-> p]
  OBVIOUS
<1>6. c \in CallType /\ Moves(t, c)
  <2>1. c \in CallType
    BY <1>2, <1>4, <1>5 DEF CallType
  <2>2. call' = [call EXCEPT ![t] = c]
    BY <1>3, <1>4, <1>5 DEF OpenGet, SM!getSession, SM!NULL, Goto
  <2> QED BY <2>1, <2>2 DEF Moves
<1>7. GoesOn(t, c)
  <2>1. call[t].h = 0
    BY <1>2, CallShape DEF At
  <2> QED BY <1>2, <1>3, <1>5, <2>1 DEF GoesOn
<1>8. Carries(c) /\ Entitled(c) /\ c.at \notin RunAlone
  BY <1>5 DEF Carries, OwnPoints, Entitled, RunAlone, ClosingAll
<1>9. Calm(t, c) /\ UNCHANGED <<login, lockedOut, find>>
  <2>1. UNCHANGED handleVars /\ UNCHANGED <<sessions, heap, stored, mem, refCount, tokenStore>>
        /\ UNCHANGED initialised /\ UNCHANGED <<login, lockedOut, find>>
    BY DEF OpenGet, sessionVars, storeVars
  <2>2. login' \in [Slots -> SM!Users] /\ lockedOut' \subseteq Slots
    BY <1>1, <2>1 DEF SessionsInv, VectorExact, StoreTypes
  <2> QED BY <1>2, <1>5, <1>6, <1>7, <1>8, <2>1, <2>2 DEF Calm, Mild, At
<1> QED BY <1>2, <1>5, <1>8, <1>9, CalmStep DEF At

\* A calm step of a function that begins and ends at once.
LEMMA CalmCall ==
  ASSUME SessionsInv, NEW t \in workload.threads, NEW f, NEW h \in Handles, Enter(t, f, h),
         UNCHANGED handleVars, UNCHANGED <<sessions, heap, stored, mem, refCount, tokenStore>>,
         UNCHANGED initialised, UNCHANGED workload, UNCHANGED call,
         login' \in [Slots -> SM!Users], lockedOut' \subseteq Slots
  PROVE  Calm(t, Idle) /\ Entitled(Idle) /\ call[t].at = "idle" /\ Idle.at = "idle"
<1>1. CallsOK /\ t \in Threads /\ initialised /\ At(t, "idle")
  BY Stepping DEF SessionsInv, Enter
<1>2. Moves(t, Idle)
  BY <1>1, StaysIdle
<1>3. Idle.at = "idle"
  BY DEF Idle
<1> QED BY <1>1, <1>2, <1>3 DEF Calm, Mild, Ends, Carries, OwnPoints, Entitled, RunAlone, ClosingAll, At

\* C_Login as the user.
LEMMA LoginUserStep ==
  ASSUME IInv, NEW t \in workload.threads, NEW h \in Handles, C_LoginUser(t, h), UNCHANGED workload
  PROVE  IInv'
<1>1. SessionsInv /\ ObjectsInv /\ PrivacyInv /\ SearchInv /\ VectorExact /\ StoreTypes
  BY DEF IInv, SessionsInv
<1>2. PICK s \in Slots : s = SlotOfSession(h)
  BY <1>1, Entered DEF C_LoginUser
<1>3. login \in [Slots -> SM!Users] /\ login[s] = "public" /\ login' = [login EXCEPT ![s] = "user"]
  BY <1>1, <1>2 DEF C_LoginUser, SM!loginToken, VectorExact
<1>4. Calm(t, Idle) /\ Entitled(Idle) /\ call[t].at = "idle" /\ Idle.at = "idle"
  <2>1. UNCHANGED handleVars /\ UNCHANGED <<sessions, heap, stored, mem, refCount, tokenStore>>
        /\ UNCHANGED initialised /\ UNCHANGED call /\ UNCHANGED lockedOut
    BY DEF C_LoginUser, storeVars
  <2>2. login' \in [Slots -> SM!Users] /\ lockedOut' \subseteq Slots
    BY <1>1, <1>3, <2>1 DEF StoreTypes, SM!Users
  <2> QED BY <1>1, <2>1, <2>2, CalmCall DEF C_LoginUser
<1>5. SessionsInv' /\ ObjectsInv'
  BY <1>1, <1>4, CalmCore
<1>6. \A x \in Slots : Logged(x) => Logged(x)'
  BY <1>3 DEF Logged, C_LoginUser
<1>7. PrivacyInv'
  BY <1>1, <1>4, <1>6, CalmPrivacy
<1>8. find' \in [1..MaxSessions -> FindType] /\ find' = find
  BY <1>1 DEF SearchInv, C_LoginUser
<1>9. SearchInv'
  BY <1>1, <1>4, <1>8, CalmSearch
<1> QED BY <1>5, <1>7, <1>9 DEF IInv

\* A PIN that is wrong for the last time: the user is logged out, and remembered.
LEMMA LastTryStep ==
  ASSUME IInv, NEW t \in workload.threads, NEW h \in Handles, LastTryFails(t, h), UNCHANGED workload
  PROVE  IInv'
<1>1. SessionsInv /\ ObjectsInv /\ PrivacyInv /\ SearchInv /\ VectorExact /\ StoreTypes
  BY DEF IInv, SessionsInv
<1>2. PICK s \in Slots : s = SlotOfSession(h)
  BY <1>1, Entered DEF LastTryFails
<1>3. /\ login \in [Slots -> SM!Users] /\ login' = [login EXCEPT ![s] = "public"]
      /\ lockedOut' = IF login[s] = "user" THEN lockedOut \union {s} ELSE lockedOut
  BY <1>1, <1>2 DEF LastTryFails, SM!logoutToken, VectorExact
<1>4. Calm(t, Idle) /\ Entitled(Idle) /\ call[t].at = "idle" /\ Idle.at = "idle"
  <2>1. UNCHANGED handleVars /\ UNCHANGED <<sessions, heap, stored, mem, refCount, tokenStore>>
        /\ UNCHANGED initialised /\ UNCHANGED call
    BY DEF LastTryFails, storeVars
  <2>2. login' \in [Slots -> SM!Users] /\ lockedOut' \subseteq Slots
    BY <1>1, <1>3 DEF StoreTypes, SM!Users
  <2> QED BY <1>1, <2>1, <2>2, CalmCall DEF LastTryFails
<1>5. SessionsInv' /\ ObjectsInv'
  BY <1>1, <1>4, CalmCore
<1>6. \A x \in Slots : Logged(x) => Logged(x)'
  BY <1>3 DEF Logged
<1>7. PrivacyInv'
  BY <1>1, <1>4, <1>6, CalmPrivacy
<1>8. find' \in [1..MaxSessions -> FindType] /\ find' = find
  BY <1>1 DEF SearchInv, LastTryFails
<1>9. SearchInv'
  BY <1>1, <1>4, <1>8, CalmSearch
<1> QED BY <1>5, <1>7, <1>9 DEF IInv

\* C_FindObjects and C_FindObjectsFinal report less or nothing.
LEMMA FindCallStep ==
  ASSUME IInv, NEW t \in workload.threads, NEW h \in Handles,
         (\E n \in 1..Cardinality(Objects) : C_FindObjects(t, h, n)) \/ C_FindObjectsFinal(t, h),
         UNCHANGED workload
  PROVE  IInv'
<1>1. SessionsInv /\ ObjectsInv /\ PrivacyInv /\ SearchInv /\ VectorExact /\ StoreTypes
  BY DEF IInv, SessionsInv
<1>2. PICK f : Enter(t, f, h)
  BY DEF C_FindObjects, C_FindObjectsFinal
<1>3. PICK p \in 1..MaxSessions : p = Pointer(h)
  BY <1>1, <1>2, Entered
<1>4. /\ UNCHANGED handleVars /\ UNCHANGED <<sessions, heap, stored, mem, refCount, tokenStore>>
      /\ UNCHANGED initialised /\ UNCHANGED call /\ UNCHANGED login /\ UNCHANGED lockedOut
  BY DEF C_FindObjects, C_FindObjectsFinal, storeVars, sessionVars
<1>5. Calm(t, Idle) /\ Entitled(Idle) /\ call[t].at = "idle" /\ Idle.at = "idle"
  <2>1. login' \in [Slots -> SM!Users] /\ lockedOut' \subseteq Slots
    BY <1>1, <1>4 DEF StoreTypes, VectorExact
  <2> QED BY <1>1, <1>2, <1>4, <2>1, CalmCall
<1>6. SessionsInv' /\ ObjectsInv'
  BY <1>1, <1>5, CalmCore
<1>7. \A x \in Slots : Logged(x) => Logged(x)'
  BY <1>4 DEF Logged
<1>8. PrivacyInv'
  BY <1>1, <1>5, <1>7, CalmPrivacy
<1>9. /\ find' \in [1..MaxSessions -> FindType]
      /\ \A q \in 1..MaxSessions : find'[q].active => find[q].active /\ find'[q].found \subseteq find[q].found
  <2>0. find \in [1..MaxSessions -> FindType]
    BY <1>1 DEF SearchInv
  <2>1. CASE C_FindObjectsFinal(t, h)
    <3>1. find' = [find EXCEPT ![p] = NoSearch]
      BY <1>3, <2>1 DEF C_FindObjectsFinal
    <3>2. NoSearch \in FindType /\ NoSearch.active = FALSE
      BY DEF FindType, NoSearch
    <3> QED BY <2>0, <3>1, <3>2
  <2>2. ASSUME NEW n \in 1..Cardinality(Objects), C_FindObjects(t, h, n)
        PROVE  /\ find' \in [1..MaxSessions -> FindType]
               /\ \A q \in 1..MaxSessions :
                    find'[q].active => find[q].active /\ find'[q].found \subseteq find[q].found
    <3>1. PICK rest : /\ rest = {k \in find[p].found : Cardinality({j \in find[p].found : j < k}) >= n}
                      /\ find' = [find EXCEPT ![p].found = rest]
      BY <1>3, <2>2 DEF C_FindObjects
    <3>2. find[p].active /\ rest \subseteq find[p].found
      BY <1>3, <2>2, <3>1 DEF C_FindObjects
    <3>3. find[p] # NoSearch
      BY <3>2 DEF NoSearch
    <3>4. find[p] \in [active : {TRUE}, ok : BOOLEAN, found : SUBSET Handles]
      BY <2>0, <3>3 DEF FindType
    <3>5. find'[p] \in [active : {TRUE}, ok : BOOLEAN, found : SUBSET Handles] /\ find'[p].found = rest
      BY <2>0, <3>1, <3>2, <3>4
    <3>6. \A q \in 1..MaxSessions : q # p => find'[q] = find[q]
      BY <2>0, <3>1
    <3>7. find' \in [1..MaxSessions -> FindType]
      BY <2>0, <3>1, <3>5, <3>6 DEF FindType
    <3> QED BY <3>2, <3>5, <3>6, <3>7
  <2> QED BY <2>1, <2>2
<1>10. SearchInv'
  BY <1>1, <1>5, <1>9, CalmSearch
<1> QED BY <1>6, <1>8, <1>10 DEF IInv

\* A calm step that begins a function.
LEMMA CalmBegin ==
  ASSUME SessionsInv, NEW t \in workload.threads, NEW f, NEW h \in Handles, Enter(t, f, h),
         NEW c, c \in CallType, c.at \in Working, c.at # "find.match", c.h = h, c.slot = SlotOfSession(h),
         Goto(t, c), Carries(c), c.at \in RunAlone => Alone,
         UNCHANGED handleVars, UNCHANGED <<sessions, heap, stored, mem, refCount, tokenStore>>,
         UNCHANGED initialised, UNCHANGED workload,
         login' \in [Slots -> SM!Users], lockedOut' \subseteq Slots
  PROVE  Calm(t, c) /\ call[t].at = "idle"
<1>1. /\ t \in Threads /\ initialised /\ call[t].at = "idle" /\ HM!IsSession(h)
      /\ \A u \in Threads : call[u].h # h
      /\ SlotOfSession(h) = handles[h].slotID
  BY Entered
<1>2. Moves(t, c)
  BY DEF Moves, Goto
<1>3. Begins(t, c)
  BY <1>1 DEF Begins
<1> QED BY <1>1, <1>2, <1>3 DEF Calm, Mild

\* C_Login as the SO, up to the check that no session is read-only.
LEMMA LoginSOBegins ==
  ASSUME IInv, NEW t \in workload.threads, NEW h \in Handles, C_LoginSO(t, h), UNCHANGED workload
  PROVE  IInv'
<1>1. SessionsInv /\ VectorExact /\ StoreTypes
  BY DEF IInv, SessionsInv
<1>2. PICK c : c = [at |-> "login.so", h |-> h, slot |-> SlotOfSession(h)]
  OBVIOUS
<1>3. c \in CallType /\ c.at = "login.so" /\ c.h = h /\ c.slot = SlotOfSession(h)
  BY <1>1, <1>2, Entered DEF C_LoginSO, CallType
<1>4. /\ UNCHANGED handleVars /\ UNCHANGED <<sessions, heap, stored, mem, refCount, tokenStore>>
      /\ UNCHANGED initialised /\ UNCHANGED <<login, lockedOut, find>>
  BY DEF C_LoginSO, storeVars, sessionVars
<1>5. login' \in [Slots -> SM!Users] /\ lockedOut' \subseteq Slots
  BY <1>1, <1>4 DEF StoreTypes, VectorExact
<1>6. Carries(c) /\ Entitled(c) /\ c.at \notin RunAlone /\ c.at \in Working
  BY <1>3 DEF Carries, OwnPoints, Entitled, RunAlone, ClosingAll, Working
<1>7. Calm(t, c) /\ call[t].at = "idle"
  BY <1>1, <1>2, <1>3, <1>4, <1>5, <1>6, CalmBegin DEF C_LoginSO, Start
<1> QED BY <1>3, <1>4, <1>6, <1>7, CalmStep

\* The SO's login itself.
LEMMA LoginSOStep ==
  ASSUME IInv, NEW t \in workload.threads, LoginSO(t), UNCHANGED workload
  PROVE  IInv'
<1>1. SessionsInv /\ ObjectsInv /\ PrivacyInv /\ SearchInv /\ VectorExact /\ StoreTypes
  BY DEF IInv, SessionsInv
<1>2. t \in Threads /\ initialised /\ call[t].slot \in Slots /\ call[t].at = "login.so"
  BY <1>1, InFunction DEF LoginSO, At
<1>3. /\ UNCHANGED handleVars /\ UNCHANGED <<sessions, heap, stored, mem, refCount, tokenStore>>
      /\ UNCHANGED initialised /\ UNCHANGED <<lockedOut, find>>
  BY DEF LoginSO, storeVars, sessionVars
<1>4. /\ login' \in [Slots -> SM!Users] /\ lockedOut' \subseteq Slots
      /\ \A x \in Slots : Logged(x) => Logged(x)'
  <2>1. login \in [Slots -> SM!Users]
    BY <1>1 DEF VectorExact
  <2>2. CASE SM!loginToken(call[t].slot, "so")
    BY <1>1, <1>2, <1>3, <2>1, <2>2 DEF SM!loginToken, Logged, SM!Users, StoreTypes
  <2>3. CASE UNCHANGED login
    BY <1>1, <1>3, <2>1, <2>3 DEF Logged, StoreTypes
  <2> QED BY <2>2, <2>3 DEF LoginSO
<1>5. Idle \in CallType /\ Idle.at = "idle" /\ Moves(t, Idle)
  BY DEF CallType, Idle, Moves, LoginSO, Return
<1>6. Calm(t, Idle)
  BY <1>2, <1>3, <1>4, <1>5 DEF Calm, Mild, Ends, Carries, OwnPoints, RunAlone, ClosingAll
<1>7. SessionsInv' /\ ObjectsInv'
  BY <1>1, <1>6, CalmCore
<1>8. PrivacyInv'
  BY <1>1, <1>2, <1>4, <1>5, <1>6, CalmPrivacy DEF Entitled
<1>9. find' \in [1..MaxSessions -> FindType] /\ find' = find
  BY <1>1, <1>3 DEF SearchInv
<1>10. SearchInv'
  BY <1>1, <1>5, <1>6, <1>9, CalmSearch
<1> QED BY <1>7, <1>8, <1>10 DEF IInv

\* C_Logout begins: the token is logged out, the rest is yet to follow.
LEMMA LogoutStep ==
  ASSUME CarefulApplications, IInv, NEW t \in workload.threads, NEW h \in Handles, C_Logout(t, h),
         UNCHANGED workload
  PROVE  IInv'
<1>1. SessionsInv /\ ObjectsInv /\ PrivacyInv /\ SearchInv /\ VectorExact /\ StoreTypes /\ CallsOK
  BY DEF IInv, SessionsInv
<1>2. PICK s \in Slots : s = SlotOfSession(h)
  BY <1>1, Entered DEF C_Logout
<1>3. login \in [Slots -> SM!Users] /\ login' = [login EXCEPT ![s] = "public"] /\ UNCHANGED lockedOut
  BY <1>1, <1>2 DEF C_Logout, SM!logoutToken, VectorExact
<1>4. Alone /\ t \in Threads
  <2>1. "C_Logout" \in Disruptive /\ "C_Logout" \in workload.functions
    BY DEF Disruptive, C_Logout, Enter
  <2> QED BY <1>1, <2>1, DisruptiveAlone, Stepping
<1>5. PICK c : c = [at |-> "logout.handles", h |-> h, slot |-> SlotOfSession(h)]
  OBVIOUS
<1>6. c \in CallType /\ c.at = "logout.handles" /\ c.h = h /\ c.slot = s /\ c.slot = SlotOfSession(h)
  BY <1>1, <1>2, <1>5, Entered DEF C_Logout, CallType
<1>7. /\ UNCHANGED handleVars /\ UNCHANGED <<sessions, heap, stored, mem, refCount, tokenStore>>
      /\ UNCHANGED initialised /\ UNCHANGED find
  BY DEF C_Logout, storeVars
<1>8. login' \in [Slots -> SM!Users] /\ lockedOut' \subseteq Slots
  BY <1>1, <1>3 DEF StoreTypes, SM!Users
<1>9. Calm(t, c)
  <2>1. Carries(c) /\ c.at \in Working
    BY <1>6 DEF Carries, OwnPoints, Working
  <2> QED BY <1>1, <1>4, <1>5, <1>6, <1>7, <1>8, <2>1, CalmBegin DEF C_Logout, Start
<1>10. SessionsInv' /\ ObjectsInv'
  BY <1>1, <1>9, CalmCore
<1>11. find' \in [1..MaxSessions -> FindType] /\ find' = find
  BY <1>1, <1>7 DEF SearchInv
<1>12. SearchInv'
  BY <1>1, <1>6, <1>9, <1>11, CalmSearch
<1>13. PrivacyInv'
  <2>1. /\ call'[t] = c /\ \A u \in Threads : u # t => call'[u] = call[u]
    BY <1>1, <1>4, <1>9, Moved DEF Calm
  <2>2. \A u \in Threads : u # t => call'[u].at = "idle"
    BY <1>1, <1>4, <2>1, OthersIdle
  <2>3. \A x : x # s => (Logged(x)' <=> Logged(x))
    BY <1>3 DEF Logged
  <2>4. call[t].at = "idle"
    BY DEF C_Logout, Enter, At
  <2>5. \A u \in Threads : call[u].at = "idle"
    BY <1>1, <1>4, <2>4, OthersIdle
  <2>6. UNCHANGED <<handles, stored, mem>>
    BY <1>7 DEF handleVars
  <2>7. ASSUME NEW x \in Handles, HM!IsObject(x)', handles'[x].isPrivate
        PROVE  \/ Logged(handles[x].slotID)'
               \/ \E u \in Threads : At(u, "logout.handles")' /\ call'[u].slot = handles'[x].slotID
    <3>0. HM!IsObject(x) /\ handles[x].isPrivate
      BY <2>6, <2>7 DEF HM!IsObject
    <3>1. Logged(handles[x].slotID)
      BY <1>1, <2>5, <3>0 DEF PrivacyInv, At
    <3>2. CASE handles[x].slotID = s
      BY <1>4, <1>6, <2>1, <2>6, <3>2 DEF At
    <3>3. CASE handles[x].slotID # s
      BY <2>3, <2>6, <3>1, <3>3 DEF Logged
    <3> QED BY <3>2, <3>3
  <2>8. ASSUME NEW o \in stored', mem'[o].isPrivate
        PROVE  \/ Logged(SlotOf[o])'
               \/ \E u \in Threads : call'[u].at \in {"logout.handles", "logout.objects"}
                                       /\ call'[u].slot = SlotOf[o]
    <3>1. Logged(SlotOf[o])
      <4>1. o \in stored /\ mem[o].isPrivate
        BY <2>6, <2>8
      <4>2. \A u \in Threads : call[u].at \notin {"logout.handles", "logout.objects"}
        BY <2>5
      <4> QED BY <1>1, <4>1, <4>2 DEF PrivacyInv
    <3>2. CASE SlotOf[o] = s
      BY <1>4, <1>6, <2>1, <3>2
    <3>3. CASE SlotOf[o] # s
      BY <2>3, <3>1, <3>3
    <3> QED BY <3>2, <3>3
  <2>9. \A u \in Threads : call'[u].at \in {"idle", "logout.handles"}
    BY <1>6, <2>1, <2>2
  <2> QED BY <2>7, <2>8, <2>9 DEF PrivacyInv, At
<1> QED BY <1>10, <1>12, <1>13 DEF IInv

\* A session may write private objects only when the user is logged in.
LEMMA WritesPrivate ==
  ASSUME NEW h, NEW onToken, NEW private \in BOOLEAN, haveWrite(State(h), onToken, private), private
  PROVE  Logged(SlotOfSession(h))
BY DEF haveWrite, State, SM!getState, Logged, SlotOfSession

\* C_CreateObject and C_CopyObject up to the access check.
LEMMA CreateBegins ==
  ASSUME IInv, NEW t \in workload.threads, NEW h \in Handles, NEW onToken \in BOOLEAN,
         NEW private \in BOOLEAN,
         \/ C_CreateObject(t, h, onToken, private)
         \/ \E hObject \in Handles : C_CopyObject(t, h, hObject, onToken, private),
         UNCHANGED workload
  PROVE  IInv'
<1>1. SessionsInv /\ VectorExact /\ StoreTypes
  BY DEF IInv, SessionsInv
<1>2. PICK copy \in BOOLEAN : Goto(t, Creation(h, onToken, private, copy))
  BY DEF C_CreateObject, C_CopyObject
<1>3. PICK f : Enter(t, f, h)
  BY DEF C_CreateObject, C_CopyObject
<1>4. PICK c : c = Creation(h, onToken, private, copy)
  OBVIOUS
<1>5. c \in CallType /\ c.at = "create.new" /\ c.h = h /\ c.slot = SlotOfSession(h) /\ c.private = private
  BY <1>1, <1>3, <1>4, Entered DEF Creation, CallType
<1>6. /\ UNCHANGED handleVars /\ UNCHANGED <<sessions, heap, stored, mem, refCount, tokenStore>>
      /\ UNCHANGED initialised /\ UNCHANGED <<login, lockedOut, find>>
  BY DEF C_CreateObject, C_CopyObject, storeVars, sessionVars
<1>7. login' \in [Slots -> SM!Users] /\ lockedOut' \subseteq Slots
  BY <1>1, <1>6 DEF StoreTypes, VectorExact
<1>8. Carries(c) /\ c.at \notin RunAlone /\ c.at \in Working
  BY <1>5 DEF Carries, OwnPoints, RunAlone, ClosingAll, Working
<1>9. Entitled(c)
  <2>1. haveWrite(State(h), onToken, private)
    BY DEF C_CreateObject, C_CopyObject
  <2>2. private => Logged(SlotOfSession(h))
    BY <2>1, WritesPrivate
  <2> QED BY <1>5, <2>2 DEF Entitled
<1>10. Calm(t, c) /\ call[t].at = "idle"
  BY <1>1, <1>2, <1>3, <1>4, <1>5, <1>6, <1>7, <1>8, CalmBegin
<1> QED BY <1>5, <1>6, <1>8, <1>9, <1>10, CalmStep

\* C_DestroyObject up to the access check: the object it found is valid.
LEMMA DestroyBegins ==
  ASSUME CarefulApplications, IInv, NEW t \in workload.threads, NEW h \in Handles,
         NEW hObject \in Handles, C_DestroyObject(t, h, hObject), UNCHANGED workload
  PROVE  IInv'
<1>1. SessionsInv /\ ObjectsInv /\ VectorExact /\ StoreTypes /\ CallsOK /\ HMP!Tables
  BY DEF IInv, SessionsInv
<1>2. PICK o \in Objects : o = handles[hObject].object
  BY <1>1, EntryTypes DEF C_DestroyObject
<1>3. PICK c : c = [at |-> "destroy.forget", h |-> h, slot |-> SlotOfSession(h), o |-> o,
                    hObject |-> hObject]
  OBVIOUS
<1>4. c \in CallType /\ c.at = "destroy.forget" /\ c.h = h /\ c.slot = SlotOfSession(h) /\ c.o = o
  <2>1. SlotOfSession(h) \in Slots
    BY <1>1, Entered DEF C_DestroyObject
  <2> QED BY <1>3, <2>1 DEF CallType
<1>5. /\ UNCHANGED handleVars /\ UNCHANGED <<sessions, heap, stored, mem, refCount, tokenStore>>
      /\ UNCHANGED initialised /\ UNCHANGED <<login, lockedOut, find>> /\ SOS!Valid(o) /\ Goto(t, c)
  BY <1>2, <1>3 DEF C_DestroyObject, storeVars, sessionVars
<1>6. login' \in [Slots -> SM!Users] /\ lockedOut' \subseteq Slots
  BY <1>1, <1>5 DEF StoreTypes, VectorExact
<1>7. Carries(c) /\ c.at \in Working /\ Entitled(c)
  <2>1. Used(o)
    BY <1>5 DEF Used, SOS!Valid, SOS!Unused
  <2>2. o \in stored \union TokenObjects
    BY <1>1, <1>5 DEF ObjectsInv, StoredExact
  <2> QED BY <1>4, <2>1, <2>2 DEF Carries, OwnPoints, Working, Entitled
<1>8. Alone
  <2>1. "C_DestroyObject" \in Disruptive /\ "C_DestroyObject" \in workload.functions
    BY DEF Disruptive, C_DestroyObject, Enter
  <2> QED BY <1>1, <2>1, DisruptiveAlone
<1>9. Calm(t, c) /\ call[t].at = "idle"
  BY <1>1, <1>4, <1>5, <1>6, <1>7, <1>8, CalmBegin DEF C_DestroyObject
<1> QED BY <1>4, <1>5, <1>7, <1>9, CalmStep

Finding == [at : {"find.match"}, h : Handles, slot : Slots, p : 1..MaxSessions,
            public : BOOLEAN, held : SUBSET Objects, todo : SUBSET Objects, found : SUBSET Handles]

\* The record of a thread that searches.
LEMMA FindingShape ==
  /\ \A c \in CallType : c.at = "find.match" => c \in Finding
  /\ Finding \subseteq CallType
<1>1. ASSUME NEW c \in CallType, c.at = "find.match" PROVE c \in Finding
  BY <1>1 DEF CallType, Finding, Idle
<1>2. Finding \subseteq CallType
  BY DEF CallType, Finding
<1> QED BY <1>1, <1>2

\* A search passes over an object.
LEMMA FindSkipStep ==
  ASSUME IInv, NEW t \in workload.threads, NEW o \in Objects, FindSkip(t, o), UNCHANGED workload
  PROVE  IInv'
<1>1. SessionsInv /\ ObjectsInv /\ PrivacyInv /\ VectorExact /\ StoreTypes /\ CallsOK
  BY DEF IInv, SessionsInv
<1>2. t \in Threads /\ initialised /\ call[t] \in Finding /\ call[t].at = "find.match"
  BY <1>1, InFunction, FindingShape DEF FindSkip, At
<1>3. PICK c : c = [call[t] EXCEPT !.todo = @ \ {o}]
  OBVIOUS
<1>4. /\ c \in Finding /\ c.at = "find.match" /\ c.h = call[t].h /\ c.slot = call[t].slot
      /\ c.p = call[t].p /\ c.public = call[t].public /\ c.held = call[t].held
      /\ c.todo \subseteq call[t].todo /\ c.found = call[t].found
  BY <1>2, <1>3 DEF Finding
<1>5. Moves(t, c)
  <2>1. call' = [call EXCEPT ![t] = c]
    BY <1>3 DEF FindSkip
  <2> QED BY <1>4, <2>1, FindingShape DEF Moves
<1>6. /\ UNCHANGED handleVars /\ UNCHANGED <<sessions, heap, stored, mem, refCount, tokenStore>>
      /\ UNCHANGED initialised /\ UNCHANGED <<login, lockedOut, find>>
  BY DEF FindSkip, storeVars, sessionVars
<1>7. login' \in [Slots -> SM!Users] /\ lockedOut' \subseteq Slots
  BY <1>1, <1>6 DEF StoreTypes, VectorExact
<1>8. Carries(c)
  <2>1. Carries(call[t])
    BY <1>1, <1>2, ObjectsMean
  <2> QED BY <1>2, <1>4, <2>1 DEF Carries, OwnPoints
<1>9. Entitled(c)
  BY <1>1, <1>2, <1>4 DEF PrivacyInv, Entitled, At
<1>10. GoesOn(t, c) /\ c.at \notin RunAlone
  BY <1>2, <1>4 DEF GoesOn, Working, RunAlone, ClosingAll
<1>11. Calm(t, c)
  BY <1>2, <1>4, <1>5, <1>6, <1>7, <1>8, <1>10 DEF Calm, Mild
<1> QED BY <1>2, <1>4, <1>6, <1>9, <1>11, CalmStep
-----------------------------------------------------------------------------
(* Steps of the handle manager. *)

\* A step of the handle manager for thread t, which carries c after it.
Manages(t, c) ==
  /\ Moves(t, c) /\ HMP!Tables' /\ Follows
  /\ UNCHANGED <<stored, mem, tokenStore>> /\ UNCHANGED <<login, lockedOut, find>>
  /\ UNCHANGED <<sessions, heap>> /\ initialised /\ UNCHANGED initialised /\ UNCHANGED workload
  /\ call[t].at \notin {"close.objects", "closeAll.objects"}
  /\ c.at = "find.match" \/ call[t].at = "find.match" => c.at = call[t].at /\ c.held = call[t].held
  /\ Carries(c)

\* Entries that may be issued.
MayIssue(entry) ==
  \/ entry.kind = "session"
  \/ /\ entry.kind = "object" /\ entry.object \in Objects /\ Used(entry.object)
     /\ entry.isPrivate => Logged(entry.slotID)

\* Whatever it does to the handles, it keeps the objects.
LEMMA ManagesObjects ==
  ASSUME SessionsInv, ObjectsInv, NEW t \in Threads, NEW c, Manages(t, c),
         \A h \in Handles : HM!IsSession(h) =>
           \/ HM!IsSession(h)' /\ handles'[h].slotID = handles[h].slotID
           \/ c.slot = handles[h].slotID /\ ((c.at = "close.objects" /\ c.h = h) \/ c.at = "closeAll.objects"),
         \A h \in Handles : HM!IsObject(h)' => Used(handles'[h].object) /\ handles'[h].object \in Objects
  PROVE  ObjectsInv'
<1>1. CallsOK
  BY DEF SessionsInv
<1>2. /\ Moves(t, c) /\ HMP!Tables' /\ Follows /\ UNCHANGED stored /\ tokenStore' \subseteq tokenStore
      /\ UNCHANGED mem /\ Carries(c) /\ initialised /\ UNCHANGED initialised
      /\ call[t].at \notin {"close.objects", "closeAll.objects"}
  BY DEF Manages
<1>3. SameSearches
  BY <1>1, <1>2, SameSearchesOf DEF Manages
<1>4. MemSimilar
  BY <1>2 DEF MemSimilar, Used, SOS!Valid
<1>5. CountsFollow
  <2>1. refCount \in [Objects -> Int]
    BY DEF ObjectsInv
  <2>2. \A o \in Objects : ~ Used(o) => ~ Referenced(o)
    BY DEF ObjectsInv, NowhereBeforeUse, Referenced, HM!OwnedBySession
  <2>3. \A o \in Objects : ~ Used(o) => ~ Referenced(o)'
    BY DEF Referenced, HM!OwnedBySession
  <2> QED BY <1>2, <1>3, <2>1, <2>2, <2>3, ManagerCounts
<1> QED BY <1>2, <1>4, <1>5, ObjectsKept

\* A step that issues a handle, or none.
LEMMA IssueStep ==
  ASSUME IInv, SessionsInv', NEW t \in workload.threads, NEW c, Manages(t, c),
         \/ UNCHANGED <<handles, handleCounter>>
         \/ \E n, entry : Issues(n, entry) /\ MayIssue(entry),
         call[t].at \notin {"logout.handles", "logout.objects"},
         c.at \notin {"logout.handles", "logout.objects"},
         Entitled(c), FoundBy(c)'
  PROVE  IInv'
<1>1. /\ SessionsInv /\ ObjectsInv /\ PrivacyInv /\ SearchInv /\ HMP!Tables /\ VectorExact
      /\ t \in Threads /\ CallsOK
  BY Stepping DEF IInv, SessionsInv
<1>2. /\ Moves(t, c) /\ UNCHANGED <<stored, mem, tokenStore>> /\ UNCHANGED <<login, lockedOut, find>>
      /\ UNCHANGED <<sessions, heap>>
  BY DEF Manages
<1>3. \A h \in Handles :
        \/ handles'[h] = handles[h]
        \/ \E entry : handles[h] = HM!NoHandle /\ handles'[h] = entry /\ MayIssue(entry)
  BY DEF Issues
<1>4. \A h \in Handles : HM!IsSession(h) => HM!IsSession(h)' /\ handles'[h].slotID = handles[h].slotID
  BY <1>3 DEF HM!IsSession, HM!NoHandle
<1>5. ASSUME NEW h \in Handles, HM!IsObject(h)'
      PROVE  /\ Used(handles'[h].object) /\ handles'[h].object \in Objects
             /\ handles'[h].isPrivate =>
                  (HM!IsObject(h) /\ handles'[h] = handles[h]) \/ Logged(handles'[h].slotID)
  <2>1. CASE handles'[h] = handles[h]
    <3>1. HM!IsObject(h)
      BY <1>5, <2>1 DEF HM!IsObject
    <3>2. Used(handles[h].object) /\ handles[h].object \in Objects
      BY <1>1, <3>1, EntryTypes DEF ObjectsInv, NowhereBeforeUse
    <3> QED BY <2>1, <3>1, <3>2
  <2>2. ASSUME NEW entry, handles'[h] = entry, MayIssue(entry)
        PROVE  /\ Used(handles'[h].object) /\ handles'[h].object \in Objects
               /\ handles'[h].isPrivate => Logged(handles'[h].slotID)
    BY <1>5, <2>2 DEF MayIssue, HM!IsObject
  <2> QED BY <1>3, <2>1, <2>2
<1>6. ObjectsInv'
  BY <1>1, <1>4, <1>5, ManagesObjects
<1>7. \A s : Logged(s)' <=> Logged(s)
  BY <1>2 DEF Logged
<1>8. PrivacyInv'
  <2>1. ASSUME NEW h \in Handles, HM!IsObject(h)', handles'[h].isPrivate
        PROVE  (HM!IsObject(h) /\ handles'[h] = handles[h]) \/ Logged(handles[h].slotID)'
    <3>1. PICK s : s = handles'[h].slotID
      OBVIOUS
    <3>2. (HM!IsObject(h) /\ handles'[h] = handles[h]) \/ Logged(s)
      BY <1>5, <2>1, <3>1
    <3> QED BY <1>7, <3>1, <3>2 DEF Logged
  <2>2. \A o \in stored' : mem'[o].isPrivate => (o \in stored /\ mem[o].isPrivate) \/ Logged(SlotOf[o])'
    BY <1>2
  <2>3. Entitled(c)'
    BY <1>7 DEF Entitled
  <2> QED BY <1>1, <1>2, <1>7, <2>1, <2>2, <2>3, PrivacyKept
<1>9. SearchInv'
  <2>1. Monotone
    BY <1>1, MonotoneSteps
  <2>2. find' \in [1..MaxSessions -> FindType] /\ find' = find /\ heap' = heap
    BY <1>1, <1>2 DEF SearchInv
  <2>3. \A p \in 1..MaxSessions : find[p].active => p \in DOMAIN heap
    BY <1>1 DEF SearchInv
  <2> QED BY <1>1, <1>2, <2>1, <2>2, <2>3, SearchKept
<1> QED BY <1>6, <1>8, <1>9 DEF IInv

\* A step that drops handles keeps the objects and the searches.
LEMMA DropRest ==
  ASSUME IInv, SessionsInv', NEW t \in workload.threads, NEW c, Manages(t, c), NEW dead, Drops(dead),
         \A h \in Handles : HM!IsSession(h) /\ h \in dead =>
           c.slot = handles[h].slotID /\ ((c.at = "close.objects" /\ c.h = h) \/ c.at = "closeAll.objects"),
         c.at # "find.match"
  PROVE  ObjectsInv' /\ SearchInv'
<1>1. /\ SessionsInv /\ ObjectsInv /\ SearchInv /\ HMP!Tables /\ t \in Threads
  BY Stepping DEF IInv, SessionsInv
<1>2. \A h \in Handles : handles'[h] = IF h \in dead THEN HM!NoHandle ELSE handles[h]
  BY DEF Drops
<1>3. \A h \in Handles : HM!IsSession(h) =>
        \/ HM!IsSession(h)' /\ handles'[h].slotID = handles[h].slotID
        \/ c.slot = handles[h].slotID /\ ((c.at = "close.objects" /\ c.h = h) \/ c.at = "closeAll.objects")
  BY <1>2 DEF HM!IsSession
<1>4. \A h \in Handles : HM!IsObject(h)' => Used(handles'[h].object) /\ handles'[h].object \in Objects
  BY <1>1, <1>2, EntryTypes DEF ObjectsInv, NowhereBeforeUse, HM!IsObject, HM!NoHandle
<1>5. ObjectsInv'
  BY <1>1, <1>3, <1>4, ManagesObjects
<1>6. SearchInv'
  <2>1. Monotone
    BY <1>1, MonotoneSteps
  <2>2. find' \in [1..MaxSessions -> FindType] /\ find' = find /\ heap' = heap /\ Moves(t, c)
    BY <1>1 DEF SearchInv, Manages
  <2>3. \A p \in 1..MaxSessions : find[p].active => p \in DOMAIN heap
    BY <1>1 DEF SearchInv
  <2>4. FoundBy(c)'
    BY DEF FoundBy
  <2> QED BY <1>1, <2>1, <2>2, <2>3, <2>4, SearchKept
<1> QED BY <1>5, <1>6

\* And private things, unless it is part of a logout.
LEMMA DropPrivacy ==
  ASSUME IInv, NEW t \in workload.threads, NEW c, Manages(t, c), NEW dead, Drops(dead),
         call[t].at \notin {"logout.handles", "logout.objects"},
         c.at \notin {"logout.handles", "logout.objects"}, Entitled(c)
  PROVE  PrivacyInv'
<1>1. SessionsInv /\ PrivacyInv
  BY DEF IInv
<1>2. Moves(t, c) /\ UNCHANGED <<stored, mem>> /\ \A s : Logged(s)' <=> Logged(s)
  BY DEF Manages, Logged
<1>3. \A h \in Handles : HM!IsObject(h)' => HM!IsObject(h) /\ handles'[h] = handles[h]
  BY DEF Drops, HM!IsObject, HM!NoHandle
<1>4. \A h \in Handles : HM!IsObject(h)' /\ handles'[h].isPrivate =>
        (HM!IsObject(h) /\ handles'[h] = handles[h]) \/ Logged(handles[h].slotID)'
  BY <1>3
<1>5. \A o \in stored' : mem'[o].isPrivate => (o \in stored /\ mem[o].isPrivate) \/ Logged(SlotOf[o])'
  BY <1>2
<1>6. Entitled(c)'
  BY <1>2 DEF Entitled
<1> QED BY <1>1, <1>2, <1>4, <1>5, <1>6, PrivacyKept

\* The record of a thread that returns says nothing.
LEMMA IdleSays ==
  /\ Idle \in CallType /\ Idle.at = "idle" /\ Idle.at \notin RunAlone /\ Carries(Idle) /\ Entitled(Idle)
  /\ FoundBy(Idle)'
BY DEF CallType, Idle, RunAlone, ClosingAll, Carries, OwnPoints, Entitled, FoundBy

\* OpenAdd: the new session gets its handle.
LEMMA OpenAddStep ==
  ASSUME IInv, NEW t \in workload.threads, OpenAdd(t), UNCHANGED workload PROVE IInv'
<1>1. SessionsInv /\ CallsOK /\ VectorExact /\ StoreTypes /\ HMP!Tables /\ refCount \in [Objects -> Int]
  BY DEF IInv, SessionsInv, ObjectsInv
<1>2. /\ t \in Threads /\ initialised /\ call[t].slot \in Slots /\ call[t].at = "open.add"
      /\ call[t].p \in 1..MaxSessions
  BY <1>1, InFunction, CallShape DEF OpenAdd, At
<1>3. /\ UNCHANGED <<stored, mem, tokenStore>> /\ UNCHANGED <<login, lockedOut, find>>
      /\ UNCHANGED <<sessions, heap>> /\ UNCHANGED initialised /\ Moves(t, Idle)
      /\ HM!addSession(call[t].slot, call[t].p)
  BY IdleSays DEF OpenAdd, sessionVars, storeVars, Return, Moves
<1>4. /\ HMP!Tables' /\ Follows
      /\ \E n \in Handles :
           Issues(n, [kind |-> "session", slotID |-> call[t].slot, session |-> call[t].p])
  BY <1>1, <1>2, <1>3, AddSession
<1>5. PICK n \in Handles :
        Issues(n, [kind |-> "session", slotID |-> call[t].slot, session |-> call[t].p])
  BY <1>4
<1>6. PointersExact' /\ CallersOwnSessions' /\ NoSessionNoHandles'
  BY <1>1, <1>2, <1>3, <1>5, RegisterStep DEF At
<1>7. SessionsInv'
  <2>1. CallsOK'
    BY <1>1, <1>2, <1>3, IdleSays, CallsStep
  <2>2. VectorExact' /\ StoreTypes'
    BY <1>1, <1>3 DEF VectorExact, StoreTypes
  <2> QED BY <1>4, <1>6, <2>1, <2>2 DEF SessionsInv
<1>8. Manages(t, Idle)
  BY <1>2, <1>3, <1>4, IdleSays DEF Manages
<1>9. PICK entry : Issues(n, entry) /\ entry.kind = "session"
  BY <1>5
<1>10. \E m, e : Issues(m, e) /\ MayIssue(e)
  BY <1>9 DEF MayIssue
<1> QED BY <1>2, <1>7, <1>8, <1>10, IdleSays, IssueStep

\* C_CloseSession takes the session's handle away, and with the last one of the
\* slot all handles of the slot.
LEMMA CloseSessionStep ==
  ASSUME IInv, NEW t \in workload.threads, NEW h \in Handles, C_CloseSession(t, h), UNCHANGED workload
  PROVE  IInv'
<1>1. /\ SessionsInv /\ CallsOK /\ VectorExact /\ StoreTypes /\ HMP!Tables
      /\ refCount \in [Objects -> Int] /\ CallersOwnSessions /\ NoSessionNoHandles
  BY DEF IInv, SessionsInv, ObjectsInv
<1>2. /\ t \in Threads /\ initialised /\ call[t].at = "idle" /\ At(t, "idle")
      /\ HM!IsSession(h) /\ h # 0 /\ \A u \in Threads : call[u].h # h
      /\ SlotOfSession(h) = handles[h].slotID /\ SlotOfSession(h) \in Slots
      /\ Pointer(h) \in 1..MaxSessions
  BY <1>1, Entered DEF C_CloseSession, Enter
<1>3. PICK c : c = [at |-> "close.objects", h |-> h, slot |-> SlotOfSession(h), p |-> Pointer(h)]
  OBVIOUS
<1>4. /\ c \in CallType /\ c.at = "close.objects" /\ c.h = h /\ c.slot = handles[h].slotID
      /\ c.p = Pointer(h)
  BY <1>2, <1>3 DEF CallType
<1>5. /\ UNCHANGED <<stored, mem, tokenStore>> /\ UNCHANGED <<login, lockedOut, find>>
      /\ UNCHANGED <<sessions, heap>> /\ UNCHANGED initialised /\ Moves(t, c)
      /\ HM!sessionClosed(h)
  BY <1>3, <1>4 DEF C_CloseSession, sessionVars, storeVars, Goto, Moves
<1>6. HMP!Tables' /\ Follows /\ Drops(GoneWith(h))
  BY <1>1, <1>5, SessionClosed
<1>7. PICK dead : dead = GoneWith(h)
  OBVIOUS
<1>8. /\ h \in dead
      /\ \A k \in Handles : k \in dead /\ HM!IsSession(k) => k = h
      /\ \A x \in Handles : HM!Live(x) /\ x \notin dead =>
           \E k \in Handles : k \notin dead /\ HM!IsSession(k) /\ handles[k].slotID = handles[x].slotID
  <2>1. CASE \A k \in Handles : HM!IsSession(k) /\ handles[k].slotID = handles[h].slotID => k = h
    <3>1. dead = {x \in Handles : HM!Live(x) /\ handles[x].slotID = handles[h].slotID}
      BY <1>7, <2>1 DEF GoneWith
    <3>2. h \in dead
      BY <1>2, <3>1 DEF HM!IsSession, HM!Live
    <3>3. \A x \in Handles : HM!Live(x) /\ x \notin dead =>
            \E k \in Handles : k \notin dead /\ HM!IsSession(k) /\ handles[k].slotID = handles[x].slotID
      BY <1>1, <3>1 DEF NoSessionNoHandles
    <3> QED BY <2>1, <3>1, <3>2, <3>3
  <2>2. CASE ~ \A k \in Handles : HM!IsSession(k) /\ handles[k].slotID = handles[h].slotID => k = h
    <3>1. dead = {h} \union {x \in Handles : HM!IsObject(x) /\ handles[x].hSession = h}
      BY <1>7, <2>2 DEF GoneWith
    <3>2. \A k \in Handles : k \in dead /\ HM!IsSession(k) => k = h
      BY <3>1 DEF HM!IsSession, HM!IsObject
    <3>3. PICK j \in Handles : HM!IsSession(j) /\ handles[j].slotID = handles[h].slotID /\ j # h
      BY <2>2
    <3>4. ASSUME NEW x \in Handles, HM!Live(x)
          PROVE  \E k \in Handles : k \notin dead /\ HM!IsSession(k) /\ handles[k].slotID = handles[x].slotID
      <4>1. PICK k \in Handles : HM!IsSession(k) /\ handles[k].slotID = handles[x].slotID
        BY <1>1, <3>4 DEF NoSessionNoHandles
      <4>2. CASE k = h
        BY <3>2, <3>3, <4>1, <4>2
      <4>3. CASE k # h
        BY <3>2, <4>1, <4>3
      <4> QED BY <4>2, <4>3
    <3> QED BY <3>1, <3>2, <3>4
  <2> QED BY <2>1, <2>2
<1>9. Drops(dead)
  BY <1>6, <1>7
<1>10. \A u \in Threads : u # t /\ call[u].h \in dead => ~ HM!IsSession(call[u].h)
  <2> SUFFICES ASSUME NEW u \in Threads, call[u].h \in dead, HM!IsSession(call[u].h) PROVE FALSE
    OBVIOUS
  <2>1. call[u].h \in Handles
    BY <1>7, <1>2 DEF GoneWith
  <2> QED BY <1>2, <1>8, <2>1
<1>11. PointersExact' /\ CallersOwnSessions' /\ NoSessionNoHandles'
  BY <1>1, <1>2, <1>4, <1>5, <1>8, <1>9, <1>10, DropStep
<1>12. c.at \notin RunAlone /\ Carries(c) /\ Entitled(c)
  BY <1>4 DEF RunAlone, ClosingAll, Carries, OwnPoints, Entitled
<1>13. SessionsInv'
  <2>1. CallsOK'
    BY <1>1, <1>2, <1>5, <1>12, CallsStep
  <2>2. VectorExact' /\ StoreTypes'
    BY <1>1, <1>5 DEF VectorExact, StoreTypes
  <2> QED BY <1>6, <1>11, <2>1, <2>2 DEF SessionsInv
<1>14. Manages(t, c)
  BY <1>2, <1>4, <1>5, <1>6, <1>12 DEF Manages
<1>15. ObjectsInv' /\ SearchInv'
  BY <1>4, <1>8, <1>9, <1>13, <1>14, DropRest
<1>16. PrivacyInv'
  BY <1>2, <1>4, <1>9, <1>12, <1>14, DropPrivacy
<1> QED BY <1>13, <1>15, <1>16 DEF IInv

\* C_CloseAllSessions takes all handles of the slot away.
LEMMA CloseAllStep ==
  ASSUME CarefulApplications, IInv, NEW t \in workload.threads, NEW s \in Slots,
         C_CloseAllSessions(t, s), UNCHANGED workload
  PROVE  IInv'
<1>1. /\ SessionsInv /\ CallsOK /\ VectorExact /\ StoreTypes /\ HMP!Tables
      /\ refCount \in [Objects -> Int] /\ NoSessionNoHandles
  BY DEF IInv, SessionsInv, ObjectsInv
<1>2. t \in Threads /\ initialised /\ call[t].at = "idle" /\ At(t, "idle")
  BY <1>1, Stepping DEF C_CloseAllSessions, At
<1>3. Alone
  <2>1. "C_CloseAllSessions" \in Disruptive /\ "C_CloseAllSessions" \in workload.functions
    BY DEF Disruptive, C_CloseAllSessions
  <2> QED BY <1>1, <2>1, DisruptiveAlone
<1>4. PICK c : c = [at |-> "closeAll.objects", h |-> 0, slot |-> s]
  OBVIOUS
<1>5. c \in CallType /\ c.at = "closeAll.objects" /\ c.slot = s
  BY <1>4 DEF CallType
<1>6. /\ UNCHANGED <<stored, mem, tokenStore>> /\ UNCHANGED <<login, lockedOut, find>>
      /\ UNCHANGED <<sessions, heap>> /\ UNCHANGED initialised /\ Moves(t, c)
      /\ HM!allSessionsClosed(s)
  BY <1>4, <1>5 DEF C_CloseAllSessions, sessionVars, storeVars, Goto, Moves
<1>7. PICK dead : dead = {x \in Handles : HM!Live(x) /\ handles[x].slotID = s}
  OBVIOUS
<1>8. HMP!Tables' /\ Follows /\ Drops(dead)
  BY <1>1, <1>6, <1>7, AllSessionsClosed
<1>9. \A x \in Handles : HM!Live(x) /\ x \notin dead =>
        \E k \in Handles : k \notin dead /\ HM!IsSession(k) /\ handles[k].slotID = handles[x].slotID
  BY <1>1, <1>7 DEF NoSessionNoHandles
<1>10. \A u \in Threads : u # t /\ call[u].h \in dead => ~ HM!IsSession(call[u].h)
  BY <1>1, <1>3, <1>7, OthersIdle DEF Handles
<1>11. PointersExact' /\ CallersOwnSessions' /\ NoSessionNoHandles'
  BY <1>1, <1>2, <1>5, <1>6, <1>7, <1>8, <1>9, <1>10, DropStep
<1>12. Carries(c) /\ Entitled(c)
  BY <1>5 DEF Carries, OwnPoints, Entitled
<1>13. SessionsInv'
  <2>1. CallsOK'
    BY <1>1, <1>2, <1>3, <1>6, CallsStep
  <2>2. VectorExact' /\ StoreTypes'
    BY <1>1, <1>6 DEF VectorExact, StoreTypes
  <2> QED BY <1>8, <1>11, <2>1, <2>2 DEF SessionsInv
<1>14. Manages(t, c)
  BY <1>2, <1>5, <1>6, <1>8, <1>12 DEF Manages
<1>15. ObjectsInv' /\ SearchInv'
  BY <1>5, <1>7, <1>8, <1>13, <1>14, DropRest
<1>16. PrivacyInv'
  BY <1>2, <1>5, <1>8, <1>12, <1>14, DropPrivacy
<1> QED BY <1>13, <1>15, <1>16 DEF IInv

\* LogoutHandles takes away the handles of the slot's private objects.
LEMMA LogoutHandlesStep ==
  ASSUME IInv, NEW t \in workload.threads, LogoutHandles(t), UNCHANGED workload PROVE IInv'
<1>1. /\ SessionsInv /\ CallsOK /\ VectorExact /\ StoreTypes /\ HMP!Tables
      /\ refCount \in [Objects -> Int] /\ PrivacyInv
  BY DEF IInv, SessionsInv, ObjectsInv
<1>2. /\ t \in Threads /\ initialised /\ call[t] \in CallType /\ call[t].at = "logout.handles"
      /\ call[t].slot \in Slots
  BY <1>1, InFunction DEF LogoutHandles, At
<1>3. Alone
  BY <1>1, <1>2 DEF CallsOK
<1>4. PICK s \in Slots : s = call[t].slot
  BY <1>2
<1>5. PICK c : c = [call[t] EXCEPT !.at = "logout.objects"]
  OBVIOUS
<1>6. c \in CallType /\ c.at = "logout.objects" /\ c.h = call[t].h /\ c.slot = s
  <2>1. call[t] \in [at : {"login.so", "logout.handles", "logout.objects"}, h : Handles, slot : Slots]
    BY <1>2 DEF CallType, Idle
  <2>2. c \in [at : {"login.so", "logout.handles", "logout.objects"}, h : Handles, slot : Slots]
    BY <1>5, <2>1
  <2> QED BY <1>4, <1>5, <2>1, <2>2 DEF CallType
<1>7. /\ UNCHANGED <<stored, mem, tokenStore>> /\ UNCHANGED <<login, lockedOut, find>>
      /\ UNCHANGED <<sessions, heap>> /\ UNCHANGED initialised /\ Moves(t, c)
      /\ HM!tokenLoggedOut(s)
  BY <1>4, <1>5, <1>6 DEF LogoutHandles, sessionVars, storeVars, Continue, Moves
<1>8. PICK dead : dead = {x \in Handles : HM!IsObject(x) /\ handles[x].slotID = s /\ handles[x].isPrivate}
  OBVIOUS
<1>9. HMP!Tables' /\ Follows /\ Drops(dead)
  BY <1>1, <1>7, <1>8, TokenLoggedOut
<1>10. \A x \in dead : ~ HM!IsSession(x)
  BY <1>8 DEF HM!IsSession, HM!IsObject
<1>11. Carries(c) /\ GoesOn(t, c)
  BY <1>2, <1>4, <1>6 DEF Carries, OwnPoints, GoesOn, Working
<1>12. SessionsInv'
  <2>1. SessionsKept
    BY <1>1, <1>9, <1>10, KeptDropped
  <2>2. login' \in [Slots -> SM!Users] /\ StoreTypes'
    BY <1>1, <1>7 DEF VectorExact, StoreTypes
  <2> QED BY <1>1, <1>2, <1>3, <1>7, <1>9, <1>11, <2>1, <2>2, SessionsMild DEF Mild
<1>13. Manages(t, c)
  BY <1>2, <1>6, <1>7, <1>9, <1>11 DEF Manages
<1>14. ObjectsInv' /\ SearchInv'
  BY <1>6, <1>9, <1>10, <1>12, <1>13, DropRest
<1>15. PrivacyInv'
  <2>1. /\ call'[t] = c /\ \A u \in Threads : u # t => call'[u] = call[u]
    BY <1>1, <1>2, <1>7, Moved
  <2>2. \A u \in Threads : u # t => call[u].at = "idle" /\ call'[u].at = "idle"
    BY <1>1, <1>3, <2>1, OthersIdle
  <2>3. \A x : Logged(x)' <=> Logged(x)
    BY <1>7 DEF Logged
  <2>4. ASSUME NEW x \in Handles, HM!IsObject(x)', handles'[x].isPrivate
        PROVE  Logged(handles[x].slotID)' /\ handles'[x].slotID # s
    <3>1. handles'[x] = handles[x] /\ x \notin dead
      BY <1>9, <2>4 DEF Drops, HM!IsObject, HM!NoHandle
    <3>2. HM!IsObject(x) /\ handles[x].isPrivate /\ handles[x].slotID # s
      BY <1>8, <2>4, <3>1 DEF HM!IsObject
    <3>3. Logged(handles[x].slotID)
      BY <1>1, <1>4, <2>2, <3>2 DEF PrivacyInv, At
    <3> QED BY <2>3, <3>1, <3>2, <3>3 DEF Logged
  <2>5. ASSUME NEW o \in stored', mem'[o].isPrivate
        PROVE  \/ Logged(SlotOf[o])'
               \/ \E u \in Threads : call'[u].at \in {"logout.handles", "logout.objects"}
                                       /\ call'[u].slot = SlotOf[o]
    <3>1. o \in stored /\ mem[o].isPrivate
      BY <1>7, <2>5
    <3>2. CASE Logged(SlotOf[o])
      BY <2>3, <3>2
    <3>3. CASE ~ Logged(SlotOf[o])
      <4>1. PICK u \in Threads : call[u].at \in {"logout.handles", "logout.objects"}
                                 /\ call[u].slot = SlotOf[o]
        BY <1>1, <3>1, <3>3 DEF PrivacyInv
      <4>2. u = t
        BY <2>2, <4>1
      <4> QED BY <1>2, <1>4, <1>6, <2>1, <4>1, <4>2
    <3> QED BY <3>2, <3>3
  <2>6. \A u \in Threads : call'[u].at = "idle" \/ (call'[u].at = "logout.objects" /\ call'[u].slot = s)
    BY <1>6, <2>1, <2>2
  <2> QED BY <2>4, <2>5, <2>6 DEF PrivacyInv, At
<1> QED BY <1>12, <1>14, <1>15 DEF IInv

\* DestroyForget takes the handle of the object away, if it is still there.
LEMMA DestroyForgetStep ==
  ASSUME IInv, NEW t \in workload.threads, DestroyForget(t), UNCHANGED workload PROVE IInv'
<1>1. /\ SessionsInv /\ CallsOK /\ VectorExact /\ StoreTypes /\ HMP!Tables
      /\ refCount \in [Objects -> Int] /\ ObjectsInv
  BY DEF IInv, SessionsInv, ObjectsInv
<1>2. t \in Threads /\ initialised /\ call[t] \in CallType /\ call[t].at = "destroy.forget"
  BY <1>1, InFunction DEF DestroyForget, At
<1>3. Alone
  BY <1>1, <1>2 DEF CallsOK
<1>4. PICK c : c = [call[t] EXCEPT !.at = "destroy.delete"]
  OBVIOUS
<1>5. /\ c \in CallType /\ c.at = "destroy.delete" /\ c.h = call[t].h /\ c.slot = call[t].slot
      /\ c.o = call[t].o /\ call[t].hObject \in Handles
  <2>1. call[t] \in [at : {"destroy.forget", "destroy.delete"}, h : Handles, slot : Slots, o : Objects,
                     hObject : Handles]
    BY <1>2 DEF CallType, Idle
  <2>2. c \in [at : {"destroy.forget", "destroy.delete"}, h : Handles, slot : Slots, o : Objects,
               hObject : Handles]
    BY <1>4, <2>1
  <2> QED BY <1>4, <2>1, <2>2 DEF CallType
<1>6. /\ UNCHANGED <<stored, mem, tokenStore>> /\ UNCHANGED <<login, lockedOut, find>>
      /\ UNCHANGED <<sessions, heap>> /\ UNCHANGED initialised /\ Moves(t, c)
  BY <1>4, <1>5 DEF DestroyForget, sessionVars, storeVars, Continue, Moves
<1>7. PICK dead : HMP!Tables' /\ Follows /\ Drops(dead) /\ \A x \in dead : ~ HM!IsSession(x)
  <2>1. CASE HM!destroyObject(call[t].hObject)
    <3>1. PICK k \in Handles : k = call[t].hObject
      BY <1>5
    <3>2. HMP!Tables' /\ Follows /\ Drops({k}) /\ HM!IsObject(k)
      BY <1>1, <2>1, <3>1, ObjectDestroyed
    <3>3. \A x \in {k} : ~ HM!IsSession(x)
      BY <3>2 DEF HM!IsSession, HM!IsObject
    <3> QED BY <3>2, <3>3
  <2>2. CASE UNCHANGED <<handleVars, refCount>>
    <3>1. UNCHANGED handleVars /\ UNCHANGED refCount /\ UNCHANGED <<handles, handleCounter>>
      BY <2>2 DEF handleVars
    <3>2. HMP!Tables'
      BY <1>1, <3>1, TablesKept
    <3>3. \A o \in Objects : Referenced(o)' <=> Referenced(o)
      BY <3>1 DEF Referenced, HM!OwnedBySession, HM!IsObject
    <3>4. Follows
      BY <1>1, <3>1, <3>3 DEF Follows
    <3>5. PICK none : none = {}
      OBVIOUS
    <3>6. Drops(none) /\ \A x \in none : ~ HM!IsSession(x)
      BY <3>1, <3>5 DEF Drops
    <3> QED BY <3>2, <3>4, <3>6
  <2> QED BY <2>1, <2>2 DEF DestroyForget
<1>8. Carries(c) /\ GoesOn(t, c) /\ Entitled(c)
  <2>1. Carries(call[t])
    BY <1>1, <1>2, ObjectsMean
  <2> QED BY <1>2, <1>5, <2>1 DEF Carries, OwnPoints, GoesOn, Working, Entitled
<1>9. SessionsInv'
  <2>1. SessionsKept
    BY <1>1, <1>7, KeptDropped
  <2>2. login' \in [Slots -> SM!Users] /\ StoreTypes'
    BY <1>1, <1>6 DEF VectorExact, StoreTypes
  <2> QED BY <1>1, <1>2, <1>3, <1>6, <1>7, <1>8, <2>1, <2>2, SessionsMild DEF Mild
<1>10. Manages(t, c)
  BY <1>2, <1>5, <1>6, <1>7, <1>8 DEF Manages
<1>11. ObjectsInv' /\ SearchInv'
  BY <1>5, <1>7, <1>9, <1>10, DropRest
<1>12. PrivacyInv'
  BY <1>2, <1>5, <1>7, <1>8, <1>10, DropPrivacy
<1> QED BY <1>9, <1>11, <1>12 DEF IInv

\* An object is registered: the handle is one of the object's slot.
LEMMA RegisteredObject ==
  ASSUME IInv, NEW t \in workload.threads, call[t].at \in {"create.add", "find.match"},
         NEW o \in Objects, NEW private \in BOOLEAN, SlotOf[o] = call[t].slot, Used(o),
         private => Logged(SlotOf[o]),
         \/ HM!addSessionObject(call[t].slot, call[t].h, private, o)
         \/ HM!addTokenObject(call[t].slot, private, o),
         NEW c, Moves(t, c), c = Idle \/ (c.at = "find.match" /\ GoesOn(t, c)),
         UNCHANGED <<stored, mem, tokenStore>>, UNCHANGED <<login, lockedOut>>,
         UNCHANGED <<sessions, heap>>, UNCHANGED initialised, UNCHANGED workload
  PROVE  /\ SessionsInv' /\ HMP!Tables' /\ Follows
         /\ objects'[o] \in Handles /\ objects'[o] <= handleCounter'
         /\ HM!IsObject(objects[o])' /\ handles'[objects'[o]].slotID = SlotOf[o]
         /\ \/ UNCHANGED <<handles, handleCounter>>
            \/ \E n, entry : Issues(n, entry) /\ MayIssue(entry)
<1>1. SessionsInv /\ CallsOK /\ VectorExact /\ StoreTypes /\ HMP!Tables /\ refCount \in [Objects -> Int]
  BY DEF IInv, SessionsInv, ObjectsInv
<1>2. /\ t \in Threads /\ initialised /\ call[t].h \in Handles /\ HM!IsSession(call[t].h)
      /\ handles[call[t].h].slotID = SlotOf[o]
  <2>1. call[t].at \in Working /\ call[t].at # "idle"
    BY DEF Working
  <2> QED BY <1>1, <2>1, InFunction
<1>3. PICK hs \in Handles : hs = call[t].h /\ HM!IsSession(hs) /\ handles[hs].slotID = SlotOf[o]
  BY <1>2
<1>4. HM!addSessionObject(SlotOf[o], hs, private, o) \/ HM!addTokenObject(SlotOf[o], private, o)
  BY <1>3
<1>5. /\ HMP!Tables' /\ Follows
      /\ objects'[o] \in Handles /\ handles'[objects'[o]].kind = "object"
      /\ handles'[objects'[o]].object = o
      /\ \/ UNCHANGED <<handles, handleCounter>>
         \/ \E n \in Handles, owner \in {hs, 0} :
              Issues(n, [kind |-> "object", slotID |-> SlotOf[o], hSession |-> owner,
                         isPrivate |-> private, object |-> o])
  BY <1>1, <1>3, <1>4, AddObject
<1>6. \/ UNCHANGED <<handles, handleCounter>>
      \/ \E n, entry : /\ Issues(n, entry) /\ entry.kind = "object" /\ entry.slotID = SlotOf[o]
                       /\ entry.object = o /\ entry.isPrivate = private
  BY <1>5
<1>7. SessionsKept
  <2>1. CASE UNCHANGED <<handles, handleCounter>>
    BY <1>1, <2>1, KeptUnchanged
  <2>2. ASSUME NEW n, NEW entry, Issues(n, entry), entry.kind = "object", entry.slotID = SlotOf[o]
        PROVE  SessionsKept
    BY <1>1, <1>3, <2>2, KeptIssued
  <2> QED BY <1>6, <2>1, <2>2
<1>8. SessionsInv'
  <2>1. login' \in [Slots -> SM!Users] /\ StoreTypes'
    BY <1>1 DEF VectorExact, StoreTypes
  <2>2. Mild(t, c) /\ c.at \notin RunAlone
    BY IdleSays DEF Mild, Ends, RunAlone, ClosingAll
  <2> QED BY <1>1, <1>2, <1>5, <1>7, <2>1, <2>2, SessionsMild
<1>9. HM!IsObject(objects[o])' /\ handles'[objects'[o]].slotID = SlotOf[o]
  <2>1. PICK k \in Handles : k = objects'[o]
    BY <1>5
  <2>2. handles'[k].kind = "object" /\ handles'[k].object = o
    BY <1>5, <2>1
  <2>3. handles'[k].slotID = SlotOf[o]
    BY <1>5, <2>2 DEF HMP!Tables, HMP!ObjectsOnTheirSlot, HMP!IsObject, Handles, HMP!Handles
  <2> QED BY <2>1, <2>2, <2>3 DEF HM!IsObject
<1>10. objects'[o] <= handleCounter'
  <2>1. PICK k \in Handles : k = objects'[o]
    BY <1>5
  <2>2. handles'[k].kind = "object" /\ handles'[k] # HMP!NoHandle
    BY <1>5, <2>1 DEF HMP!NoHandle
  <2>3. ~ (k > handleCounter')
    BY <1>5, <2>2 DEF HMP!Tables, HMP!FreshAboveCounter, Handles, HMP!Handles
  <2>4. handleCounter' \in Nat
    BY <1>5 DEF HMP!Tables, HMP!TableTypes
  <2> QED BY <2>1, <2>3, <2>4 DEF Handles
<1>11. \/ UNCHANGED <<handles, handleCounter>>
       \/ \E n, entry : Issues(n, entry) /\ MayIssue(entry)
  <2>1. ASSUME NEW n, NEW entry, Issues(n, entry), entry.kind = "object", entry.slotID = SlotOf[o],
               entry.object = o, entry.isPrivate = private
        PROVE  MayIssue(entry)
    BY <2>1 DEF MayIssue
  <2> QED BY <1>6, <2>1
<1> QED BY <1>5, <1>8, <1>9, <1>10, <1>11

\* CreateAdd: the new object gets its handle.
LEMMA CreateAddStep ==
  ASSUME IInv, NEW t \in workload.threads, CreateAdd(t), UNCHANGED workload PROVE IInv'
<1>1. SessionsInv /\ ObjectsInv /\ PrivacyInv
  BY DEF IInv
<1>2. t \in Threads /\ initialised /\ call[t] \in CallType /\ call[t].at = "create.add"
  BY <1>1, InFunction DEF CreateAdd, At
<1>3. PICK o \in Objects, private \in BOOLEAN : o = call[t].o /\ private = call[t].private
  BY <1>2 DEF CallType, Idle
<1>4. SlotOf[o] = call[t].slot /\ Used(o)
  <2>1. Carries(call[t])
    BY <1>1, <1>2, ObjectsMean
  <2> QED BY <1>2, <1>3, <2>1 DEF Carries, OwnPoints
<1>5. private => Logged(SlotOf[o])
  BY <1>1, <1>2, <1>3, <1>4 DEF PrivacyInv
<1>6. \/ HM!addSessionObject(call[t].slot, call[t].h, private, o)
      \/ HM!addTokenObject(call[t].slot, private, o)
  BY <1>3 DEF CreateAdd
<1>7. /\ UNCHANGED <<stored, mem, tokenStore>> /\ UNCHANGED <<login, lockedOut>> /\ UNCHANGED find
      /\ UNCHANGED <<sessions, heap>> /\ UNCHANGED initialised /\ Moves(t, Idle)
  BY IdleSays DEF CreateAdd, sessionVars, storeVars, Return, Moves
<1>8. PICK c : c = Idle
  OBVIOUS
<1>9. /\ SessionsInv' /\ HMP!Tables' /\ Follows
      /\ \/ UNCHANGED <<handles, handleCounter>>
         \/ \E n, entry : Issues(n, entry) /\ MayIssue(entry)
  <2>1. Moves(t, c) /\ c = Idle
    BY <1>7, <1>8
  <2> QED BY <1>2, <1>4, <1>5, <1>6, <1>7, <2>1, RegisteredObject
<1>10. Manages(t, Idle)
  BY <1>2, <1>7, <1>9, IdleSays DEF Manages
<1> QED BY <1>2, <1>9, <1>10, IdleSays, IssueStep

\* FindMatch: an object that the session may see gets a handle or keeps its own.
LEMMA FindMatchStep ==
  ASSUME IInv, NEW t \in workload.threads, NEW o \in Objects, FindMatch(t, o), UNCHANGED workload
  PROVE  IInv'
<1>1. SessionsInv /\ ObjectsInv /\ PrivacyInv /\ SearchInv /\ StoreTypes /\ CallsOK
  BY DEF IInv, SessionsInv
<1>2. t \in Threads /\ initialised /\ call[t] \in Finding /\ call[t].at = "find.match" /\ o \in call[t].todo
  BY <1>1, InFunction, FindingShape DEF FindMatch, At
<1>3. SlotOf[o] = call[t].slot /\ Used(o) /\ Carries(call[t])
  <2>1. Carries(call[t])
    BY <1>1, <1>2, ObjectsMean
  <2> QED BY <1>2, <2>1 DEF Carries
<1>4. PICK private \in BOOLEAN : private = mem[o].CKA_PRIVATE
  <2>1. mem[o].life = "valid"
    BY DEF FindMatch, Visible, SOS!Valid
  <2>2. mem[o] \in MemType
    BY <1>1, <2>1 DEF StoreTypes, SOS!Unused, SOS!Gone
  <2> QED BY <2>2 DEF MemType
<1>5. Entitled(call[t])
  BY <1>1, <1>2 DEF PrivacyInv, Entitled, At
<1>6. private => Logged(SlotOf[o])
  <2>1. private => ~ call[t].public
    BY <1>4 DEF FindMatch, Visible
  <2> QED BY <1>2, <1>3, <1>5, <2>1 DEF Entitled
<1>7. \/ HM!addSessionObject(call[t].slot, call[t].h, private, o)
      \/ HM!addTokenObject(call[t].slot, private, o)
  BY <1>4 DEF FindMatch
<1>8. PICK k : k = objects'[o]
  OBVIOUS
<1>9. PICK c : c = [call[t] EXCEPT !.todo = @ \ {o}, !.found = @ \union {k}]
  OBVIOUS
<1>10. /\ c.at = "find.match" /\ c.h = call[t].h /\ c.slot = call[t].slot
       /\ c.p = call[t].p /\ c.public = call[t].public /\ c.held = call[t].held
       /\ c.todo \subseteq call[t].todo /\ c.found = call[t].found \union {k}
       /\ k \in Handles => c \in Finding
  BY <1>2, <1>9 DEF Finding
<1>11. k \in Handles
  <2>1. objects \in [Objects -> Handles \union {0}] /\ HMP!Tables
    BY <1>1 DEF SessionsInv, HMP!Tables, HMP!TableTypes, Handles, HMP!Handles, HMP!Invalid
  <2>2. k # 0 /\ k \in Handles \union {0}
    <3>1. HM!AlreadyRegistered(call[t].slot, o) \/ (\E hs : HM!NewObjectHandle(call[t].slot, hs, private, o))
      BY <1>7 DEF HM!addSessionObject, HM!addTokenObject
    <3>2. HM!AlreadyRegistered(call[t].slot, o) => k \in Handles \union {0}
      BY <1>8, <2>1 DEF HM!AlreadyRegistered, HM!Invalid
    <3>3. (\E hs : HM!NewObjectHandle(call[t].slot, hs, private, o)) => k \in Handles
      <4>1. handleCounter \in Nat
        BY <2>1 DEF HMP!Tables, HMP!TableTypes
      <4> QED BY <1>8, <2>1, <4>1, ConstantsOK DEF HM!NewObjectHandle, HM!NewHandle, Handles
    <3>4. k # 0
      BY <1>8 DEF FindMatch, HM!Invalid
    <3> QED BY <3>1, <3>2, <3>3, <3>4
  <2> QED BY <2>2
<1>12. Moves(t, c) /\ GoesOn(t, c)
  <2>1. call' = [call EXCEPT ![t] = c]
    BY <1>8, <1>9 DEF FindMatch
  <2>2. c \in CallType
    BY <1>10, <1>11, FindingShape
  <2> QED BY <1>2, <1>10, <2>1, <2>2 DEF Moves, GoesOn, Working
<1>13. /\ UNCHANGED <<stored, mem, tokenStore>> /\ UNCHANGED <<login, lockedOut>> /\ UNCHANGED find
       /\ UNCHANGED <<sessions, heap>> /\ UNCHANGED initialised
  BY DEF FindMatch, sessionVars, storeVars
<1>14. /\ SessionsInv' /\ HMP!Tables' /\ Follows
       /\ objects'[o] \in Handles /\ objects'[o] <= handleCounter'
       /\ HM!IsObject(objects[o])' /\ handles'[objects'[o]].slotID = SlotOf[o]
       /\ \/ UNCHANGED <<handles, handleCounter>>
          \/ \E n, entry : Issues(n, entry) /\ MayIssue(entry)
  BY <1>2, <1>3, <1>6, <1>7, <1>10, <1>12, <1>13, RegisteredObject
<1>15. Manages(t, c)
  <2>1. Carries(c)
    BY <1>2, <1>3, <1>10 DEF Carries, OwnPoints
  <2> QED BY <1>2, <1>10, <1>12, <1>13, <1>14, <2>1 DEF Manages
<1>16. Entitled(c)
  BY <1>2, <1>5, <1>10 DEF Entitled
<1>17. FoundBy(c)'
  <2>1. Reportable(call[t].found, call[t].slot) /\ call[t].p = Pointer(call[t].h)
    BY <1>1, <1>2 DEF SearchInv, At
  <2>2. Monotone
    BY <1>1, <1>14, MonotoneSteps DEF SessionsInv
  <2>3. PICK fs, s : fs = call[t].found /\ s = call[t].slot
    OBVIOUS
  <2>4. Reportable(fs, s)'
    BY <2>1, <2>2, <2>3, ReportableKept
  <2>5. HM!IsObject(k)' /\ handles'[k].slotID = s /\ k <= handleCounter'
    BY <1>3, <1>8, <1>14, <2>3 DEF HM!IsObject
  <2>6. Reportable(c.found, c.slot)'
    BY <1>10, <1>11, <2>3, <2>4, <2>5 DEF Reportable
  <2>7. PICK hs \in Handles : hs = call[t].h /\ HM!IsSession(hs)
    <3>1. call[t].at \in Working /\ call[t].at # "idle"
      BY <1>2 DEF Working
    <3> QED BY <1>1, <3>1, InFunction
  <2>8. Pointer(hs)' = Pointer(hs)
    <3>1. handles'[hs] = handles[hs]
      BY <1>14, <2>7 DEF Issues, HM!IsSession, HM!NoHandle
    <3> QED BY <3>1 DEF Pointer
  <2>9. c.p = Pointer(c.h)'
    BY <1>10, <2>1, <2>7, <2>8
  <2> QED BY <2>6, <2>9 DEF FoundBy
<1> QED BY <1>2, <1>10, <1>13, <1>14, <1>15, <1>16, <1>17, IssueStep
-----------------------------------------------------------------------------
(* Steps of the stores. *)

\* A step that changes objects and their counts only keeps the sessions and the
\* searches.
LEMMA StoreCore ==
  ASSUME IInv, NEW t \in workload.threads, NEW c, Moves(t, c), Mild(t, c),
         UNCHANGED handleVars, UNCHANGED <<sessions, heap>>, UNCHANGED login, UNCHANGED find,
         initialised, UNCHANGED initialised, UNCHANGED workload, StoreTypes',
         c.at \in RunAlone => Alone, c.at # "find.match"
  PROVE  SessionsInv' /\ SearchInv'
<1>1. /\ SessionsInv /\ HMP!Tables /\ VectorExact /\ SearchInv /\ CallsOK /\ t \in Threads
  BY Stepping DEF IInv, SessionsInv
<1>2. HMP!Tables' /\ UNCHANGED <<handles, handleCounter>>
  BY <1>1, TablesKept DEF handleVars
<1>3. SessionsKept /\ Monotone
  BY <1>1, <1>2, KeptUnchanged, MonotoneSteps
<1>4. SessionsInv'
  <2>1. login' \in [Slots -> SM!Users]
    BY <1>1 DEF VectorExact
  <2> QED BY <1>1, <1>2, <1>3, <2>1, SessionsMild
<1>5. SearchInv'
  <2>1. FoundBy(c)'
    BY DEF FoundBy
  <2>2. find' = find /\ heap' = heap /\ find' \in [1..MaxSessions -> FindType]
    BY <1>1 DEF SearchInv
  <2>3. \A p \in 1..MaxSessions : find[p].active => p \in DOMAIN heap
    BY <1>1 DEF SearchInv
  <2> QED BY <1>1, <1>3, <1>4, <2>1, <2>2, <2>3, SearchKept
<1> QED BY <1>4, <1>5

\* And private things, if what it makes private is on a slot with the user
\* logged in.
LEMMA StoreStep ==
  ASSUME IInv, NEW t \in workload.threads, NEW c, Moves(t, c), Mild(t, c),
         UNCHANGED handleVars, UNCHANGED <<sessions, heap>>, UNCHANGED <<login, lockedOut, find>>,
         initialised, UNCHANGED initialised, UNCHANGED workload, StoreTypes', ObjectsInv',
         c.at \in RunAlone => Alone, c.at # "find.match", Entitled(c),
         call[t].at \notin {"logout.handles", "logout.objects"},
         c.at \notin {"logout.handles", "logout.objects"},
         \A o \in stored' : mem'[o].isPrivate => (o \in stored /\ mem[o].isPrivate) \/ Logged(SlotOf[o])
  PROVE  IInv'
<1>1. SessionsInv /\ PrivacyInv /\ UNCHANGED handles
  BY DEF IInv, handleVars
<1>2. SessionsInv' /\ SearchInv'
  BY StoreCore
<1>3. PrivacyInv'
  <2>1. \A s \in Slots : Logged(s) => Logged(s)'
    BY DEF Logged
  <2>2. Entitled(c)'
    BY DEF Entitled, Logged
  <2>3. \A h \in Handles : HM!IsObject(h)' /\ handles'[h].isPrivate =>
          (HM!IsObject(h) /\ handles'[h] = handles[h]) \/ Logged(handles[h].slotID)'
    BY <1>1 DEF HM!IsObject
  <2>4. \A o \in stored' : mem'[o].isPrivate => (o \in stored /\ mem[o].isPrivate) \/ Logged(SlotOf[o])'
    BY DEF Logged
  <2> QED BY <1>1, <2>1, <2>2, <2>3, <2>4, PrivacyKept
<1> QED BY <1>2, <1>3 DEF IInv

\* What removing objects leaves is well-typed.
LEMMA RemoveTypes ==
  ASSUME StoreTypes, NEW dead, SOS!Remove(dead), UNCHANGED tokenStore, lockedOut' \subseteq Slots,
         UNCHANGED initialised
  PROVE  /\ StoreTypes'
         /\ \A o \in stored' : o \in stored /\ o \notin dead /\ mem'[o] = mem[o]
<1>1. mem' \in [Objects -> MemType \union {SOS!Unused, SOS!Gone}]
  BY DEF SOS!Remove, StoreTypes
<1> QED BY <1>1 DEF SOS!Remove, StoreTypes

\* CloseObjects: the objects of the session go, those of other threads stay.
LEMMA CloseObjectsStep ==
  ASSUME IInv, NEW t \in workload.threads, CloseObjects(t), UNCHANGED workload PROVE IInv'
<1>1. /\ SessionsInv /\ ObjectsInv /\ CallsOK /\ StoreTypes /\ HMP!Tables /\ CallersOwnSessions
      /\ CallersOwnObjects
  BY DEF IInv, SessionsInv, ObjectsInv
<1>2. /\ t \in Threads /\ initialised /\ call[t].at = "close.objects" /\ call[t] \in CallType
      /\ call[t].slot \in Slots /\ call[t].h \in Handles /\ call[t].p \in 1..MaxSessions
  BY <1>1, InFunction, CallShape DEF CloseObjects, At
<1>3. PICK c : c = [call[t] EXCEPT !.at = "close.session"]
  OBVIOUS
<1>4. /\ c \in CallType /\ c.at = "close.session" /\ c.h = call[t].h /\ c.slot = call[t].slot
      /\ c.p = call[t].p
  <2>1. call[t] \in [at : {"close.objects", "close.session"}, h : Handles, slot : Slots,
                     p : 1..MaxSessions]
    BY <1>2 DEF CallType, Idle
  <2> QED BY <1>3, <2>1 DEF CallType
<1>5. /\ UNCHANGED handleVars /\ UNCHANGED <<sessions, heap>> /\ UNCHANGED <<login, lockedOut, find>>
      /\ UNCHANGED initialised /\ UNCHANGED tokenStore
  BY DEF CloseObjects, sessionVars
<1>6. Moves(t, c)
  BY <1>2, <1>3, <1>4 DEF CloseObjects, Continue, Moves, CallsOK
<1>7. PICK dead : dead = {o \in stored : mem[o].hSession = call[t].h}
  OBVIOUS
<1>8. SOS!Remove(dead) /\ dead \subseteq stored
  BY <1>7 DEF CloseObjects, SOS!sessionClosed
<1>9. StoreTypes' /\ \A o \in stored' : o \in stored /\ o \notin dead /\ mem'[o] = mem[o]
  <2>1. lockedOut' \subseteq Slots
    BY <1>1, <1>5 DEF StoreTypes
  <2> QED BY <1>1, <1>5, <1>8, <2>1, RemoveTypes
<1>10. HMP!Tables' /\ UNCHANGED handles
  BY <1>1, <1>5, TablesKept DEF handleVars
<1>11. SameSearches
  BY <1>1, <1>2, <1>4, <1>6, SameSearchesOf
<1>12. \A u \in Threads : u # t /\ call[u].at \in OwnPoints => call[u].o \notin dead
  <2> SUFFICES ASSUME NEW u \in Threads, u # t, call[u].at \in OwnPoints, call[u].o \in dead PROVE FALSE
    OBVIOUS
  <2>1. call[u].at \in {"create.save", "create.add"}
    BY <1>1, NoLogout DEF OwnPoints, RunAlone
  <2>2. call[u].o \notin TokenObjects /\ mem[call[u].o].hSession = call[t].h
    BY <1>1, <1>7 DEF StoreTypes
  <2>3. mem[call[u].o].hSession = call[u].h
    BY <1>1, <2>1, <2>2 DEF CallersOwnObjects
  <2>4. call[t].h # 0
    BY <1>2 DEF Handles
  <2> QED BY <1>1, <1>2, <2>2, <2>3, <2>4 DEF CallersOwnSessions
<1>13. \A o \in stored : ToRemove(o, call[t]) => o \in dead
  BY <1>2, <1>7 DEF ToRemove
<1>14. ObjectsInv'
  BY <1>1, <1>2, <1>4, <1>5, <1>6, <1>8, <1>10, <1>11, <1>12, <1>13, ObjectsRemoved
<1>15. Mild(t, c) /\ c.at \notin RunAlone /\ Entitled(c)
  BY <1>2, <1>4 DEF Mild, GoesOn, At, RunAlone, ClosingAll, Entitled
<1> QED BY <1>2, <1>4, <1>5, <1>6, <1>9, <1>14, <1>15, StoreStep

\* CloseAllObjects: the session objects of the slot go; no other thread is in a
\* function.
LEMMA CloseAllObjectsStep ==
  ASSUME IInv, NEW t \in workload.threads, CloseAllObjects(t), UNCHANGED workload PROVE IInv'
<1>1. SessionsInv /\ ObjectsInv /\ CallsOK /\ StoreTypes /\ HMP!Tables
  BY DEF IInv, SessionsInv
<1>2. /\ t \in Threads /\ initialised /\ call[t].at = "closeAll.objects" /\ call[t] \in CallType
      /\ call[t].slot \in Slots /\ call[t].h = 0
  BY <1>1, InFunction, CallShape DEF CloseAllObjects, At, ClosingAll
<1>3. PICK c : c = [call[t] EXCEPT !.at = "closeAll.sessions"]
  OBVIOUS
<1>4. c \in CallType /\ c.at = "closeAll.sessions" /\ c.h = call[t].h /\ c.slot = call[t].slot
  <2>1. call[t] \in [at : {"closeAll.objects", "closeAll.sessions"}, h : {0}, slot : Slots]
    BY <1>2 DEF CallType, Idle
  <2> QED BY <1>3, <2>1 DEF CallType
<1>5. /\ UNCHANGED handleVars /\ UNCHANGED <<sessions, heap>> /\ UNCHANGED <<login, lockedOut, find>>
      /\ UNCHANGED initialised /\ UNCHANGED tokenStore
  BY DEF CloseAllObjects, sessionVars
<1>6. Moves(t, c)
  BY <1>2, <1>3, <1>4 DEF CloseAllObjects, Continue, Moves, CallsOK
<1>7. PICK dead : dead = {o \in stored : SlotOf[o] = call[t].slot}
  OBVIOUS
<1>8. SOS!Remove(dead) /\ dead \subseteq stored
  BY <1>7 DEF CloseAllObjects, SOS!allSessionsClosed
<1>9. StoreTypes' /\ \A o \in stored' : o \in stored /\ o \notin dead /\ mem'[o] = mem[o]
  <2>1. lockedOut' \subseteq Slots
    BY <1>1, <1>5 DEF StoreTypes
  <2> QED BY <1>1, <1>5, <1>8, <2>1, RemoveTypes
<1>10. HMP!Tables' /\ UNCHANGED handles
  BY <1>1, <1>5, TablesKept DEF handleVars
<1>11. SameSearches
  BY <1>1, <1>2, <1>4, <1>6, SameSearchesOf
<1>12. Alone
  BY <1>1, <1>2 DEF CallsOK
<1>13. \A u \in Threads : u # t /\ call[u].at \in OwnPoints => call[u].o \notin dead
  BY <1>1, <1>12, OthersIdle DEF OwnPoints
<1>14. \A o \in stored : ToRemove(o, call[t]) => o \in dead
  BY <1>7 DEF ToRemove
<1>15. ObjectsInv'
  BY <1>1, <1>2, <1>4, <1>5, <1>6, <1>8, <1>10, <1>11, <1>13, <1>14, ObjectsRemoved
<1>16. Mild(t, c) /\ Entitled(c)
  BY <1>2, <1>4 DEF Mild, GoesOn, At, ClosingAll, Entitled
<1> QED BY <1>2, <1>4, <1>5, <1>6, <1>9, <1>12, <1>15, <1>16, StoreStep

\* LogoutObjects: the private session objects of the slot go, and with them all
\* that a lock-out may have left behind.
LEMMA LogoutObjectsStep ==
  ASSUME IInv, NEW t \in workload.threads, LogoutObjects(t), UNCHANGED workload PROVE IInv'
<1>1. SessionsInv /\ ObjectsInv /\ PrivacyInv /\ CallsOK /\ StoreTypes /\ HMP!Tables
  BY DEF IInv, SessionsInv
<1>2. /\ t \in Threads /\ initialised /\ call[t].at = "logout.objects" /\ call[t].slot \in Slots
  BY <1>1, InFunction DEF LogoutObjects, At
<1>3. /\ UNCHANGED handleVars /\ UNCHANGED <<sessions, heap>> /\ UNCHANGED login /\ UNCHANGED find
      /\ UNCHANGED initialised /\ UNCHANGED tokenStore /\ lockedOut' = lockedOut \ {call[t].slot}
      /\ Moves(t, Idle)
  BY IdleSays DEF LogoutObjects, sessionVars, Return, Moves
<1>4. PICK dead : dead = {o \in stored : SlotOf[o] = call[t].slot /\ mem[o].isPrivate}
  OBVIOUS
<1>5. SOS!Remove(dead) /\ dead \subseteq stored
  BY <1>4 DEF LogoutObjects, SOS!tokenLoggedOut
<1>6. StoreTypes' /\ \A o \in stored' : o \in stored /\ o \notin dead /\ mem'[o] = mem[o]
  <2>1. lockedOut' \subseteq Slots
    BY <1>1, <1>3 DEF StoreTypes
  <2> QED BY <1>1, <1>3, <1>5, <2>1, RemoveTypes
<1>7. HMP!Tables' /\ UNCHANGED handles
  BY <1>1, <1>3, TablesKept DEF handleVars
<1>8. SameSearches
  BY <1>1, <1>2, <1>3, IdleSays, SameSearchesOf
<1>9. Alone
  BY <1>1, <1>2 DEF CallsOK
<1>10. \A u \in Threads : u # t => call[u] = Idle /\ call[u].at = "idle"
  BY <1>1, <1>9, OthersIdle
<1>11. ObjectsInv'
  <2>1. \A u \in Threads : u # t /\ call[u].at \in OwnPoints => call[u].o \notin dead
    BY <1>10 DEF OwnPoints
  <2>2. \A o \in stored : ToRemove(o, call[t]) => o \in dead
    BY <1>2 DEF ToRemove
  <2> QED BY <1>1, <1>2, <1>3, <1>5, <1>7, <1>8, <2>1, <2>2, IdleSays, ObjectsRemoved
<1>12. SessionsInv' /\ SearchInv'
  <2>1. Mild(t, Idle)
    BY DEF Mild, Ends
  <2> QED BY <1>2, <1>3, <1>6, <2>1, IdleSays, StoreCore
<1>13. PrivacyInv'
  <2>1. \A s \in Slots : s # call[t].slot /\ Logged(s) => Logged(s)'
    BY <1>3 DEF Logged
  <2>2. \A u \in Threads : At(u, "idle")'
    BY <1>1, <1>2, <1>3, <1>10, IdleSays, Moved DEF At
  <2>3. ASSUME NEW h \in Handles, HM!IsObject(h), handles[h].isPrivate PROVE Logged(handles[h].slotID)'
    <3>1. handles[h].slotID \in Slots
      BY <1>1, <2>3, EntryTypes
    <3>2. handles[h].slotID # call[t].slot
      BY <1>1, <1>2, <2>3 DEF PrivacyInv, At
    <3>3. Logged(handles[h].slotID)
      BY <1>1, <1>2, <1>10, <2>3, <3>2 DEF PrivacyInv, At
    <3>4. Logged(handles[h].slotID)'
      BY <1>7, <2>1, <3>1, <3>2, <3>3
    <3> QED BY <3>4
  <2>4. ASSUME NEW o \in stored', mem'[o].isPrivate PROVE Logged(SlotOf[o])'
    <3>1. o \in stored /\ mem[o].isPrivate /\ SlotOf[o] # call[t].slot
      BY <1>4, <1>6, <2>4
    <3>2. SlotOf[o] \in Slots
      BY <1>1, <3>1, ConstantsOK DEF StoreTypes
    <3>3. Logged(SlotOf[o])
      BY <1>1, <1>10, <3>1 DEF PrivacyInv
    <3> QED BY <2>1, <3>1, <3>2, <3>3
  <2> QED BY <1>7, <2>2, <2>3, <2>4 DEF PrivacyInv, At, HM!IsObject
<1> QED BY <1>11, <1>12, <1>13 DEF IInv

\* A template changes two attributes of an object and nothing else.
LEMMA TemplateKeeps ==
  ASSUME StoreTypes, NEW o \in Objects, Used(o), NEW c, c.onToken \in BOOLEAN, c.private \in BOOLEAN,
         mem' = WithTemplate(o, c)
  PROVE  /\ mem' \in [Objects -> MemType \union {SOS!Unused, SOS!Gone}]
         /\ \A x \in Objects : x # o => mem'[x] = mem[x]
         /\ Used(o)' /\ (SOS!Valid(o)' <=> SOS!Valid(o))
         /\ SOS!Valid(o) => mem'[o].hSession = mem[o].hSession /\ mem'[o].isPrivate = mem[o].isPrivate
<1>1. mem \in [Objects -> MemType \union {SOS!Unused, SOS!Gone}]
  BY DEF StoreTypes
<1>2. PICK r : r = [mem[o] EXCEPT !.CKA_TOKEN = c.onToken, !.CKA_PRIVATE = c.private]
  OBVIOUS
<1>3. mem' = [mem EXCEPT ![o] = r]
  BY <1>1, <1>2 DEF WithTemplate
<1>4. CASE mem[o] \in MemType
  <2>1. r \in MemType /\ r.hSession = mem[o].hSession /\ r.isPrivate = mem[o].isPrivate
    BY <1>2, <1>4 DEF MemType
  <2>2. r.life = "valid" /\ mem[o].life = "valid" /\ r # SOS!Unused
    BY <1>4, <2>1 DEF MemType, SOS!Unused
  <2> QED BY <1>1, <1>3, <2>1, <2>2 DEF Used, SOS!Valid
<1>5. CASE mem[o] = SOS!Gone
  <2>1. r = SOS!Gone
    BY <1>2, <1>5 DEF SOS!Gone
  <2>2. r # SOS!Unused /\ r.life # "valid" /\ mem[o].life # "valid"
    BY <1>5, <2>1 DEF SOS!Gone, SOS!Unused
  <2> QED BY <1>1, <1>3, <2>1, <2>2 DEF Used, SOS!Valid
<1> QED BY <1>1, <1>4, <1>5 DEF Used

\* A step that changes attributes, or forgets an object of a token.
LEMMA AttributesStep ==
  ASSUME IInv, NEW t \in workload.threads, NEW c, Moves(t, c), Mild(t, c),
         UNCHANGED handleVars, UNCHANGED <<sessions, heap>>, UNCHANGED <<login, lockedOut, find>>,
         initialised, UNCHANGED initialised, UNCHANGED workload, UNCHANGED <<stored, refCount>>,
         tokenStore' \subseteq tokenStore, MemSimilar,
         mem' \in [Objects -> MemType \union {SOS!Unused, SOS!Gone}],
         call[t].at \in OwnPoints, c.at \in OwnPoints \union {"idle"},
         c.at \in RunAlone => Alone, Carries(c), Entitled(c)
  PROVE  IInv'
<1>1. SessionsInv /\ ObjectsInv /\ CallsOK /\ StoreTypes /\ HMP!Tables /\ t \in Threads
      /\ refCount \in [Objects -> Int]
  BY Stepping DEF IInv, SessionsInv, ObjectsInv
<1>2. HMP!Tables' /\ UNCHANGED handles
  BY <1>1, TablesKept DEF handleVars
<1>3. SameSearches
  BY <1>1, SameSearchesOf DEF OwnPoints
<1>4. CountsFollow
  BY <1>1, <1>2, <1>3, NoCounts
<1>5. \A h \in Handles : HM!IsObject(h)' => Used(handles'[h].object) /\ handles'[h].object \in Objects
  BY <1>1, <1>2, EntryTypes DEF HM!IsObject, ObjectsInv, NowhereBeforeUse
<1>6. \A h \in Handles : HM!IsSession(h) => HM!IsSession(h)' /\ handles'[h].slotID = handles[h].slotID
  BY <1>2 DEF HM!IsSession
<1>7. ObjectsInv'
  BY <1>1, <1>2, <1>4, <1>5, <1>6, ObjectsKept DEF OwnPoints
<1>8. StoreTypes'
  BY <1>1 DEF StoreTypes
<1>9. \A o \in stored' : mem'[o].isPrivate => (o \in stored /\ mem[o].isPrivate)
  BY DEF MemSimilar
<1> QED BY <1>7, <1>8, <1>9, StoreStep DEF OwnPoints

Creating == [at : {"create.save", "create.add"}, h : Handles, slot : Slots, onToken : BOOLEAN,
             private : BOOLEAN, copy : BOOLEAN, o : Objects]

\* The record of a thread that has a new object.
LEMMA CreatingShape ==
  /\ \A c \in CallType : c.at \in {"create.save", "create.add"} => c \in Creating
  /\ Creating \subseteq CallType
BY DEF CallType, Creating, Idle

\* The template of a new object, or the part of it that was set.
LEMMA TemplateSimilar ==
  ASSUME IInv, NEW t \in workload.threads, call[t].at = "create.save",
         UNCHANGED mem \/ mem' = WithTemplate(call[t].o, call[t])
  PROVE  MemSimilar /\ mem' \in [Objects -> MemType \union {SOS!Unused, SOS!Gone}]
<1>1. /\ SessionsInv /\ CallsOK /\ StoreTypes /\ CallersOwnObjects /\ t \in Threads
      /\ \A o \in Objects \ TokenObjects : o \in stored <=> SOS!Valid(o)
  BY Stepping DEF IInv, SessionsInv, ObjectsInv, StoredExact
<1>2. call[t] \in Creating /\ Used(call[t].o)
  BY <1>1, CreatingShape DEF CallsOK, CallersOwnObjects
<1>3. CASE UNCHANGED mem
  BY <1>1, <1>3 DEF MemSimilar, Used, SOS!Valid, StoreTypes
<1>4. CASE mem' = WithTemplate(call[t].o, call[t])
  <2>1. PICK o \in Objects : o = call[t].o
    BY <1>2 DEF Creating
  <2>2. call[t].onToken \in BOOLEAN /\ call[t].private \in BOOLEAN
    BY <1>2 DEF Creating
  <2>3. /\ mem' \in [Objects -> MemType \union {SOS!Unused, SOS!Gone}]
        /\ \A x \in Objects : x # o => mem'[x] = mem[x]
        /\ Used(o)' /\ (SOS!Valid(o)' <=> SOS!Valid(o))
        /\ SOS!Valid(o) => mem'[o].hSession = mem[o].hSession /\ mem'[o].isPrivate = mem[o].isPrivate
    BY <1>1, <1>2, <1>4, <2>1, <2>2, TemplateKeeps
  <2>4. \A x \in Objects : x # o => (Used(x)' <=> Used(x)) /\ (SOS!Valid(x)' <=> SOS!Valid(x))
    BY <2>3 DEF Used, SOS!Valid
  <2>5. \A x \in stored : x \in Objects \ TokenObjects /\ SOS!Valid(x)
    BY <1>1 DEF StoreTypes
  <2> QED BY <1>2, <2>1, <2>3, <2>4, <2>5 DEF MemSimilar
<1> QED BY <1>3, <1>4

\* CreateSave: the template is set.
LEMMA CreateSaveStep ==
  ASSUME IInv, NEW t \in workload.threads, CreateSave(t), UNCHANGED workload PROVE IInv'
<1>1. SessionsInv /\ CallsOK /\ PrivacyInv /\ CallersOwnObjects
  BY DEF IInv, SessionsInv, ObjectsInv
<1>2. t \in Threads /\ initialised /\ call[t].at = "create.save" /\ call[t] \in Creating
  BY <1>1, InFunction, CreatingShape DEF CreateSave, At
<1>3. PICK c : c = [call[t] EXCEPT !.at = "create.add"]
  OBVIOUS
<1>4. /\ c \in CallType /\ c.at = "create.add" /\ c.h = call[t].h /\ c.slot = call[t].slot
      /\ c.o = call[t].o /\ c.onToken = call[t].onToken /\ c.private = call[t].private
  BY <1>2, <1>3, CreatingShape DEF Creating
<1>5. /\ UNCHANGED handleVars /\ UNCHANGED <<sessions, heap>> /\ UNCHANGED <<login, lockedOut, find>>
      /\ UNCHANGED initialised /\ UNCHANGED <<stored, refCount>> /\ UNCHANGED tokenStore
      /\ mem' = WithTemplate(call[t].o, call[t])
  BY DEF CreateSave, sessionVars
<1>6. Moves(t, c)
  BY <1>2, <1>3, <1>4 DEF CreateSave, Continue, Moves, CallsOK
<1>7. MemSimilar /\ mem' \in [Objects -> MemType \union {SOS!Unused, SOS!Gone}]
  BY <1>2, <1>5, TemplateSimilar
<1>8. Carries(c)
  <2>1. Carries(call[t])
    BY <1>2, ObjectsMean DEF IInv
  <2> QED BY <1>2, <1>4, <2>1 DEF Carries, OwnPoints
<1>9. Entitled(c)
  BY <1>1, <1>2, <1>4 DEF PrivacyInv, Entitled
<1>10. Mild(t, c) /\ c.at \notin RunAlone /\ call[t].at \in OwnPoints /\ c.at \in OwnPoints
  BY <1>2, <1>4 DEF Mild, GoesOn, Working, RunAlone, ClosingAll, OwnPoints
<1> QED BY <1>2, <1>5, <1>6, <1>7, <1>8, <1>9, <1>10, AttributesStep

\* A function destroys its own object and returns.
LEMMA DestroyedStep ==
  ASSUME IInv, NEW t \in workload.threads, call[t].at \in {"create.save", "destroy.delete"},
         DestroyInStore(call[t].o), Moves(t, Idle), UNCHANGED handleVars, UNCHANGED <<sessions, heap>>,
         UNCHANGED <<login, lockedOut, find>>, UNCHANGED initialised, UNCHANGED workload
  PROVE  IInv'
<1>1. /\ SessionsInv /\ ObjectsInv /\ CallsOK /\ StoreTypes /\ HMP!Tables /\ CallersOwnSessions
      /\ CallersOwnObjects
  BY DEF IInv, SessionsInv, ObjectsInv
<1>2. /\ t \in Threads /\ initialised /\ call[t] \in CallType /\ call[t].h \in Handles
      /\ call[t].o \in Objects
  <2>1. t \in Threads /\ initialised /\ call[t] \in CallType
    BY <1>1, InFunction
  <2> QED BY <2>1 DEF CallType, Idle
<1>3. PICK o \in Objects : o = call[t].o
  BY <1>2
<1>4. Used(o) /\ o \in stored \union TokenObjects
  BY <1>1, <1>2, <1>3 DEF CallersOwnObjects
<1>5. Mild(t, Idle) /\ call[t].at \in OwnPoints
  BY DEF Mild, Ends, OwnPoints
<1>6. CASE o \in TokenObjects
  <2>1. /\ tokenStore' = tokenStore \ {o} /\ UNCHANGED <<stored, refCount>>
        /\ mem' = [mem EXCEPT ![o] = IF o \in tokenStore THEN SOS!Gone ELSE mem[o]]
    BY <1>3, <1>6 DEF DestroyInStore
  <2>2. mem' \in [Objects -> MemType \union {SOS!Unused, SOS!Gone}]
    BY <1>1, <2>1 DEF StoreTypes
  <2>3. MemSimilar
    <3>1. \A x \in Objects : x # o => mem'[x] = mem[x]
      BY <1>1, <2>1 DEF StoreTypes
    <3>2. Used(o)'
      BY <1>1, <1>4, <2>1 DEF StoreTypes, Used, SOS!Gone, SOS!Unused
    <3>3. \A x \in stored : x \in Objects /\ x # o
      BY <1>1, <1>6 DEF StoreTypes
    <3>4. \A x \in Objects : Used(x)' <=> Used(x)
      BY <1>4, <3>1, <3>2 DEF Used
    <3>5. \A x \in Objects \ TokenObjects : SOS!Valid(x)' <=> SOS!Valid(x)
      BY <1>6, <3>1 DEF SOS!Valid
    <3> QED BY <3>1, <3>3, <3>4, <3>5 DEF MemSimilar
  <2> QED BY <1>2, <1>5, <2>1, <2>2, <2>3, IdleSays, AttributesStep
<1>7. CASE o \notin TokenObjects
  <2>1. PICK dead : dead = {o} \intersect stored
    OBVIOUS
  <2>2. SOS!Remove(dead) /\ dead \subseteq stored /\ UNCHANGED tokenStore
    BY <1>3, <1>7, <2>1 DEF DestroyInStore, SOS!deleteObject
  <2>3. StoreTypes' /\ \A x \in stored' : x \in stored /\ x \notin dead /\ mem'[x] = mem[x]
    <3>1. lockedOut' \subseteq Slots
      BY <1>1 DEF StoreTypes
    <3> QED BY <1>1, <2>2, <3>1, RemoveTypes
  <2>4. HMP!Tables' /\ UNCHANGED handles
    BY <1>1, TablesKept DEF handleVars
  <2>5. SameSearches
    BY <1>1, <1>2, IdleSays, SameSearchesOf
  <2>6. \A u \in Threads : u # t /\ call[u].at \in OwnPoints => call[u].o \notin dead
    <3> SUFFICES ASSUME NEW u \in Threads, u # t, call[u].at \in OwnPoints, call[u].o \in dead PROVE FALSE
      OBVIOUS
    <3>1. call[u].at \in {"create.save", "create.add"}
      BY <1>1, NoLogout DEF OwnPoints, RunAlone
    <3>2. call[t].at = "create.save"
      <4>1. call[t].at = "destroy.delete" => Alone
        BY <1>1, <1>2 DEF CallsOK
      <4> QED BY <1>1, <3>1, <4>1, OthersIdle
    <3>3. call[u].o = o /\ mem[o].hSession = call[u].h
      BY <1>1, <1>7, <2>1, <3>1 DEF CallersOwnObjects
    <3>4. mem[o].hSession = call[t].h
      BY <1>1, <1>2, <1>3, <1>7, <3>2 DEF CallersOwnObjects
    <3>5. call[t].h # 0
      BY <1>2 DEF Handles
    <3> QED BY <1>1, <1>2, <3>3, <3>4, <3>5 DEF CallersOwnSessions
  <2>7. \A x \in stored : ToRemove(x, call[t]) => x \in dead
    BY DEF ToRemove
  <2>8. ObjectsInv'
    BY <1>1, <1>2, <2>2, <2>4, <2>5, <2>6, <2>7, IdleSays, ObjectsRemoved
  <2> QED BY <1>2, <1>5, <2>3, <2>8, IdleSays, StoreStep
<1> QED BY <1>6, <1>7

\* CreateFails: the object stays behind as it is, or a copy is destroyed.
LEMMA CreateFailsStep ==
  ASSUME IInv, NEW t \in workload.threads, CreateFails(t), UNCHANGED workload PROVE IInv'
<1>1. SessionsInv /\ CallsOK
  BY DEF IInv, SessionsInv
<1>2. t \in Threads /\ initialised /\ call[t].at = "create.save"
  BY <1>1, InFunction DEF CreateFails, At
<1>3. /\ UNCHANGED handleVars /\ UNCHANGED <<sessions, heap>> /\ UNCHANGED <<login, lockedOut, find>>
      /\ UNCHANGED initialised /\ Moves(t, Idle)
  BY IdleSays DEF CreateFails, sessionVars, Return, Moves
<1>4. CASE call[t].copy
  <2>1. DestroyInStore(call[t].o)
    BY <1>4 DEF CreateFails
  <2> QED BY <1>2, <1>3, <2>1, DestroyedStep
<1>5. CASE ~ call[t].copy
  <2>1. /\ UNCHANGED mem \/ mem' = WithTemplate(call[t].o, call[t])
        /\ UNCHANGED <<stored, refCount>> /\ UNCHANGED tokenStore
    BY <1>5 DEF CreateFails
  <2>2. MemSimilar /\ mem' \in [Objects -> MemType \union {SOS!Unused, SOS!Gone}]
    BY <1>2, <2>1, TemplateSimilar
  <2>3. Mild(t, Idle) /\ call[t].at \in OwnPoints
    BY <1>2 DEF Mild, Ends, OwnPoints
  <2> QED BY <1>2, <1>3, <2>1, <2>2, <2>3, IdleSays, AttributesStep
<1> QED BY <1>4, <1>5

\* DestroyDelete: the store drops the object.
LEMMA DestroyDeleteStep ==
  ASSUME IInv, NEW t \in workload.threads, DestroyDelete(t), UNCHANGED workload PROVE IInv'
<1>1. call[t].at = "destroy.delete" /\ DestroyInStore(call[t].o)
  BY DEF DestroyDelete, At
<1>2. /\ UNCHANGED handleVars /\ UNCHANGED <<sessions, heap>> /\ UNCHANGED <<login, lockedOut, find>>
      /\ UNCHANGED initialised /\ Moves(t, Idle)
  BY IdleSays DEF DestroyDelete, sessionVars, Return, Moves
<1> QED BY <1>1, <1>2, DestroyedStep

\* CreateNew: the new object belongs to its session, or to the token.
LEMMA CreateNewStep ==
  ASSUME IInv, NEW t \in workload.threads, NEW o \in Objects, NEW default \in BOOLEAN,
         CreateNew(t, o, default), UNCHANGED workload
  PROVE  IInv'
<1>1. SessionsInv /\ ObjectsInv /\ CallsOK /\ PrivacyInv /\ StoreTypes /\ HMP!Tables
  BY DEF IInv, SessionsInv
<1>2. /\ t \in Threads /\ initialised /\ call[t].at = "create.new" /\ At(t, "create.new")
      /\ call[t] \in [at : {"create.new"}, h : Handles, slot : Slots, onToken : BOOLEAN,
                      private : BOOLEAN, copy : BOOLEAN]
  <2>1. t \in Threads /\ initialised /\ call[t].at = "create.new" /\ call[t] \in CallType
    BY <1>1, InFunction DEF CreateNew, At
  <2> QED BY <2>1 DEF CallType, Idle, At
<1>3. PICK c : c = [at |-> "create.save", h |-> call[t].h, slot |-> call[t].slot,
                    onToken |-> call[t].onToken, private |-> call[t].private,
                    copy |-> call[t].copy, o |-> o]
  OBVIOUS
<1>4. /\ c \in CallType /\ c.at = "create.save" /\ c.h = call[t].h /\ c.slot = call[t].slot
      /\ c.o = o /\ c.onToken = call[t].onToken /\ c.private = call[t].private
      /\ call[t].h \in Handles /\ call[t].private \in BOOLEAN
  <2>1. c \in Creating
    BY <1>2, <1>3 DEF Creating
  <2> QED BY <1>2, <1>3, <2>1, CreatingShape
<1>5. /\ UNCHANGED handleVars /\ UNCHANGED <<sessions, heap>> /\ UNCHANGED <<login, lockedOut, find>>
      /\ UNCHANGED initialised /\ Moves(t, c)
      /\ SlotOf[o] = call[t].slot /\ (call[t].onToken <=> o \in TokenObjects)
  BY <1>3, <1>4 DEF CreateNew, sessionVars, Goto, Moves
<1>6. HMP!Tables' /\ UNCHANGED handles
  BY <1>1, <1>5, TablesKept DEF handleVars
<1>7. PICK r \in MemType :
        /\ ~ Used(o) /\ refCount' = [refCount EXCEPT ![o] = 1] /\ mem' = [mem EXCEPT ![o] = r]
        /\ r.life = "valid"
        /\ o \in TokenObjects => stored' = stored /\ tokenStore' = tokenStore \union {o}
        /\ o \notin TokenObjects => /\ stored' = stored \union {o} /\ tokenStore' = tokenStore
                                    /\ r.hSession = c.h /\ r.isPrivate = c.private
  <2>1. CASE o \in TokenObjects
    <3>1. NewTokenObject(o, default)
      BY <1>5, <2>1 DEF CreateNew
    <3>2. PICK r : r = [life |-> "valid", hSession |-> 0, isPrivate |-> FALSE,
                        CKA_TOKEN |-> FALSE, CKA_PRIVATE |-> default]
      OBVIOUS
    <3>3. r \in MemType /\ r.life = "valid"
      BY <3>2, ConstantsOK DEF MemType
    <3>4. /\ ~ Used(o) /\ refCount' = [refCount EXCEPT ![o] = 1] /\ mem' = [mem EXCEPT ![o] = r]
          /\ stored' = stored /\ tokenStore' = tokenStore \union {o}
      BY <3>1, <3>2 DEF NewTokenObject, Used
    <3> QED BY <2>1, <3>3, <3>4
  <2>2. CASE o \notin TokenObjects
    <3>1. SOS!createObject(o, call[t].h, call[t].private, default) /\ UNCHANGED tokenStore
      BY <1>5, <2>2 DEF CreateNew
    <3>2. PICK r : r = [life |-> "valid", hSession |-> call[t].h, isPrivate |-> call[t].private,
                        CKA_TOKEN |-> FALSE, CKA_PRIVATE |-> default]
      OBVIOUS
    <3>3. r \in MemType /\ r.life = "valid" /\ r.hSession = c.h /\ r.isPrivate = c.private
      BY <1>4, <3>2, ConstantsOK DEF MemType, Handles
    <3>4. /\ ~ Used(o) /\ refCount' = [refCount EXCEPT ![o] = 1] /\ mem' = [mem EXCEPT ![o] = r]
          /\ stored' = stored \union {o}
      BY <3>1, <3>2 DEF SOS!createObject, Used
    <3> QED BY <2>2, <3>1, <3>3, <3>4
  <2> QED BY <2>1, <2>2
<1>8. mem'[o] = r /\ \A x \in Objects : x # o => mem'[x] = mem[x]
  BY <1>1, <1>7 DEF StoreTypes
<1>9. StoreTypes'
  <2>1. mem' \in [Objects -> MemType \union {SOS!Unused, SOS!Gone}]
    BY <1>1, <1>7 DEF StoreTypes
  <2> QED BY <1>1, <1>5, <1>7, <2>1 DEF StoreTypes
<1>10. ObjectsInv'
  <2>1. stored' = IF c.o \in TokenObjects THEN stored ELSE stored \union {c.o}
    BY <1>4, <1>7
  <2>2. tokenStore' \subseteq tokenStore \union {c.o}
    BY <1>4, <1>7
  <2>3. mem'[c.o].life = "valid" /\ (c.o \notin TokenObjects => mem'[c.o].hSession = c.h)
    BY <1>4, <1>7, <1>8
  <2>4. /\ c.o \in Objects /\ ~ Used(c.o) /\ SlotOf[c.o] = c.slot /\ (c.onToken <=> c.o \in TokenObjects)
        /\ refCount' = [refCount EXCEPT ![c.o] = 1]
        /\ \A x \in Objects : x # c.o => mem'[x] = mem[x]
    BY <1>4, <1>5, <1>7, <1>8
  <2> QED BY <1>1, <1>2, <1>4, <1>5, <1>6, <2>1, <2>2, <2>3, <2>4, ObjectCreated
<1>11. Entitled(call[t])
  BY <1>1, <1>2 DEF PrivacyInv, Entitled
<1>12. \A x \in stored' : mem'[x].isPrivate => (x \in stored /\ mem[x].isPrivate) \/ Logged(SlotOf[x])
  <2> SUFFICES ASSUME NEW x \in stored', mem'[x].isPrivate
               PROVE  (x \in stored /\ mem[x].isPrivate) \/ Logged(SlotOf[x])
    OBVIOUS
  <2>1. CASE x = o /\ o \notin TokenObjects
    <3>1. call[t].private
      BY <1>4, <1>7, <1>8, <2>1
    <3> QED BY <1>2, <1>5, <1>11, <2>1, <3>1 DEF Entitled
  <2>2. CASE ~ (x = o /\ o \notin TokenObjects)
    <3>1. x \in stored /\ x \in Objects /\ x \notin TokenObjects
      BY <1>1, <1>7, <2>2 DEF StoreTypes
    <3>2. x # o
      BY <2>2, <3>1
    <3> QED BY <1>8, <3>1, <3>2
  <2> QED BY <2>1, <2>2
<1>13. Entitled(c)
  BY <1>2, <1>4, <1>11 DEF Entitled
<1>14. Mild(t, c) /\ c.at \notin RunAlone
  BY <1>2, <1>4 DEF Mild, GoesOn, Working, RunAlone, ClosingAll
<1> QED BY <1>2, <1>4, <1>5, <1>9, <1>10, <1>12, <1>13, <1>14, StoreStep
-----------------------------------------------------------------------------
(* Steps of a search that acquire or release objects. *)

\* A step that changes counts and searches only: what it takes.
LEMMA CountStep ==
  ASSUME IInv, NEW t \in workload.threads, NEW c, Moves(t, c), Mild(t, c), Carries(c), Entitled(c),
         c.at \notin RunAlone, call[t].at \in {"idle", "find.match"},
         UNCHANGED handleVars, UNCHANGED <<sessions, heap>>, UNCHANGED <<login, lockedOut>>,
         UNCHANGED <<stored, mem, tokenStore>>,
         initialised, UNCHANGED initialised, UNCHANGED workload, CountsFollow
  PROVE  SessionsInv' /\ ObjectsInv' /\ PrivacyInv' /\ Monotone
<1>1. /\ SessionsInv /\ ObjectsInv /\ PrivacyInv /\ HMP!Tables /\ VectorExact /\ CallsOK /\ StoreTypes
      /\ t \in Threads
  BY Stepping DEF IInv, SessionsInv
<1>2. HMP!Tables' /\ UNCHANGED <<handles, handleCounter>>
  BY <1>1, TablesKept DEF handleVars
<1>3. SessionsKept /\ Monotone
  BY <1>1, <1>2, KeptUnchanged, MonotoneSteps
<1>4. SessionsInv'
  <2>1. login' \in [Slots -> SM!Users] /\ StoreTypes'
    BY <1>1 DEF VectorExact, StoreTypes
  <2> QED BY <1>1, <1>2, <1>3, <2>1, SessionsMild
<1>5. ObjectsInv'
  <2>1. MemSimilar
    BY DEF MemSimilar, Used, SOS!Valid
  <2>2. \A h \in Handles : HM!IsObject(h)' => Used(handles'[h].object) /\ handles'[h].object \in Objects
    BY <1>1, <1>2, EntryTypes DEF HM!IsObject, ObjectsInv, NowhereBeforeUse
  <2>3. \A h \in Handles : HM!IsSession(h) => HM!IsSession(h)' /\ handles'[h].slotID = handles[h].slotID
    BY <1>2 DEF HM!IsSession
  <2> QED BY <1>1, <1>2, <2>1, <2>2, <2>3, ObjectsKept
<1>6. PrivacyInv'
  <2>1. \A s \in Slots : Logged(s) => Logged(s)'
    BY DEF Logged
  <2>2. Entitled(c)'
    BY DEF Entitled, Logged
  <2>3. \A h \in Handles : HM!IsObject(h)' /\ handles'[h].isPrivate =>
          (HM!IsObject(h) /\ handles'[h] = handles[h]) \/ Logged(handles[h].slotID)'
    BY <1>2 DEF HM!IsObject
  <2>4. \A o \in stored' : mem'[o].isPrivate => (o \in stored /\ mem[o].isPrivate) \/ Logged(SlotOf[o])'
    OBVIOUS
  <2> QED BY <1>1, <2>1, <2>2, <2>3, <2>4, PrivacyKept DEF RunAlone
<1> QED BY <1>3, <1>4, <1>5, <1>6

\* A search ends: its references go, and the session reports what was found, or
\* stays as it was.
LEMMA SearchEnds ==
  ASSUME IInv, NEW t \in workload.threads, call[t].at = "find.match", SOS!ReleaseAll(call[t].held),
         Moves(t, Idle), UNCHANGED handleVars, UNCHANGED <<sessions, heap>>, UNCHANGED <<login, lockedOut>>,
         UNCHANGED <<stored, mem, tokenStore>>, UNCHANGED initialised, UNCHANGED workload,
         UNCHANGED find \/ find' = [find EXCEPT ![call[t].p] = Search(call[t].found)]
  PROVE  IInv'
<1>1. /\ SessionsInv /\ ObjectsInv /\ SearchInv /\ CallsOK /\ PointersExact /\ VectorExact
      /\ refCount \in [Objects -> Int] /\ NowhereBeforeUse
  BY DEF IInv, SessionsInv, ObjectsInv
<1>2. /\ t \in Threads /\ initialised /\ call[t] \in Finding /\ call[t].h \in Handles
      /\ HM!IsSession(call[t].h) /\ handles[call[t].h].slotID = call[t].slot
  BY <1>1, InFunction, FindingShape DEF Working
<1>3. CountsFollow
  <2>1. PICK objs : objs = call[t].held
    OBVIOUS
  <2>2. SOS!ReleaseAll(objs)
    BY <2>1
  <2>3. UNCHANGED <<handles, stored>>
    BY DEF handleVars
  <2>4. \A o \in objs : Used(o)
    BY <1>1, <1>2, <2>1 DEF NowhereBeforeUse, At
  <2>5. ASSUME NEW o \in Objects
        PROVE  /\ o \in objs => t \in Searching(o)
               /\ Searching(o)' = IF o \in objs THEN Searching(o) \ {t} ELSE Searching(o)
    <3>1. call'[t] = Idle /\ \A u \in Threads : u # t => call'[u] = call[u]
      BY <1>1, <1>2, Moved
    <3>2. Idle.at # "find.match"
      BY IdleSays
    <3> QED BY <1>2, <2>1, <3>1, <3>2 DEF Searching, At
  <2> QED BY <1>1, <1>2, <2>2, <2>3, <2>4, <2>5, ReleaseCounts
<1>4. SessionsInv' /\ ObjectsInv' /\ PrivacyInv' /\ Monotone
  <2>1. Mild(t, Idle)
    BY DEF Mild, Ends
  <2> QED BY <1>2, <1>3, <2>1, IdleSays, CountStep
<1>5. find \in [1..MaxSessions -> FindType] /\ find' \in [1..MaxSessions -> FindType]
  <2>1. find \in [1..MaxSessions -> FindType]
    BY <1>1 DEF SearchInv
  <2>2. Search(call[t].found) \in FindType
    BY <1>2 DEF Search, FindType, Finding
  <2> QED BY <2>1, <2>2
<1>6. ASSUME NEW p \in 1..MaxSessions, find'[p].active
      PROVE  /\ p \in DOMAIN heap'
             /\ heap'[p].live =>
                  \/ /\ p \in DOMAIN heap /\ heap[p].live /\ find[p].active
                     /\ heap'[p] = heap[p] /\ find'[p].found \subseteq find[p].found
                  \/ Reportable(find[p].found, heap[p].slot)'
  <2>1. CASE find'[p] = find[p]
    <3>1. p \in DOMAIN heap
      BY <1>1, <1>6, <2>1 DEF SearchInv
    <3> QED BY <1>6, <2>1, <3>1
  <2>2. CASE find'[p] # find[p]
    <3>1. p = call[t].p /\ find'[p] = Search(call[t].found)
      BY <1>5, <2>2
    <3>2. PICK hs, s : hs = call[t].found /\ s = call[t].slot
      OBVIOUS
    <3>3. Reportable(hs, s) /\ p = Pointer(call[t].h)
      BY <1>1, <1>2, <3>1, <3>2 DEF SearchInv, At
    <3>4. Reportable(hs, s)'
      BY <1>4, <3>3, ReportableKept
    <3>5. p \in DOMAIN heap /\ heap[p].slot = s
      BY <1>1, <1>2, <3>2, <3>3 DEF PointersExact, OnSlot
    <3>6. find'[p].found = hs /\ heap'[p].slot = s
      BY <3>1, <3>2, <3>5 DEF Search
    <3> QED BY <3>4, <3>5, <3>6
  <2> QED BY <2>1, <2>2
<1>7. SearchInv'
  BY <1>1, <1>2, <1>4, <1>5, <1>6, IdleSays, SearchKept
<1> QED BY <1>4, <1>7 DEF IInv

\* FindFails and FindDone.
LEMMA FindEndStep ==
  ASSUME IInv, NEW t \in workload.threads, FindDone(t) \/ \E o \in Objects : FindFails(t, o),
         UNCHANGED workload
  PROVE  IInv'
<1>1. /\ call[t].at = "find.match" /\ SOS!ReleaseAll(call[t].held) /\ UNCHANGED handleVars
      /\ UNCHANGED <<sessions, heap>> /\ UNCHANGED <<login, lockedOut>>
      /\ UNCHANGED <<stored, mem, tokenStore>> /\ UNCHANGED initialised
  BY DEF FindDone, FindFails, At, sessionVars, storeVars
<1>2. Moves(t, Idle)
  BY IdleSays DEF FindDone, FindFails, Return, Moves
<1>3. UNCHANGED find \/ find' = [find EXCEPT ![call[t].p] = Search(call[t].found)]
  BY DEF FindDone, FindFails
<1> QED BY <1>1, <1>2, <1>3, SearchEnds

\* C_FindObjectsInit collects the objects of the slot, with a reference on each
\* session object.
LEMMA FindInitStep ==
  ASSUME IInv, NEW t \in workload.threads, NEW h \in Handles, C_FindObjectsInit(t, h),
         UNCHANGED workload
  PROVE  IInv'
<1>1. /\ SessionsInv /\ ObjectsInv /\ SearchInv /\ CallsOK /\ VectorExact /\ StoreTypes
      /\ refCount \in [Objects -> Int] /\ NowhereBeforeUse
  BY DEF IInv, SessionsInv, ObjectsInv
<1>2. /\ t \in Threads /\ initialised /\ call[t].at = "idle" /\ At(t, "idle")
      /\ HM!IsSession(h) /\ \A u \in Threads : call[u].h # h
      /\ SlotOfSession(h) = handles[h].slotID /\ SlotOfSession(h) \in Slots
      /\ OnSlot(Pointer(h), SlotOfSession(h)) /\ Pointer(h) \in 1..MaxSessions
  BY <1>1, Entered DEF C_FindObjectsInit, Enter
<1>3. PICK slot \in Slots : slot = SlotOfSession(h)
  BY <1>2
<1>4. PICK objs : objs = SOS!ObjectsOf(slot)
  OBVIOUS
<1>5. PICK todo : todo = {o \in tokenStore : SlotOf[o] = slot} \union objs
  OBVIOUS
<1>6. PICK public \in BOOLEAN : public <=> State(h).user # "user"
  OBVIOUS
<1>7. PICK c : c = [at |-> "find.match", h |-> h, slot |-> slot, p |-> Pointer(h), public |-> public,
                    held |-> objs, todo |-> todo, found |-> {}]
  OBVIOUS
<1>8. /\ objs \subseteq Objects /\ todo \subseteq Objects /\ \A o \in objs \union todo : Used(o)
      /\ \A o \in todo : SlotOf[o] = slot
  <2>1. objs \subseteq stored /\ todo \subseteq stored \union tokenStore
        /\ \A o \in todo : SlotOf[o] = slot
    BY <1>4, <1>5 DEF SOS!ObjectsOf
  <2>2. stored \union tokenStore \subseteq Objects
    BY <1>1, ConstantsOK DEF StoreTypes
  <2> QED BY <1>1, <2>1, <2>2 DEF NowhereBeforeUse
<1>9. /\ c \in CallType /\ c.at = "find.match" /\ c.h = h /\ c.slot = slot /\ c.p = Pointer(h)
      /\ c.public = public /\ c.held = objs /\ c.todo = todo /\ c.found = {}
  <2>1. c \in Finding
    BY <1>2, <1>7, <1>8 DEF Finding
  <2> QED BY <1>7, <2>1, FindingShape
<1>10. /\ UNCHANGED handleVars /\ UNCHANGED <<sessions, heap>> /\ UNCHANGED <<login, lockedOut>>
       /\ UNCHANGED <<stored, mem, tokenStore>> /\ UNCHANGED initialised
       /\ find' = [find EXCEPT ![Pointer(h)] = FailedFind] /\ SOS!AcquireAll(objs)
  BY <1>3, <1>4 DEF C_FindObjectsInit, sessionVars, storeVars
<1>11. Moves(t, c)
  <2>1. c = [at |-> "find.match", h |-> h, slot |-> SlotOfSession(h), p |-> Pointer(h),
             public |-> State(h).user # "user", held |-> SOS!ObjectsOf(SlotOfSession(h)),
             todo |-> {o \in tokenStore : SlotOf[o] = SlotOfSession(h)}
                        \union SOS!ObjectsOf(SlotOfSession(h)),
             found |-> {}]
    BY <1>3, <1>4, <1>5, <1>6, <1>7
  <2> QED BY <1>9, <2>1 DEF C_FindObjectsInit, Goto, Moves
<1>12. CountsFollow
  <2>1. ASSUME NEW o \in Objects
        PROVE  /\ t \notin Searching(o)
               /\ Searching(o)' = IF o \in objs THEN Searching(o) \union {t} ELSE Searching(o)
    <3>1. call'[t] = c /\ \A u \in Threads : u # t => call'[u] = call[u]
      BY <1>1, <1>2, <1>11, Moved
    <3> QED BY <1>2, <1>9, <3>1 DEF Searching, At
  <2>2. UNCHANGED <<handles, stored>>
    BY <1>10 DEF handleVars
  <2> QED BY <1>1, <1>2, <1>8, <1>10, <2>1, <2>2, AcquireCounts
<1>13. Carries(c)
  BY <1>8, <1>9 DEF Carries, OwnPoints
<1>14. Entitled(c)
  BY <1>3, <1>6, <1>9 DEF Entitled, Logged, State, SM!getState, SlotOfSession
<1>15. Mild(t, c) /\ c.at \notin RunAlone
  BY <1>2, <1>3, <1>9 DEF Mild, Begins, Working, RunAlone, ClosingAll
<1>16. SessionsInv' /\ ObjectsInv' /\ PrivacyInv' /\ Monotone
  BY <1>2, <1>10, <1>11, <1>12, <1>13, <1>14, <1>15, CountStep
<1>17. find \in [1..MaxSessions -> FindType] /\ find' \in [1..MaxSessions -> FindType]
  <2>1. find \in [1..MaxSessions -> FindType]
    BY <1>1 DEF SearchInv
  <2>2. FailedFind \in FindType
    BY DEF FailedFind, FindType
  <2> QED BY <1>10, <2>1, <2>2
<1>18. ASSUME NEW p \in 1..MaxSessions, find'[p].active
       PROVE  /\ p \in DOMAIN heap'
              /\ heap'[p].live =>
                   \/ /\ p \in DOMAIN heap /\ heap[p].live /\ find[p].active
                      /\ heap'[p] = heap[p] /\ find'[p].found \subseteq find[p].found
                   \/ Reportable(find[p].found, heap[p].slot)'
  <2>1. CASE p = Pointer(h)
    <3>1. p \in DOMAIN heap
      BY <1>2, <2>1 DEF OnSlot
    <3>2. find'[p].found = {}
      BY <1>10, <1>17, <2>1 DEF FailedFind
    <3>3. Reportable(find[p].found, heap[p].slot)'
      BY <3>2 DEF Reportable
    <3> QED BY <1>10, <3>1, <3>3
  <2>2. CASE p # Pointer(h)
    <3>1. find'[p] = find[p]
      BY <1>10, <1>17, <2>2
    <3>2. p \in DOMAIN heap
      BY <1>1, <1>18, <3>1 DEF SearchInv
    <3> QED BY <1>10, <1>18, <3>1, <3>2
  <2> QED BY <2>1, <2>2
<1>19. FoundBy(c)'
  <2>1. UNCHANGED handles
    BY <1>10 DEF handleVars
  <2> QED BY <1>9, <2>1 DEF FoundBy, Reportable, Pointer
<1>20. SearchInv'
  BY <1>1, <1>2, <1>11, <1>16, <1>17, <1>18, <1>19, SearchKept
<1> QED BY <1>16, <1>20 DEF IInv
-----------------------------------------------------------------------------
(* Steps of the session manager. *)

\* C_OpenSession: the new session is nobody's yet.
LEMMA OpenSessionStep ==
  ASSUME IInv, NEW t \in workload.threads, NEW slot \in Slots, NEW rw \in BOOLEAN,
         C_OpenSession(t, slot, rw), UNCHANGED workload
  PROVE  IInv'
<1>1. /\ SessionsInv /\ ObjectsInv /\ PrivacyInv /\ SearchInv /\ CallsOK /\ VectorExact /\ StoreTypes
      /\ HMP!Tables /\ refCount \in [Objects -> Int]
  BY DEF IInv, SessionsInv, ObjectsInv
<1>2. t \in Threads /\ initialised /\ call[t].at = "idle"
  BY <1>1, Stepping DEF C_OpenSession, At
<1>3. PICK i \in 1..MaxSessions :
        /\ SM!openSession(slot, rw, i)
        /\ Goto(t, [at |-> "open.get", h |-> 0, slot |-> slot, i |-> i])
  BY DEF C_OpenSession
<1>4. PICK c : c = [at |-> "open.get", h |-> 0, slot |-> slot, i |-> i]
  OBVIOUS
<1>5. c \in CallType /\ c.at = "open.get" /\ c.i = i /\ c.slot = slot
  BY <1>4 DEF CallType
<1>6. /\ UNCHANGED handleVars /\ UNCHANGED <<stored, mem, refCount, tokenStore>>
      /\ UNCHANGED <<lockedOut, find>> /\ UNCHANGED initialised /\ Moves(t, c)
  BY <1>3, <1>4, <1>5 DEF C_OpenSession, storeVars, Goto, Moves
<1>7. HMP!Tables' /\ UNCHANGED <<handles, handleCounter>>
  BY <1>1, <1>6, TablesKept DEF handleVars
<1>8. UNCHANGED login /\ Opened(Len(heap) + 1, slot, i)
  BY <1>1, <1>3, OpenedSession
<1>9. c.at \notin RunAlone /\ Carries(c) /\ Entitled(c)' /\ FoundBy(c)'
  BY <1>5 DEF RunAlone, ClosingAll, Carries, OwnPoints, Entitled, FoundBy
<1>10. SessionsInv'
  <2>1. VectorExact' /\ PointersExact' /\ CallersOwnSessions' /\ NoSessionNoHandles'
    BY <1>1, <1>2, <1>3, <1>5, <1>6, <1>7, OpenStep
  <2>2. CallsOK'
    BY <1>1, <1>2, <1>6, <1>9, CallsStep
  <2>3. StoreTypes'
    BY <1>1, <1>6 DEF StoreTypes
  <2> QED BY <1>7, <2>1, <2>2, <2>3 DEF SessionsInv
<1>11. ObjectsInv'
  <2>1. SameSearches
    BY <1>1, <1>2, <1>5, <1>6, SameSearchesOf
  <2>2. CountsFollow
    BY <1>1, <1>6, <1>7, <2>1, NoCounts
  <2>3. MemSimilar
    BY <1>6 DEF MemSimilar, Used, SOS!Valid
  <2>4. \A h \in Handles : HM!IsObject(h)' => Used(handles'[h].object) /\ handles'[h].object \in Objects
    BY <1>1, <1>7, EntryTypes DEF HM!IsObject, ObjectsInv, NowhereBeforeUse
  <2>5. \A h \in Handles : HM!IsSession(h) => HM!IsSession(h)' /\ handles'[h].slotID = handles[h].slotID
    BY <1>7 DEF HM!IsSession
  <2> QED BY <1>1, <1>2, <1>6, <1>7, <1>9, <2>2, <2>3, <2>4, <2>5, ObjectsKept
<1>12. PrivacyInv'
  <2>1. \A s \in Slots : Logged(s) => Logged(s)'
    BY <1>6, <1>8 DEF Logged
  <2>2. \A h \in Handles : HM!IsObject(h)' /\ handles'[h].isPrivate =>
          (HM!IsObject(h) /\ handles'[h] = handles[h]) \/ Logged(handles[h].slotID)'
    BY <1>7 DEF HM!IsObject
  <2>3. \A o \in stored' : mem'[o].isPrivate => (o \in stored /\ mem[o].isPrivate) \/ Logged(SlotOf[o])'
    BY <1>6
  <2> QED BY <1>1, <1>2, <1>5, <1>6, <1>9, <2>1, <2>2, <2>3, PrivacyKept
<1>13. SearchInv'
  <2>1. Monotone
    BY <1>1, <1>7, MonotoneSteps
  <2>2. find' \in [1..MaxSessions -> FindType] /\ find' = find
    BY <1>1, <1>6 DEF SearchInv
  <2>3. \A p \in 1..MaxSessions : find[p].active => p \in DOMAIN heap
    BY <1>1 DEF SearchInv
  <2>4. \A p \in DOMAIN heap : p \in DOMAIN heap' /\ heap'[p] = heap[p]
    BY <1>8 DEF Opened
  <2> QED BY <1>1, <1>2, <1>6, <1>9, <1>10, <2>1, <2>2, <2>3, <2>4, SearchKept
<1> QED BY <1>10, <1>11, <1>12, <1>13 DEF IInv

\* A slot on which something depends on the login has a session, which a handle
\* leads to or another thread is closing.
LEMMA Inhabitant ==
  ASSUME SessionsInv, ObjectsInv, NEW t \in workload.threads,
         call[t].at \notin {"close.objects", "closeAll.objects"}, NEW s \in Slots, Inhabited(t, s)
  PROVE  \E q : /\ OnSlot(q, s)
                /\ \/ \E k \in Handles : HM!IsSession(k) /\ Pointer(k) = q
                   \/ \E u \in Threads : u # t /\ Holds(u, q)
<1>1. /\ CallsOK /\ PointersExact /\ CallersOwnSessions /\ NoSessionNoHandles /\ HMP!Tables
      /\ \A o \in stored : Belongs(o)
  BY ObjectsMean DEF SessionsInv
<1>2. ASSUME NEW k \in Handles, HM!IsSession(k), handles[k].slotID = s
      PROVE  \E q : /\ OnSlot(q, s)
                    /\ \/ \E j \in Handles : HM!IsSession(j) /\ Pointer(j) = q
                       \/ \E u \in Threads : u # t /\ Holds(u, q)
  BY <1>1, <1>2 DEF PointersExact
<1>3. CASE \E h \in Handles : HM!IsObject(h) /\ handles[h].slotID = s
  <2>1. PICK h \in Handles : HM!IsObject(h) /\ handles[h].slotID = s
    BY <1>3
  <2>2. HM!Live(h)
    BY <2>1 DEF HM!IsObject, HM!Live
  <2> QED BY <1>1, <1>2, <2>1, <2>2 DEF NoSessionNoHandles
<1>4. CASE \E o \in stored : SlotOf[o] = s
  <2>1. PICK o \in stored : SlotOf[o] = s
    BY <1>4
  <2>2. CASE mem[o].hSession \in Handles /\ HM!IsSession(mem[o].hSession)
               /\ handles[mem[o].hSession].slotID = SlotOf[o]
    BY <1>2, <2>1, <2>2
  <2>3. CASE \E u \in Threads : ToRemove(o, call[u])
    <3>1. PICK u \in Threads : ToRemove(o, call[u])
      BY <2>3
    <3>2. u # t
      BY <3>1 DEF ToRemove
    <3>3. call[u].at = "close.objects" /\ call[u].slot = s
      BY <1>1, <2>1, <3>1, <3>2, NoLogout DEF ToRemove, RunAlone, ClosingAll
    <3>4. call[u].p \in 0..MaxSessions
      BY <1>1, <3>3, CallShape DEF CallsOK
    <3>5. Holds(u, call[u].p)
      BY <3>3 DEF Holds, Closing, At
    <3>6. OnSlot(call[u].p, s)
      BY <1>1, <3>3, <3>4, <3>5 DEF PointersExact
    <3> QED BY <3>2, <3>5, <3>6
  <2> QED BY <1>1, <2>1, <2>2, <2>3 DEF Belongs
<1>5. CASE \E u \in Threads : u # t /\ call[u].at \in Working /\ call[u].slot = s
  <2>1. PICK u \in Threads : u # t /\ call[u].at \in Working /\ call[u].slot = s
    BY <1>5
  <2>2. call[u].h \in Handles /\ call[u].h # 0 /\ ~ Closing(u)
    BY <1>1, <2>1, CallShape DEF CallsOK, Handles, Closing, Working
  <2>3. HM!IsSession(call[u].h) /\ handles[call[u].h].slotID = s
    BY <1>1, <2>1, <2>2 DEF CallersOwnSessions
  <2> QED BY <1>2, <2>2, <2>3
<1> QED BY <1>3, <1>4, <1>5 DEF Inhabited

\* A function frees sessions that nobody else uses and returns; the token of a
\* slot is logged out only with the slot's last session.
LEMMA FreedStep ==
  ASSUME IInv, NEW t \in workload.threads, call[t].at \in {"close.session", "closeAll.sessions"},
         Moves(t, Idle), UNCHANGED handleVars, UNCHANGED <<stored, mem, refCount, tokenStore>>,
         UNCHANGED initialised, UNCHANGED workload,
         NEW spots, spots \subseteq {i \in DOMAIN sessions : sessions[i] # 0}, SM!Delete(spots),
         login' \in [Slots -> SM!Users], lockedOut' = StillOpen(lockedOut),
         \A s \in Slots : login'[s] = login[s] \/ SM!OpenOn(s) \subseteq spots,
         \A i \in spots, h \in Handles : HM!IsSession(h) => Pointer(h) # sessions[i],
         \A i \in spots, u \in Threads : u # t => ~ Holds(u, sessions[i]),
         find' \in [1..MaxSessions -> FindType],
         \A p \in 1..MaxSessions : find'[p].active => find'[p] = find[p]
  PROVE  IInv'
<1>1. /\ SessionsInv /\ ObjectsInv /\ PrivacyInv /\ SearchInv /\ CallsOK /\ VectorExact /\ StoreTypes
      /\ HMP!Tables /\ refCount \in [Objects -> Int]
  BY DEF IInv, SessionsInv, ObjectsInv
<1>2. t \in Threads /\ initialised
  BY <1>1, Stepping
<1>3. HMP!Tables' /\ UNCHANGED <<handles, handleCounter>>
  BY <1>1, TablesKept DEF handleVars
<1>4. /\ DOMAIN sessions' = DOMAIN sessions /\ DOMAIN heap' = DOMAIN heap
      /\ \A i \in DOMAIN sessions : sessions'[i] = IF i \in spots THEN 0 ELSE sessions[i]
      /\ \A p \in DOMAIN heap :
           heap'[p] = IF \E i \in spots : sessions[i] = p THEN SM!Freed ELSE heap[p]
  BY <1>1, DeletedSessions
<1>5. SessionsInv'
  <2>1. VectorExact' /\ PointersExact' /\ CallersOwnSessions' /\ NoSessionNoHandles'
    BY <1>1, <1>2, <1>3, DeleteStep
  <2>2. CallsOK'
    BY <1>1, <1>2, IdleSays, CallsStep
  <2>3. StoreTypes'
    BY <1>1 DEF StoreTypes, StillOpen
  <2> QED BY <1>3, <2>1, <2>2, <2>3 DEF SessionsInv
<1>6. ObjectsInv'
  <2>1. SameSearches
    BY <1>1, <1>2, IdleSays, SameSearchesOf
  <2>2. CountsFollow
    BY <1>1, <1>3, <2>1, NoCounts
  <2>3. MemSimilar
    BY DEF MemSimilar, Used, SOS!Valid
  <2>4. \A h \in Handles : HM!IsObject(h)' => Used(handles'[h].object) /\ handles'[h].object \in Objects
    BY <1>1, <1>3, EntryTypes DEF HM!IsObject, ObjectsInv, NowhereBeforeUse
  <2>5. \A h \in Handles : HM!IsSession(h) => HM!IsSession(h)' /\ handles'[h].slotID = handles[h].slotID
    BY <1>3 DEF HM!IsSession
  <2> QED BY <1>1, <1>2, <1>3, <2>2, <2>3, <2>4, <2>5, IdleSays, ObjectsKept
<1>7. ASSUME NEW s \in Slots, Logged(s), Inhabited(t, s) PROVE Logged(s)'
  <2>1. PICK q : /\ OnSlot(q, s)
                 /\ \/ \E k \in Handles : HM!IsSession(k) /\ Pointer(k) = q
                    \/ \E u \in Threads : u # t /\ Holds(u, q)
    BY <1>1, <1>7, Inhabitant
  <2>2. PICK j \in DOMAIN sessions : sessions[j] = q
    BY <1>1, <2>1 DEF VectorExact, OnSlot
  <2>3. j \notin spots
    BY <2>1, <2>2
  <2>4. q # 0
    BY <1>1, <2>1, VectorTypes DEF OnSlot
  <2>5. j \in SM!OpenOn(s)
    BY <2>1, <2>2, <2>4 DEF SM!OpenOn, SM!NULL, OnSlot
  <2>6. login'[s] = login[s]
    BY <2>3, <2>5
  <2>7. j \in DOMAIN sessions' /\ sessions'[j] = q
    BY <1>4, <2>2, <2>3
  <2>8. heap'[q] = heap[q]
    <3>1. \A i \in spots : sessions[i] # q
      BY <1>1, <2>2, <2>3, <2>4 DEF VectorExact, SM!NULL
    <3> QED BY <1>4, <2>1, <3>1 DEF OnSlot
  <2>9. s \in lockedOut => s \in lockedOut'
    BY <2>1, <2>4, <2>7, <2>8 DEF StillOpen, SM!NULL, OnSlot
  <2> QED BY <1>7, <2>6, <2>9 DEF Logged
<1>8. PrivacyInv'
  <2>1. \A h \in Handles : HM!IsObject(h)' /\ handles'[h].isPrivate =>
          (HM!IsObject(h) /\ handles'[h] = handles[h]) \/ Logged(handles[h].slotID)'
    BY <1>3 DEF HM!IsObject
  <2>2. \A o \in stored' : mem'[o].isPrivate => (o \in stored /\ mem[o].isPrivate) \/ Logged(SlotOf[o])'
    OBVIOUS
  <2>3. Entitled(Idle)'
    BY DEF Entitled, Idle
  <2> QED BY <1>1, <1>2, <1>7, <2>1, <2>2, <2>3, IdleSays, PrivacyKept
<1>9. SearchInv'
  <2>1. Monotone
    BY <1>1, <1>3, MonotoneSteps
  <2>2. ASSUME NEW p \in 1..MaxSessions, find'[p].active
        PROVE  /\ p \in DOMAIN heap'
               /\ heap'[p].live =>
                    \/ /\ p \in DOMAIN heap /\ heap[p].live /\ find[p].active
                       /\ heap'[p] = heap[p] /\ find'[p].found \subseteq find[p].found
                    \/ Reportable(find[p].found, heap[p].slot)'
    <3>1. find'[p] = find[p] /\ find[p].active /\ p \in DOMAIN heap
      BY <1>1, <2>2 DEF SearchInv
    <3>2. heap'[p].live => heap'[p] = heap[p]
      BY <1>4, <3>1 DEF SM!Freed
    <3> QED BY <1>4, <3>1, <3>2
  <2> QED BY <1>1, <1>2, <1>5, <2>1, <2>2, IdleSays, SearchKept
<1> QED BY <1>5, <1>6, <1>8, <1>9 DEF IInv

\* CloseInManager: the session that C_CloseSession took the handle of is freed.
LEMMA CloseInManagerStep ==
  ASSUME IInv, NEW t \in workload.threads, CloseInManager(t), UNCHANGED workload PROVE IInv'
<1>1. SessionsInv /\ SearchInv /\ CallsOK /\ VectorExact /\ PointersExact
  BY DEF IInv, SessionsInv
<1>2. /\ t \in Threads /\ initialised /\ call[t].at = "close.session" /\ call[t] \in CallType
      /\ call[t].p \in 1..MaxSessions
  BY <1>1, InFunction, CallShape DEF CloseInManager, At
<1>3. PICK p \in 1..MaxSessions : p = call[t].p
  BY <1>2
<1>4. PICK i \in DOMAIN sessions : sessions[i] = p /\ SM!closeSession(i)
  BY <1>3 DEF CloseInManager
<1>5. /\ UNCHANGED handleVars /\ UNCHANGED <<stored, mem, refCount, tokenStore>>
      /\ UNCHANGED initialised /\ Moves(t, Idle) /\ lockedOut' = StillOpen(lockedOut)
      /\ find' = [find EXCEPT ![p] = NoSearch]
  BY <1>3, IdleSays DEF CloseInManager, storeVars, Return, Moves
<1>6. Holds(t, p)
  BY <1>2, <1>3 DEF Holds, Closing
<1>7. p \in 0..MaxSessions /\ p # 0
  BY <1>3, ConstantsOK
<1>8. PICK spots : spots = {i}
  OBVIOUS
<1>9. SM!Delete(spots) /\ spots \subseteq {k \in DOMAIN sessions : sessions[k] # 0}
  BY <1>4, <1>7, <1>8 DEF SM!closeSession
<1>10. PICK slot \in Slots : slot = heap[p].slot
  <2>1. OnSlot(p, call[t].slot)
    BY <1>1, <1>2, <1>6, <1>7 DEF PointersExact
  <2>2. call[t].slot \in Slots
    BY <1>1, <1>2, InFunction
  <2> QED BY <2>1, <2>2 DEF OnSlot
<1>11. login' = IF SM!OpenOn(slot) = {i} THEN [login EXCEPT ![slot] = "public"] ELSE login
  BY <1>4, <1>10 DEF SM!closeSession
<1>12. login \in [Slots -> SM!Users] /\ login' \in [Slots -> SM!Users]
  BY <1>1, <1>11 DEF VectorExact, SM!Users
<1>13. \A s \in Slots : login'[s] = login[s] \/ SM!OpenOn(s) \subseteq spots
  BY <1>8, <1>11, <1>12
<1>14. \A k \in spots, h \in Handles : HM!IsSession(h) => Pointer(h) # sessions[k]
  BY <1>1, <1>2, <1>4, <1>6, <1>7, <1>8 DEF PointersExact
<1>15. \A k \in spots, u \in Threads : u # t => ~ Holds(u, sessions[k])
  BY <1>1, <1>2, <1>4, <1>6, <1>7, <1>8 DEF PointersExact
<1>16. /\ find' \in [1..MaxSessions -> FindType]
       /\ \A q \in 1..MaxSessions : find'[q].active => find'[q] = find[q]
  <2>1. find \in [1..MaxSessions -> FindType]
    BY <1>1 DEF SearchInv
  <2>2. NoSearch \in FindType /\ ~ NoSearch.active
    BY DEF NoSearch, FindType
  <2> QED BY <1>5, <2>1, <2>2
<1> QED BY <1>2, <1>5, <1>9, <1>12, <1>13, <1>14, <1>15, <1>16, FreedStep

\* CloseAllInManager: the sessions of the slot are freed; none has a handle.
LEMMA CloseAllInManagerStep ==
  ASSUME IInv, NEW t \in workload.threads, CloseAllInManager(t), UNCHANGED workload PROVE IInv'
<1>1. SessionsInv /\ SearchInv /\ CallsOK /\ VectorExact /\ PointersExact /\ NoSessionNoHandles
      /\ HMP!Tables
  BY DEF IInv, SessionsInv
<1>2. /\ t \in Threads /\ initialised /\ call[t].at = "closeAll.sessions" /\ call[t].slot \in Slots
  BY <1>1, InFunction DEF CloseAllInManager, At
<1>3. PICK slot \in Slots : slot = call[t].slot
  BY <1>2
<1>4. /\ UNCHANGED handleVars /\ UNCHANGED <<stored, mem, refCount, tokenStore>>
      /\ UNCHANGED initialised /\ Moves(t, Idle) /\ lockedOut' = StillOpen(lockedOut)
      /\ SM!closeAllSessions(slot)
      /\ find' = [p \in 1..MaxSessions |->
                    IF p \in DOMAIN heap /\ heap'[p] = SM!Freed THEN NoSearch ELSE find[p]]
  BY <1>3, IdleSays DEF CloseAllInManager, storeVars, Return, Moves
<1>5. PICK spots : spots = SM!OpenOn(slot)
  OBVIOUS
<1>6. SM!Delete(spots) /\ spots \subseteq {k \in DOMAIN sessions : sessions[k] # 0}
  BY <1>4, <1>5 DEF SM!closeAllSessions, SM!OpenOn, SM!NULL
<1>7. login' = [login EXCEPT ![slot] = "public"]
  BY <1>4 DEF SM!closeAllSessions
<1>8. login \in [Slots -> SM!Users] /\ login' \in [Slots -> SM!Users]
  BY <1>1, <1>7 DEF VectorExact, SM!Users
<1>9. \A s \in Slots : login'[s] = login[s] \/ SM!OpenOn(s) \subseteq spots
  BY <1>5, <1>7, <1>8
<1>10. \A k \in spots, h \in Handles : HM!IsSession(h) => Pointer(h) # sessions[k]
  <2> SUFFICES ASSUME NEW k \in spots, NEW h \in Handles, HM!IsSession(h), Pointer(h) = sessions[k]
               PROVE  FALSE
    OBVIOUS
  <2>1. heap[Pointer(h)].slot = slot
    BY <1>5 DEF SM!OpenOn
  <2>2. handles[h].slotID = slot /\ HM!Live(h)
    BY <1>1, <2>1, EntryTypes DEF PointersExact, OnSlot
  <2> QED BY <1>1, <1>2, <1>3, <2>2 DEF NoSessionNoHandles
<1>11. \A k \in spots, u \in Threads : u # t => ~ Holds(u, sessions[k])
  <2>1. Alone
    BY <1>1, <1>2 DEF CallsOK
  <2> QED BY <1>1, <2>1, OthersIdle DEF Holds, Closing, At
<1>12. /\ find' \in [1..MaxSessions -> FindType]
       /\ \A q \in 1..MaxSessions : find'[q].active => find'[q] = find[q]
  <2>1. find \in [1..MaxSessions -> FindType]
    BY <1>1 DEF SearchInv
  <2>2. NoSearch \in FindType /\ ~ NoSearch.active
    BY DEF NoSearch, FindType
  <2> QED BY <1>4, <2>1, <2>2
<1> QED BY <1>2, <1>4, <1>6, <1>8, <1>9, <1>10, <1>11, <1>12, FreedStep
-----------------------------------------------------------------------------
(* The end and the beginning. *)

\* There are no handles, no sessions and no stored objects, and no thread is in a
\* function.
Nothing ==
  /\ CallsOK /\ \A u \in Threads : call[u] = Idle
  /\ HMP!Tables /\ \A h \in Handles : handles[h] = HM!NoHandle
  /\ sessions = <<>> /\ heap \in Seq(SessionType \union {SM!Freed}) /\ Len(heap) <= MaxSessions
  /\ \A p \in DOMAIN heap : heap[p] = SM!Freed
  /\ login \in [Slots -> SM!Users]
  /\ stored = {} /\ tokenStore = {} /\ lockedOut = {} /\ initialised \in BOOLEAN
  /\ mem \in [Objects -> {SOS!Unused, SOS!Gone}]
  /\ initialised => mem = [o \in Objects |-> SOS!Unused]
  /\ refCount = [o \in Objects |-> 0]
  /\ find = [p \in 1..MaxSessions |-> NoSearch]

\* Then the invariant speaks only of types and counts.
LEMMA NothingLeft == Nothing => IInv
<1> SUFFICES ASSUME Nothing PROVE IInv
  OBVIOUS
<1> USE DEF Nothing
<1>1. \A u \in Threads : call[u].at = "idle" /\ call[u].h = 0
  BY DEF Idle
<1>2. \A h \in Handles : ~ HM!Live(h) /\ ~ HM!IsSession(h) /\ ~ HM!IsObject(h)
  BY DEF HM!Live, HM!IsSession, HM!IsObject, HM!NoHandle
<1>3. \A o \in Objects : mem[o] \in {SOS!Unused, SOS!Gone} /\ ~ SOS!Valid(o)
  BY DEF SOS!Valid, SOS!Unused, SOS!Gone
<1>4. DOMAIN sessions = {} /\ \A p \in DOMAIN heap : ~ heap[p].live
  BY DEF SM!Freed
<1>5. SessionsInv
  <2>1. StoreTypes
    BY DEF StoreTypes
  <2>2. VectorExact
    BY <1>4 DEF VectorExact
  <2>3. PointersExact
    BY <1>1, <1>2 DEF PointersExact, Holds, Closing, At
  <2>4. CallersOwnSessions
    BY <1>1 DEF CallersOwnSessions
  <2>5. NoSessionNoHandles
    BY <1>1, <1>2 DEF NoSessionNoHandles
  <2> QED BY <2>1, <2>2, <2>3, <2>4, <2>5 DEF SessionsInv
<1>6. ObjectsInv
  <2>1. refCount \in [Objects -> Int] /\ FinalizeFreesAll
    BY DEF FinalizeFreesAll
  <2>2. NowhereBeforeUse
    BY <1>1, <1>2 DEF NowhereBeforeUse, At
  <2>3. StoredExact
    BY <1>3 DEF StoredExact
  <2>4. CallersOwnObjects
    BY <1>1 DEF CallersOwnObjects, At
  <2>5. ReferencesExact
    BY DEF ReferencesExact
  <2> QED BY <2>1, <2>2, <2>3, <2>4, <2>5 DEF ObjectsInv
<1>7. PrivacyInv
  BY <1>1, <1>2 DEF PrivacyInv, At
<1>8. SearchInv
  <2>1. NoSearch \in FindType /\ ~ NoSearch.active
    BY DEF NoSearch, FindType
  <2> QED BY <1>1, <1>4, <2>1 DEF SearchInv, At
<1> QED BY <1>5, <1>6, <1>7, <1>8 DEF IInv

\* After a step too.
LEMMA NothingLeftNext == Nothing' => IInv'
BY NothingLeft, PTL

\* Every behaviour starts in the invariant.
LEMMA InitIInv == Init => IInv
<1> SUFFICES ASSUME Init PROVE IInv
  OBVIOUS
<1>1. HM!TablesInit /\ SM!SessionsInit /\ SOS!StoreInit
  BY DEF Init
<1>2. HMP!TablesInit
  BY <1>1 DEF HM!TablesInit, HMP!TablesInit, HM!Handles, HMP!Handles, HM!NoHandle, HMP!NoHandle,
     HM!Invalid, HMP!Invalid
<1>3. HMP!Tables
  BY <1>2, ManagerConstants, HMP!InitTables
<1>4. CallsOK
  <2>1. Idle \in CallType /\ Idle.at = "idle"
    BY IdleSays
  <2> QED BY <2>1 DEF Init, CallsOK
<1>5. \A h \in Handles : handles[h] = HM!NoHandle
  BY <1>1 DEF HM!TablesInit, HM!Handles, Handles
<1>6. heap = <<>> /\ sessions = <<>> /\ login \in [Slots -> SM!Users]
  BY <1>1 DEF SM!SessionsInit, SM!Users
<1>7. heap \in Seq(SessionType \union {SM!Freed}) /\ Len(heap) <= MaxSessions /\ DOMAIN heap = {}
  BY <1>6, ConstantsOK
<1>8. /\ stored = {} /\ refCount = [o \in Objects |-> 0]
      /\ mem = [o \in Objects |-> SOS!Unused]
  BY <1>1 DEF SOS!StoreInit
<1>9. mem \in [Objects -> {SOS!Unused, SOS!Gone}]
  BY <1>8
<1>10. /\ \A u \in Threads : call[u] = Idle
       /\ tokenStore = {} /\ lockedOut = {} /\ initialised \in BOOLEAN
       /\ find = [p \in 1..MaxSessions |-> NoSearch]
  BY DEF Init
<1> QED BY <1>3, <1>4, <1>5, <1>6, <1>7, <1>8, <1>9, <1>10, NothingLeft DEF Nothing

\* What ~HandleManager and ~SessionObjectStore release is what there is.
LEMMA DestructorsExact ==
  ASSUME SessionsInv, ObjectsInv, initialised, \A u \in Threads : call[u].at = "idle",
         NEW o \in Objects, o \notin TokenObjects
  PROVE  refCount[o] - DroppedByDestructors(o) = 0
<1>1. HMP!Tables /\ ReferencesExact /\ refCount \in [Objects -> Int] /\ NowhereBeforeUse
  BY DEF SessionsInv, ObjectsInv
<1>2. DroppedByDestructors(o) = Named(o) + IF o \in stored THEN 1 ELSE 0
  BY <1>1, OneHandle DEF DroppedByDestructors
<1>3. Cardinality(Searching(o)) = 0
  <2>1. Searching(o) = {}
    BY DEF Searching, At
  <2> QED BY <2>1, FS_EmptySet
<1>4. CASE Used(o)
  <2>1. refCount[o] = Refs(o)
    BY <1>1, <1>4, ExactRefs
  <2> QED BY <1>2, <1>3, <2>1, RefsTypes DEF Refs, Owned
<1>5. CASE ~ Used(o)
  <2>1. o \notin stored /\ refCount[o] = 0
    BY <1>1, <1>5 DEF NowhereBeforeUse
  <2>2. ~ Referenced(o)
    BY <1>1, <1>5 DEF NowhereBeforeUse, Referenced, HM!OwnedBySession
  <2>3. Named(o) = 0
    BY <2>2 DEF Named
  <2>4. DroppedByDestructors(o) = 0
    BY <1>2, <2>1, <2>3
  <2> QED BY <2>1, <2>4
<1> QED BY <1>4, <1>5

\* C_Finalize leaves nothing.
LEMMA FinalizeStep ==
  ASSUME IInv, NEW t \in workload.threads, C_Finalize(t), UNCHANGED workload PROVE IInv'
<1>1. SessionsInv /\ ObjectsInv /\ CallsOK /\ VectorExact /\ StoreTypes /\ HMP!Tables
  BY DEF IInv, SessionsInv
<1>2. initialised /\ initialised' = FALSE /\ UNCHANGED call /\ UNCHANGED handleCounter
  BY DEF C_Finalize
<1>3. \A u \in Threads : call[u].at = "idle" /\ call[u] = Idle
  BY <1>1, CallShape DEF C_Finalize, At, CallsOK
<1>4. CallsOK' /\ \A u \in Threads : call'[u] = Idle
  <2>1. \A u \in Threads : call'[u] = Idle /\ call'[u].at = "idle"
    BY <1>2, <1>3
  <2> QED BY <1>1, <1>2, <2>1 DEF CallsOK
<1>5. HMP!Tables' /\ \A h \in Handles : handles'[h] = HM!NoHandle
  <2>1. handles' = [h \in HMP!Handles |-> HMP!NoHandle]
    BY DEF C_Finalize, Handles, HMP!Handles, HM!NoHandle, HMP!NoHandle
  <2>2. objects' = [o \in Objects |-> HMP!Invalid]
    BY DEF C_Finalize, HM!Invalid, HMP!Invalid
  <2>3. sessionObjectHandles' = [h \in HMP!Handles |-> {}]
    BY DEF C_Finalize, Handles, HMP!Handles
  <2>4. slotHandles' = [s \in Slots |-> {}] /\ slotSessionCount' = [s \in Slots |-> 0]
    BY DEF C_Finalize
  <2>5. handleCounter' \in 0..MaxHandle
    BY <1>1, <1>2 DEF HMP!Tables, HMP!TableTypes
  <2>6. HMP!Tables'
    BY <2>1, <2>2, <2>3, <2>4, <2>5, ManagerConstants, HMP!EmptiedTables
  <2> QED BY <2>6 DEF C_Finalize
<1>6. /\ sessions' = <<>> /\ heap' \in Seq(SessionType \union {SM!Freed}) /\ Len(heap') <= MaxSessions
      /\ \A p \in DOMAIN heap' : heap'[p] = SM!Freed
  <2>1. Len(heap) \in Nat /\ DOMAIN heap = 1..Len(heap) /\ Len(heap) <= MaxSessions
    BY <1>1, VectorTypes DEF VectorExact
  <2>2. PICK n \in Nat : n = Len(heap)
    BY <2>1
  <2>3. heap' = [p \in 1..n |-> SM!Freed]
    BY <2>1, <2>2 DEF C_Finalize
  <2>4. heap' \in [1..n -> SessionType \union {SM!Freed}]
    BY <2>3
  <2>5. heap' \in Seq(SessionType \union {SM!Freed})
    BY <2>4, FunctionIsSeq
  <2>6. Len(heap') = n
    BY <2>3, <2>5
  <2> QED BY <2>1, <2>2, <2>3, <2>5, <2>6 DEF C_Finalize
<1>7. /\ login' \in [Slots -> SM!Users] /\ stored' = {} /\ tokenStore' = {} /\ lockedOut' = {}
      /\ find' = [p \in 1..MaxSessions |-> NoSearch]
  BY DEF C_Finalize, SM!Users
<1>8. mem' \in [Objects -> {SOS!Unused, SOS!Gone}]
  BY DEF C_Finalize
<1>9. refCount' = [o \in Objects |-> 0]
  <2>1. \A o \in Objects : o \notin TokenObjects => refCount[o] - DroppedByDestructors(o) = 0
    BY <1>1, <1>2, <1>3, DestructorsExact
  <2> QED BY <2>1 DEF C_Finalize
<1>10. Nothing'
  BY <1>2, <1>4, <1>5, <1>6, <1>7, <1>8, <1>9 DEF Nothing
<1> QED BY <1>10, NothingLeftNext
-----------------------------------------------------------------------------
(* The invariant. *)

\* Nothing happens.
LEMMA StutterStep == ASSUME IInv, UNCHANGED vars PROVE IInv'
<1>1. /\ UNCHANGED handleVars /\ UNCHANGED <<sessions, heap, login, stored, mem, refCount, tokenStore>>
      /\ UNCHANGED <<find, lockedOut, initialised, call, workload>>
  BY DEF vars, sessionVars, storeVars
<1>2. UNCHANGED <<handles, handleCounter>>
  BY <1>1 DEF handleVars
<1>3. SessionsInv'
  <2>1. HMP!Tables'
    BY <1>1, TablesKept DEF IInv, SessionsInv
  <2>2. CallsOK' /\ StoreTypes' /\ VectorExact'
    BY <1>1 DEF IInv, SessionsInv, CallsOK, Alone, StoreTypes, VectorExact
  <2>3. PointersExact' /\ CallersOwnSessions' /\ NoSessionNoHandles'
    BY <1>1, <1>2 DEF IInv, SessionsInv, PointersExact, CallersOwnSessions, NoSessionNoHandles, OnSlot,
       Pointer, Holds, Closing, At, HM!IsSession, HM!Live
  <2> QED BY <2>1, <2>2, <2>3 DEF SessionsInv
<1>4. ObjectsInv'
  BY <1>1, <1>2 DEF IInv, ObjectsInv, NowhereBeforeUse, StoredExact, CallersOwnObjects, ReferencesExact,
     FinalizeFreesAll, Used, At, Searching, SessionObjectHandles, SOS!Valid, HM!IsSession, HM!IsObject,
     HM!OwnedBySession
<1>5. PrivacyInv' /\ SearchInv'
  BY <1>1, <1>2 DEF IInv, PrivacyInv, SearchInv, Logged, Reportable, Pointer, At, HM!IsObject, HM!Live
<1> QED BY <1>3, <1>4, <1>5 DEF IInv

\* The functions on sessions.
LEMMA SessionCallsStep ==
  ASSUME CarefulApplications, IInv, NEW t \in workload.threads, SessionCalls(t), UNCHANGED workload
  PROVE  IInv'
BY OpenSessionStep, OpenGetStep, OpenAddStep, CloseSessionStep, CloseObjectsStep, CloseInManagerStep,
   CloseAllStep, CloseAllObjectsStep, CloseAllInManagerStep DEF SessionCalls

\* Logins and logouts.
LEMMA LoginsStep ==
  ASSUME CarefulApplications, IInv, NEW t \in workload.threads, Logins(t), UNCHANGED workload
  PROVE  IInv'
BY LoginUserStep, LoginSOBegins, LastTryStep, LogoutStep, LoginSOStep, LogoutHandlesStep,
   LogoutObjectsStep DEF Logins

\* The functions on objects.
LEMMA ObjectCallsStep ==
  ASSUME CarefulApplications, IInv, NEW t \in workload.threads, ObjectCalls(t), UNCHANGED workload
  PROVE  IInv'
<1>1. CASE \E h \in Handles, onToken, private \in BOOLEAN :
             \/ C_CreateObject(t, h, onToken, private)
             \/ \E hObject \in Handles : C_CopyObject(t, h, hObject, onToken, private)
  BY <1>1, CreateBegins
<1>2. CASE \E o \in Objects, default \in BOOLEAN : CreateNew(t, o, default)
  BY <1>2, CreateNewStep
<1>3. CASE \E h, hObject \in Handles : C_DestroyObject(t, h, hObject)
  BY <1>3, DestroyBegins
<1>4. CASE CreateSave(t) \/ CreateFails(t) \/ CreateAdd(t) \/ DestroyForget(t) \/ DestroyDelete(t)
  BY <1>4, CreateSaveStep, CreateFailsStep, CreateAddStep, DestroyForgetStep, DestroyDeleteStep
<1> QED BY <1>1, <1>2, <1>3, <1>4 DEF ObjectCalls

\* The functions of a search.
LEMMA SearchesStep ==
  ASSUME IInv, NEW t \in workload.threads, Searches(t), UNCHANGED workload PROVE IInv'
<1>1. CASE \E h \in Handles : C_FindObjectsInit(t, h)
  BY <1>1, FindInitStep
<1>2. CASE \E h \in Handles : C_FindObjectsFinal(t, h)
  BY <1>2, FindCallStep
<1>3. CASE \E h \in Handles, n \in 1..Cardinality(Objects) : C_FindObjects(t, h, n)
  BY <1>3, FindCallStep
<1>4. CASE \E o \in Objects : FindSkip(t, o) \/ FindMatch(t, o)
  BY <1>4, FindSkipStep, FindMatchStep
<1>5. CASE FindDone(t) \/ \E o \in Objects : FindFails(t, o)
  BY <1>5, FindEndStep
<1> QED BY <1>1, <1>2, <1>3, <1>4, <1>5 DEF Searches

\* Every step of a careful application keeps the invariant.
LEMMA NextIInv == ASSUME CarefulApplications, IInv, [Next]_vars PROVE IInv'
<1>1. CASE UNCHANGED vars
  BY <1>1, StutterStep
<1>2. CASE Next
  <2>1. PICK t \in workload.threads :
          SessionCalls(t) \/ Logins(t) \/ ObjectCalls(t) \/ Searches(t) \/ C_Finalize(t)
    BY <1>2 DEF Next
  <2>2. UNCHANGED workload
    BY <1>2 DEF Next
  <2> QED BY <2>1, <2>2, SessionCallsStep, LoginsStep, ObjectCallsStep, SearchesStep, FinalizeStep
<1> QED BY <1>1, <1>2

\* The inductive invariant, for every application of careful threads: sessions,
\* handles, objects, references, private objects and searches fit together at
\* every step of every function.
THEOREM InductiveInvariant == ASSUME CarefulApplications PROVE Spec => []IInv
<1>1. IInv /\ [Next]_vars => IInv'
  BY NextIInv
<1> QED BY <1>1, InitIInv, PTL DEF Spec
-----------------------------------------------------------------------------
(* What the invariant says of the program. *)

\* The counts are natural numbers: no reference is released twice.
LEMMA CountsNatural == IInv => refCount \in [Objects -> Nat]
<1> SUFFICES ASSUME IInv PROVE refCount \in [Objects -> Nat]
  OBVIOUS
<1>1. /\ HMP!Tables /\ ReferencesExact /\ NowhereBeforeUse /\ FinalizeFreesAll
      /\ refCount \in [Objects -> Int]
  BY DEF IInv, SessionsInv, ObjectsInv
<1>2. ASSUME NEW o \in Objects PROVE refCount[o] \in Nat
  <2>1. CASE ~ initialised
    BY <1>1, <2>1 DEF FinalizeFreesAll
  <2>2. CASE ~ Used(o)
    BY <1>1, <2>2 DEF NowhereBeforeUse
  <2>3. CASE initialised /\ Used(o)
    BY <1>1, <2>3, ExactRefs, RefsTypes
  <2> QED BY <2>1, <2>2, <2>3
<1> QED BY <1>1, <1>2

\* The managers' state has its type.
LEMMA InvTypes == IInv => TypeOK
<1> SUFFICES ASSUME IInv PROVE TypeOK
  OBVIOUS
<1>1. HMP!TableTypes /\ VectorExact /\ StoreTypes /\ refCount \in [Objects -> Nat]
  BY CountsNatural DEF IInv, SessionsInv, HMP!Tables
<1>2. handles \in [Handles -> HM!SessionHandle \union HM!ObjectHandle \union {HM!NoHandle}]
  BY <1>1 DEF HMP!TableTypes, Handles, HMP!Handles, HM!Handles, HM!SessionHandle, HMP!SessionHandle,
     HM!ObjectHandle, HMP!ObjectHandle, HM!NoHandle, HMP!NoHandle, HM!Invalid, HMP!Invalid
<1>3. objects \in [Objects -> 0..MaxHandle] /\ slotSessionCount \in [Slots -> Nat]
  <2>1. HMP!Handles \union {HMP!Invalid} \subseteq 0..MaxHandle
    BY ConstantsOK DEF HMP!Handles, HMP!Invalid
  <2> QED BY <1>1, <2>1 DEF HMP!TableTypes
<1> QED BY <1>1, <1>2, <1>3 DEF TypeOK, VectorExact, StoreTypes

\* An object that a function goes on using has a reference.
LEMMA InvNoUseAfterFree == IInv => NoUseAfterFree
<1> SUFFICES ASSUME IInv, NEW t \in Threads, call[t].at \in OwnPoints PROVE refCount[call[t].o] > 0
  BY DEF NoUseAfterFree, OwnPoints
<1>1. HMP!Tables /\ ReferencesExact /\ CallersOwnObjects /\ CallsOK /\ StoreTypes
  BY DEF IInv, SessionsInv, ObjectsInv
<1>2. initialised
  BY <1>1 DEF CallsOK, OwnPoints, Idle
<1>3. PICK o : o = call[t].o
  OBVIOUS
<1>4. o \in stored \union TokenObjects /\ Used(o)
  BY <1>1, <1>3 DEF CallersOwnObjects, OwnPoints
<1>5. o \in Objects
  BY <1>1, <1>4, ConstantsOK DEF StoreTypes
<1>6. refCount[o] = Refs(o)
  BY <1>1, <1>2, <1>4, <1>5, ExactRefs
<1>7. Owned(o) = 1
  BY <1>4 DEF Owned
<1> QED BY <1>3, <1>6, <1>7, RefsTypes DEF Refs

\* Between calls the session objects belong to open sessions.
LEMMA InvNoOrphanedObjects == IInv => NoOrphanedObjects
BY DEF IInv, ObjectsInv, StoredExact, NoOrphanedObjects, Quiet, At

\* Between calls private things need the user.
LEMMA InvPrivateNeedsUser == IInv => PrivateNeedsUser
<1> SUFFICES ASSUME IInv, Quiet, NEW s \in Slots, ~ Logged(s)
             PROVE  /\ \A h \in Handles : HM!IsObject(h) /\ handles[h].slotID = s => ~ handles[h].isPrivate
                    /\ \A o \in stored : SlotOf[o] = s => ~ mem[o].isPrivate
  BY DEF PrivateNeedsUser, Logged
<1> QED BY DEF IInv, PrivacyInv, Quiet, At

\* Between calls a search reports what is dead or may be seen.
LEMMA InvSearchResultsValid == IInv => SearchResultsValid
<1> SUFFICES ASSUME IInv, Quiet, NEW p \in DOMAIN heap, heap[p].live, find[p].active,
                    NEW k \in find[p].found, HM!Live(k)
             PROVE  /\ HM!IsObject(k) /\ handles[k].slotID = heap[p].slot
                    /\ handles[k].isPrivate => Logged(heap[p].slot)
  BY DEF SearchResultsValid, Logged
<1>1. k \in Handles /\ HM!IsObject(k) /\ handles[k].slotID = heap[p].slot
  BY DEF IInv, SearchInv, Reportable
<1>2. handles[k].isPrivate => Logged(handles[k].slotID)
  BY <1>1 DEF IInv, PrivacyInv, Quiet, At
<1> QED BY <1>1, <1>2

\* The types hold: no count of references becomes negative, whatever the threads
\* of a careful application do.
THEOREM TypeCorrect == ASSUME CarefulApplications PROVE Spec => []TypeOK
BY InductiveInvariant, InvTypes, PTL

\* The reference counts that SoftHSM.cpp, HandleManager and SessionObjectStore
\* keep between them are exact at every step: one for the owner, one for the
\* handle, one for each search.
THEOREM ReferencesAreExact == ASSUME CarefulApplications PROVE Spec => []ReferencesExact
<1>1. IInv => ReferencesExact
  BY DEF IInv, ObjectsInv
<1> QED BY <1>1, InductiveInvariant, PTL

\* CreateObject and C_DestroyObject never use an object that was freed.
THEOREM UsedIsAllocated == ASSUME CarefulApplications PROVE Spec => []NoUseAfterFree
BY InductiveInvariant, InvNoUseAfterFree, PTL

\* Between calls each session object belongs to an open session of its slot.
THEOREM ObjectsHaveSessions == ASSUME CarefulApplications PROVE Spec => []NoOrphanedObjects
BY InductiveInvariant, InvNoOrphanedObjects, PTL

\* Between calls there are private handles and private session objects only on
\* slots whose user is logged in, or was until a PIN lock-out.
THEOREM PrivateIsUsers == ASSUME CarefulApplications PROVE Spec => []PrivateNeedsUser
BY InductiveInvariant, InvPrivateNeedsUser, PTL

\* What C_FindObjects will report is dead or an object that the session may see.
THEOREM ReportsAreValid == ASSUME CarefulApplications PROVE Spec => []SearchResultsValid
BY InductiveInvariant, InvSearchResultsValid, PTL

\* After C_Finalize no object has a reference.
THEOREM NothingLeaks == ASSUME CarefulApplications PROVE Spec => []FinalizeFreesAll
<1>1. IInv => FinalizeFreesAll
  BY DEF IInv, ObjectsInv
<1> QED BY <1>1, InductiveInvariant, PTL
=============================================================================
