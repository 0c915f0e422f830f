------------------------------ MODULE SoftHSM ------------------------------
(***************************************************************************)
(* The PKCS #11 functions of SoftHSM.cpp that manage sessions, logins and  *)
(* objects, over the handle manager, the session manager, the session      *)
(* object store, the token's objects and the token's login state.          *)
(*                                                                         *)
(* No lock spans a whole function: each manager locks for itself, so a     *)
(* function is a sequence of steps, one per lock region, and call[t] holds *)
(* what thread t carries from one step to the next.  A function that       *)
(* returns early because of a failed check changes nothing and has no      *)
(* action of its own.                                                      *)
(*                                                                         *)
(* PKCS #11 leaves it to the application that one session is used by one   *)
(* thread at a time, that C_CloseAllSessions is not called while a session *)
(* of the slot is in use, and that C_Finalize comes last.                  *)
(***************************************************************************)
EXTENDS Naturals, Sequences, FiniteSets

CONSTANTS
  Threads,       \* application threads
  Workloads,     \* what applications do: see WorkloadAssumption
  Slots,
  Objects,       \* object pointers; each is allocated at most once
  TokenObjects,  \* those that are allocated by the token, not the session store
  SlotOf,        \* the slot in which each pointer is allocated
  MaxSessions,   \* bound on the sessions ever opened
  MaxHandle      \* bound on the handles ever issued

VARIABLES
  handles, objects, sessionObjectHandles, slotHandles, slotSessionCount,
  handleCounter,          \* HandleManager
  sessions, heap, login,  \* SessionManager and the tokens' login states
  stored, mem, refCount,  \* SessionObjectStore and all objects
  tokenStore,             \* OSToken::objects of all tokens
  find,                   \* Session::findOp of each session that is searching
  lockedOut,              \* slots whose user a PIN lock-out has logged out
  initialised,
  call,
  workload                \* what the application does, one of Workloads

handleVars  == <<handles, objects, sessionObjectHandles, slotHandles, slotSessionCount,
                 handleCounter>>
sessionVars == <<sessions, heap, login>>
storeVars   == <<stored, mem>>
vars == <<handleVars, sessionVars, storeVars, refCount, tokenStore, find, lockedOut,
          initialised, call, workload>>

\* The threads of an application and the functions they call.
ASSUME WorkloadAssumption ==
  \A w \in Workloads : w.threads \subseteq Threads /\ w.functions \subseteq STRING

ASSUME ConstantsOK ==
  /\ IsFiniteSet(Threads)
  /\ MaxSessions \in Nat /\ MaxHandle \in Nat
  /\ TokenObjects \subseteq Objects
  /\ SlotOf \in [Objects -> Slots]

\* A pointer that an object handle leads to is used without a reference, and a
\* session that C_OpenSession is still registering has no handle: one thread's
\* C_DestroyObject, C_Logout or C_CloseAllSessions may free what another is
\* using.  A careful application calls these from one thread only.
Disruptive == {"C_CloseAllSessions", "C_Logout", "C_DestroyObject"}

CarefulApplications ==
  \A w \in Workloads :
    (\E t \in Threads : w.threads = {t}) \/ w.functions \intersect Disruptive = {}

HM  == INSTANCE HandleManager WITH Sessions <- 1..MaxSessions, Racing <- FALSE
SM  == INSTANCE SessionManager
SOS == INSTANCE SessionObjectStore

Handles == 1..MaxHandle
Idle    == [at |-> "idle", h |-> 0, slot |-> 0]

\* Session::opType is SESSION_OP_FIND; findOp is NULL after a failed search.
NoSearch    == [active |-> FALSE]
FailedFind  == [active |-> TRUE, ok |-> FALSE, found |-> {}]
Search(hs)  == [active |-> TRUE, ok |-> TRUE, found |-> hs]

Init ==
  /\ HM!TablesInit
  /\ SM!SessionsInit
  /\ SOS!StoreInit
  /\ tokenStore = {}
  /\ find = [p \in 1..MaxSessions |-> NoSearch]
  /\ lockedOut = {}
  /\ initialised = TRUE
  /\ call = [t \in Threads |-> Idle]
  /\ workload \in Workloads

Goto(t, c) == call' = [call EXCEPT ![t] = c]
Continue(t, point) == call' = [call EXCEPT ![t].at = point]
Return(t)  == call' = [call EXCEPT ![t] = Idle]
At(t, point) == call[t].at = point

\* A thread calls a function on session h and looks the session up.  The lookup
\* is one step with the first lock region after it: only this thread uses h.
Enter(t, function, h) ==
  /\ initialised /\ function \in workload.functions
  /\ At(t, "idle")
  /\ HM!IsSession(h)
  /\ \A u \in Threads : call[u].h # h

Pointer(h) == handles[h].session
State(h)   == SM!getState(Pointer(h))
SlotOfSession(h) == heap[Pointer(h)].slot

Start(t, h, point) == Goto(t, [at |-> point, h |-> h, slot |-> SlotOfSession(h)])

\* access.cpp
haveRead(state, private)  == state.user = "user" \/ ~ private
haveWrite(state, onToken, private) ==
  /\ onToken => state.rw
  /\ private => state.user = "user"
-----------------------------------------------------------------------------
(* Sessions *)

C_OpenSession(t, slot, rw) ==
  /\ initialised /\ "C_OpenSession" \in workload.functions
  /\ At(t, "idle")
  /\ \E i \in 1..MaxSessions :
       /\ SM!openSession(slot, rw, i)
       /\ Goto(t, [at |-> "open.get", h |-> 0, slot |-> slot, i |-> i])
  /\ UNCHANGED <<handleVars, storeVars, refCount, tokenStore, find, lockedOut, initialised>>

\* sessionManager->getSession: the session may be gone again.
OpenGet(t) ==
  /\ At(t, "open.get")
  /\ LET p == SM!getSession(call[t].i)
     IN  IF p = SM!NULL THEN Return(t)
         ELSE Goto(t, [at |-> "open.add", h |-> 0, slot |-> call[t].slot, p |-> p])
  /\ UNCHANGED <<handleVars, sessionVars, storeVars, refCount, tokenStore, find, lockedOut,
                 initialised>>

OpenAdd(t) ==
  /\ At(t, "open.add")
  /\ HM!addSession(call[t].slot, call[t].p)
  /\ Return(t)
  /\ UNCHANGED <<sessionVars, storeVars, tokenStore, find, lockedOut, initialised>>

\* Slots whose token has no session left have nothing to remember.
StillOpen(slots) == {s \in slots : \E i \in DOMAIN sessions' :
                                     sessions'[i] # SM!NULL /\ heap'[sessions'[i]].slot = s}

C_CloseSession(t, h) ==
  /\ Enter(t, "C_CloseSession", h)
  /\ HM!sessionClosed(h)
  /\ Goto(t, [at |-> "close.objects", h |-> h, slot |-> SlotOfSession(h), p |-> Pointer(h)])
  /\ UNCHANGED <<sessionVars, storeVars, tokenStore, find, lockedOut, initialised>>

CloseObjects(t) ==
  /\ At(t, "close.objects")
  /\ SOS!sessionClosed(call[t].h)
  /\ Continue(t, "close.session")
  /\ UNCHANGED <<handleVars, sessionVars, tokenStore, find, lockedOut, initialised>>

\* sessionManager->closeSession(session->getHandle())
CloseInManager(t) ==
  /\ At(t, "close.session")
  /\ \E i \in DOMAIN sessions : sessions[i] = call[t].p /\ SM!closeSession(i)
  /\ find' = [find EXCEPT ![call[t].p] = NoSearch]
  /\ lockedOut' = StillOpen(lockedOut)
  /\ Return(t)
  /\ UNCHANGED <<handleVars, storeVars, refCount, tokenStore, initialised>>

C_CloseAllSessions(t, slot) ==
  /\ initialised /\ "C_CloseAllSessions" \in workload.functions
  /\ At(t, "idle")
  /\ \A u \in Threads : call[u].h # 0 => call[u].slot # slot
  /\ HM!allSessionsClosed(slot)
  /\ Goto(t, [at |-> "closeAll.objects", h |-> 0, slot |-> slot])
  /\ UNCHANGED <<sessionVars, storeVars, tokenStore, find, lockedOut, initialised>>

CloseAllObjects(t) ==
  /\ At(t, "closeAll.objects")
  /\ SOS!allSessionsClosed(call[t].slot)
  /\ Continue(t, "closeAll.sessions")
  /\ UNCHANGED <<handleVars, sessionVars, tokenStore, find, lockedOut, initialised>>

CloseAllInManager(t) ==
  /\ At(t, "closeAll.sessions")
  /\ SM!closeAllSessions(call[t].slot)
  /\ find' = [p \in 1..MaxSessions |->
                IF p \in DOMAIN heap /\ heap'[p] = SM!Freed THEN NoSearch ELSE find[p]]
  /\ lockedOut' = StillOpen(lockedOut)
  /\ Return(t)
  /\ UNCHANGED <<handleVars, storeVars, refCount, tokenStore, initialised>>
-----------------------------------------------------------------------------
(* Login.  The PIN is right; a wrong one changes only the retry counter,   *)
(* unless it was the last try: then pinResult logs the token out.          *)

C_LoginUser(t, h) ==
  /\ Enter(t, "C_Login", h)
  /\ SM!loginToken(SlotOfSession(h), "user")
  /\ UNCHANGED <<handleVars, sessions, heap, storeVars, refCount, tokenStore, find, lockedOut,
                 initialised, call>>

\* "There cannot exist a R/O session on this slot"
C_LoginSO(t, h) ==
  /\ Enter(t, "C_Login", h)
  /\ ~ SM!haveROSession(SlotOfSession(h))
  /\ Start(t, h, "login.so")
  /\ UNCHANGED <<handleVars, sessionVars, storeVars, refCount, tokenStore, find, lockedOut,
                 initialised>>

LoginSO(t) ==
  /\ At(t, "login.so")
  /\ \/ SM!loginToken(call[t].slot, "so")
     \/ login[call[t].slot] # "public" /\ UNCHANGED login
  /\ Return(t)
  /\ UNCHANGED <<handleVars, sessions, heap, storeVars, refCount, tokenStore, find, lockedOut,
                 initialised>>

\* C_SetPIN, or C_Login for re-authentication, with a wrong PIN and no try left.
LastTryFails(t, h) ==
  /\ Enter(t, "C_SetPIN", h)
  /\ login[SlotOfSession(h)] # "public"
  /\ lockedOut' = IF login[SlotOfSession(h)] = "user"
                    THEN lockedOut \union {SlotOfSession(h)} ELSE lockedOut
  /\ SM!logoutToken(SlotOfSession(h))
  /\ UNCHANGED <<handleVars, sessions, heap, storeVars, refCount, tokenStore, find,
                 initialised, call>>

C_Logout(t, h) ==
  /\ Enter(t, "C_Logout", h)
  /\ SM!logoutToken(SlotOfSession(h))
  /\ Start(t, h, "logout.handles")
  /\ UNCHANGED <<handleVars, sessions, heap, storeVars, refCount, tokenStore, find, lockedOut,
                 initialised>>

\* Mutant: the handle manager is not told.
LogoutHandles_Skipped(t) ==
  /\ At(t, "logout.handles")
  /\ Continue(t, "logout.objects")
  /\ UNCHANGED <<handleVars, refCount, sessionVars, storeVars, tokenStore, find, lockedOut,
                 initialised>>

LogoutHandles(t) ==
  /\ At(t, "logout.handles")
  /\ HM!tokenLoggedOut(call[t].slot)
  /\ Continue(t, "logout.objects")
  /\ UNCHANGED <<sessionVars, storeVars, tokenStore, find, lockedOut, initialised>>

LogoutObjects(t) ==
  /\ At(t, "logout.objects")
  /\ SOS!tokenLoggedOut(call[t].slot)
  /\ lockedOut' = lockedOut \ {call[t].slot}
  /\ Return(t)
  /\ UNCHANGED <<handleVars, sessionVars, tokenStore, find, initialised>>
-----------------------------------------------------------------------------
(* Objects *)

\* CreateObject: access check, then the new object with its defaults, then its
\* template, then its handle.  A template that fails leaves the object behind,
\* except in C_CopyObject, which destroys it.  (C_CopyObject copies the source's
\* attributes one by one before the template: until then the new object's
\* CKA_PRIVATE is either value, as default is.)
Creation(h, onToken, private, copy) ==
  [at |-> "create.new", h |-> h, slot |-> SlotOfSession(h), onToken |-> onToken,
   private |-> private, copy |-> copy]

C_CreateObject(t, h, onToken, private) ==
  /\ Enter(t, "C_CreateObject", h)
  /\ haveWrite(State(h), onToken, private)
  /\ Goto(t, Creation(h, onToken, private, FALSE))
  /\ UNCHANGED <<handleVars, sessionVars, storeVars, refCount, tokenStore, find, lockedOut,
                 initialised>>

\* "Check privacy does not downgrade"; the object may be one of another slot.
C_CopyObject(t, h, hObject, onToken, private) ==
  /\ Enter(t, "C_CopyObject", h)
  /\ HM!IsObject(hObject)
  /\ LET o == handles[hObject].object
     IN  /\ SOS!Valid(o)
         /\ haveRead(State(h), mem[o].CKA_PRIVATE)
         /\ mem[o].CKA_PRIVATE => private
  /\ haveWrite(State(h), onToken, private)
  /\ Goto(t, Creation(h, onToken, private, TRUE))
  /\ UNCHANGED <<handleVars, sessionVars, storeVars, refCount, tokenStore, find, lockedOut,
                 initialised>>

\* token->createObject: the token keeps the object until it is destroyed itself.
NewTokenObject(o, default) ==
  /\ mem[o] = SOS!Unused
  /\ tokenStore' = tokenStore \union {o}
  /\ refCount'   = [refCount EXCEPT ![o] = 1]
  /\ mem'        = [mem EXCEPT ![o] = [life |-> "valid", hSession |-> 0, isPrivate |-> FALSE,
                                       CKA_TOKEN |-> FALSE, CKA_PRIVATE |-> default]]
  /\ UNCHANGED stored

CreateNew(t, o, default) ==
  /\ At(t, "create.new")
  /\ SlotOf[o] = call[t].slot
  /\ call[t].onToken <=> o \in TokenObjects
  /\ IF call[t].onToken
       THEN NewTokenObject(o, default)
       ELSE SOS!createObject(o, call[t].h, call[t].private, default) /\ UNCHANGED tokenStore
  /\ Goto(t, [at |-> "create.save", h |-> call[t].h, slot |-> call[t].slot,
              onToken |-> call[t].onToken, private |-> call[t].private,
              copy |-> call[t].copy, o |-> o])
  /\ UNCHANGED <<handleVars, sessionVars, find, lockedOut, initialised>>

\* The store drops an object that is destroyed, if it has it.
DestroyInStore(o) ==
  IF o \in TokenObjects
    THEN /\ tokenStore' = tokenStore \ {o}
         /\ mem' = [mem EXCEPT ![o] = IF o \in tokenStore THEN SOS!Gone ELSE @]
         /\ UNCHANGED <<stored, refCount>>
    ELSE SOS!deleteObject(o) /\ UNCHANGED tokenStore

WithTemplate(o, c) ==
  [mem EXCEPT ![o] = [@ EXCEPT !.CKA_TOKEN = c.onToken, !.CKA_PRIVATE = c.private]]

CreateSave(t) ==
  /\ At(t, "create.save")
  /\ mem' = WithTemplate(call[t].o, call[t])
  /\ Continue(t, "create.add")
  /\ UNCHANGED <<handleVars, sessionVars, stored, refCount, tokenStore, find, lockedOut,
                 initialised>>

\* saveTemplate fails, or the transaction after it that sets CKA_LOCAL.  A
\* transaction on a session object is a stub, so the template's CKA_PRIVATE may
\* have been set before the attribute that failed.
CreateFails(t) ==
  /\ At(t, "create.save")
  /\ LET o == call[t].o
     IN  IF call[t].copy
           THEN DestroyInStore(o)
           ELSE /\ UNCHANGED mem \/ mem' = WithTemplate(o, call[t])
                /\ UNCHANGED <<stored, refCount, tokenStore>>
  /\ Return(t)
  /\ UNCHANGED <<handleVars, sessionVars, find, lockedOut, initialised>>

CreateAdd(t) ==
  /\ At(t, "create.add")
  /\ LET c == call[t]
     IN  IF c.onToken THEN HM!addTokenObject(c.slot, c.private, c.o)
                      ELSE HM!addSessionObject(c.slot, c.h, c.private, c.o)
  /\ Return(t)
  /\ UNCHANGED <<sessionVars, storeVars, tokenStore, find, lockedOut, initialised>>

C_DestroyObject(t, h, hObject) ==
  /\ Enter(t, "C_DestroyObject", h)
  /\ HM!IsObject(hObject)
  /\ LET o == handles[hObject].object
     IN  /\ SOS!Valid(o)
         /\ haveWrite(State(h), mem[o].CKA_TOKEN, mem[o].CKA_PRIVATE)
         /\ Goto(t, [at |-> "destroy.forget", h |-> h, slot |-> SlotOfSession(h), o |-> o,
                     hObject |-> hObject])
  /\ UNCHANGED <<handleVars, sessionVars, storeVars, refCount, tokenStore, find, lockedOut,
                 initialised>>

DestroyForget(t) ==
  /\ At(t, "destroy.forget")
  /\ \/ HM!destroyObject(call[t].hObject)
     \/ ~ HM!IsObject(call[t].hObject) /\ UNCHANGED <<handleVars, refCount>>
  /\ Continue(t, "destroy.delete")
  /\ UNCHANGED <<sessionVars, storeVars, tokenStore, find, lockedOut, initialised>>

DestroyDelete(t) ==
  /\ At(t, "destroy.delete")
  /\ DestroyInStore(call[t].o)
  /\ Return(t)
  /\ UNCHANGED <<handleVars, sessionVars, find, lockedOut, initialised>>
-----------------------------------------------------------------------------
(* Searching *)

\* The objects of the token and of the session store are collected, the latter
\* with a reference on each.
C_FindObjectsInit(t, h) ==
  /\ Enter(t, "C_FindObjectsInit", h)
  /\ ~ find[Pointer(h)].active
  /\ LET slot == SlotOfSession(h)
     IN  /\ SOS!AcquireAll(SOS!ObjectsOf(slot))
         /\ Goto(t, [at |-> "find.match", h |-> h, slot |-> slot, p |-> Pointer(h),
                     public |-> State(h).user # "user",
                     held |-> SOS!ObjectsOf(slot),
                     todo |-> {o \in tokenStore : SlotOf[o] = slot} \union SOS!ObjectsOf(slot),
                     found |-> {}])
  /\ find' = [find EXCEPT ![Pointer(h)] = FailedFind]
  /\ UNCHANGED <<handleVars, sessionVars, storeVars, tokenStore, lockedOut, initialised>>

Visible(o, public) == SOS!Valid(o) /\ ~ (public /\ mem[o].CKA_PRIVATE)

\* One object of the search: skipped, or given a handle if the template matches.
\* The handle is valid, the slot being the object's own, so the check for
\* CK_INVALID_HANDLE never fails.
FindSkip(t, o) ==
  /\ At(t, "find.match") /\ o \in call[t].todo
  /\ call' = [call EXCEPT ![t].todo = @ \ {o}]
  /\ UNCHANGED <<handleVars, sessionVars, storeVars, refCount, tokenStore, find, lockedOut,
                 initialised>>

FindMatch(t, o) ==
  /\ At(t, "find.match") /\ o \in call[t].todo
  /\ LET c == call[t]
     IN  /\ Visible(o, c.public)
         /\ IF mem[o].CKA_TOKEN
              THEN HM!addTokenObject(c.slot, mem[o].CKA_PRIVATE, o)
              ELSE HM!addSessionObject(c.slot, c.h, mem[o].CKA_PRIVATE, o)
  /\ objects'[o] # HM!Invalid
  /\ call' = [call EXCEPT ![t].todo = @ \ {o}, ![t].found = @ \union {objects'[o]}]
  /\ UNCHANGED <<sessionVars, storeVars, tokenStore, find, lockedOut, initialised>>

\* A private attribute that cannot be decrypted ends the search: the references
\* go, the session stays in SESSION_OP_FIND without a find operation.
FindFails(t, o) ==
  /\ At(t, "find.match") /\ o \in call[t].todo
  /\ Visible(o, call[t].public) /\ mem[o].CKA_PRIVATE
  /\ SOS!ReleaseAll(call[t].held)
  /\ Return(t)
  /\ UNCHANGED <<handleVars, sessionVars, storeVars, tokenStore, find, lockedOut, initialised>>

FindDone(t) ==
  /\ At(t, "find.match") /\ call[t].todo = {}
  /\ find' = [find EXCEPT ![call[t].p] = Search(call[t].found)]
  /\ SOS!ReleaseAll(call[t].held)
  /\ Return(t)
  /\ UNCHANGED <<handleVars, sessionVars, storeVars, tokenStore, lockedOut, initialised>>

\* The lowest handles come out first.
C_FindObjects(t, h, n) ==
  /\ Enter(t, "C_FindObjects", h)
  /\ find[Pointer(h)].active /\ find[Pointer(h)].ok
  /\ find' = [find EXCEPT ![Pointer(h)].found =
                {k \in @ : Cardinality({j \in @ : j < k}) >= n}]
  /\ UNCHANGED <<handleVars, sessionVars, storeVars, refCount, tokenStore, lockedOut,
                 initialised, call>>

C_FindObjectsFinal(t, h) ==
  /\ Enter(t, "C_FindObjectsFinal", h)
  /\ find[Pointer(h)].active
  /\ find' = [find EXCEPT ![Pointer(h)] = NoSearch]
  /\ UNCHANGED <<handleVars, sessionVars, storeVars, refCount, tokenStore, lockedOut,
                 initialised, call>>
-----------------------------------------------------------------------------
SessionObjectHandles(o) == {k \in Handles : HM!OwnedBySession(k) /\ handles[k].object = o}

\* Mutant: the handle manager's destructor releases nothing.
DroppedByDestructors_NoSafetyNet(o) == IF o \in stored THEN 1 ELSE 0

\* The references that ~HandleManager and ~SessionObjectStore release.
DroppedByDestructors(o) ==
  Cardinality(SessionObjectHandles(o)) + (IF o \in stored THEN 1 ELSE 0)

\* Deletes the handle manager, the session manager, the tokens with their
\* objects, and the session object store.
C_Finalize(t) ==
  /\ initialised /\ "C_Finalize" \in workload.functions
  /\ \A u \in Threads : At(u, "idle")
  /\ initialised' = FALSE
  /\ refCount' = [o \in Objects |->
       IF o \in TokenObjects THEN 0
       ELSE refCount[o] - DroppedByDestructors(o)]
  /\ handles'              = [h \in Handles |-> HM!NoHandle]
  /\ objects'              = [o \in Objects |-> HM!Invalid]
  /\ sessionObjectHandles' = [h \in Handles |-> {}]
  /\ slotHandles'          = [s \in Slots |-> {}]
  /\ slotSessionCount'     = [s \in Slots |-> 0]
  /\ sessions' = <<>>
  /\ heap'  = [p \in DOMAIN heap |-> SM!Freed]
  /\ login' = [s \in Slots |-> "public"]
  /\ stored' = {} /\ tokenStore' = {} /\ lockedOut' = {}
  /\ mem'   = [o \in Objects |-> IF mem[o] = SOS!Unused THEN mem[o] ELSE SOS!Gone]
  /\ find'  = [p \in 1..MaxSessions |-> NoSearch]
  /\ UNCHANGED <<handleCounter, call>>

\* The exported functions that an application calls, by the group.
SessionCalls(t) ==
  \/ \E s \in Slots, rw \in BOOLEAN : C_OpenSession(t, s, rw)
  \/ OpenGet(t) \/ OpenAdd(t)
  \/ \E h \in Handles : C_CloseSession(t, h)
  \/ CloseObjects(t) \/ CloseInManager(t)
  \/ \E s \in Slots : C_CloseAllSessions(t, s)
  \/ CloseAllObjects(t) \/ CloseAllInManager(t)

Logins(t) ==
  \/ \E h \in Handles : C_LoginUser(t, h) \/ C_LoginSO(t, h) \/ LastTryFails(t, h)
                        \/ C_Logout(t, h)
  \/ LoginSO(t) \/ LogoutHandles(t) \/ LogoutObjects(t)

ObjectCalls(t) ==
  \/ \E h \in Handles, onToken, private \in BOOLEAN :
       \/ C_CreateObject(t, h, onToken, private)
       \/ \E hObject \in Handles : C_CopyObject(t, h, hObject, onToken, private)
  \/ \E o \in Objects, default \in BOOLEAN : CreateNew(t, o, default)
  \/ CreateSave(t) \/ CreateFails(t) \/ CreateAdd(t)
  \/ \E h, hObject \in Handles : C_DestroyObject(t, h, hObject)
  \/ DestroyForget(t) \/ DestroyDelete(t)

Searches(t) ==
  \/ \E h \in Handles : C_FindObjectsInit(t, h) \/ C_FindObjectsFinal(t, h)
  \/ \E o \in Objects : FindSkip(t, o) \/ FindMatch(t, o) \/ FindFails(t, o)
  \/ FindDone(t)
  \/ \E h \in Handles, n \in 1..Cardinality(Objects) : C_FindObjects(t, h, n)

Next ==
  /\ \E t \in workload.threads :
       SessionCalls(t) \/ Logins(t) \/ ObjectCalls(t) \/ Searches(t) \/ C_Finalize(t)
  /\ UNCHANGED workload

Spec == Init /\ [][Next]_vars
-----------------------------------------------------------------------------
Quiet == initialised /\ \A t \in Threads : At(t, "idle")

\* Types of the managers' state.
TypeOK ==
  /\ handles \in [Handles -> HM!SessionHandle \union HM!ObjectHandle \union {HM!NoHandle}]
  /\ objects \in [Objects -> 0..MaxHandle]
  /\ slotSessionCount \in [Slots -> Nat]
  /\ sessions \in Seq(0..MaxSessions)
  /\ login \in [Slots -> SM!Users]
  /\ stored \subseteq Objects \ TokenObjects
  /\ tokenStore \subseteq TokenObjects
  /\ refCount \in [Objects -> Nat]
  /\ lockedOut \subseteq Slots

Searching(o) == {t \in Threads : At(t, "find.match") /\ o \in call[t].held}

\* Every reference is accounted for at every step: one for the store or the
\* token that owns the object, one for its session-object handle, one for each
\* search that collected it.  So no handle, store or search refers to an
\* object that was freed, and none is kept for ever.
ReferencesExact ==
  initialised => \A o \in Objects : mem[o] # SOS!Unused =>
    refCount[o] = Cardinality({x \in {o} : x \in stored \union TokenObjects})
                  + Cardinality(SessionObjectHandles(o)) + Cardinality(Searching(o))

\* A function that goes on using an object it created or looked up does not
\* find it freed.
NoUseAfterFree ==
  \A t \in Threads :
    call[t].at \in {"create.save", "create.add", "destroy.forget", "destroy.delete"}
      => refCount[call[t].o] > 0

\* Between calls every session object, one left behind by a failed creation
\* included, belongs to an open session of its slot.
NoOrphanedObjects ==
  Quiet => \A o \in stored :
    /\ HM!IsSession(mem[o].hSession)
    /\ handles[mem[o].hSession].slotID = SlotOf[o]

\* "Any of the application's handles to private objects become invalid", "All
\* private session objects ... are destroyed": between calls there are private
\* handles and private session objects only while the user is logged in (or
\* since a PIN lock-out has logged the user out, which cleans up nothing).
PrivateNeedsUser ==
  Quiet => \A s \in Slots : login[s] = "user" \/ s \in lockedOut \/
    /\ \A h \in Handles : HM!IsObject(h) /\ handles[h].slotID = s => ~ handles[h].isPrivate
    /\ \A o \in stored : SlotOf[o] = s => ~ mem[o].isPrivate

\* "Storing the object handles for the find will protect the library whenever
\* a stale object handle is used": what a search still has to report is dead
\* or is an object of the session's slot that the session may see.
SearchResultsValid ==
  Quiet => \A p \in DOMAIN heap : heap[p].live /\ find[p].active =>
    \A k \in find[p].found : HM!Live(k) =>
      /\ HM!IsObject(k) /\ handles[k].slotID = heap[p].slot
      /\ handles[k].isPrivate => login[heap[p].slot] = "user" \/ heap[p].slot \in lockedOut

\* C_Finalize frees every object, whatever was open when it was called.
FinalizeFreesAll == ~ initialised => \A o \in Objects : refCount[o] = 0
=============================================================================
