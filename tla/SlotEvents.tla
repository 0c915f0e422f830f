----------------------------- MODULE SlotEvents -----------------------------
(***************************************************************************)
(* The slot events of SoftHSM.cpp: a queue of slot identifiers, one        *)
(* blocking reader parked on a condition variable, and the epochs that     *)
(* C_Initialize opens and C_Finalize closes.  The queue outlives the       *)
(* SoftHSM object, and so does a parked caller.                            *)
(*                                                                         *)
(* Each region under SlotEventState::lock is one action.  A parked thread  *)
(* runs again only after a notify_all; a spurious wake-up adds nothing,    *)
(* because a thread that was not notified would find its predicate false   *)
(* (NoLostWakeup, which is part of the inductive invariant).               *)
(*                                                                         *)
(* As PKCS #11 demands of the application, C_Finalize is not called while  *)
(* another thread is inside C_InitToken; C_WaitForSlotEvent may be.        *)
(***************************************************************************)
EXTENDS Naturals, Sequences

CONSTANTS
  Threads,       \* application threads
  Slots,         \* slot identifiers
  MaxEpoch,      \* bound on the number of C_Finalize calls
  MaxPosts,      \* no initialisation starts in an epoch with that many events
  ConcurrentInit \* TRUE: two threads may initialise the same slot at once

ASSUME ConstantsOK == MaxEpoch \in Nat /\ MaxPosts \in Nat /\ ConcurrentInit \in BOOLEAN

VARIABLES
  open, pending, waiting, epoch,  \* SlotEventState
  notified,  \* threads that a notify_all has reached since they parked
  call,      \* what each thread is doing
  result,    \* what its last C_WaitForSlotEvent returned
  tokens,    \* slots whose token is initialised
  joined,    \* history: slots whose token was created in this epoch
  posted,    \* history: the events of this epoch in the order they were posted
  heard      \* history: the events of this epoch in the order callers got them

state   == <<open, pending, waiting, epoch>>
history == <<joined, posted, heard>>
vars    == <<state, notified, call, result, tokens, history>>

Idle == [at |-> "idle"]
Calls == {Idle}
  \union [at : {"parked"}, epoch : Nat]
  \union [at : {"initToken"}, slot : Slots, wasInitialised : BOOLEAN]
  \union [at : {"postSlotEvent"}, slot : Slots]
Results == {"none", "CKR_OK", "CKR_NO_EVENT", "CKR_FUNCTION_FAILED",
            "CKR_CRYPTOKI_NOT_INITIALIZED"}

Parked(t) == call[t].at = "parked"
In(t, point) == call[t].at = point

Init ==
  /\ open = FALSE /\ pending = <<>> /\ waiting = FALSE /\ epoch = 0
  /\ notified = {}
  /\ call = [t \in Threads |-> Idle]
  /\ result = [t \in Threads |-> "none"]
  /\ tokens = {}
  /\ joined = {} /\ posted = <<>> /\ heard = <<>>

\* changed.notify_all()
NotifyAll == notified' = {t \in Threads : Parked(t)}

Return(t, rv) ==
  /\ call'   = [call EXCEPT ![t] = Idle]
  /\ result' = [result EXCEPT ![t] = rv]

\* *pSlot = pending.front(); pending.pop_front()
TakeFront ==
  /\ pending' = Tail(pending)
  /\ heard'   = Append(heard, Head(pending))
-----------------------------------------------------------------------------
\* Called by C_Initialize once the library is usable.
beginSlotEventEpoch ==
  /\ ~ open /\ epoch < MaxEpoch
  /\ open' = TRUE
  /\ UNCHANGED <<pending, waiting, epoch, notified, call, result, tokens, history>>

\* Mutant: the parked caller is not woken.
endSlotEventEpoch_NoNotify ==
  /\ open
  /\ \A t \in Threads : In(t, "idle") \/ Parked(t)
  /\ open' = FALSE /\ pending' = <<>> /\ epoch' = epoch + 1
  /\ joined' = {} /\ posted' = <<>> /\ heard' = <<>>
  /\ UNCHANGED <<waiting, notified, call, result, tokens>>

\* Called by C_Finalize.
endSlotEventEpoch ==
  /\ open
  /\ \A t \in Threads : In(t, "idle") \/ Parked(t)
  /\ open' = FALSE /\ pending' = <<>> /\ epoch' = epoch + 1
  /\ NotifyAll
  /\ joined' = {} /\ posted' = <<>> /\ heard' = <<>>
  /\ UNCHANGED <<waiting, call, result, tokens>>

\* C_InitToken and C_EX_InitToken read whether the slot's token is initialised ...
BeginInitToken(t, s) ==
  /\ open /\ In(t, "idle")
  /\ Len(posted) < MaxPosts
  /\ ~ ConcurrentInit => \A u \in Threads :
       In(u, "initToken") \/ In(u, "postSlotEvent") => call[u].slot # s
  /\ call' = [call EXCEPT ![t] = [at |-> "initToken", slot |-> s,
                                  wasInitialised |-> s \in tokens]]
  /\ UNCHANGED <<state, notified, result, tokens, history>>

\* Mutant: the events of a token are reported only when there was one before.
InitToken_Inverted(t) ==
  /\ In(t, "initToken")
  /\ LET s == call[t].slot
     IN  /\ tokens' = tokens \union {s}
         /\ joined' = IF s \in tokens THEN joined ELSE joined \union {s}
         /\ call'   = [call EXCEPT ![t] =
                         IF call[t].wasInitialised
                           THEN [at |-> "postSlotEvent", slot |-> s]
                           ELSE Idle]
  /\ UNCHANGED <<state, notified, result, posted, heard>>

\* ... then create or reset it, or fail ...
InitToken(t) ==
  /\ In(t, "initToken")
  /\ LET s == call[t].slot
     IN  \/ /\ tokens' = tokens \union {s}
            /\ joined' = IF s \in tokens THEN joined ELSE joined \union {s}
            /\ call'   = [call EXCEPT ![t] =
                            IF call[t].wasInitialised
                              THEN Idle
                              ELSE [at |-> "postSlotEvent", slot |-> s]]
         \/ /\ call' = [call EXCEPT ![t] = Idle]
            /\ UNCHANGED <<tokens, joined>>
  /\ UNCHANGED <<state, notified, result, posted, heard>>

\* Mutant: nobody is told of the new event.
postSlotEvent_NoNotify(t) ==
  /\ In(t, "postSlotEvent")
  /\ pending' = Append(pending, call[t].slot)
  /\ posted'  = Append(posted, call[t].slot)
  /\ call'    = [call EXCEPT ![t] = Idle]
  /\ UNCHANGED <<open, waiting, epoch, notified, result, tokens, joined, heard>>

\* ... and report a token that was not there before.
postSlotEvent(t) ==
  /\ In(t, "postSlotEvent")
  /\ pending' = Append(pending, call[t].slot)
  /\ posted'  = Append(posted, call[t].slot)
  /\ NotifyAll
  /\ call'    = [call EXCEPT ![t] = Idle]
  /\ UNCHANGED <<open, waiting, epoch, result, tokens, joined, heard>>
-----------------------------------------------------------------------------
\* C_WaitForSlotEvent up to the point where it returns or parks.
awaitSlotEvent(t, dontBlock) ==
  /\ In(t, "idle")
  /\ \/ /\ ~ open
        /\ Return(t, "CKR_CRYPTOKI_NOT_INITIALIZED")
        /\ UNCHANGED <<state, heard>>
     \/ /\ open /\ pending # <<>>
        /\ TakeFront
        /\ Return(t, "CKR_OK")
        /\ UNCHANGED <<open, waiting, epoch>>
     \/ /\ open /\ pending = <<>>
        /\ CASE dontBlock -> Return(t, "CKR_NO_EVENT") /\ UNCHANGED waiting
             [] ~ dontBlock /\ waiting ->
                  Return(t, "CKR_FUNCTION_FAILED") /\ UNCHANGED waiting
             [] OTHER -> /\ waiting' = TRUE
                         /\ call' = [call EXCEPT ![t] = [at |-> "parked", epoch |-> epoch]]
                         /\ UNCHANGED result
        /\ UNCHANGED <<open, pending, epoch, heard>>
  /\ UNCHANGED <<notified, tokens, joined, posted>>

\* The predicate of changed.wait, for a thread that parked in epoch e.
HasNews(e) == pending # <<>> \/ epoch # e

\* Mutant: an event is taken without looking at the epoch.
Wake_IgnoreEpoch(t) ==
  /\ Parked(t) /\ t \in notified
  /\ notified' = notified \ {t}
  /\ LET e == call[t].epoch
     IN  \/ /\ ~ HasNews(e)
            /\ UNCHANGED <<pending, waiting, call, result, heard>>
         \/ /\ HasNews(e) /\ pending = <<>>
            /\ waiting' = FALSE
            /\ Return(t, "CKR_CRYPTOKI_NOT_INITIALIZED")
            /\ UNCHANGED <<pending, heard>>
         \/ /\ pending # <<>>
            /\ waiting' = FALSE
            /\ TakeFront
            /\ Return(t, "CKR_OK")
  /\ UNCHANGED <<open, epoch, tokens, joined, posted>>

\* A notified thread gets the lock back and looks at its predicate: it sleeps
\* on, or returns.
Wake(t) ==
  /\ Parked(t) /\ t \in notified
  /\ notified' = notified \ {t}
  /\ LET e == call[t].epoch
     IN  \/ /\ ~ HasNews(e)
            /\ UNCHANGED <<pending, waiting, call, result, heard>>
         \/ /\ epoch # e
            /\ waiting' = FALSE
            /\ Return(t, "CKR_CRYPTOKI_NOT_INITIALIZED")
            /\ UNCHANGED <<pending, heard>>
         \/ /\ epoch = e /\ pending # <<>>
            /\ waiting' = FALSE
            /\ TakeFront
            /\ Return(t, "CKR_OK")
  /\ UNCHANGED <<open, epoch, tokens, joined, posted>>

Next ==
  \/ beginSlotEventEpoch
  \/ endSlotEventEpoch
  \/ \E t \in Threads :
       \/ \E s \in Slots : BeginInitToken(t, s)
       \/ InitToken(t)
       \/ postSlotEvent(t)
       \/ \E dontBlock \in BOOLEAN : awaitSlotEvent(t, dontBlock)
       \/ Wake(t)

\* A notified thread is eventually scheduled and gets the lock.
Fairness == \A t \in Threads : WF_vars(Wake(t))

Spec == Init /\ [][Next]_vars /\ Fairness
-----------------------------------------------------------------------------
\* Types of the slot-event state.
TypeOK ==
  /\ open \in BOOLEAN /\ waiting \in BOOLEAN /\ epoch \in Nat
  /\ pending \in Seq(Slots)
  /\ notified \subseteq Threads
  /\ call \in [Threads -> Calls]
  /\ result \in [Threads -> Results]
  /\ tokens \subseteq Slots /\ joined \subseteq Slots
  /\ posted \in Seq(Slots) /\ heard \in Seq(Slots)

\* A token created in this epoch is reported, or is still to be by the thread that
\* created it; and the callers of C_WaitForSlotEvent together hear what was posted in
\* this epoch once each and in order, whichever of them polls or waits.
NoEventLost ==
  /\ posted = heard \o pending
  /\ \A s \in joined :
       \/ \E i \in 1..Len(posted) : posted[i] = s
       \/ \E t \in Threads : In(t, "postSlotEvent") /\ call[t].slot = s

\* Whoever sleeps although there is news for it has been notified.
NoLostWakeup ==
  \A t \in Threads : Parked(t) /\ HasNews(call[t].epoch) => t \in notified

\* The flag says that a caller is parked, and there is at most one: it survives C_Finalize
\* together with the caller.
OneReader ==
  /\ waiting <=> \E t \in Threads : Parked(t)
  /\ \A t, u \in Threads : Parked(t) /\ Parked(u) => t = u

\* Between two epochs the queue is empty and no C_InitToken is under way.
ClosedIsQuiet ==
  ~ open => /\ pending = <<>> /\ posted = <<>> /\ joined = {}
            /\ \A t \in Threads : In(t, "idle") \/ Parked(t)

\* A token that was there when C_InitToken looked is still there.
TokensStay ==
  \A t \in Threads : In(t, "initToken") /\ call[t].wasInitialised => call[t].slot \in tokens

\* The inductive invariant.
Inv == TypeOK /\ NoEventLost /\ NoLostWakeup /\ OneReader /\ ClosedIsQuiet /\ TokensStay

\* "The library it was waiting on is gone" is what a parked caller hears
\* exactly when its own epoch was closed, also when a new one has begun and
\* has events of its own.
HearsOwnEpoch ==
  [][\A t \in Threads : Parked(t) /\ ~ Parked(t)' =>
       result'[t] = IF call[t].epoch = epoch THEN "CKR_OK"
                                             ELSE "CKR_CRYPTOKI_NOT_INITIALIZED"]_vars

\* C_Finalize releases the parked caller.
FinalizeReleases ==
  \A t \in Threads : Parked(t) /\ ~ open ~> ~ Parked(t)

\* An event does not stay in the queue while a caller is parked for it.
EventsReachWaiter ==
  \A t \in Threads : Parked(t) /\ pending # <<>> ~> ~ Parked(t) \/ pending = <<>>
=============================================================================
